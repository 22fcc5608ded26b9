-------------------------------- MODULE Proxy --------------------------------
(***************************************************************************)
(* One debugger session of the logging proxy (proxy.py): the handshakes of *)
(* create(), the two forwarding loops that share the table of outstanding  *)
(* commands and the id sizes, the close event, and the shutdown in run().  *)
(*                                                                         *)
(* A loop is named by the side it reads from: loop["dbg"] reads from the   *)
(* debugger and writes to the VM.  Everything a task does between two      *)
(* suspensions is one action.  A packet carries the number of its command  *)
(* and, for the properties, whether its sender knows the VM's id sizes to  *)
(* be known ("told").                                                      *)
(***************************************************************************)
EXTENDS Naturals, Sequences, SequencesExt

CONSTANTS Ids,          \* packet ids the debugger uses, and uses again
          MaxCommands,  \* bound: commands the debugger sends
          MaxEvents,    \* bound: commands the VM sends
          MaxWire       \* bound: packets that have arrived and are unread

ASSUME ProxyAssumption ==
  MaxCommands \in Nat /\ MaxEvents \in Nat /\ MaxWire \in Nat

VARIABLES
  phase,        \* where create() and run() are
  closeEvent,   \* close_event is set
  loop,         \* the two loop tasks
  cancelled,    \* a loop was cancelled and has not run since
  hand,         \* the packet a loop is suspended in drain() with
  spec,         \* id sizes the proxy decodes with
  idsizes,      \* idsizes_cmd_ids
  outstanding,  \* outstanding_commands: id -> number of the command, or 0
  link,         \* the transport of each side
  rx,           \* the StreamReader of each side
  in,           \* packets that arrived from each side and are unread
  out,          \* packets in the write buffer to each side
  paused,       \* that buffer is above its high-water mark
  dsent,        \* debugger: number of commands sent
  awaiting,     \* debugger: ids whose reply it has not received
  dtold,        \* debugger: has received the VM's id sizes
  owed,         \* VM: commands it has read and not answered
  vtold,        \* VM: has sent its id sizes
  vsent,        \* VM: number of commands sent
  took,         \* history: the packet each peer was handed last
  log,          \* the last packet logged, what it was parsed against and with
  logged        \* history: commands logged so far

runVars == <<phase, closeEvent>>
loopVars == <<loop, cancelled, hand>>
tableVars == <<spec, idsizes, outstanding>>
netVars == <<link, rx, in, out, paused>>
peerVars == <<dsent, awaiting, dtold, owed, vtold, vsent, took>>
logVars == <<log, logged>>
vars == <<runVars, loopVars, tableVars, netVars, peerVars, logVars>>

Sides == {"dbg", "vm"}
Other(s) == CHOOSE o \in Sides : o # s
Both(x) == [s \in Sides |-> x]

Kinds == {"idsizes", "other"}
Outcomes == {"ok", "error", "unsupported"}
Command(n, i, cmd, told) ==
  [kind |-> "command", n |-> n, id |-> i, cmd |-> cmd, told |-> told]
Reply(p, outcome, told) ==
  [kind |-> "reply", n |-> p.n, id |-> p.id, outcome |-> outcome, told |-> told]
Event(n, told) == [kind |-> "event", n |-> n, told |-> told]
Garbage == [kind |-> "garbage", told |-> FALSE]
NoPacket == [kind |-> "none", told |-> FALSE]

Commands == {Command(n, i, cmd, told) :
               n \in 1..MaxCommands, i \in Ids, cmd \in Kinds, told \in BOOLEAN}
Packets ==
  Commands
  \cup {Reply(p, outcome, told) :
          p \in Commands, outcome \in Outcomes, told \in BOOLEAN}
  \cup {Event(n, told) : n \in 1..MaxEvents, told \in BOOLEAN}
  \cup {Garbage}

IsReply(p) == p.kind = "reply"
Running(s) == loop[s] \in {"receiving", "sending"}

ProxyTypeOK ==
  /\ phase \in {"connecting", "vm_handshake", "dbg_handshake", "running",
                "joining", "closing_dbg", "closing_vm", "over"}
  /\ closeEvent \in BOOLEAN
  /\ loop \in [Sides -> {"none", "receiving", "sending", "ended"}]
  /\ cancelled \in [Sides -> BOOLEAN]
  /\ hand \in [Sides -> Packets \cup {NoPacket}]
  /\ spec \in {"default", "vm"}
  /\ idsizes \in SUBSET Ids
  /\ outstanding \in [Ids -> 0..MaxCommands]
  /\ link \in [Sides -> {"none", "up", "closing", "closed", "lost"}]
  /\ rx \in [Sides -> {"open", "eof", "broken"}]
  /\ in \in [Sides -> Seq(Packets)]
  /\ out \in [Sides -> Seq(Packets)]
  /\ paused \in [Sides -> BOOLEAN]
  /\ dsent \in 0..MaxCommands
  /\ awaiting \in SUBSET Ids
  /\ dtold \in BOOLEAN
  /\ owed \in SUBSET Commands
  /\ vtold \in BOOLEAN
  /\ vsent \in 0..MaxEvents
  /\ took \in [Sides -> Packets \cup {NoPacket}]
  /\ log.packet \in Packets \cup {NoPacket}
  /\ logged \in SUBSET (1..MaxCommands)

\* The server has accepted the debugger's connection.
ProxyInit ==
  /\ phase = "connecting"
  /\ closeEvent = FALSE
  /\ loop = Both("none")
  /\ cancelled = Both(FALSE)
  /\ hand = Both(NoPacket)
  /\ spec = "default"
  /\ idsizes = {}
  /\ outstanding = [i \in Ids |-> 0]
  /\ link = [s \in Sides |-> IF s = "dbg" THEN "up" ELSE "none"]
  /\ rx = Both("open")
  /\ in = Both(<<>>)
  /\ out = Both(<<>>)
  /\ paused = Both(FALSE)
  /\ dsent = 0
  /\ awaiting = {}
  /\ dtold = FALSE
  /\ owed = {}
  /\ vtold = FALSE
  /\ vsent = 0
  /\ took = Both(NoPacket)
  /\ log = [packet |-> NoPacket, against |-> 0, sizes |-> "none"]
  /\ logged = {}

\* StreamWriter.close()
CloseLink(s) == IF link[s] = "up" THEN [link EXCEPT ![s] = "closing"] ELSE link

------------------------------------------------------------------------------
(* create(), called by client_connected()                                   *)

OpenVmConnection ==
  /\ phase = "connecting"
  /\ phase' = "vm_handshake"
  /\ link' = [link EXCEPT !["vm"] = "up"]
  /\ UNCHANGED <<closeEvent, loopVars, tableVars, rx, in, out, paused, peerVars, logVars>>

VmShakes ==
  /\ phase = "vm_handshake"
  /\ link["vm"] = "up"
  /\ phase' = "dbg_handshake"
  /\ UNCHANGED <<closeEvent, loopVars, tableVars, netVars, peerVars, logVars>>

\* Both handshakes are done: run() starts the loops.
DebuggerShakes ==
  /\ phase = "dbg_handshake"
  /\ link["dbg"] = "up" /\ rx["dbg"] # "broken"
  /\ phase' = "running"
  /\ loop' = Both("receiving")
  /\ UNCHANGED <<closeEvent, cancelled, hand, tableVars, netVars, peerVars, logVars>>

\* create() raises, and client_connected() closes the debugger's connection.
\* The VM's was closed if, and only if, the VM answered with a wrong signature.
CreateFails ==
  /\ phase \in {"connecting", "vm_handshake", "dbg_handshake"}
  /\ phase' = "over"
  /\ \/ link' = CloseLink("dbg")
     \/ /\ phase = "vm_handshake" /\ link["vm"] = "up"
        /\ link' = [CloseLink("dbg") EXCEPT !["vm"] = "closing"]
  /\ UNCHANGED <<closeEvent, loopVars, tableVars, rx, in, out, paused, peerVars, logVars>>

------------------------------------------------------------------------------
(* The forwarding loops                                                     *)

\* Mutant: the close event is not set.
LoopEndsSilently(s) ==
  /\ loop' = [loop EXCEPT ![s] = "ended"]
  /\ hand' = [hand EXCEPT ![s] = NoPacket]
  /\ UNCHANGED <<runVars, cancelled, logVars>>

\* _handle_*_exception: an exception in a loop sets the close event and ends it.
LoopEndsInError(s) ==
  /\ closeEvent' = TRUE
  /\ loop' = [loop EXCEPT ![s] = "ended"]
  /\ hand' = [hand EXCEPT ![s] = NoPacket]
  /\ UNCHANGED <<phase, cancelled, logVars>>

\* An IDSizes command has no data, and an error reply none that is parsed.
ParsedCommand(p) == p.kind = "event" \/ p.cmd = "other"

\* A reply is parsed as the command that the table has under its id.
ParsedReply(p, table) == table[p.id] # 0 /\ p.outcome # "error"

\* What a log line says of a packet: the command a reply was matched with, and
\* the sizes it was parsed with.  Failing to parse is a line of its own.
LogLine(p, table) ==
  /\ log' = [packet  |-> p,
             against |-> IF IsReply(p) THEN table[p.id] ELSE 0,
             sizes   |-> IF (IF IsReply(p) THEN ParsedReply(p, table)
                                          ELSE ParsedCommand(p))
                         THEN spec' ELSE "none"]
  /\ logged' = IF p.kind = "command" THEN logged \cup {p.n} ELSE logged

\* Mutant: the entry of a logged reply stays in the table.
LogPacketKeepsEntry(s, p, table) ==
  /\ LogLine(p, table)
  /\ outstanding' = table
  /\ loop' = [loop EXCEPT ![s] = IF closeEvent THEN "ended" ELSE "receiving"]
  /\ hand' = [hand EXCEPT ![s] = NoPacket]
  /\ UNCHANGED closeEvent

\* The packet is sent: it is logged, a reply's entry leaves the table, and the
\* loop goes on unless the session is being closed.
LogPacket(s, p, table) ==
  /\ LogLine(p, table)
  /\ outstanding' = IF IsReply(p) THEN [table EXCEPT ![p.id] = 0] ELSE table
  /\ loop' = [loop EXCEPT ![s] = IF closeEvent THEN "ended" ELSE "receiving"]
  /\ hand' = [hand EXCEPT ![s] = NoPacket]
  /\ UNCHANGED closeEvent

\* Mutant: the exception ends the loop and nothing else.
LogCallbackEndsLoop(s, p, table) ==
  /\ LogLine(p, table)
  /\ outstanding' = table
  /\ loop' = [loop EXCEPT ![s] = "ended"]
  /\ hand' = [hand EXCEPT ![s] = NoPacket]
  /\ UNCHANGED closeEvent

\* on_packet_log raises: the loop ends in error behind a packet that was sent,
\* and a reply's entry stays in the table.
LogCallbackRaises(s, p, table) ==
  /\ LogLine(p, table)
  /\ outstanding' = table
  /\ closeEvent' = TRUE
  /\ loop' = [loop EXCEPT ![s] = "ended"]
  /\ hand' = [hand EXCEPT ![s] = NoPacket]

PacketSent(s, p, table) == LogPacket(s, p, table) \/ LogCallbackRaises(s, p, table)

\* send(): write, then drain(), which suspends above the high-water mark and
\* raises at once if the connection was lost.
Forward(s, p, table) ==
  LET o == Other(s) IN
  /\ in' = [in EXCEPT ![s] = Tail(@)]
  /\ \/ /\ link[o] = "up"
        /\ out' = [out EXCEPT ![o] = Append(@, p)]
        /\ \/ ~paused[o] /\ paused' = paused /\ PacketSent(s, p, table)
           \/ /\ paused' = [paused EXCEPT ![o] = TRUE]
              /\ loop' = [loop EXCEPT ![s] = "sending"]
              /\ hand' = [hand EXCEPT ![s] = p]
              /\ outstanding' = table
              /\ UNCHANGED <<closeEvent, logVars>>
        /\ UNCHANGED <<phase, cancelled>>
     \/ /\ link[o] = "lost"
        /\ LoopEndsInError(s)
        /\ outstanding' = table
        /\ UNCHANGED <<out, paused>>
  /\ UNCHANGED <<link, rx, peerVars>>

CanHandle(s) ==
  /\ loop[s] = "receiving"
  /\ ~cancelled[s]
  /\ rx[s] # "broken"
  /\ in[s] # <<>>
  /\ Head(in[s]).kind # "garbage"

\* Mutants: the packet is registered in place of its id; the IDSizes command
\* is not recognised.
HandleDebuggerPacketWhole ==
  /\ CanHandle("dbg")
  /\ LET p == Head(in["dbg"]) IN
       /\ idsizes' = IF p.cmd = "idsizes" THEN idsizes \cup {p} ELSE idsizes
       /\ spec' = spec
       /\ Forward("dbg", p, [outstanding EXCEPT ![p.id] = p.n])

HandleDebuggerPacketPlain ==
  /\ CanHandle("dbg")
  /\ LET p == Head(in["dbg"]) IN
       /\ UNCHANGED <<idsizes, spec>>
       /\ Forward("dbg", p, [outstanding EXCEPT ![p.id] = p.n])

\* _handle_debugger_packet: the command is registered, then sent.
HandleDebuggerPacket ==
  /\ CanHandle("dbg")
  /\ LET p == Head(in["dbg"]) IN
       /\ idsizes' = IF p.cmd = "idsizes" THEN idsizes \cup {p.id} ELSE idsizes
       /\ spec' = spec
       /\ Forward("dbg", p, [outstanding EXCEPT ![p.id] = p.n])

\* The reply to an IDSizes command replaces the sizes before it is sent on.
InterceptIdSizes(p) ==
  LET intercepted == IsReply(p) /\ p.id \in idsizes IN
  /\ idsizes' = IF intercepted THEN idsizes \ {p.id} ELSE idsizes
  /\ spec' = IF intercepted /\ p.outcome = "ok" THEN "vm" ELSE spec

\* Its sizes are not supported, or it cannot be decoded.
Unusable(p) == IsReply(p) /\ p.id \in idsizes /\ p.outcome = "unsupported"

\* Mutant: the entry leaves the table before the reply is sent and logged.
HandleVmPacketPopsFirst ==
  /\ CanHandle("vm")
  /\ LET p == Head(in["vm"]) IN
       /\ ~Unusable(p)
       /\ InterceptIdSizes(p)
       /\ Forward("vm", p, IF IsReply(p) THEN [outstanding EXCEPT ![p.id] = 0]
                           ELSE outstanding)

\* _handle_vm_packet
HandleVmPacket ==
  /\ CanHandle("vm")
  /\ LET p == Head(in["vm"]) IN
       /\ ~Unusable(p)
       /\ InterceptIdSizes(p)
       /\ Forward("vm", p, outstanding)

\* Mutant: the exception is swallowed, and the reply with it.
HandleUnusableReplySwallowed ==
  /\ CanHandle("vm")
  /\ LET p == Head(in["vm"]) IN
       /\ Unusable(p)
       /\ InterceptIdSizes(p)
       /\ in' = [in EXCEPT !["vm"] = Tail(@)]
  /\ UNCHANGED <<runVars, loopVars, outstanding, link, rx, out, paused,
                 peerVars, logVars>>

\* It raises before the reply is sent on.
HandleUnusableReply ==
  /\ CanHandle("vm")
  /\ LET p == Head(in["vm"]) IN
       /\ Unusable(p)
       /\ InterceptIdSizes(p)
       /\ in' = [in EXCEPT !["vm"] = Tail(@)]
       /\ LoopEndsInError("vm")
  /\ UNCHANGED <<outstanding, link, rx, out, paused, peerVars>>

\* The suspended drain() returns,
Drained(s) ==
  /\ loop[s] = "sending"
  /\ ~cancelled[s]
  /\ ~paused[Other(s)]
  /\ UNCHANGED <<spec, idsizes>>
  /\ PacketSent(s, hand[s], outstanding)
  /\ UNCHANGED <<phase, cancelled, netVars, peerVars>>

\* or raises, because the connection was lost under it.
DrainFails(s) ==
  /\ loop[s] = "sending"
  /\ ~cancelled[s]
  /\ paused[Other(s)] /\ link[Other(s)] = "lost"
  /\ LoopEndsInError(s)
  /\ UNCHANGED <<tableVars, netVars, peerVars>>

\* receive() raises: lost connection, end of stream, malformed packet.
ReceiveFails(s) ==
  /\ loop[s] = "receiving"
  /\ ~cancelled[s]
  /\ \/ rx[s] = "broken"
     \/ rx[s] = "eof" /\ in[s] = <<>>
     \/ in[s] # <<>> /\ Head(in[s]).kind = "garbage"
  /\ LoopEndsInError(s)
  /\ UNCHANGED <<tableVars, netVars, peerVars>>

LoopCancelled(s) ==
  /\ Running(s)
  /\ cancelled[s]
  /\ loop' = [loop EXCEPT ![s] = "ended"]
  /\ hand' = [hand EXCEPT ![s] = NoPacket]
  /\ UNCHANGED <<runVars, cancelled, tableVars, netVars, peerVars, logVars>>

LoopStep(s) == Drained(s) \/ DrainFails(s) \/ ReceiveFails(s) \/ LoopCancelled(s)

------------------------------------------------------------------------------
(* run()                                                                    *)

StopLoops ==
  /\ phase = "running"
  /\ phase' = "joining"
  /\ cancelled' = [s \in Sides |-> Running(s)]
  /\ UNCHANGED <<closeEvent, loop, hand, tableVars, netVars, peerVars, logVars>>

\* The close event is set,
RunStops == closeEvent /\ StopLoops

\* or run() is cancelled with the server.
RunCancelled == ~closeEvent /\ StopLoops

\* gather() has both loops; the debugger's connection is closed first.
CloseDebugger ==
  /\ phase = "joining"
  /\ \A s \in Sides : loop[s] = "ended"
  /\ phase' = "closing_dbg"
  /\ link' = CloseLink("dbg")
  /\ UNCHANGED <<closeEvent, loopVars, tableVars, rx, in, out, paused, peerVars, logVars>>

\* wait_closed() returns, and the VM's connection is closed,
CloseVm ==
  /\ phase = "closing_dbg"
  /\ link["dbg"] = "closed"
  /\ phase' = "closing_vm"
  /\ link' = CloseLink("vm")
  /\ UNCHANGED <<closeEvent, loopVars, tableVars, rx, in, out, paused, peerVars, logVars>>

\* or it raises what the debugger's connection was lost with.
CloseDebuggerRaises ==
  /\ phase = "closing_dbg"
  /\ link["dbg"] = "lost"
  /\ phase' = "over"
  /\ UNCHANGED <<closeEvent, loopVars, tableVars, netVars, peerVars, logVars>>

RunEnds ==
  /\ phase = "closing_vm"
  /\ link["vm"] \in {"closed", "lost"}
  /\ phase' = "over"
  /\ UNCHANGED <<closeEvent, loopVars, tableVars, netVars, peerVars, logVars>>

RunStep == RunStops \/ CloseDebugger \/ CloseVm \/ CloseDebuggerRaises \/ RunEnds

------------------------------------------------------------------------------
(* The transports, the debugger and the VM                                  *)

\* The event loop reads from its sockets only after the tasks that were woken
\* have run: a loop whose drain() is over runs before anything arrives that
\* answers what it wrote.
CanArrive(s) ==
  /\ link[s] = "up" /\ rx[s] = "open"
  /\ Len(in[s]) < MaxWire
  /\ ~(loop[Other(s)] = "sending" /\ ~paused[s])

Arrives(s, p) ==
  /\ CanArrive(s)
  /\ in' = [in EXCEPT ![s] = Append(@, p)]
  /\ UNCHANGED <<runVars, loopVars, tableVars, link, rx, out, paused, logVars>>

\* A debugger uses an id again once it has the reply.
DebuggerSends(i, cmd) ==
  /\ phase \notin {"connecting", "vm_handshake", "dbg_handshake"}
  /\ i \notin awaiting
  /\ dsent < MaxCommands
  /\ dsent' = dsent + 1
  /\ awaiting' = awaiting \cup {i}
  /\ Arrives("dbg", Command(dsent', i, cmd, dtold))
  /\ UNCHANGED <<dtold, owed, vtold, vsent, took>>

VmReplies(p, outcome) ==
  /\ outcome = "unsupported" => p.cmd = "idsizes" /\ ~vtold
  /\ vtold' = (vtold \/ (p.cmd = "idsizes" /\ outcome = "ok"))
  /\ owed' = owed \ {p}
  /\ Arrives("vm", Reply(p, outcome, vtold'))
  /\ UNCHANGED <<dsent, awaiting, dtold, vsent, took>>

\* The VM may send its first event right after its handshake.
VmSendsEvent ==
  /\ phase \notin {"connecting", "vm_handshake"}
  /\ vsent < MaxEvents
  /\ vsent' = vsent + 1
  /\ Arrives("vm", Event(vsent', vtold))
  /\ UNCHANGED <<dsent, awaiting, dtold, owed, vtold, took>>

SendsGarbage(s) ==
  phase = "running" /\ Arrives(s, Garbage) /\ UNCHANGED peerVars

\* A peer reads a packet; an emptied buffer is below the low-water mark.
PeerTakes(s) ==
  /\ link[s] \in {"up", "closing"}
  /\ out[s] # <<>>
  /\ LET p == Head(out[s]) IN
       /\ awaiting' = IF s = "dbg" /\ IsReply(p) THEN awaiting \ {p.id} ELSE awaiting
       /\ dtold' = IF s = "dbg" THEN dtold \/ p.told ELSE dtold
       /\ owed' = IF s = "vm" THEN owed \cup {p} ELSE owed
       /\ took' = [took EXCEPT ![s] = p]
  /\ out' = [out EXCEPT ![s] = Tail(@)]
  /\ \E b \in BOOLEAN :
       /\ b => paused[s] /\ Len(out[s]) > 1
       /\ paused' = [paused EXCEPT ![s] = b]
  /\ UNCHANGED <<runVars, loopVars, tableVars, link, rx, in, dsent, vtold, vsent, logVars>>

HangsUp(s) ==
  /\ link[s] = "up" /\ rx[s] = "open"
  /\ rx' = [rx EXCEPT ![s] = "eof"]
  /\ UNCHANGED <<runVars, loopVars, tableVars, link, in, out, paused, peerVars, logVars>>

\* The connection is reset; once it is closed that is seen only while there
\* is something left to write.
LinkLost(s) ==
  /\ \/ link[s] = "up"
     \/ link[s] = "closing" /\ out[s] # <<>>
  /\ link' = [link EXCEPT ![s] = "lost"]
  /\ rx' = [rx EXCEPT ![s] = "broken"]
  /\ out' = [out EXCEPT ![s] = <<>>]
  /\ UNCHANGED <<runVars, loopVars, tableVars, in, paused, peerVars, logVars>>

LinkClosed(s) ==
  /\ link[s] = "closing" /\ out[s] = <<>>
  /\ link' = [link EXCEPT ![s] = "closed"]
  /\ UNCHANGED <<runVars, loopVars, tableVars, rx, in, out, paused, peerVars, logVars>>

------------------------------------------------------------------------------
ProxyNext ==
  \/ OpenVmConnection \/ VmShakes \/ DebuggerShakes \/ CreateFails
  \/ HandleDebuggerPacket \/ HandleVmPacket \/ HandleUnusableReply
  \/ \E s \in Sides :
       LoopStep(s) \/ SendsGarbage(s) \/ PeerTakes(s) \/ HangsUp(s)
       \/ LinkLost(s) \/ LinkClosed(s)
  \/ RunCancelled
  \/ RunStep
  \/ \E i \in Ids, cmd \in Kinds : DebuggerSends(i, cmd)
  \/ \E p \in owed, outcome \in Outcomes : VmReplies(p, outcome)
  \/ VmSendsEvent

ProxySpec == ProxyInit /\ [][ProxyNext]_vars

\* The event loop runs the tasks that can run; the peers' kernels take what is
\* written, and a closed transport goes down.
FairProxySpec ==
  /\ ProxySpec
  /\ WF_vars(HandleDebuggerPacket)
  /\ WF_vars(HandleVmPacket \/ HandleUnusableReply)
  /\ \A s \in Sides :
       WF_vars(LoopStep(s)) /\ WF_vars(PeerTakes(s)) /\ WF_vars(LinkClosed(s))
  /\ WF_vars(RunStep)

------------------------------------------------------------------------------
(* Properties                                                               *)

(* A reply is parsed against the command it answers, and after that command *)
(* was logged, although a slow debugger suspends the VM loop between send   *)
(* and log and the debugger may use the id again as soon as it has the      *)
(* reply (proxy.py:145, 167-170).                                           *)
LoggedAgainstOwnCommand ==
  IsReply(log.packet) =>
    log.against = log.packet.n /\ log.packet.n \in logged

(* Whatever the VM sent after its id sizes, and whatever the debugger sent  *)
(* after it received them, is parsed, if at all, with the VM's sizes        *)
(* ("intercepts the dynamic ID sizes response to configure its internal     *)
(* decoders", README.md:223; proxy.py:155-159).                             *)
LoggedWithVmSizes == log.packet.told => log.sizes \in {"vm", "none"}

(* An entry of the tables belongs to a command whose reply is still to be   *)
(* logged: the tables do not grow with the session, and no entry is left    *)
(* for the next command with its id (proxy.py:146-148, 156, 170).           *)
TablesHoldOpenCommands ==
  \A i \in Ids :
    /\ i \in idsizes => outstanding[i] # 0
    /\ (outstanding[i] # 0 /\ phase = "running" /\ ~closeEvent) =>
         i \in awaiting \/ (IsReply(hand["vm"]) /\ hand["vm"].id = i)

(* Each direction of the session is a PacketChannel: a peer is handed what  *)
(* the other sent, in that order, each packet once and unchanged, although  *)
(* a loop is suspended between writing and logging; and whatever ends the   *)
(* session cuts off the newest packets, never one in between                *)
(* (proxy.py:122-170, 188-202).                                             *)
Carrying(s) ==
  /\ phase # "over"
  /\ loop[s] # "ended"
  /\ ~cancelled[s]
  /\ rx[s] # "broken"
  /\ link[Other(s)] \in {"none", "up"}
FirstGarbage(s) == SelectInSeq(in[s], LAMBDA p : p = Garbage)
Open(s) == Carrying(s) /\ FirstGarbage(s) = 0
Transit(s) ==
  out[Other(s)] \o
    (IF ~Carrying(s) THEN <<>>
     ELSE IF FirstGarbage(s) = 0 THEN in[s]
     ELSE SubSeq(in[s], 1, FirstGarbage(s) - 1))

ToVm == INSTANCE PacketChannel WITH
  open <- Open("dbg"), transit <- Transit("dbg"), last <- took["vm"]
ToDebugger == INSTANCE PacketChannel WITH
  open <- Open("vm"), transit <- Transit("vm"), last <- took["dbg"]

ForwardsInOrder == ToVm!ChannelSpec /\ ToDebugger!ChannelSpec

(* Once one of the loops has ended, for whatever reason, the session comes  *)
(* to an end: also when the other loop is suspended in a read or a write,   *)
(* and when the packet that was logged last had been sent                   *)
(* (proxy.py:122-140, 188-202, 222).                                        *)
SessionEndsWithLoop ==
  \A s \in Sides : loop[s] = "ended" ~> phase = "over"

(* When either peer goes away the session comes to an end, also while a     *)
(* loop is suspended in a write to the other (proxy.py:172-202).            *)
SessionEndsWithPeer ==
  \A s \in Sides : (phase = "running" /\ rx[s] # "open") ~> phase = "over"

(* When run() has ended after its close event, the connection to the VM is  *)
(* closed ("Wait for termination and close resources cleanly",              *)
(* proxy.py:193).                                                           *)
RunClosesVm == (phase = "over" /\ closeEvent) => link["vm"] # "up"
==============================================================================
