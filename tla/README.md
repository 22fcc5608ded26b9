# Verification of jdwpy

jdwpy is an asyncio client library for the Java Debug Wire Protocol, with a
proxy that logs a debugger's session. This directory holds TLA+ models of it,
TLC configurations that check them on small instances, and TLAPS proofs about
the connection classes, the proxy and the payloads for every size of instance.
Paths below are relative to the repository root `src/`; `connection.py` stands for
`src/jdwpy/connection.py`, and so on.

## 1. Inventory

| Component | State | Operations | Talks to |
|---|---|---|---|
| Packet connection, `connection.py:19-210` (`JdwpPacketConnection`, `ConnectionState`, stream sender and receiver) | `closed`, first error, table of pending reply futures | `send_command_packet`, `receive_command`, `close` | asyncio streams below, typed connection above |
| Typed connection, `connection.py:255-347` (`SimpleJdwpConnection`) | next packet id, id sizes `spec` | `send_command`, `receive_command`, `close` | packet connection; registry and codec |
| Connection with read loop, `connection.py:350-421` (`JdwpConnectionWithAsyncLoop`) | its own `ConnectionState`, read task, queue of commands | `start`, `send_command`, `receive_command`, `close`, `_read_loop` | typed connection as its delegate; the program's tasks |
| Connection set-up, `connection.py:77-95` (`establish_jdwp_connection`) | none | handshake | streams; proxy |
| Logging proxy, `proxy.py` (`JdwpProxySession`, `client_connected`) | close event, outstanding commands, ids of IDSizes commands, id sizes, two loop tasks | `create`, the two loops and handlers, `_log_packet`, `run` | debugger and VM, by two pairs of streams |
| Packets, `packet.py` | header and data | `to_bytes`, `deserialize` | streams |
| Reader, writer, id sizes: `io.py`, `spec.py` | offset, buffer, five sizes | `read_*`, `write_*`, `create`, `from_response` | payload classes |
| Registry, `commands/registry.py`, `commands/base.py` | two dictionaries, filled on import | `register_command`, `get_command_class`, `get_response_class`, `to_bytes`, `from_bytes` | typed connection, proxy |
| Command sets, `commands/*.py` | none: data classes | `serialize`, `deserialize` | reader and writer |
| Constants, exceptions, exports, `testing.py`, scripts, examples | none | none of the protocol | |

**Behaviours that are hard to test.** Everything runs on one event loop, so the
interleavings are those of the suspension points: `drain()`, the await of a reply
future, `readexactly()`, `queue.get()`, `wait_closed()`, and the await of a task.
What can go wrong there:

- a call's `finally` runs some steps after its future was completed, and the
  table may have changed in between;
- a reply, an error, `close()` and a cancellation race for one future;
- two tasks read packets from one stream: one is refused in the middle of a packet,
  or takes the bytes the other was woken for;
- a cancelled task runs on, or never starts: a task cancelled before its first
  step does not enter its `try`; a task cancelled while it awaits another task or
  a future that others await too cancels those;
- the read loop ends for reasons the layer below does not know of;
- a stream arrives in pieces, and ends, breaks or is left between or inside them;
- a command without a response goes past every check of the packet connection;
- id sizes change while packets encoded with others are in flight;
- in the proxy, a slow peer suspends one loop between forwarding a packet and
  logging it while the other loop goes on, and the embedder's callback may raise
  behind a packet that was sent;
- reading and writing are written by hand, 90 commands, 18 events and 12
  modifiers, and depend on id sizes learned at run time.

**What makes each component correct.** Packets: what one side writes the other
builds again, the reader never mistakes data for a header, and whole packets are
delivered before an end of the stream is reported. Packet connection: no entry of the table
outlives its call, none is left when calls are refused, no future is completed
twice. Typed connection: a call returns the answer to its own packet or ends with
an error, and no reply to a command without a response is taken for it. Read loop: commands are handed over in
order and once; no call is accepted without a reader; `close()` ends in every
state of the read task, wherever the closing task is cancelled, and leaves nothing
open. Proxy: each direction drops, repeats and reorders nothing, a reply is parsed
against its own command and with the sizes its sender used, a session ends with
either peer and with either loop. Codec: what one side writes the other reads, and the sizes adopted
are the VM's.

## 2. Modules

```
   AsyncConnection  --EXTENDS-->  SimpleConnection  --EXTENDS-->  PacketConnection
        |  implements                   |  implements             (whole packets)
        v                               v
   SimpleConnection's SimpleSpec   CommandExchange (what callers are promised)

   PacketStream --EXTENDS--> PacketBytes        Proxy
        |  implements                             |  implements, twice:
        v                                         v  one per direction
   PacketChannel (what one direction of a connection promises)

   Payloads --EXTENDS--> CommandSets --EXTENDS--> Codec --EXTENDS--> Fields
                                                    |  four instances of each
                                                    v
                                         Layer, LayerFits, LayerCut
```

An action is everything a coroutine does between two suspensions, because that
is what the event loop makes atomic. A task's cancellation is two steps, as in
asyncio: the request (`must`, `rcancel`, `cancelled`), and the
`CancelledError` when the task next runs.

**PacketBytes** and **PacketStream** (`packet.py:42-123`, `connection.py:77-95`):
one direction of a connection, byte by byte. `PacketBytes` is the header of eleven
bytes, its big-endian fields, the flag that tells a reply from a command, and
`FromBytes`, which builds a packet of a header and its data. In `PacketStream` the
peer writes the handshake and packets into `written`; `arrived` and `consumed` are
positions in it. Bytes arrive in any pieces; `reader` shakes hands, reads a
`header`, then its `data`, each of them only when it is there in full, as
`readexactly()` does. The stream may end, break, bring a wrong greeting or a
header with a length below its own, and the task may be cancelled between a
header and its data.

**PacketChannel** is abstract: packets that are sent are delivered once, in order
and unchanged, until the channel is cut; then a prefix of what was under way.
`PacketStream` implements it, and so do the two directions of `Proxy`.
`PacketConnection` takes whole packets from its `wire`, which is the `transit` of
a channel; it adds malformed headers itself.

**PacketConnection** (`connection.py:19-210`). A call of `send_command_packet` is
a member of `Calls`; `pc` says where it is: `new`, `draining` in the sender's
`drain()`, `waiting` for its future, then `replied`, `failed`, `cancelled` or
`refused`. `pending` is `_pending_replies`, `fut` the reply futures, `closed` and
`error` are `ConnectionState`. The caller chooses the id, as this class lets it.
`SendCommandPacket` is lines 191-200 up to the first suspension; `Drained`,
`DrainFails`, `Resume` and `CallCancelled` are the ways on from there, each with
the `finally` (`EndCall`). `EnterReceive`, `DeliverReply`, `DeliverCommand`,
`ReceiveFails` and `ReceiveCancelled` are `receive_command`.

Nothing keeps a second task out of `receive_command` while one is in there. If the
first waits for bytes, `readexactly()` raises for the second (`ReceiveClash`). If
bytes are there and the first has not run since, the second takes them in its place
(`SecondReceive`), and from then on the tasks are `crowded`: whichever runs first
takes the next packet, any of them may be refused when it has to wait, and one may
take data for a header (`Misread`), which gives a packet that nobody sent. The
model keeps no count of a crowd; the steps that one allows are those any number of
tasks can take. `PacketInv` holds in it too.

`Close` is `close()`. The environment is the transport
(`outbox`, `paused`, `link`), the stream reader (`wire`, `rx`) and a VM that
answers what it has read in any order, sends commands and malformed packets, and
hangs up. `SendOneWay` is a packet that is given to the sender without a call; the
VM answers it too (`Stray`), and no entry awaits that reply. Replies keep, for the
properties, the call they answer.

**SimpleConnection** (`connection.py:255-347`) adds `nextId`, `spec` and the
sizes a command was last decoded with. Each action is one of `PacketConnection`'s
with what this layer does in the same step. `MaxPacketId` is the largest id the
header holds. `SendOneWayCommand` is the path of a command without a response
(lines 310-313), which takes an id and passes neither `check()` nor the table. Its
users keep to one receiver, or have a second one that comes while the first waits
and is refused (`SecondReceiver`); `OneReceiverSpec` is the same without that. Behind
a crowd an answer is not the VM's, and nothing could be promised to callers.

**CommandExchange** is abstract: calls are issued, answered, returned, failed,
cancelled or rejected, while the connection accepts or is broken. It knows no
ids, futures, tables or tasks.

**AsyncConnection** (`connection.py:350-421`) adds the wrapper's state, the read
task (`none`, `created`, `doomed` if cancelled before its first step, `running`,
`done`), the queue, the tasks in `queue.get()`, and for each of any number of tasks
in `close()` (`Closers`, `__aexit__` among them) where it is: `joining` the read
task, `closing` the delegate, or how it ended. `CancelClose` cancels such a task:
while it joins, the `CancelledError` is swallowed and `close()` goes on (line 419);
in `wait_closed()` the one future that every `close()` awaits is cancelled with it
(`waiterGone`), so the others end in `CancelledError` too. That leaves the
connection closed all the same, which is `CloseLeavesNothingOpen`. The first step of
the read task is the delegate's whole `EnterReceive`: that it finds no other task in
there, although every entry point calls `start()`, is not built in but is what
`ImplementsSimple` says.

**Proxy** (`proxy.py`, and the handshake of `connection.py`): one session from
`create()` to the end of `run()`. `loop`, `hand` and `cancelled` are the two
tasks and the packet each is suspended with; `outstanding`, `idsizes`, `spec` and
`closeEvent` are the session's attributes. Packets carry whether their sender
knows the VM's sizes to be known (`told`), so that the properties can say what
they should be parsed with. `PacketSent` is what follows a send: the log line, the
`on_packet_log` callback, which may raise (`LogCallbackRaises`), and the removal
of a reply's entry. `LogLine` keeps of a line which command a reply was matched with
and the sizes it was parsed with; a command or reply without data to parse has
none. Debugger, VM and transports are the environment.

**Fields** (`io.py`, `spec.py`, enumerations of `constants.py`). Field types, and
how a single value is written and read: widths, signs, byte order, the length
prefix and the encoding of strings, enumerations that raise for unknown members, flag
sets that change a negative number, floats that are rounded to singles or raise, ids
of 4 or 8 bytes. A float is a pair: the bits of the nearest single, and what that
lacks of the float. A 64-bit number is a pair of 32-bit halves, as TLC's integers
have 32 bits. A read that lacks bytes raises; a string's slice does not, and the
offset moves on regardless. A negative offset counts from the end, as Python's
does.

**Layer** (`io.py`, `commands/*.py`). Fields that hold other fields: structures,
counted lists, values selected by a tag, and payloads themselves. The operators
for the fields inside are its constants (`WriteBelow`, `ReadBelow`), so it needs no
recursion. Beside it, for the same fields: **LayerFits** says which layouts there
are, which values the classes' annotations allow, and that what selects the fields
is written; **LayerCut** says that what was read is what was written but for the
end of a last string. `Tuples` (sequences and octets) and `Below` (the constant
`WriteBelow`) hold what these share. **Codec** is a tower of four floors on the
leaves of `Fields`, as many as the protocol needs: a composite event is a list of
what depends on its kind, which holds locations, which hold ids. Its `Write` and
`ReadAll` are the fourth `Layer`'s, `KnownPayload`, `FitsPayload` and
`OnWirePayload` the fourth `LayerFits`', `LosesEndPayload` the fourth `LayerCut`'s.

**CommandSets** (`commands/*.py`). A payload class is its layout, the sequence of
its fields. For every class the fields of `serialize()` were compared with those of
`deserialize()` one by one, and the layout follows the code where it differs from
what the protocol's documents lead one to expect: the values in the slots of
`SetValues` carry their tags, `ConstantPool` has no separate count of entries.
`Registry` lists the classes in the order of their modules; `GetCommandClass` is
the lookup, in which the class registered last wins.

**Payloads** puts the three in motion: one side writes a payload, the other looks
its class up by the two numbers and reads it, and this side adopts the sizes in an
IDSizes response. It begins with the default sizes, so payloads that come first
are read with sizes other than the VM's, as in the code. Which fields a payload
has is a constant, `Choice`: any that fit the annotations. `MCPayloads` has the
choices that TLC considers.

## 3. What is checked

| Run | Instance | Shows |
|---|---|---|
| `stream` | 2 packets of 3 kinds behind the handshake, every division into pieces, fairness | `StreamInv`, `InStep`, `WholePacketsReceived`, the refinement `ImplementsChannel`, and `SentIsReceived` |
| `packet` | 2 calls, 2 ids chosen freely, any number of receivers, 1 event, 1 packet at a time on the wire | `EntriesAreOwned`, `SweptWhenDown`, `CompletedOnce`, and the inductive invariant `PacketInv` |
| `simple` | 3 calls over a header of 2 ids, one-way commands | `WaiterRegistered`, `NoOrphan`, `OwnReply`, `IdsAreFresh`, `SimpleInv`, and the refinement `ImplementsExchange` |
| `async` | 1 call, 1 receiver, 2 closers, a one-way command, 2 events, fairness | `CommandsInOrder`, `CloseLeavesNothingOpen`, `AcceptedOnlyWithReader`, the refinement `ImplementsSimple` with one task at a time in the delegate, and `CloseEndsEverything` |
| `proxy` | 2 commands, 2 ids used again, 1 event | `LoggedAgainstOwnCommand`, `LoggedWithVmSizes`, `TablesHoldOpenCommands`, and `ForwardsInOrder`, the refinement of `PacketChannel` by each direction |
| `proxy_ends` | 1 command, 1 id, 2 events, fairness | `SessionEndsWithPeer`, `SessionEndsWithLoop` |
| `payloads` | every class, 21 choices of fields, 6 VMs, every shorter length | `RoundTrip`, `SpecIsDefaultOrVms`, `CutOnlyInLastString` |

Each of these runs completes its state space; the type invariants are checked in
them as well, that of `PacketConnection` as a part of `PacketInv`.

**Bounds, and why they are enough.** Calls interact only by the pending table, the
write buffer and the ids, always two at a time; two calls give every such pair,
and the third call of `simple` is the one for which the header has no id left. Two
ids let `packet` use ids twice and side by side. `OneWayIds` bounds the
one-way commands to those numbered so: both ids of the header in `simple`, so that
a stray reply meets every call; the first in `async`; none in `packet`, whose
callers choose ids. `MaxEvents` and `MaxWire` bound the VM's commands and the
packets not yet read. One place is enough in `packet`: its properties are about what
a packet does to calls when it is read, not about the order of packets; the next one
arrives as soon as there is room, and `packet_reuse`, which needs one behind another,
has two. In `async` the order is proved for every number. Two closers are needed for one that is cancelled under the other's
await. One call and one receiver are enough in `async`: calls meet each other only
in the delegate, whose steps are proved to be those of `SimpleConnection` for any
number of them, and receivers only in the queue, whose order is proved too
(`AsyncCommandsInOrder`). In `stream` the packets are one without data, one whose
flags and error code are unusual, and one whose data looks like a packet; two of
them give every border between packets. In the proxy, two commands with two ids
give the reuse of an id while its reply is being logged, and an IDSizes command
among others. In `payloads` the six sets of sizes tell every two kinds of ids
apart (each pair of kinds has different sizes in one of them) and include one
that is not supported. Eighteen seeds give every member of the largest choice, the
event kinds, with ids that fit four bytes; three more have ids that do not. Lists
have 0 to 2 entries. Payloads are cut short for one VM only (`CutSizes`), since what
a reader does at the end of the data does not depend on the sizes.

**Deadlock.** The connection and proxy runs set `CHECK_DEADLOCK FALSE`: calls are
made once and the VM's commands are bounded, so these systems stop. The payload
run goes on for ever and is checked for deadlock.

**Symmetry** is used for the calls and the ids of `packet`, which treats all of them
alike, and for calls or ids in other safety runs that do, never in a run with a
liveness property.

**Fairness.** Weak fairness of every task that can run: asyncio's ready queue is
first in, first out. Weak fairness of the kernel taking what is written
(`VmTakes`, `PeerTakes`) and of a closed transport going down: without it
`drain()` may wait for ever, and so does the code. In `stream`, of the network
that brings what was written. Nothing is assumed of the VM's
answers, of events, of callers, of cancellation or of loss.

## 4. Disagreements found

Five runs expect a violation; each checks what a comment, a docstring, a test or
the repository's README says. The findings in `PROJECT.json` quote the lines.

| Run | What happens |
|---|---|
| `packet_reuse` | A caller of `JdwpPacketConnection` uses an id again after its reply arrived but before its first caller ran; that caller's `finally` pops the second call's entry, which then waits for ever. `SimpleJdwpConnection` never does this (`WaiterRegistered` in `simple`). |
| `async_read_task_gone` | A command that cannot be parsed ends the read task, and calls in flight are not failed until `close()`. |
| `id_sizes` | Packets right behind the IDSizes response are decoded by the read loop before the caller's task adopts the sizes. |
| `async_getter` | `close()` before the read task's first step never shuts the queue down; a waiting receiver is not told. |
| `proxy_close` | If closing the debugger's connection raises, the VM's connection is not closed by `run()`. |

`ArrayReference.SetValues` is a limit rather than a disagreement: the tag of its
values is not on the wire, as its docstring says, and `deserialize()` takes `INT`
(`commands/array_reference.py:179`). A command with other values reads back as
another command or raises, so the proxy logs it wrongly. A `FLOAT` that is no single
is another limit: `struct.pack` rounds it, or raises if it is too large, and then
nothing is sent. `RoundTrip` leaves both out (`AllOnWire`): no line says that what
the wire has no room for comes back.

## 5. What is proved

For all sets of calls, ids, packets, receivers and closers, all bounds, all
numbers of commands and events in a proxy session, and all lengths of buffers:

| Theorem | Says |
|---|---|
| `HeaderRoundTrip` | every packet that `struct` can pack is built again of its header |
| `StreamInvariant`, `StreamTypes`, `ReaderInStep`, `WholePacketsFirst` | `StreamInv`, and with it that the reader is in step and whole packets come first |
| `StreamImplementsChannel` | a byte stream implements `PacketChannel` |
| `PacketInvariant`, `PacketEntriesAreOwned`, `PacketSweptWhenDown`, `PacketCompletedOnce` | `PacketInv` holds, however many tasks receive, and with it each of its parts; no future is completed twice |
| `SimpleInvariant`, `SimpleTyped`, `SimpleIdsAreFresh`, `SimpleWaiterRegistered`, `SimpleNoOrphan`, `SimpleOwnReply` | the same for the typed connection's own properties, one-way commands included |
| `SimpleImplementsExchange` | it implements `CommandExchange` |
| `AsyncImplementsSimple`, `AsyncCallsSafe` | the wrapper never has two tasks in its delegate's `receive_command()`, nor one when it closes it; the delegate being used as specified, all of the above holds for the wrapper's callers |
| `AsyncTypes`, `AsyncAcceptedOnlyWithReader` | only the VM's commands are ever queued; no call is accepted once the read task is gone |
| `AsyncCloseLeavesNothingOpen` | a `close()` that got past the read task leaves nothing open, wherever its task was cancelled |
| `AsyncCommandsInOrder` | commands are handed over in order, once, and none is missing until the read task ends |
| `ProxyInvariant`, `ProxyTypes`, `ProxyLoggedAgainstOwnCommand`, `ProxyLoggedWithVmSizes`, `ProxyTablesHoldOpenCommands` | `ProxyInv` holds, with it the proxy's safety properties |
| `ProxyForwardsInOrder` | each direction of a session implements `PacketChannel` |
| `LayerWorks` | if fields are written and read without loss, so are structures, lists and tagged values of them, and payloads |
| `PayloadReadsBack`, `PayloadIsCut` | for every layout that `Codec` reaches, every value, all id sizes and any data around it: what is written is read back, and what lacks bytes raises or has lost the end of a last string |
| `PayloadsAreTyped`, `FieldsRoundTrip`, `SpecStaysDefaultOrVms`, `OnlyLastStringIsCut` | the four properties of `payloads`, for all fields of all classes, all sizes a VM may tell, and all lengths of data |

The theorems about `X` are in `XProofs`, those about payloads in `FieldProofs`
(leaves), `LayerProofs` (one floor) and `PayloadProofs` (the tower, and the
specification of `Payloads`).

The assumptions are those named in the modules: `NoCall` is no call, the bounds
are naturals, `PacketIds` is `1..MaxPacketId`; the packets of a stream are ones that
`struct` can pack, and a wrong greeting is as long as the handshake and differs
from it; the sizes a VM tells are numbers of 32 bits (`PayloadsAssumption`), the
fields of payloads are those that the annotations allow (`ChoiceAssumption`).
`RegistryAssumption` is about no constant: that every registered layout is one
the tower reaches, and that no two classes have the same numbers. TLC evaluates it
over the whole registry, which decides it.

`EntriesAreOwned` alone is not inductive: that a popped entry cannot be another
call's needs to know that a call outside `Live` has no entry, which needs the
types, and that a call the VM knows of has a future. `PacketInv` adds `CallPhases`
and `VmKnowsSentCalls`. `OwnReply` rests on more: a reply on the wire bears the id
of the call it answers (`RepliesOnTheWire`), ids are pairwise different
(`IdsAreFresh`, because `nextId` only grows) and from those of one-way commands
(`OneWayIdsAreOwn`), an entry is found under the id of
its call (`WaiterRegistered`), and the VM answers once (`SentOnce`). Together they
are `SimpleInv`, inductive relative to `PacketInv`, which holds because every step
of `SimpleConnection` is a step of `PacketConnection` (`SimpleStepIsPacketStep`).
The refinement maps each step to a step of `CommandExchange` or to a stutter; the
steps that break the connection map to `Break`. For the wrapper the invariants
are `OnlyTaskReads`: who is in the delegate's `receive_command()` is the read task, and
there is one of them, so that a read task that begins is neither refused nor part of
a crowd; `ReaderGoneMeansDown`: if the read task is done or doomed, the wrapper refuses;
`ClosedMeansShut`: the delegate is closed only when no task reads from it, and no
task begins to read from a closed one; and `OrderInv`: the commands on the wire are
in order, follow those handed over or queued, and until the read task ends none is
missing. The stream's invariant says that what was written is the handshake and
the packets' bytes, that `ends` are the borders between them, and that `consumed`
is at a border or a header's length behind one; a packet read is then the packet
written by `HeaderRoundTrip`.

The proxy's properties are about a table that two loops share, and none of them is
inductive. `ProxyInv` follows an id on its way from the debugger through both loops
and the VM back to the debugger: it is in one place at a time (`InOnePlace`), so
no command is registered over another, and from when it is sent on the table
has it (`Registered`). The gap is a loop suspended in `drain()` behind a packet its
peer may have: `ReplyInHand` says where that reply can be, and `LoggedBeforeReply`
that a command whose reply can come is logged, or in the hand of the loop which
runs before anything more arrives. `OpenEntries` adds what an entry means while
the session goes on, and `SizesFirst` that whoever knows the VM's sizes was told by
a reply the proxy has seen or will see first.

The proxy's refinement maps a direction's transit to the
buffer of one side followed by what has arrived from the other, up to the first
malformed packet, while the loop between them goes on. Sending a packet on is then
a stutter, an arrival is a send or, if malformed, the cut, and every way a loop or
a connection ends cuts off a tail. It needs one more invariant, `LoopsOver`: no loop
runs any more when the connections are closed.

That payloads are read back is shown from the bytes up. `FieldProofs` shows that a
number's bytes become the number again, that UTF-8 is decoded to what was encoded
(code points of up to two bytes), that flags and singles are what was packed, and that a prefix of it which decodes is decoded
to a prefix; with these, what holds of each leaf. A read or a write of many parts
is a recursion over them: `FlattenSeq` when writing, `ReadEach` when reading. Its
value is described step by step (`Puts`, `Reads`), and what holds of every step
follows from `AllNaturals`, an induction over sets of numbers that the prover can
use. `LayerProofs` shows for one floor that four facts carry over from the fields inside
(`BelowWorks`) to the fields that hold them: writes give bytes or raise, reads end
at a number, what the data holds is read back, what lacks bytes raises or has lost
the end of a string. The last needs a fifth, that behind the end of the data only
what takes no bytes is read (`BelowIsMissing`): nothing is read of fields behind a
string that was cut. `PayloadProofs` takes the four floors of the tower from one
to the next (`WholeWorks`).

None of the four properties of `Payloads` is inductive: they speak of what reading
came to. `PayloadInv` adds what is on the wire before (`Underway`): the bytes of
the payload, all of them, all but their end, or with one more; that its layout and
fields fit; and that a response of IDSizes is the VM's sizes. That this response is
understood before sizes are known is `IntsDoNotDependOnSizes`; that its sizes are
adopted as they were told is `SizesAreTold`; that it is never adopted in part, since
it has no string, is `IntsAreOnWire`.

**Only model-checked:** the liveness properties, which are out of the prover's
reach, as is ENABLED.

## 6. What is not modelled, and why

- The text of log lines and the hex dump: the model keeps which packet a line is
  about and what it was parsed against and with.
- The cancellation of the proxy's `run()` while it is already cleaning up, which
  happens only when the process ends.
- UTF-8 beyond two bytes: a string's length in bytes differs from its length
  already with two.
- How a float is rounded: a value says which single is nearest and whether it is
  the float itself.
- `ALLOWED_ERRORS` and error code names: they choose a log line or are numbers to
  the code. So `constants.py` is modelled in part only.
- `testing.py`, scripts, examples, exports: no protocol state of their own.

Five hazards have no property, because no line of the repository says what should
hold: `connection.py:200`, `proxy.py:103`, `commands/event.py:503`,
`commands/array_reference.py:179` and `io.py:334`; `PROJECT.json` has the reasons.

## 7. Plan

Done: PacketBytes and PacketStream with PacketChannel; PacketConnection;
SimpleConnection with CommandExchange; AsyncConnection; Proxy; Fields, Layer, Codec,
CommandSets, Payloads; the proofs of all of these.

Every invariant, action property and refinement that a passing run checks is a
theorem as well; the four liveness properties stay with TLC. Left: whatever the
code adds, and properties of the hazards without one, should the repository come to
say what is meant there.
