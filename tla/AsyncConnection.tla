---------------------------- MODULE AsyncConnection ----------------------------
(***************************************************************************)
(* JdwpConnectionWithAsyncLoop (connection.py): a SimpleJdwpConnection     *)
(* whose receive_command() is called by one background task, which puts    *)
(* the VM's commands into a queue for the program's receivers.             *)
(*                                                                         *)
(* The wrapper has a ConnectionState of its own beside the one of the      *)
(* packet connection.  A call that the wrapper turns down never reaches    *)
(* SimpleConnection and stays "new" here.                                  *)
(***************************************************************************)
EXTENDS SimpleConnection

CONSTANTS Getters,   \* the tasks that call receive_command()
          Closers    \* the tasks that call close(), __aexit__ among them

VARIABLES
  wclosed,   \* _state._closed of the wrapper
  werror,    \* _state._error of the wrapper is set
  rtask,     \* _read_task: "none", "created" (not run yet), "doomed"
             \* (cancelled before it ran), "running", "done"
  queue,     \* _incoming_commands: the commands' numbers
  shut,      \* the queue is shut down
  getter,    \* the tasks waiting in queue.get()
  taken,     \* history: the commands handed to the program, in order
  closer,    \* where each close() is: "idle", "joining" the read task,
             \* "closing" the delegate; or ended, "done" or "cancelled"
  waiterGone \* the future that every wait_closed() awaits was cancelled

closeVars == <<closer, waiterGone>>
loopVars == <<wclosed, werror, rtask, queue, shut, getter, taken, closeVars>>
simpleVars == <<nextId, spec, decoded>>
avars == <<svars, loopVars>>

AsyncTypeOK ==
  /\ SimpleTypeOK
  /\ wclosed \in BOOLEAN
  /\ werror \in BOOLEAN
  /\ rtask \in {"none", "created", "doomed", "running", "done"}
  /\ queue \in Seq(1..MaxEvents)
  /\ shut \in BOOLEAN
  /\ getter \in SUBSET Getters
  /\ taken \in Seq(1..MaxEvents)
  /\ closer \in [Closers -> {"idle", "joining", "closing", "done", "cancelled"}]
  /\ waiterGone \in BOOLEAN

AsyncInit ==
  /\ SimpleInit
  /\ wclosed = FALSE
  /\ werror = FALSE
  /\ rtask = "none"
  /\ queue = <<>>
  /\ shut = FALSE
  /\ getter = {}
  /\ taken = <<>>
  /\ closer = [k \in Closers |-> "idle"]
  /\ waiterGone = FALSE

\* Mutant: a task is made at every start().
StartLoopAgain == rtask' = "created"

\* start(), which every entry point calls first.
StartLoop == rtask' = IF rtask = "none" THEN "created" ELSE rtask

\* check() of the wrapper's state.
WrapperDown == wclosed \/ werror

------------------------------------------------------------------------------
(* The read loop                                                            *)

\* The finally clause of _read_loop.
LoopEnds ==
  /\ rtask' = "done"
  /\ shut' = TRUE

\* The task's first step: receive_command() of the delegate.  It raises if the
\* connection was closed before the task was made, or if another task waits in
\* it already.
LoopBegins ==
  /\ rtask = "created"
  /\ EnterReceive \/ (Down /\ UNCHANGED pvars)
  /\ IF Down' THEN LoopEnds /\ werror' = TRUE
              ELSE rtask' = "running" /\ UNCHANGED <<werror, shut>>
  /\ UNCHANGED <<simpleVars, wclosed, queue, getter, taken, closeVars>>

\* A task cancelled before its first step never enters the try statement.
LoopNeverBegins ==
  /\ rtask = "doomed"
  /\ rtask' = "done"
  /\ UNCHANGED <<svars, wclosed, werror, queue, shut, getter, taken, closeVars>>

LoopReply == DeliverReply /\ UNCHANGED <<simpleVars, loopVars>>

\* Mutant: the newest command is put in front.
LoopCommandInFront ==
  /\ ReceiveCommand("reading")
  /\ queue' = <<Head(wire).event>> \o queue
  /\ UNCHANGED <<wclosed, werror, rtask, shut, getter, taken, closeVars>>

\* put() on the unbounded queue and the next receive_command() do not suspend.
LoopCommand ==
  /\ ReceiveCommand("reading")
  /\ queue' = Append(queue, Head(wire).event)
  /\ UNCHANGED <<wclosed, werror, rtask, shut, getter, taken, closeVars>>

\* Mutant: mark_error() is left out.
LoopUnparsableUnmarked ==
  /\ ReceiveCommand("idle")
  /\ LoopEnds
  /\ UNCHANGED <<wclosed, werror, queue, getter, taken, closeVars>>

\* The command is unknown or cannot be decoded: the loop ends in error.  The
\* packet connection below is not told.
LoopUnparsable ==
  /\ ReceiveCommand("idle")
  /\ LoopEnds
  /\ werror' = TRUE
  /\ UNCHANGED <<wclosed, queue, getter, taken, closeVars>>

LoopFails ==
  /\ ReceiveFails
  /\ LoopEnds
  /\ werror' = TRUE
  /\ UNCHANGED <<simpleVars, wclosed, queue, getter, taken, closeVars>>

\* Mutant: a sentinel ends the queue, as one would do without shutdown().
LoopCancelledSentinel ==
  /\ ReceiveCancelled
  /\ LoopEnds
  /\ queue' = Append(queue, 0)
  /\ UNCHANGED <<simpleVars, wclosed, werror, getter, taken, closeVars>>

\* The loop swallows its cancellation and returns.
LoopCancelled ==
  /\ ReceiveCancelled
  /\ LoopEnds
  /\ UNCHANGED <<simpleVars, wclosed, werror, queue, getter, taken, closeVars>>

LoopStep ==
  LoopBegins \/ LoopNeverBegins \/ LoopReply \/ LoopCommand
  \/ LoopUnparsable \/ LoopFails \/ LoopCancelled

------------------------------------------------------------------------------
(* The program's calls                                                      *)

\* __aenter__
Enter ==
  /\ rtask = "none"
  /\ StartLoop
  /\ UNCHANGED <<svars, wclosed, werror, queue, shut, getter, taken, closeVars>>

\* send_command: the loop is started before the state is checked.
LoopSendCommand(c) ==
  /\ StartLoop
  /\ \/ ~WrapperDown /\ SendCommand(c)
     \/ WrapperDown /\ pc[c] = "new" /\ UNCHANGED svars
  /\ UNCHANGED <<wclosed, werror, queue, shut, getter, taken, closeVars>>

\* The same of a command without a response.
LoopSendOneWay ==
  /\ StartLoop
  /\ \/ ~WrapperDown /\ SendOneWayCommand
     \/ WrapperDown /\ UNCHANGED svars
  /\ UNCHANGED <<wclosed, werror, queue, shut, getter, taken, closeVars>>

LoopContinueCommand(c) == ContinueCommand(c) /\ UNCHANGED loopVars

LoopCancelCall(c) == CancelCall(c) /\ UNCHANGED <<simpleVars, loopVars>>

\* receive_command: a task waits in queue.get(),
GetCommand(g) ==
  /\ g \notin getter
  /\ StartLoop
  /\ getter' = getter \cup {g}
  /\ UNCHANGED <<svars, wclosed, werror, queue, shut, taken, closeVars>>

\* is handed the oldest command,
GetterTakes(g) ==
  /\ g \in getter
  /\ queue # <<>>
  /\ getter' = getter \ {g}
  /\ taken' = Append(taken, Head(queue))
  /\ queue' = Tail(queue)
  /\ UNCHANGED <<svars, wclosed, werror, rtask, shut, closeVars>>

\* is told that the connection is closed, after the last command,
GetterStops(g) ==
  /\ g \in getter
  /\ queue = <<>>
  /\ shut
  /\ getter' = getter \ {g}
  /\ UNCHANGED <<svars, wclosed, werror, rtask, queue, shut, taken, closeVars>>

\* or is cancelled.
GetterCancelled(g) ==
  /\ g \in getter
  /\ getter' = getter \ {g}
  /\ UNCHANGED <<svars, wclosed, werror, rtask, queue, shut, taken, closeVars>>

------------------------------------------------------------------------------
(* close                                                                    *)

\* close() of the delegate and of its packet connection, up to wait_closed().
\* A second one finds nothing left to change.
CloseConnection ==
  \/ Close
  \/ closed /\ UNCHANGED pvars

\* The await in wait_closed(): it suspends unless its future is done.  A close()
\* ends with it, by returning, by raising what the connection was lost with, or
\* with the CancelledError of whoever was cancelled in it.
WaitClosed(k) ==
  closer' = [closer EXCEPT ![k] = IF waiterGone THEN "cancelled"
                                  ELSE IF link = "down" THEN "done" ELSE "closing"]

\* mark_closed, then cancel the read task and wait for it, or close at once.
BeginClose(k) ==
  /\ closer[k] = "idle"
  /\ wclosed' = TRUE
  /\ \/ /\ rtask \in {"created", "doomed"}
        /\ rtask' = "doomed"
        /\ closer' = [closer EXCEPT ![k] = "joining"]
        /\ UNCHANGED pvars
     \/ /\ rtask = "running"
        /\ CancelReceive \/ (rcancel /\ UNCHANGED pvars)
        /\ closer' = [closer EXCEPT ![k] = "joining"]
        /\ UNCHANGED rtask
     \/ /\ rtask \in {"none", "done"}
        /\ CloseConnection
        /\ WaitClosed(k)
        /\ UNCHANGED rtask
  /\ UNCHANGED <<simpleVars, werror, queue, shut, getter, taken, waiterGone>>

\* The read task is done: the delegate and its packet connection are closed.
CloseDelegate(k) ==
  /\ closer[k] = "joining"
  /\ rtask = "done"
  /\ CloseConnection
  /\ WaitClosed(k)
  /\ UNCHANGED <<simpleVars, wclosed, werror, rtask, queue, shut, getter, taken,
                 waiterGone>>

\* The future of wait_closed() is done.
CloseReturns(k) ==
  /\ closer[k] = "closing"
  /\ link = "down" \/ waiterGone
  /\ WaitClosed(k)
  /\ UNCHANGED <<svars, wclosed, werror, rtask, queue, shut, getter, taken,
                 waiterGone>>

\* Mutant: no except clause around the await of the read task.
CancelCloseRaises(k) ==
  /\ closer[k] \in {"joining", "closing"}
  /\ closer' = [closer EXCEPT ![k] = "cancelled"]
  /\ waiterGone' = (waiterGone \/ (closer[k] = "closing" /\ link # "down"))
  /\ UNCHANGED <<svars, wclosed, werror, rtask, queue, shut, getter, taken>>

\* The task in close() is cancelled.  While it waits for the read task that is
\* passed on to the read task, which has been cancelled already, or taken for
\* the read task's own: nothing changes, and close() goes on.  In wait_closed()
\* the one future that every close() awaits is cancelled.
CancelClose(k) ==
  /\ \/ closer[k] = "joining" /\ UNCHANGED closeVars
     \/ /\ closer[k] = "closing" /\ link # "down" /\ ~waiterGone
        /\ waiterGone' = TRUE
        /\ UNCHANGED closer
     \/ /\ closer[k] = "closing" /\ link = "down" /\ ~waiterGone
        /\ closer' = [closer EXCEPT ![k] = "cancelled"]
        /\ UNCHANGED waiterGone
  /\ UNCHANGED <<svars, wclosed, werror, rtask, queue, shut, getter, taken>>

CloseStep(k) == CloseDelegate(k) \/ CloseReturns(k)

------------------------------------------------------------------------------
LoopEnvironment == Environment /\ UNCHANGED <<simpleVars, loopVars>>

AsyncNext ==
  \/ LoopStep
  \/ Enter
  \/ LoopSendOneWay
  \/ \E c \in Calls :
       LoopSendCommand(c) \/ LoopContinueCommand(c) \/ LoopCancelCall(c)
  \/ \E g \in Getters :
       GetCommand(g) \/ GetterTakes(g) \/ GetterStops(g) \/ GetterCancelled(g)
  \/ \E k \in Closers : BeginClose(k) \/ CloseStep(k) \/ CancelClose(k)
  \/ LoopEnvironment

AsyncSpec == AsyncInit /\ [][AsyncNext]_avars

\* The event loop runs every task that can run; the peer's kernel takes what
\* was written and a closed transport goes down.  The VM owes no answer.
FairAsyncSpec ==
  /\ AsyncSpec
  /\ WF_avars(LoopStep)
  /\ \A k \in Closers : WF_avars(CloseStep(k))
  /\ \A c \in Calls : WF_avars(LoopContinueCommand(c))
  /\ \A g \in Getters : WF_avars(GetterTakes(g) \/ GetterStops(g))
  /\ WF_avars(VmTakes /\ UNCHANGED <<simpleVars, loopVars>>)
  /\ WF_avars(LinkClosed /\ UNCHANGED <<simpleVars, loopVars>>)

------------------------------------------------------------------------------
(* Properties                                                               *)

\* The VM's n-th command is on the wire.
OnWire(n) == \E k \in 1..Len(wire) : wire[k].kind = "command" /\ wire[k].event = n

(* The program is handed the VM's commands in the order the VM sent them,   *)
(* each once, and until the read task ends none is missing: what is not     *)
(* handed over is in the queue or still on the wire, however receivers      *)
(* come, wait, are cancelled or outlive a shutdown (connection.py:372-398). *)
CommandsInOrder ==
  LET queued == taken \o queue
  IN  /\ \A k \in 1..Len(queued) : queued[k] = k
      /\ rtask # "done" => \A n \in (Len(queued) + 1)..sent : OnWire(n)

(* A call is accepted only while the read task can still bring its reply:   *)
(* whatever ended the task also made the wrapper refuse (connection.py:409, *)
(* 377-383, 414).                                                           *)
AcceptedOnlyWithReader ==
  [][\A c \in Calls : pc[c] = "new" /\ pc'[c] \in Live =>
       rtask' \in {"created", "running"}]_avars

(* However its tasks start, end, send, receive and close, the wrapper never *)
(* has two tasks in its delegate's receive_command(), where the one would   *)
(* break the connection for the other or take its bytes, although every     *)
(* entry point calls start(); and it closes the delegate only when no task  *)
(* is in there (connection.py:367-370, 415-421).                            *)
ImplementsSimple ==
  /\ OneReceiverSpec
  /\ [][~closed /\ closed' => reader = "idle"]_svars

(* However a close() ends, and wherever its task was cancelled, nothing is  *)
(* left open: the packet connection is closed and no call is pending, its   *)
(* transport is going down, and no task reads from it (connection.py:412).  *)
CloseLeavesNothingOpen ==
  \A k \in Closers : closer[k] \in {"closing", "done", "cancelled"} =>
    /\ closed /\ pending = NoEntries
    /\ link # "up"
    /\ rtask # "running"

(* close() comes to an end, and with it every call in flight, whichever     *)
(* state the read task is in, however many tasks close and are cancelled,   *)
(* and whatever the connection does meanwhile (connection.py:412-421;       *)
(* tests/test_protocol_core.py:150).                                        *)
CloseEndsEverything ==
  wclosed ~> /\ \A k \in Closers : closer[k] \notin {"joining", "closing"}
             /\ \A c \in Calls : pc[c] \notin Live

(* A call in flight comes to an end once the task that would bring its      *)
(* reply is gone ("Sends a JdwpCommand, awaiting and validating the         *)
(* response.", connection.py:407).                                          *)
NoCallOutlivesReadTask ==
  \A c \in Calls :
    (rtask = "done" /\ pc[c] \in Live) ~> pc[c] \notin Live

(* A task in receive_command() is told that the connection is closed        *)
(* (connection.py:398: RuntimeError "Connection closed").                   *)
GetterHearsOfClose ==
  \A g \in Getters, k \in Closers :
    (closer[k] = "done" /\ g \in getter) ~> g \notin getter
==============================================================================
