------------------------------ MODULE ProxyProofs ------------------------------
(***************************************************************************)
(* Theorems about Proxy, for every number of ids, commands and events.     *)
(*                                                                         *)
(* The argument: an id is in one place at a time, from the debugger that   *)
(* sends it through both loops and the VM back to the debugger, so that    *)
(* the table cannot be overwritten before its entry is used (InOnePlace,   *)
(* Registered).  The one gap is a loop that is suspended behind a packet   *)
(* which its peer already has; there the event loop runs the loop before   *)
(* anything arrives that answers the packet (ReplyInHand,                  *)
(* LoggedBeforeReply).                                                     *)
(*                                                                         *)
(* The second part shows that each direction implements PacketChannel.     *)
(***************************************************************************)
EXTENDS Proxy, SequenceTheorems, WellFoundedInduction, TLAPS

Replies == {Reply(p, outcome, told) :
              p \in Commands, outcome \in Outcomes, told \in BOOLEAN}
Events == {Event(n, told) : n \in 1..MaxEvents, told \in BOOLEAN}
Answers == Replies \cup Events

(* What each place can hold.                                                *)
Contents ==
  /\ in["dbg"] \in Seq(Commands \cup {Garbage})
  /\ out["vm"] \in Seq(Commands)
  /\ in["vm"] \in Seq(Answers \cup {Garbage})
  /\ out["dbg"] \in Seq(Answers)
  /\ hand["dbg"] \in Commands \cup {NoPacket}
  /\ hand["vm"] \in Answers \cup {NoPacket}
  /\ \A s \in Sides : hand[s] # NoPacket <=> loop[s] = "sending"

ProxyTyped == ProxyTypeOK /\ Contents

Early == {"connecting", "vm_handshake", "dbg_handshake"}

(* A loop runs from "running" on, is cancelled after it, and with the other. *)
Stages ==
  /\ phase = "running" => \A s \in Sides : loop[s] # "none"
  /\ \A s \in Sides :
       /\ phase \in Early => loop[s] = "none"
       /\ phase \in Early \cup {"running"} => ~cancelled[s]
       /\ cancelled[s] => cancelled[Other(s)] \/ loop[Other(s)] = "ended"
       /\ link[s] = "lost" => rx[s] = "broken"

HasId(p) == p.kind \in {"command", "reply"}
IdOf(p) == IF HasId(p) THEN {p.id} ELSE {}
IdsOf(q) == {i \in Ids : \E k \in 1..Len(q) : HasId(q[k]) /\ q[k].id = i}
Distinct(q) ==
  \A j, k \in 1..Len(q) :
    HasId(q[j]) /\ HasId(q[k]) /\ q[j].id = q[k].id => j = k
OwedIds == {i \in Ids : \E p \in owed : p.id = i}

(* A command is in one place until its reply is with the debugger.          *)
InOnePlace ==
  /\ \A s \in Sides : Distinct(in[s]) /\ Distinct(out[s])
  /\ \A p, q \in owed : p.id = q.id => p = q
  /\ IdsOf(in["dbg"]) \cap
       (IdsOf(out["vm"]) \cup OwedIds \cup IdsOf(in["vm"]) \cup IdsOf(out["dbg"])) = {}
  /\ IdsOf(out["vm"]) \cap (OwedIds \cup IdsOf(in["vm"]) \cup IdsOf(out["dbg"])) = {}
  /\ OwedIds \cap (IdsOf(in["vm"]) \cup IdsOf(out["dbg"])) = {}
  /\ IdsOf(in["vm"]) \cap IdsOf(out["dbg"]) = {}
  /\ IdsOf(in["dbg"]) \cup IdsOf(out["vm"]) \cup OwedIds
       \cup IdsOf(in["vm"]) \cup IdsOf(out["dbg"]) \subseteq awaiting

(* From when it is sent on, the table has it under its id.                  *)
Registered ==
  /\ \A k \in 1..Len(out["vm"]) : outstanding[out["vm"][k].id] = out["vm"][k].n
  /\ \A p \in owed : outstanding[p.id] = p.n
  /\ \A k \in 1..Len(in["vm"]) :
       IsReply(in["vm"][k]) => outstanding[in["vm"][k].id] = in["vm"][k].n

(* The reply the VM loop is suspended with is nowhere but at the end of the *)
(* debugger's buffer, or else the loop is about to run.                     *)
ReplyInHand ==
  IsReply(hand["vm"]) =>
    /\ hand["vm"].id \notin IdsOf(in["dbg"]) \cup IdsOf(out["vm"]) \cup OwedIds
                              \cup IdsOf(in["vm"]) \cup idsizes
    /\ outstanding[hand["vm"].id] = hand["vm"].n
    /\ hand["vm"].n \in logged
    /\ paused["dbg"] =>
         /\ hand["vm"].id \in awaiting
         /\ out["dbg"] # <<>> => out["dbg"][Len(out["dbg"])] = hand["vm"]

VmReadable == loop["vm"] # "ended" /\ ~cancelled["vm"] /\ rx["vm"] # "broken"

(* While the VM is read from, a command whose reply can come is logged.     *)
LoggedBeforeReply ==
  VmReadable =>
    /\ \A k \in 1..Len(out["vm"]) :
         \/ out["vm"][k].n \in logged
         \/ k = Len(out["vm"]) /\ hand["dbg"] = out["vm"][k]
    /\ \A p \in owed : p.n \in logged \/ (hand["dbg"] = p /\ ~paused["vm"])
    /\ \A k \in 1..Len(in["vm"]) : IsReply(in["vm"][k]) => in["vm"][k].n \in logged

Going == phase \in Early \cup {"running"} /\ ~closeEvent

(* The entries of the tables.                                               *)
OpenEntries ==
  /\ \A i \in idsizes : outstanding[i] # 0
  /\ Going =>
       /\ \A i \in Ids : outstanding[i] # 0 =>
            i \in awaiting \/ (IsReply(hand["vm"]) /\ hand["vm"].id = i)
       /\ \A k \in 1..Len(out["dbg"]) :
            IsReply(out["dbg"][k]) =>
              \/ outstanding[out["dbg"][k].id] = 0
              \/ IsReply(hand["vm"]) /\ hand["vm"].id = out["dbg"][k].id

Sizing(p, ids) == IsReply(p) /\ p.outcome = "ok" /\ p.id \in ids

(* Who knows the VM's sizes was told by a reply the proxy has seen or will  *)
(* see first.                                                               *)
SizesFirst ==
  /\ \A k \in 1..Len(out["vm"]) :
       out["vm"][k].cmd = "idsizes" => out["vm"][k].id \in idsizes
  /\ \A p \in owed : p.cmd = "idsizes" => p.id \in idsizes
  /\ spec # "vm" =>
       /\ ~dtold
       /\ \A s \in Sides : ~hand[s].told
       /\ \A k \in 1..Len(in["dbg"]) : ~in["dbg"][k].told
       /\ \A k \in 1..Len(out["dbg"]) : ~out["dbg"][k].told
       /\ vtold => \E j \in 1..Len(in["vm"]) : Sizing(in["vm"][j], idsizes)
       /\ \A k \in 1..Len(in["vm"]) :
            in["vm"][k].told => \E j \in 1..k : Sizing(in["vm"][j], idsizes)

ProxyParts ==
  /\ InOnePlace
  /\ Registered
  /\ ReplyInHand
  /\ LoggedBeforeReply
  /\ OpenEntries
  /\ SizesFirst
  /\ LoggedAgainstOwnCommand
  /\ LoggedWithVmSizes

ProxyInv == ProxyTyped /\ Stages /\ ProxyParts

------------------------------------------------------------------------------
(* Packets and sequences of them.                                           *)
LEMMA CommandFields ==
  ASSUME NEW p \in Commands
  PROVE  /\ p.kind = "command" /\ p.n \in 1..MaxCommands /\ p.id \in Ids
         /\ p.cmd \in Kinds /\ p.told \in BOOLEAN
  BY DEF Commands, Command

LEMMA ReplyFields ==
  ASSUME NEW p \in Replies
  PROVE  /\ p.kind = "reply" /\ p.n \in 1..MaxCommands /\ p.id \in Ids
         /\ p.outcome \in Outcomes /\ p.told \in BOOLEAN
  BY CommandFields DEF Replies, Reply

LEMMA EventFields ==
  ASSUME NEW p \in Events
  PROVE  p.kind = "event" /\ p.n \in 1..MaxEvents /\ p.told \in BOOLEAN
  BY DEF Events, Event

LEMMA ConstantFields ==
  /\ Garbage.kind = "garbage" /\ Garbage.told = FALSE
  /\ NoPacket.kind = "none" /\ NoPacket.told = FALSE
  BY DEF Garbage, NoPacket

LEMMA PacketsSplit == Packets = Commands \cup Answers \cup {Garbage}
  BY DEF Packets, Answers, Replies, Events

LEMMA HeadTail ==
  ASSUME NEW S, NEW q \in Seq(S), q # <<>>
  PROVE  /\ Head(q) \in S /\ Tail(q) \in Seq(S)
         /\ Len(q) \in Nat \ {0} /\ Head(q) = q[1]
         /\ Len(Tail(q)) = Len(q) - 1
         /\ \A k \in 1..Len(Tail(q)) : k + 1 \in 1..Len(q) /\ Tail(q)[k] = q[k + 1]
  BY SMT

LEMMA AppendTo ==
  ASSUME NEW S, NEW q \in Seq(S), NEW e \in S
  PROVE  /\ Append(q, e) \in Seq(S) /\ Len(q) \in Nat
         /\ Len(Append(q, e)) = Len(q) + 1
         /\ \A k \in 1..Len(q) : Append(q, e)[k] = q[k]
         /\ Append(q, e)[Len(q) + 1] = e
  BY SMT

LEMMA SeqSubset ==
  ASSUME NEW S, NEW T, S \subseteq T, NEW q \in Seq(S)
  PROVE  q \in Seq(T)
  BY SMT

LEMMA OtherSide ==
  Sides = {"dbg", "vm"} /\ Other("dbg") = "vm" /\ Other("vm") = "dbg"
  BY DEF Sides, Other

------------------------------------------------------------------------------
(* What sending a packet on comes to.                                       *)
LEMMA PacketSentEffect ==
  ASSUME NEW s, NEW p, NEW table, PacketSent(s, p, table)
  PROVE  /\ LogLine(p, table)
         /\ hand' = [hand EXCEPT ![s] = NoPacket]
         /\ \E next \in {"receiving", "ended"} :
              /\ loop' = [loop EXCEPT ![s] = next]
              /\ next = "ended" => closeEvent'
         /\ \/ /\ closeEvent' = closeEvent
               /\ outstanding' = IF IsReply(p) THEN [table EXCEPT ![p.id] = 0] ELSE table
            \/ closeEvent' = TRUE /\ outstanding' = table
  BY DEF PacketSent, LogPacket, LogCallbackRaises

SentAtOnce(s, p, table) ==
  /\ out' = [out EXCEPT ![Other(s)] = Append(@, p)]
  /\ ~paused[Other(s)] /\ paused' = paused
  /\ PacketSent(s, p, table)

Suspended(s, p, table) ==
  /\ out' = [out EXCEPT ![Other(s)] = Append(@, p)]
  /\ paused' = [paused EXCEPT ![Other(s)] = TRUE]
  /\ loop' = [loop EXCEPT ![s] = "sending"]
  /\ hand' = [hand EXCEPT ![s] = p]
  /\ outstanding' = table
  /\ UNCHANGED <<closeEvent, logVars>>

SendRaises(s, table) ==
  /\ link[Other(s)] = "lost"
  /\ LoopEndsInError(s)
  /\ outstanding' = table
  /\ UNCHANGED <<out, paused>>

LEMMA ForwardCases ==
  ASSUME NEW s, NEW p, NEW table, Forward(s, p, table)
  PROVE  /\ in' = [in EXCEPT ![s] = Tail(@)]
         /\ UNCHANGED <<phase, cancelled, link, rx, peerVars>>
         /\ \/ SentAtOnce(s, p, table)
            \/ Suspended(s, p, table)
            \/ SendRaises(s, table)
  BY DEF Forward, SentAtOnce, Suspended, SendRaises, LoopEndsInError

------------------------------------------------------------------------------
(* Types.                                                                   *)
LEMMA SentTypes ==
  ASSUME ProxyTypeOK, NEW s \in Sides, NEW p \in Commands \cup Answers,
         NEW table \in [Ids -> 0..MaxCommands], PacketSent(s, p, table)
  PROVE  /\ closeEvent' \in BOOLEAN
         /\ loop' \in [Sides -> {"none", "receiving", "sending", "ended"}]
         /\ loop'[s] # "sending"
         /\ \A t \in Sides : t # s => loop'[t] = loop[t]
         /\ hand' = [hand EXCEPT ![s] = NoPacket]
         /\ outstanding' \in [Ids -> 0..MaxCommands]
         /\ log'.packet \in Packets \cup {NoPacket}
         /\ logged' \in SUBSET (1..MaxCommands)
  <1>1. /\ IsReply(p) => p.id \in Ids
        /\ p.kind = "command" => p.n \in 1..MaxCommands
    BY CommandFields, ReplyFields, EventFields DEF Answers, IsReply
  <1>2. p \in Packets
    BY PacketsSplit
  <1> USE DEF PacketSent, LogPacket, LogCallbackRaises
  <1>3. outstanding' \in [Ids -> 0..MaxCommands]
    BY <1>1, ProxyAssumption
  <1>4. log'.packet = p
    BY DEF LogLine
  <1>5. logged' \in SUBSET (1..MaxCommands)
    <2>1. \/ logged' = logged
          \/ p.kind = "command" /\ logged' = logged \cup {p.n}
      BY DEF LogLine
    <2>2. logged \in SUBSET (1..MaxCommands)
      BY DEF ProxyTypeOK
    <2> QED
      BY <1>1, <2>1, <2>2
  <1>6. /\ loop' \in [Sides -> {"none", "receiving", "sending", "ended"}]
        /\ loop'[s] # "sending"
        /\ \A t \in Sides : t # s => loop'[t] = loop[t]
    <2>1. \/ loop' = [loop EXCEPT ![s] = "receiving"]
          \/ loop' = [loop EXCEPT ![s] = "ended"]
      OBVIOUS
    <2> QED
      BY <2>1 DEF ProxyTypeOK
  <1> QED
    BY <1>2, <1>3, <1>4, <1>5, <1>6 DEF ProxyTypeOK

(* The packet a loop takes up.                                              *)
LEMMA HandledPacket ==
  ASSUME ProxyTyped, NEW s \in Sides, CanHandle(s)
  PROVE  /\ in[s] # <<>>
         /\ Head(in[s]) \in (IF s = "dbg" THEN Commands ELSE Answers)
         /\ Tail(in["dbg"]) \in Seq(Commands \cup {Garbage}) \/ s = "vm"
         /\ Tail(in["vm"]) \in Seq(Answers \cup {Garbage}) \/ s = "dbg"
         /\ Tail(in[s]) \in Seq(Packets)
         /\ Head(in[s]) \in Commands \cup Answers
  <1>1. in[s] # <<>> /\ Head(in[s]) # Garbage
    BY DEF CanHandle, Garbage
  <1>2. CASE s = "dbg"
    <2>1. /\ Head(in["dbg"]) \in Commands \cup {Garbage}
          /\ Tail(in["dbg"]) \in Seq(Commands \cup {Garbage})
      BY <1>1, <1>2, HeadTail DEF ProxyTyped, Contents
    <2>2. Tail(in["dbg"]) \in Seq(Packets)
      BY <2>1, PacketsSplit, SeqSubset
    <2> QED BY <1>1, <1>2, <2>1, <2>2
  <1>3. CASE s = "vm"
    <2>1. /\ Head(in["vm"]) \in Answers \cup {Garbage}
          /\ Tail(in["vm"]) \in Seq(Answers \cup {Garbage})
      BY <1>1, <1>3, HeadTail DEF ProxyTyped, Contents
    <2>2. Tail(in["vm"]) \in Seq(Packets)
      BY <2>1, PacketsSplit, SeqSubset
    <2> QED BY <1>1, <1>3, <2>1, <2>2
  <1> QED BY <1>2, <1>3 DEF Sides

LEMMA ForwardTypes ==
  ASSUME ProxyTyped, NEW s \in Sides, NEW p, p = Head(in[s]), CanHandle(s),
         NEW table \in [Ids -> 0..MaxCommands], Forward(s, p, table),
         spec' \in {"default", "vm"}, idsizes' \in SUBSET Ids
  PROVE  ProxyTyped'
  <1>1. /\ in' = [in EXCEPT ![s] = Tail(@)]
        /\ UNCHANGED <<phase, cancelled, link, rx, peerVars>>
    BY ForwardCases
  <1>2. /\ p \in (IF s = "dbg" THEN Commands ELSE Answers)
        /\ p \in Commands \cup Answers /\ p \in Packets
        /\ p # NoPacket
    BY HandledPacket, PacketsSplit, CommandFields, ReplyFields, EventFields,
       ConstantFields
    DEF Answers
  <1>3. /\ in' \in [Sides -> Seq(Packets)]
        /\ in'["dbg"] \in Seq(Commands \cup {Garbage})
        /\ in'["vm"] \in Seq(Answers \cup {Garbage})
    BY <1>1, HandledPacket DEF ProxyTyped, ProxyTypeOK, Contents, Sides
  <1>4. Other(s) \in Sides /\ (s = "dbg" <=> Other(s) = "vm")
    BY OtherSide
  <1>5. /\ Append(out[Other(s)], p) \in Seq(Packets)
        /\ s = "dbg" => Append(out["vm"], p) \in Seq(Commands)
        /\ s = "vm" => Append(out["dbg"], p) \in Seq(Answers)
    BY <1>2, <1>4, AppendTo DEF ProxyTyped, ProxyTypeOK, Contents
  <1>6. ASSUME out' = [out EXCEPT ![Other(s)] = Append(@, p)]
        PROVE  /\ out' \in [Sides -> Seq(Packets)]
               /\ out'["vm"] \in Seq(Commands)
               /\ out'["dbg"] \in Seq(Answers)
    BY <1>4, <1>5, <1>6, OtherSide DEF ProxyTyped, ProxyTypeOK, Contents
  <1>7. ASSUME hand' = [hand EXCEPT ![s] = p] \/ hand' = [hand EXCEPT ![s] = NoPacket]
        PROVE  /\ hand' \in [Sides -> Packets \cup {NoPacket}]
               /\ hand'["dbg"] \in Commands \cup {NoPacket}
               /\ hand'["vm"] \in Answers \cup {NoPacket}
    BY <1>2, <1>7, OtherSide DEF ProxyTyped, ProxyTypeOK, Contents
  <1>8. CASE SentAtOnce(s, p, table)
    <2>1. out' = [out EXCEPT ![Other(s)] = Append(@, p)] /\ paused' = paused
          /\ PacketSent(s, p, table)
      BY <1>8 DEF SentAtOnce
    <2>2. /\ closeEvent' \in BOOLEAN
          /\ loop' \in [Sides -> {"none", "receiving", "sending", "ended"}]
          /\ loop'[s] # "sending"
          /\ \A t \in Sides : t # s => loop'[t] = loop[t]
          /\ hand' = [hand EXCEPT ![s] = NoPacket]
          /\ outstanding' \in [Ids -> 0..MaxCommands]
          /\ log'.packet \in Packets \cup {NoPacket}
          /\ logged' \in SUBSET (1..MaxCommands)
      BY <1>2, <2>1, SentTypes DEF ProxyTyped
    <2>3. \A t \in Sides : hand'[t] # NoPacket <=> loop'[t] = "sending"
      BY <2>2 DEF ProxyTyped, ProxyTypeOK, Contents
    <2> QED
      BY <1>1, <1>3, <1>6, <1>7, <2>1, <2>2, <2>3
      DEF ProxyTyped, ProxyTypeOK, Contents, peerVars
  <1>9. CASE Suspended(s, p, table)
    <2>1. \A t \in Sides : hand'[t] # NoPacket <=> loop'[t] = "sending"
      BY <1>2, <1>9 DEF Suspended, ProxyTyped, ProxyTypeOK, Contents
    <2> QED
      BY <1>1, <1>3, <1>4, <1>6, <1>7, <1>9, <2>1
      DEF Suspended, ProxyTyped, ProxyTypeOK, Contents, peerVars, logVars
  <1>10. CASE SendRaises(s, table)
    <2>1. \A t \in Sides : hand'[t] # NoPacket <=> loop'[t] = "sending"
      BY <1>10 DEF SendRaises, LoopEndsInError, ProxyTyped, ProxyTypeOK, Contents
    <2> QED
      BY <1>1, <1>3, <1>7, <1>10, <2>1
      DEF SendRaises, LoopEndsInError, ProxyTyped, ProxyTypeOK, Contents, peerVars, logVars
  <1> QED BY <1>8, <1>9, <1>10, ForwardCases

(* A loop ends without having sent.                                         *)
LEMMA LoopEndTypes ==
  ASSUME ProxyTyped, NEW s \in Sides, hand' = [hand EXCEPT ![s] = NoPacket],
         loop' = [loop EXCEPT ![s] = "ended"]
  PROVE  /\ hand' \in [Sides -> Packets \cup {NoPacket}]
         /\ loop' \in [Sides -> {"none", "receiving", "sending", "ended"}]
         /\ hand'["dbg"] \in Commands \cup {NoPacket}
         /\ hand'["vm"] \in Answers \cup {NoPacket}
         /\ \A t \in Sides : hand'[t] # NoPacket <=> loop'[t] = "sending"
  BY OtherSide DEF ProxyTyped, ProxyTypeOK, Contents

LEMMA HandlerTypes ==
  ASSUME ProxyTyped,
         HandleDebuggerPacket \/ HandleVmPacket \/ HandleUnusableReply
  PROVE  ProxyTyped'
  <1>1. CASE HandleDebuggerPacket
    <2> DEFINE p == Head(in["dbg"])
               table == [outstanding EXCEPT ![p.id] = p.n]
    <2>1. CanHandle("dbg") /\ "dbg" \in Sides /\ Forward("dbg", p, table)
          /\ spec' = spec
          /\ idsizes' = IF p.cmd = "idsizes" THEN idsizes \cup {p.id} ELSE idsizes
      BY <1>1 DEF HandleDebuggerPacket, Sides
    <2>2. p \in Commands
      BY <2>1, HandledPacket
    <2>3. p.id \in Ids /\ p.n \in 0..MaxCommands
      BY <2>2, CommandFields, ProxyAssumption
    <2>4. table \in [Ids -> 0..MaxCommands] /\ idsizes' \in SUBSET Ids
          /\ spec' \in {"default", "vm"}
      BY <2>1, <2>3 DEF ProxyTyped, ProxyTypeOK
    <2> HIDE DEF table
    <2> QED BY <2>1, <2>4, ForwardTypes
  <1>2. CASE HandleVmPacket
    <2> DEFINE p == Head(in["vm"])
    <2>1. CanHandle("vm") /\ "vm" \in Sides /\ InterceptIdSizes(p)
          /\ Forward("vm", p, outstanding)
      BY <1>2 DEF HandleVmPacket, Sides
    <2>2. outstanding \in [Ids -> 0..MaxCommands] /\ idsizes' \in SUBSET Ids
          /\ spec' \in {"default", "vm"}
      BY <2>1 DEF InterceptIdSizes, ProxyTyped, ProxyTypeOK
    <2> QED BY <2>1, <2>2, ForwardTypes
  <1>3. CASE HandleUnusableReply
    <2>1. CanHandle("vm") /\ "vm" \in Sides /\ InterceptIdSizes(Head(in["vm"]))
          /\ in' = [in EXCEPT !["vm"] = Tail(@)] /\ LoopEndsInError("vm")
      BY <1>3 DEF HandleUnusableReply, Sides
    <2>2. Tail(in["vm"]) \in Seq(Answers \cup {Garbage})
          /\ Tail(in["vm"]) \in Seq(Packets)
      BY <2>1, HandledPacket
    <2>3. idsizes' \in SUBSET Ids /\ spec' \in {"default", "vm"}
      BY <2>1 DEF InterceptIdSizes, ProxyTyped, ProxyTypeOK
    <2>4. /\ in' \in [Sides -> Seq(Packets)]
          /\ in'["vm"] \in Seq(Answers \cup {Garbage}) /\ in'["dbg"] = in["dbg"]
      BY <2>1, <2>2 DEF ProxyTyped, ProxyTypeOK, Sides
    <2> QED
      BY <1>3, <2>1, <2>3, <2>4, LoopEndTypes
      DEF HandleUnusableReply, LoopEndsInError, ProxyTyped, ProxyTypeOK, Contents,
          peerVars, logVars
  <1> QED BY <1>1, <1>2, <1>3

LEMMA LoopStepTypes ==
  ASSUME ProxyTyped, NEW s \in Sides, LoopStep(s)
  PROVE  ProxyTyped'
  <1>1. CASE Drained(s)
    <2>1. /\ loop[s] = "sending" /\ PacketSent(s, hand[s], outstanding)
          /\ UNCHANGED <<spec, idsizes, phase, cancelled, netVars, peerVars>>
      BY <1>1 DEF Drained
    <2>2. hand[s] \in Commands \cup Answers
      BY <2>1 DEF ProxyTyped, Contents, Sides
    <2>3. /\ closeEvent' \in BOOLEAN
          /\ loop' \in [Sides -> {"none", "receiving", "sending", "ended"}]
          /\ loop'[s] # "sending"
          /\ \A t \in Sides : t # s => loop'[t] = loop[t]
          /\ hand' = [hand EXCEPT ![s] = NoPacket]
          /\ outstanding' \in [Ids -> 0..MaxCommands]
          /\ log'.packet \in Packets \cup {NoPacket}
          /\ logged' \in SUBSET (1..MaxCommands)
      BY <2>1, <2>2, SentTypes DEF ProxyTyped, ProxyTypeOK
    <2>4. /\ \A t \in Sides : hand'[t] # NoPacket <=> loop'[t] = "sending"
          /\ hand' \in [Sides -> Packets \cup {NoPacket}]
          /\ hand'["dbg"] \in Commands \cup {NoPacket}
          /\ hand'["vm"] \in Answers \cup {NoPacket}
      BY <2>3, OtherSide DEF ProxyTyped, ProxyTypeOK, Contents
    <2> QED
      BY <2>1, <2>3, <2>4
      DEF ProxyTyped, ProxyTypeOK, Contents, netVars, peerVars
  <1>2. CASE DrainFails(s) \/ ReceiveFails(s) \/ LoopCancelled(s)
    <2>1. /\ loop' = [loop EXCEPT ![s] = "ended"]
          /\ hand' = [hand EXCEPT ![s] = NoPacket]
          /\ closeEvent' \in BOOLEAN
          /\ UNCHANGED <<phase, cancelled, logVars, tableVars, netVars, peerVars>>
      BY <1>2
      DEF DrainFails, ReceiveFails, LoopCancelled, LoopEndsInError, runVars,
          ProxyTyped, ProxyTypeOK
    <2> QED
      BY <2>1, LoopEndTypes
      DEF ProxyTyped, ProxyTypeOK, Contents, logVars, tableVars, netVars, peerVars
  <1> QED BY <1>1, <1>2 DEF LoopStep

LEMMA SessionTypes ==
  ASSUME ProxyTyped, Stages,
         \/ OpenVmConnection \/ VmShakes \/ DebuggerShakes \/ CreateFails
         \/ RunCancelled \/ RunStep
         \/ \E s \in Sides : HangsUp(s) \/ LinkClosed(s)
  PROVE  ProxyTyped'
  <1> USE DEF ProxyTyped, ProxyTypeOK, Contents, loopVars, tableVars, netVars,
              peerVars, logVars, runVars
  <1> DEFINE States == {"none", "up", "closing", "closed", "lost"}
  <1>1. ASSUME NEW s \in Sides
        PROVE  CloseLink(s) \in [Sides -> States]
    BY DEF CloseLink
  <1>2. CASE OpenVmConnection
    BY <1>2 DEF OpenVmConnection
  <1>3. CASE VmShakes
    BY <1>3 DEF VmShakes
  <1>4. CASE CreateFails
    <2>1. link' \in [Sides -> States]
      <3>1. \/ link' = CloseLink("dbg")
            \/ link' = [CloseLink("dbg") EXCEPT !["vm"] = "closing"]
        BY <1>4 DEF CreateFails
      <3>2. ASSUME NEW l \in [Sides -> States]
            PROVE  [l EXCEPT !["vm"] = "closing"] \in [Sides -> States]
        BY DEF Sides
      <3>3. CloseLink("dbg") \in [Sides -> States]
        BY <1>1 DEF Sides
      <3> QED BY <3>1, <3>2, <3>3
    <2> QED BY <1>4, <2>1 DEF CreateFails
  <1>5. CASE DebuggerShakes
    <2>1. \A s \in Sides : loop'[s] = "receiving" /\ hand[s] = NoPacket
      BY <1>5 DEF DebuggerShakes, Both, Stages, Early
    <2>2. loop' \in [Sides -> {"none", "receiving", "sending", "ended"}]
      BY <1>5 DEF DebuggerShakes, Both
    <2> QED BY <1>5, <2>1, <2>2 DEF DebuggerShakes
  <1>6. CASE RunCancelled \/ RunStops
    <2>1. cancelled' \in [Sides -> BOOLEAN]
      <3>1. cancelled' = [s \in Sides |-> Running(s)]
        BY <1>6 DEF RunCancelled, RunStops, StopLoops
      <3>2. \A s \in Sides : Running(s) \in BOOLEAN
        BY DEF Running
      <3> QED BY <3>1, <3>2, Zenon
    <2> QED BY <1>6, <2>1 DEF RunCancelled, RunStops, StopLoops
  <1>7. CASE CloseDebugger \/ CloseVm
    <2>1. link' \in [Sides -> States]
      BY <1>1, <1>7, OtherSide DEF CloseDebugger, CloseVm
    <2> QED BY <1>7, <2>1 DEF CloseDebugger, CloseVm
  <1>8. CASE CloseDebuggerRaises \/ RunEnds
    BY <1>8 DEF CloseDebuggerRaises, RunEnds
  <1>9. ASSUME NEW s \in Sides, HangsUp(s)
        PROVE  ProxyTyped'
    BY <1>9 DEF HangsUp
  <1>10. ASSUME NEW s \in Sides, LinkClosed(s)
         PROVE  ProxyTyped'
    BY <1>10 DEF LinkClosed
  <1> QED
    BY <1>2, <1>3, <1>4, <1>5, <1>6, <1>7, <1>8, <1>9, <1>10 DEF RunStep

(* A packet arrives: each sender's packets are what its side can hold.      *)
LEMMA ArrivalTypes ==
  ASSUME ProxyTyped, NEW s \in Sides, NEW p, Arrives(s, p),
         p \in (IF s = "dbg" THEN Commands ELSE Answers) \cup {Garbage}
  PROVE  /\ in' \in [Sides -> Seq(Packets)]
         /\ in'["dbg"] \in Seq(Commands \cup {Garbage})
         /\ in'["vm"] \in Seq(Answers \cup {Garbage})
         /\ UNCHANGED <<phase, closeEvent, loop, cancelled, hand, spec, idsizes,
                        outstanding, link, rx, out, paused, log, logged>>
  <1>1. in' = [in EXCEPT ![s] = Append(@, p)]
    BY DEF Arrives
  <1>2. p \in Packets
    BY PacketsSplit
  <1>3. Append(in[s], p) \in Seq(Packets)
    BY <1>2, AppendTo DEF ProxyTyped, ProxyTypeOK
  <1>4. /\ s = "dbg" => Append(in["dbg"], p) \in Seq(Commands \cup {Garbage})
        /\ s = "vm" => Append(in["vm"], p) \in Seq(Answers \cup {Garbage})
    BY AppendTo DEF ProxyTyped, Contents
  <1> QED
    BY <1>1, <1>3, <1>4, OtherSide
    DEF Arrives, runVars, loopVars, tableVars, logVars, ProxyTyped, ProxyTypeOK, Contents

LEMMA PeerSendTypes ==
  ASSUME ProxyTyped,
         \/ \E i \in Ids, cmd \in Kinds : DebuggerSends(i, cmd)
         \/ \E p \in owed, outcome \in Outcomes : VmReplies(p, outcome)
         \/ VmSendsEvent
         \/ \E s \in Sides : SendsGarbage(s)
  PROVE  ProxyTyped'
  <1>1. ASSUME NEW i \in Ids, NEW cmd \in Kinds, DebuggerSends(i, cmd)
        PROVE  ProxyTyped'
    <2>1. dsent' = dsent + 1 /\ dsent' \in 1..MaxCommands
          /\ awaiting' \in SUBSET Ids
      BY <1>1, ProxyAssumption DEF DebuggerSends, ProxyTyped, ProxyTypeOK
    <2>2. Command(dsent', i, cmd, dtold) \in Commands
      BY <2>1 DEF Commands, ProxyTyped, ProxyTypeOK
    <2>3. Arrives("dbg", Command(dsent', i, cmd, dtold)) /\ "dbg" \in Sides
      BY <1>1, OtherSide DEF DebuggerSends
    <2>4. /\ in' \in [Sides -> Seq(Packets)]
          /\ in'["dbg"] \in Seq(Commands \cup {Garbage})
          /\ in'["vm"] \in Seq(Answers \cup {Garbage})
          /\ UNCHANGED <<phase, closeEvent, loop, cancelled, hand, spec, idsizes,
                         outstanding, link, rx, out, paused, log, logged>>
      BY <2>2, <2>3, ArrivalTypes
    <2> QED
      BY <1>1, <2>1, <2>4 DEF DebuggerSends, ProxyTyped, ProxyTypeOK, Contents
  <1>2. ASSUME NEW p \in owed, NEW outcome \in Outcomes, VmReplies(p, outcome)
        PROVE  ProxyTyped'
    <2>1. vtold' \in BOOLEAN /\ owed' \in SUBSET Commands /\ p \in Commands
      BY <1>2 DEF VmReplies, ProxyTyped, ProxyTypeOK
    <2>2. Reply(p, outcome, vtold') \in Answers
      BY <2>1 DEF Answers, Replies
    <2>3. Arrives("vm", Reply(p, outcome, vtold')) /\ "vm" \in Sides
      BY <1>2, OtherSide DEF VmReplies
    <2>4. /\ in' \in [Sides -> Seq(Packets)]
          /\ in'["dbg"] \in Seq(Commands \cup {Garbage})
          /\ in'["vm"] \in Seq(Answers \cup {Garbage})
          /\ UNCHANGED <<phase, closeEvent, loop, cancelled, hand, spec, idsizes,
                         outstanding, link, rx, out, paused, log, logged>>
      BY <2>2, <2>3, ArrivalTypes
    <2> QED
      BY <1>2, <2>1, <2>4 DEF VmReplies, ProxyTyped, ProxyTypeOK, Contents
  <1>3. CASE VmSendsEvent
    <2>1. vsent' \in 1..MaxEvents /\ vtold \in BOOLEAN
      BY <1>3, ProxyAssumption DEF VmSendsEvent, ProxyTyped, ProxyTypeOK
    <2>2. Event(vsent', vtold) \in Answers
      BY <2>1 DEF Answers, Events
    <2>3. Arrives("vm", Event(vsent', vtold)) /\ "vm" \in Sides
      BY <1>3, OtherSide DEF VmSendsEvent
    <2>4. /\ in' \in [Sides -> Seq(Packets)]
          /\ in'["dbg"] \in Seq(Commands \cup {Garbage})
          /\ in'["vm"] \in Seq(Answers \cup {Garbage})
          /\ UNCHANGED <<phase, closeEvent, loop, cancelled, hand, spec, idsizes,
                         outstanding, link, rx, out, paused, log, logged>>
      BY <2>2, <2>3, ArrivalTypes
    <2> QED
      BY <1>3, <2>1, <2>4 DEF VmSendsEvent, ProxyTyped, ProxyTypeOK, Contents
  <1>4. ASSUME NEW s \in Sides, SendsGarbage(s)
        PROVE  ProxyTyped'
    BY <1>4, ArrivalTypes
    DEF SendsGarbage, peerVars, ProxyTyped, ProxyTypeOK, Contents
  <1> QED BY <1>1, <1>2, <1>3, <1>4

LEMMA NetworkTypes ==
  ASSUME ProxyTyped, NEW s \in Sides, PeerTakes(s) \/ LinkLost(s)
  PROVE  ProxyTyped'
  <1>1. CASE PeerTakes(s)
    <2> DEFINE p == Head(out[s])
    <2>1. out[s] # <<>> /\ out' = [out EXCEPT ![s] = Tail(@)]
      BY <1>1 DEF PeerTakes
    <2>2. p \in Packets /\ Tail(out[s]) \in Seq(Packets)
      BY <2>1, HeadTail DEF ProxyTyped, ProxyTypeOK
    <2>3. /\ s = "vm" => p \in Commands /\ Tail(out["vm"]) \in Seq(Commands)
          /\ s = "dbg" => p \in Answers /\ Tail(out["dbg"]) \in Seq(Answers)
      BY <2>1, HeadTail DEF ProxyTyped, Contents
    <2>4. /\ out' \in [Sides -> Seq(Packets)]
          /\ out'["vm"] \in Seq(Commands) /\ out'["dbg"] \in Seq(Answers)
      BY <2>1, <2>2, <2>3, OtherSide DEF ProxyTyped, ProxyTypeOK, Contents
    <2>5. took' \in [Sides -> Packets \cup {NoPacket}]
      BY <1>1, <2>2 DEF PeerTakes, ProxyTyped, ProxyTypeOK
    <2>6. owed' \in SUBSET Commands
      BY <1>1, <2>3 DEF PeerTakes, ProxyTyped, ProxyTypeOK
    <2>7. awaiting' \in SUBSET Ids
      BY <1>1 DEF PeerTakes, ProxyTyped, ProxyTypeOK
    <2>8. dtold' \in BOOLEAN
      <3>1. dtold \in BOOLEAN /\ (s = "dbg" => p.told \in BOOLEAN)
        BY <2>3, ReplyFields, EventFields DEF ProxyTyped, ProxyTypeOK, Answers
      <3>2. dtold' = IF s = "dbg" THEN dtold \/ p.told ELSE dtold
        BY <1>1 DEF PeerTakes
      <3> QED BY <3>1, <3>2, Zenon
    <2>9. paused' \in [Sides -> BOOLEAN]
      BY <1>1 DEF PeerTakes, ProxyTyped, ProxyTypeOK
    <2>10. UNCHANGED <<phase, closeEvent, loop, cancelled, hand, spec, idsizes,
                       outstanding, log, logged, link, rx, in, dsent, vtold, vsent>>
      BY <1>1 DEF PeerTakes, runVars, loopVars, tableVars, logVars
    <2> QED
      BY <2>4, <2>5, <2>6, <2>7, <2>8, <2>9, <2>10 DEF ProxyTyped, ProxyTypeOK, Contents
  <1>2. CASE LinkLost(s)
    <2>1. \A S : <<>> \in Seq(S)
      OBVIOUS
    <2>2. /\ out' \in [Sides -> Seq(Packets)]
          /\ out'["vm"] \in Seq(Commands) /\ out'["dbg"] \in Seq(Answers)
      BY <1>2, <2>1, OtherSide DEF LinkLost, ProxyTyped, ProxyTypeOK, Contents
    <2> QED
      BY <1>2, <2>2
      DEF LinkLost, ProxyTyped, ProxyTypeOK, Contents, runVars, loopVars, tableVars,
          peerVars, logVars
  <1> QED BY <1>1, <1>2

------------------------------------------------------------------------------
(* The stages of a session.                                                 *)
LEMMA StagesStep ==
  ASSUME ProxyTyped, Stages, [ProxyNext]_vars
  PROVE  Stages'
  <1>0. /\ loop \in [Sides -> {"none", "receiving", "sending", "ended"}]
        /\ cancelled \in [Sides -> BOOLEAN]
        /\ link \in [Sides -> {"none", "up", "closing", "closed", "lost"}]
        /\ rx \in [Sides -> {"open", "eof", "broken"}]
    BY DEF ProxyTyped, ProxyTypeOK
  <1> USE <1>0, OtherSide DEF Stages, Early
  <1>1. CASE UNCHANGED vars
    BY <1>1 DEF vars, runVars, loopVars, netVars
  <1>2. CASE OpenVmConnection \/ VmShakes \/ DebuggerShakes \/ CreateFails
    BY <1>2
    DEF OpenVmConnection, VmShakes, DebuggerShakes, CreateFails, CloseLink, Both,
        loopVars, netVars
  <1>3. ASSUME NEW s \in Sides, NEW next \in {"receiving", "sending", "ended"},
               Running(s), loop' = [loop EXCEPT ![s] = next],
               UNCHANGED <<phase, cancelled, link, rx>>
        PROVE  Stages'
    <2>1. \A t \in Sides : loop'[t] = loop[t] \/ (t = s /\ loop'[t] = next)
      BY <1>3
    <2>2. loop[s] \in {"receiving", "sending"}
      BY <1>3 DEF Running
    <2>3. \A t \in Sides : Other(t) \in Sides
      OBVIOUS
    <2>4. \A t \in Sides : loop'[t] = "ended" \/ loop[t] # "ended"
      BY <2>1, <2>2
    <2>5. \A t \in Sides : /\ loop[t] # "none" => loop'[t] # "none"
                          /\ phase \in Early => loop'[t] = "none"
      BY <2>1, <2>2
    <2> QED BY <1>3, <2>3, <2>4, <2>5
  <1>4. CASE HandleDebuggerPacket \/ HandleVmPacket
    <2>1. PICK s \in Sides :
            CanHandle(s) /\ \E p, table : Forward(s, p, table)
      BY <1>4 DEF HandleDebuggerPacket, HandleVmPacket
    <2>2. /\ UNCHANGED <<phase, cancelled, link, rx>>
          /\ \E next \in {"receiving", "sending", "ended"} :
               loop' = [loop EXCEPT ![s] = next]
      BY <2>1
      DEF Forward, PacketSent, LogPacket, LogCallbackRaises, LoopEndsInError
    <2> QED BY <1>3, <2>1, <2>2 DEF CanHandle, Running
  <1>5. CASE HandleUnusableReply
    BY <1>3, <1>5 DEF HandleUnusableReply, LoopEndsInError, CanHandle, Running
  <1>6. ASSUME NEW s \in Sides, LoopStep(s)
        PROVE  Stages'
    <2>1. /\ Running(s)
          /\ UNCHANGED <<phase, cancelled, link, rx>>
          /\ \E next \in {"receiving", "sending", "ended"} :
               loop' = [loop EXCEPT ![s] = next]
      BY <1>6
      DEF LoopStep, Drained, DrainFails, ReceiveFails, LoopCancelled, Running,
          PacketSent, LogPacket, LogCallbackRaises, LoopEndsInError, runVars, netVars
    <2>2. PICK next \in {"receiving", "sending", "ended"} :
            loop' = [loop EXCEPT ![s] = next]
      BY <2>1
    <2> HIDE DEF Stages
    <2> QED BY <1>3, <2>1, <2>2
  <1>7. CASE RunCancelled \/ RunStops
    <2>1. /\ phase = "running" /\ phase' = "joining"
          /\ cancelled' = [s \in Sides |-> Running(s)]
          /\ UNCHANGED <<loop, link, rx>>
      BY <1>7 DEF RunCancelled, RunStops, StopLoops, netVars
    <2>2. \A s \in Sides : cancelled'[s] = Running(s)
      BY <2>1
    <2>3. \A s \in Sides : Running(s) \/ loop[s] = "ended"
      BY <2>1 DEF Running
    <2>4. \A s \in Sides : Other(s) \in Sides
      OBVIOUS
    <2>5. \A s \in Sides : cancelled'[Other(s)] \/ loop'[Other(s)] = "ended"
      BY <2>1, <2>2, <2>3, <2>4
    <2>6. \A s \in Sides : link'[s] = "lost" => rx'[s] = "broken"
      BY <2>1
    <2> QED BY <2>1, <2>5, <2>6
  <1>8. CASE CloseDebugger \/ CloseVm \/ CloseDebuggerRaises \/ RunEnds
    BY <1>8
    DEF CloseDebugger, CloseVm, CloseDebuggerRaises, RunEnds, CloseLink, loopVars,
        netVars
  <1>9. ASSUME NEW s \in Sides, SendsGarbage(s) \/ PeerTakes(s) \/ HangsUp(s)
                               \/ LinkLost(s) \/ LinkClosed(s)
        PROVE  Stages'
    BY <1>9
    DEF SendsGarbage, PeerTakes, HangsUp, LinkLost, LinkClosed, Arrives, runVars,
        loopVars
  <1>10. CASE \/ \E i \in Ids, cmd \in Kinds : DebuggerSends(i, cmd)
              \/ \E p \in owed, outcome \in Outcomes : VmReplies(p, outcome)
              \/ VmSendsEvent
    BY <1>10
    DEF DebuggerSends, VmReplies, VmSendsEvent, Arrives, runVars, loopVars
  <1> QED
    BY <1>1, <1>2, <1>4, <1>5, <1>6, <1>7, <1>8, <1>9, <1>10 DEF ProxyNext, RunStep

LEMMA TypesStep ==
  ASSUME ProxyTyped, Stages, [ProxyNext]_vars
  PROVE  ProxyTyped'
  <1>1. CASE UNCHANGED vars
    BY <1>1
    DEF vars, runVars, loopVars, tableVars, netVars, peerVars, logVars, ProxyTyped,
        ProxyTypeOK, Contents
  <1> QED
    BY <1>1, HandlerTypes, LoopStepTypes, SessionTypes, PeerSendTypes, NetworkTypes
    DEF ProxyNext

------------------------------------------------------------------------------
(* The ids in a sequence.                                                   *)
LEMMA PacketId ==
  ASSUME NEW p \in Packets, HasId(p)
  PROVE  p.id \in Ids
  BY PacketsSplit, CommandFields, ReplyFields, EventFields, ConstantFields
  DEF HasId, Answers

LEMMA IdsAppend ==
  ASSUME NEW q \in Seq(Packets), NEW p \in Packets
  PROVE  /\ IdsOf(Append(q, p)) = IdsOf(q) \cup IdOf(p)
         /\ Distinct(q) /\ IdOf(p) \cap IdsOf(q) = {} => Distinct(Append(q, p))
  <1> DEFINE r == Append(q, p)
  <1>1. /\ Len(q) \in Nat /\ Len(r) = Len(q) + 1
        /\ \A k \in 1..Len(q) : r[k] = q[k]
        /\ r[Len(q) + 1] = p
    BY AppendTo
  <1>2. HasId(p) => p.id \in Ids
    BY PacketId
  <1> HIDE DEF r
  <1>3. \A k \in 1..Len(r) : k \in 1..Len(q) \/ k = Len(q) + 1
    BY <1>1
  <1>4. 1..Len(q) \subseteq 1..Len(r) /\ Len(q) + 1 \in 1..Len(r)
    BY <1>1
  <1>5. IdsOf(r) = IdsOf(q) \cup IdOf(p)
    BY <1>1, <1>2, <1>3, <1>4 DEF IdsOf, IdOf
  <1>6. ASSUME Distinct(q), IdOf(p) \cap IdsOf(q) = {}
        PROVE  Distinct(r)
    <2> SUFFICES ASSUME NEW j \in 1..Len(r), NEW k \in 1..Len(r),
                        HasId(r[j]), HasId(r[k]), r[j].id = r[k].id
                 PROVE  j = k
      BY DEF Distinct
    <2>1. ASSUME NEW m \in 1..Len(q), HasId(q[m]), HasId(p)
          PROVE  q[m].id # p.id
      BY <1>2, <1>6, <2>1 DEF IdsOf, IdOf
    <2> QED BY <1>1, <1>3, <1>6, <2>1 DEF Distinct
  <1> QED BY <1>5, <1>6 DEF r

LEMMA IdsTail ==
  ASSUME NEW q \in Seq(Packets), q # <<>>
  PROVE  /\ IdsOf(q) = IdOf(Head(q)) \cup IdsOf(Tail(q))
         /\ Distinct(q) => Distinct(Tail(q)) /\ IdOf(Head(q)) \cap IdsOf(Tail(q)) = {}
  <1> DEFINE r == Tail(q)
  <1>1. /\ Head(q) \in Packets /\ Len(q) \in Nat \ {0} /\ Head(q) = q[1]
        /\ Len(r) = Len(q) - 1
        /\ \A k \in 1..Len(r) : k + 1 \in 1..Len(q) /\ r[k] = q[k + 1]
    BY HeadTail
  <1>2. HasId(Head(q)) => Head(q).id \in Ids
    BY <1>1, PacketId
  <1> HIDE DEF r
  <1>3. \A k \in 1..Len(q) : k = 1 \/ (k - 1 \in 1..Len(r) /\ q[k] = r[k - 1])
    BY <1>1
  <1>4. 1 \in 1..Len(q)
    BY <1>1
  <1>5. IdsOf(q) = IdOf(Head(q)) \cup IdsOf(r)
    <2>1. ASSUME NEW i \in IdsOf(q)
          PROVE  i \in IdOf(Head(q)) \cup IdsOf(r)
      BY <1>1, <1>3, <2>1 DEF IdsOf, IdOf
    <2>2. ASSUME NEW i \in IdOf(Head(q)) \cup IdsOf(r)
          PROVE  i \in IdsOf(q)
      BY <1>1, <1>2, <1>4, <2>2 DEF IdsOf, IdOf
    <2> QED BY <2>1, <2>2
  <1>6. ASSUME Distinct(q)
        PROVE  Distinct(r) /\ IdOf(Head(q)) \cap IdsOf(r) = {}
    <2>1. Distinct(r)
      <3> SUFFICES ASSUME NEW j \in 1..Len(r), NEW k \in 1..Len(r),
                          HasId(r[j]), HasId(r[k]), r[j].id = r[k].id
                   PROVE  j = k
        BY DEF Distinct
      <3>1. j + 1 = k + 1
        BY <1>1, <1>6 DEF Distinct
      <3> QED BY <3>1
    <2>2. ASSUME NEW k \in 1..Len(r), HasId(r[k]), HasId(Head(q))
          PROVE  r[k].id # Head(q).id
      <3>1. k + 1 # 1
        OBVIOUS
      <3> QED BY <1>1, <1>4, <1>6, <2>2, <3>1 DEF Distinct
    <2> QED BY <2>1, <2>2 DEF IdsOf, IdOf
  <1> QED BY <1>5, <1>6 DEF r

LEMMA IdsEmpty == IdsOf(<<>>) = {} /\ Distinct(<<>>)
  BY DEF IdsOf, Distinct

LEMMA IdsMember ==
  ASSUME NEW q \in Seq(Packets), NEW k \in 1..Len(q), HasId(q[k])
  PROVE  q[k].id \in IdsOf(q)
  BY PacketId DEF IdsOf

------------------------------------------------------------------------------
(* Steps that move no packet.                                               *)
LEMMA QuietStep ==
  ASSUME ProxyInv,
         UNCHANGED <<in, out, paused, owed, awaiting, outstanding, idsizes, spec,
                     dtold, vtold, log, logged>>,
         \A s \in Sides : hand'[s] = hand[s] \/ hand'[s] = NoPacket,
         VmReadable' => VmReadable /\ hand'["dbg"] = hand["dbg"],
         Going' => Going /\ hand'["vm"] = hand["vm"]
  PROVE  ProxyParts'
  <1> USE DEF ProxyInv, ProxyParts
  <1>1. InOnePlace'
    BY DEF InOnePlace, OwedIds
  <1>2. Registered'
    BY DEF Registered
  <1>3. ReplyInHand'
    BY ConstantFields, OtherSide DEF ReplyInHand, IsReply, OwedIds
  <1>4. LoggedBeforeReply'
    BY DEF LoggedBeforeReply
  <1>5. OpenEntries'
    BY DEF OpenEntries
  <1>6. SizesFirst'
    <2>1. \A s \in Sides : ~hand[s].told => ~hand'[s].told
      BY ConstantFields
    <2>2. \A p : Sizing(p, idsizes') <=> Sizing(p, idsizes)
      BY DEF Sizing
    <2> QED BY <2>1, <2>2 DEF SizesFirst
  <1>7. LoggedAgainstOwnCommand' /\ LoggedWithVmSizes'
    BY DEF LoggedAgainstOwnCommand, LoggedWithVmSizes
  <1> QED BY <1>1, <1>2, <1>3, <1>4, <1>5, <1>6, <1>7

LEMMA QuietSteps ==
  ASSUME ProxyInv,
         \/ OpenVmConnection \/ VmShakes \/ DebuggerShakes \/ CreateFails
         \/ RunCancelled \/ RunStep \/ UNCHANGED vars
         \/ \E s \in Sides : HangsUp(s) \/ LinkClosed(s) \/ DrainFails(s)
                               \/ ReceiveFails(s) \/ LoopCancelled(s)
  PROVE  ProxyParts'
  <1> DEFINE Still == UNCHANGED <<in, out, paused, owed, awaiting, outstanding,
                                  idsizes, spec, dtold, vtold, log, logged>>
  <1>0. /\ loop \in [Sides -> {"none", "receiving", "sending", "ended"}]
        /\ rx \in [Sides -> {"open", "eof", "broken"}]
        /\ cancelled \in [Sides -> BOOLEAN]
        /\ hand \in [Sides -> Packets \cup {NoPacket}]
    BY DEF ProxyInv, ProxyTyped, ProxyTypeOK
  <1>1. ASSUME Still, hand' = hand, VmReadable' => VmReadable, Going' => Going
        PROVE  ProxyParts'
    BY <1>1, QuietStep
  <1>2. CASE \/ OpenVmConnection \/ VmShakes \/ CreateFails \/ RunCancelled \/ RunStep
             \/ UNCHANGED vars
    <2>1. Still /\ hand' = hand
      BY <1>2
      DEF OpenVmConnection, VmShakes, CreateFails, RunCancelled, RunStep, RunStops,
          StopLoops, CloseDebugger, CloseVm, CloseDebuggerRaises, RunEnds, vars,
          loopVars, tableVars, netVars, peerVars, logVars
    <2>2. Going' => Going
      BY <1>2
      DEF OpenVmConnection, VmShakes, CreateFails, RunCancelled, RunStep, RunStops,
          StopLoops, CloseDebugger, CloseVm, CloseDebuggerRaises, RunEnds, vars,
          runVars, Going, Early
    <2>3. VmReadable' => VmReadable
      <3>1. CASE RunCancelled \/ RunStops
        <4>1. loop' = loop /\ rx' = rx /\ cancelled' = [s \in Sides |-> Running(s)]
          BY <3>1 DEF RunCancelled, RunStops, StopLoops, loopVars, netVars
        <4>2. phase = "running"
          BY <3>1 DEF RunCancelled, RunStops, StopLoops
        <4>3. ~cancelled["vm"]
          BY <4>2, OtherSide DEF ProxyInv, Stages
        <4> QED BY <4>1, <4>3 DEF VmReadable
      <3>2. CASE ~(RunCancelled \/ RunStops)
        <4>1. UNCHANGED <<loop, cancelled, rx>>
          BY <1>2, <3>2
          DEF OpenVmConnection, VmShakes, CreateFails, RunStep, CloseDebugger, CloseVm,
              CloseDebuggerRaises, RunEnds, vars, loopVars, netVars
        <4> QED BY <4>1 DEF VmReadable
      <3> QED BY <3>1, <3>2
    <2> QED BY <1>1, <2>1, <2>2, <2>3
  <1>3. CASE DebuggerShakes
    <2>1. Still /\ hand' = hand /\ UNCHANGED <<cancelled, rx>>
      BY <1>3 DEF DebuggerShakes, tableVars, netVars, peerVars, logVars
    <2>2. phase = "dbg_handshake" /\ closeEvent' = closeEvent
      BY <1>3 DEF DebuggerShakes
    <2>3. loop["vm"] = "none"
      BY <2>2, OtherSide DEF ProxyInv, Stages, Early
    <2> QED BY <1>1, <2>1, <2>2, <2>3 DEF VmReadable, Going, Early
  <1>4. ASSUME NEW s \in Sides, HangsUp(s) \/ LinkClosed(s)
        PROVE  ProxyParts'
    <2>1. Still /\ hand' = hand /\ UNCHANGED <<phase, closeEvent, loop, cancelled>>
      BY <1>4
      DEF HangsUp, LinkClosed, runVars, loopVars, tableVars, peerVars, logVars
    <2>2. rx["vm"] = "broken" => rx'["vm"] = "broken"
      BY <1>0, <1>4, OtherSide DEF HangsUp, LinkClosed
    <2> QED BY <1>1, <2>1, <2>2 DEF VmReadable, Going
  <1>5. ASSUME NEW s \in Sides, DrainFails(s) \/ ReceiveFails(s) \/ LoopCancelled(s)
        PROVE  ProxyParts'
    <2>1. /\ Still /\ phase' = phase /\ UNCHANGED <<cancelled, rx, link>>
          /\ hand' = [hand EXCEPT ![s] = NoPacket]
          /\ loop' = [loop EXCEPT ![s] = "ended"]
      BY <1>5
      DEF DrainFails, ReceiveFails, LoopCancelled, LoopEndsInError, runVars, tableVars,
          netVars, peerVars, logVars
    <2>2. ~Going'
      BY <1>5, <2>1
      DEF DrainFails, ReceiveFails, LoopCancelled, LoopEndsInError, runVars, Going,
          ProxyInv, Stages
    <2>3. ASSUME VmReadable'
          PROVE  VmReadable /\ hand'["dbg"] = hand["dbg"]
      <3>1. s = "dbg"
        BY <1>0, <2>1, <2>3, OtherSide DEF VmReadable
      <3>2. VmReadable
        BY <1>0, <2>1, <2>3, <3>1, OtherSide DEF VmReadable
      <3>3. ReceiveFails("dbg")
        <4>1. ~DrainFails("dbg")
          BY <3>2, OtherSide DEF DrainFails, VmReadable, ProxyInv, Stages
        <4>2. ~LoopCancelled("dbg")
          BY <3>2, OtherSide DEF LoopCancelled, VmReadable, ProxyInv, Stages
        <4> QED BY <1>5, <3>1, <4>1, <4>2
      <3>4. hand["dbg"] = NoPacket
        BY <3>3, OtherSide DEF ReceiveFails, ProxyInv, ProxyTyped, Contents
      <3> QED BY <1>0, <2>1, <3>2, <3>4, OtherSide
    <2>4. \A t \in Sides : hand'[t] = hand[t] \/ hand'[t] = NoPacket
      BY <1>0, <2>1
    <2> QED BY <2>1, <2>2, <2>3, <2>4, QuietStep
  <1> QED BY <1>2, <1>3, <1>4, <1>5

------------------------------------------------------------------------------
(* The peers send.                                                          *)
LEMMA InvTypes ==
  ASSUME ProxyInv
  PROVE  /\ \A s \in Sides : in[s] \in Seq(Packets) /\ out[s] \in Seq(Packets)
         /\ in["dbg"] \in Seq(Commands \cup {Garbage}) /\ out["vm"] \in Seq(Commands)
         /\ in["vm"] \in Seq(Answers \cup {Garbage}) /\ out["dbg"] \in Seq(Answers)
         /\ owed \in SUBSET Commands /\ awaiting \in SUBSET Ids
         /\ idsizes \in SUBSET Ids
         /\ outstanding \in [Ids -> 0..MaxCommands]
         /\ in = [s \in Sides |-> in[s]] /\ out = [s \in Sides |-> out[s]]
         /\ \A s \in Sides : hand[s] # NoPacket <=> loop[s] = "sending"
         /\ hand["dbg"] \in Commands \cup {NoPacket}
         /\ hand["vm"] \in Answers \cup {NoPacket}
         /\ spec \in {"default", "vm"}
  BY DEF ProxyInv, ProxyTyped, ProxyTypeOK, Contents

LEMMA DebuggerSendsParts ==
  ASSUME ProxyInv, NEW i \in Ids, NEW cmd \in Kinds, DebuggerSends(i, cmd)
  PROVE  ProxyParts'
  <1> DEFINE p == Command(dsent', i, cmd, dtold)
  <1> USE DEF ProxyInv, ProxyParts
  <1>1. /\ i \notin awaiting /\ awaiting' = awaiting \cup {i}
        /\ CanArrive("dbg")
        /\ in' = [in EXCEPT !["dbg"] = Append(@, p)]
        /\ UNCHANGED <<out, hand, loop, cancelled, phase, closeEvent, rx, paused, owed,
                       outstanding, idsizes, spec, dtold, vtold, log, logged>>
    BY DEF DebuggerSends, Arrives, runVars, loopVars, tableVars, logVars
  <1>2. p \in Packets /\ HasId(p) /\ p.id = i /\ p.told = dtold
    <2>1. dsent' \in 1..MaxCommands /\ dtold \in BOOLEAN
      BY ProxyAssumption DEF DebuggerSends, ProxyTyped, ProxyTypeOK
    <2>2. p \in Commands
      BY <2>1 DEF Commands
    <2> QED BY <2>2, PacketsSplit DEF Command, HasId
  <1> HIDE DEF p
  <1>3. in'["dbg"] = Append(in["dbg"], p) /\ in'["vm"] = in["vm"]
    BY <1>1, InvTypes, OtherSide
  <1>4. /\ IdsOf(in'["dbg"]) = IdsOf(in["dbg"]) \cup {i}
        /\ Distinct(in["dbg"]) /\ i \notin IdsOf(in["dbg"]) => Distinct(in'["dbg"])
    BY <1>2, <1>3, IdsAppend, InvTypes, OtherSide DEF IdOf
  <1>5. InOnePlace'
    BY <1>1, <1>3, <1>4, OtherSide DEF InOnePlace, OwedIds
  <1>6. Registered' /\ LoggedBeforeReply' /\ OpenEntries'
    BY <1>1, <1>3 DEF Registered, LoggedBeforeReply, VmReadable, OpenEntries, Going
  <1>7. ReplyInHand'
    <2>1. ASSUME IsReply(hand["vm"])
          PROVE  hand["vm"].id # i
      <3>1. loop["vm"] = "sending"
        BY <2>1, ConstantFields, InvTypes, OtherSide DEF IsReply
      <3>2. paused["dbg"]
        BY <1>1, <3>1, OtherSide DEF CanArrive
      <3> QED BY <1>1, <2>1, <3>2 DEF ReplyInHand
    <2> QED BY <1>1, <1>3, <1>4, <2>1 DEF ReplyInHand, OwedIds
  <1>8. SizesFirst'
    <2>1. ASSUME spec # "vm"
          PROVE  \A k \in 1..Len(in'["dbg"]) : ~in'["dbg"][k].told
      <3>1. ~dtold /\ \A k \in 1..Len(in["dbg"]) : ~in["dbg"][k].told
        BY <2>1 DEF SizesFirst
      <3>2. /\ Len(in["dbg"]) \in Nat /\ Len(in'["dbg"]) = Len(in["dbg"]) + 1
            /\ \A k \in 1..Len(in["dbg"]) : in'["dbg"][k] = in["dbg"][k]
            /\ in'["dbg"][Len(in["dbg"]) + 1] = p
        BY <1>2, <1>3, AppendTo, InvTypes, OtherSide
      <3>3. \A k \in 1..Len(in'["dbg"]) : k \in 1..Len(in["dbg"]) \/ k = Len(in["dbg"]) + 1
        BY <3>2
      <3> QED BY <1>2, <3>1, <3>2, <3>3
    <2>2. \A q : Sizing(q, idsizes') <=> Sizing(q, idsizes)
      BY <1>1 DEF Sizing
    <2> QED BY <1>1, <1>3, <2>1, <2>2 DEF SizesFirst
  <1>9. LoggedAgainstOwnCommand' /\ LoggedWithVmSizes'
    BY <1>1 DEF LoggedAgainstOwnCommand, LoggedWithVmSizes
  <1> QED BY <1>5, <1>6, <1>7, <1>8, <1>9

(* What is behind the packets that tell the sizes, as the VM sends.         *)
LEMMA VmArrivalSizes ==
  ASSUME NEW q \in Seq(Packets), NEW p \in Packets, NEW known \in BOOLEAN,
         known => \E j \in 1..Len(q) : Sizing(q[j], idsizes),
         \A k \in 1..Len(q) : q[k].told => \E j \in 1..k : Sizing(q[j], idsizes),
         p.told => known \/ Sizing(p, idsizes)
  PROVE  /\ known => \E j \in 1..Len(Append(q, p)) : Sizing(Append(q, p)[j], idsizes)
         /\ Sizing(p, idsizes) =>
              \E j \in 1..Len(Append(q, p)) : Sizing(Append(q, p)[j], idsizes)
         /\ \A k \in 1..Len(Append(q, p)) :
              Append(q, p)[k].told => \E j \in 1..k : Sizing(Append(q, p)[j], idsizes)
  <1> DEFINE r == Append(q, p)
  <1>1. /\ Len(q) \in Nat /\ Len(r) = Len(q) + 1
        /\ \A k \in 1..Len(q) : r[k] = q[k]
        /\ r[Len(q) + 1] = p
    BY AppendTo
  <1> HIDE DEF r
  <1>2. \A k \in 1..Len(r) : k \in 1..Len(q) \/ k = Len(q) + 1
    BY <1>1
  <1>3. 1..Len(q) \subseteq 1..Len(r) /\ Len(q) + 1 \in 1..Len(r)
    BY <1>1
  <1>4. known => \E j \in 1..Len(r) : Sizing(r[j], idsizes)
    BY <1>1, <1>3
  <1>5. Sizing(p, idsizes) => \E j \in 1..Len(r) : Sizing(r[j], idsizes)
    BY <1>1, <1>3
  <1>6. ASSUME NEW k \in 1..Len(r), r[k].told
        PROVE  \E j \in 1..k : Sizing(r[j], idsizes)
    <2>1. CASE k \in 1..Len(q)
      <3>1. PICK j \in 1..k : Sizing(q[j], idsizes)
        BY <1>1, <1>6, <2>1
      <3>2. j \in 1..Len(q)
        BY <1>1, <2>1
      <3> QED BY <1>1, <3>1, <3>2
    <2>2. CASE k = Len(q) + 1
      <3>1. 1..Len(q) \subseteq 1..k /\ k \in 1..k
        BY <1>1, <2>2
      <3> QED BY <1>1, <1>6, <2>2, <3>1
    <2> QED BY <1>2, <2>1, <2>2
  <1> QED BY <1>4, <1>5, <1>6 DEF r

LEMMA VmRepliesParts ==
  ASSUME ProxyInv, NEW c \in owed, NEW outcome \in Outcomes, VmReplies(c, outcome)
  PROVE  ProxyParts'
  <1> DEFINE p == Reply(c, outcome, vtold')
  <1> USE DEF ProxyInv, ProxyParts
  <1>1. /\ owed' = owed \ {c} /\ CanArrive("vm")
        /\ vtold' = (vtold \/ (c.cmd = "idsizes" /\ outcome = "ok"))
        /\ in' = [in EXCEPT !["vm"] = Append(@, p)]
        /\ UNCHANGED <<out, hand, loop, cancelled, phase, closeEvent, rx, paused,
                       awaiting, outstanding, idsizes, spec, dtold, log, logged>>
    BY DEF VmReplies, Arrives, runVars, loopVars, tableVars, logVars
  <1>2. /\ p \in Packets /\ HasId(p) /\ IsReply(p) /\ p.id = c.id /\ p.n = c.n
        /\ p.told = vtold' /\ p.outcome = outcome /\ c \in Commands /\ c.id \in Ids
        /\ vtold \in BOOLEAN
    <2>1. c \in Commands /\ vtold' \in BOOLEAN /\ vtold \in BOOLEAN
      BY <1>1, InvTypes DEF ProxyTyped, ProxyTypeOK
    <2>2. p \in Replies /\ c.id \in Ids
      BY <2>1, CommandFields DEF Replies
    <2> QED BY <2>1, <2>2, PacketsSplit DEF Reply, HasId, Answers, IsReply
  <1> HIDE DEF p
  <1>3. in'["vm"] = Append(in["vm"], p) /\ in'["dbg"] = in["dbg"]
    BY <1>1, InvTypes, OtherSide
  <1>4. /\ IdsOf(in'["vm"]) = IdsOf(in["vm"]) \cup {c.id}
        /\ Distinct(in["vm"]) /\ c.id \notin IdsOf(in["vm"]) => Distinct(in'["vm"])
    BY <1>2, <1>3, IdsAppend, InvTypes, OtherSide DEF IdOf
  <1>5. OwedIds' = OwedIds \ {c.id} /\ c.id \in OwedIds
    BY <1>1, <1>2 DEF OwedIds, InOnePlace
  <1>6. /\ Len(in["vm"]) \in Nat /\ Len(in'["vm"]) = Len(in["vm"]) + 1
        /\ \A k \in 1..Len(in["vm"]) : in'["vm"][k] = in["vm"][k]
        /\ in'["vm"][Len(in["vm"]) + 1] = p
    BY <1>2, <1>3, AppendTo, InvTypes, OtherSide
  <1>7. \A k \in 1..Len(in'["vm"]) : k \in 1..Len(in["vm"]) \/ k = Len(in["vm"]) + 1
    BY <1>6
  <1>8. InOnePlace'
    <2>1. \A a, b \in owed' : a.id = b.id => a = b
      BY <1>1 DEF InOnePlace
    <2>2. \A s \in Sides : Distinct(in'[s]) /\ Distinct(out'[s])
      BY <1>1, <1>3, <1>4, <1>5, OtherSide DEF InOnePlace
    <2> QED BY <1>1, <1>3, <1>4, <1>5, <2>1, <2>2 DEF InOnePlace
  <1>9. Registered'
    BY <1>1, <1>2, <1>6, <1>7 DEF Registered
  <1>10. ReplyInHand'
    BY <1>1, <1>3, <1>4, <1>5 DEF ReplyInHand
  <1>11. LoggedBeforeReply'
    <2>1. ASSUME VmReadable
          PROVE  c.n \in logged
      <3>1. c.n \in logged \/ (hand["dbg"] = c /\ ~paused["vm"])
        BY <2>1 DEF LoggedBeforeReply
      <3>2. c # NoPacket
        BY <1>2, CommandFields, ConstantFields
      <3>3. hand["dbg"] = c => loop["dbg"] = "sending"
        BY <3>2, InvTypes, OtherSide
      <3> QED BY <1>1, <3>1, <3>3, OtherSide DEF CanArrive
    <2> QED BY <1>1, <1>2, <1>6, <1>7, <2>1 DEF LoggedBeforeReply, VmReadable
  <1>12. OpenEntries'
    BY <1>1 DEF OpenEntries, Going
  <1>13. SizesFirst'
    <2>1. \A q : Sizing(q, idsizes') <=> Sizing(q, idsizes)
      BY <1>1 DEF Sizing
    <2>2. c.cmd = "idsizes" /\ outcome = "ok" => Sizing(p, idsizes)
      BY <1>2 DEF Sizing, SizesFirst
    <2>3. ASSUME spec # "vm"
          PROVE  /\ vtold' => \E j \in 1..Len(in'["vm"]) : Sizing(in'["vm"][j], idsizes)
                 /\ \A k \in 1..Len(in'["vm"]) :
                      in'["vm"][k].told => \E j \in 1..k : Sizing(in'["vm"][j], idsizes)
      <3>1. /\ vtold => \E j \in 1..Len(in["vm"]) : Sizing(in["vm"][j], idsizes)
            /\ \A k \in 1..Len(in["vm"]) :
                 in["vm"][k].told => \E j \in 1..k : Sizing(in["vm"][j], idsizes)
        BY <2>3 DEF SizesFirst
      <3>2. p.told => vtold \/ Sizing(p, idsizes)
        BY <1>1, <1>2, <2>2
      <3>3. in["vm"] \in Seq(Packets)
        BY InvTypes, OtherSide
      <3> QED BY <1>1, <1>2, <1>3, <2>2, <3>1, <3>2, <3>3, VmArrivalSizes
    <2> QED BY <1>1, <1>3, <2>1, <2>3 DEF SizesFirst
  <1>14. LoggedAgainstOwnCommand' /\ LoggedWithVmSizes'
    BY <1>1 DEF LoggedAgainstOwnCommand, LoggedWithVmSizes
  <1> QED BY <1>8, <1>9, <1>10, <1>11, <1>12, <1>13, <1>14

LEMMA OtherArrivalParts ==
  ASSUME ProxyInv, VmSendsEvent \/ \E s \in Sides : SendsGarbage(s)
  PROVE  ProxyParts'
  <1> USE DEF ProxyInv, ProxyParts
  <1>1. PICK s \in Sides, p \in Events \cup {Garbage} :
          /\ in' = [in EXCEPT ![s] = Append(@, p)]
          /\ p.told => vtold /\ s = "vm"
          /\ UNCHANGED <<out, hand, loop, cancelled, phase, closeEvent, rx, paused,
                         awaiting, owed, outstanding, idsizes, spec, dtold, vtold, log,
                         logged>>
    <2>1. CASE VmSendsEvent
      <3>1. vsent' \in 1..MaxEvents /\ vtold \in BOOLEAN
        BY <2>1, ProxyAssumption DEF VmSendsEvent, ProxyTyped, ProxyTypeOK
      <3>2. Event(vsent', vtold) \in Events /\ Event(vsent', vtold).told = vtold
        BY <3>1 DEF Events, Event
      <3> QED
        BY <2>1, <3>2, OtherSide
        DEF VmSendsEvent, Arrives, runVars, loopVars, tableVars, logVars
    <2>2. ASSUME NEW s \in Sides, SendsGarbage(s)
          PROVE  /\ in' = [in EXCEPT ![s] = Append(@, Garbage)]
                 /\ UNCHANGED <<out, hand, loop, cancelled, phase, closeEvent, rx,
                                paused, awaiting, owed, outstanding, idsizes, spec,
                                dtold, vtold, log, logged>>
      BY <2>2
      DEF SendsGarbage, Arrives, runVars, loopVars, tableVars, peerVars, logVars
    <2> QED BY <2>1, <2>2, ConstantFields
  <1>2. p \in Packets /\ ~HasId(p) /\ ~IsReply(p) /\ (p.told => vtold)
    BY <1>1, PacketsSplit, EventFields, ConstantFields DEF Answers, HasId, IsReply
  <1>3. in'[s] = Append(in[s], p) /\ \A t \in Sides : t # s => in'[t] = in[t]
    BY <1>1, InvTypes
  <1>4. \A t \in Sides :
          IdsOf(in'[t]) = IdsOf(in[t]) /\ (Distinct(in[t]) => Distinct(in'[t]))
    <2>1. in[s] \in Seq(Packets) /\ IdOf(p) = {}
      BY <1>2, InvTypes DEF IdOf
    <2>2. IdsOf(in'[s]) = IdsOf(in[s]) /\ (Distinct(in[s]) => Distinct(in'[s]))
      BY <1>2, <1>3, <2>1, IdsAppend
    <2> QED BY <1>3, <2>2
  <1>5. /\ Len(in[s]) \in Nat /\ Len(in'[s]) = Len(in[s]) + 1
        /\ \A k \in 1..Len(in[s]) : in'[s][k] = in[s][k]
        /\ in'[s][Len(in[s]) + 1] = p
    BY <1>2, <1>3, AppendTo, InvTypes
  <1>6. \A k \in 1..Len(in'[s]) : k \in 1..Len(in[s]) \/ k = Len(in[s]) + 1
    BY <1>5
  <1>7. InOnePlace'
    BY <1>1, <1>4, OtherSide DEF InOnePlace, OwedIds
  <1>8. Registered' /\ LoggedBeforeReply'
    <2>1. ASSUME NEW k \in 1..Len(in'["vm"]), IsReply(in'["vm"][k])
          PROVE  k \in 1..Len(in["vm"]) /\ in'["vm"][k] = in["vm"][k]
      BY <1>2, <1>3, <1>5, <1>6, <2>1, OtherSide
    <2> QED BY <1>1, <2>1 DEF Registered, LoggedBeforeReply, VmReadable
  <1>9. ReplyInHand' /\ OpenEntries'
    BY <1>1, <1>4, OtherSide DEF ReplyInHand, OwedIds, OpenEntries, Going
  <1>10. SizesFirst'
    <2>1. \A q : Sizing(q, idsizes') <=> Sizing(q, idsizes)
      BY <1>1 DEF Sizing
    <2>2. ASSUME spec # "vm"
          PROVE  /\ \A k \in 1..Len(in'["dbg"]) : ~in'["dbg"][k].told
                 /\ vtold => \E j \in 1..Len(in'["vm"]) : Sizing(in'["vm"][j], idsizes)
                 /\ \A k \in 1..Len(in'["vm"]) :
                      in'["vm"][k].told => \E j \in 1..k : Sizing(in'["vm"][j], idsizes)
      <3>1. /\ \A k \in 1..Len(in["dbg"]) : ~in["dbg"][k].told
            /\ vtold => \E j \in 1..Len(in["vm"]) : Sizing(in["vm"][j], idsizes)
            /\ \A k \in 1..Len(in["vm"]) :
                 in["vm"][k].told => \E j \in 1..k : Sizing(in["vm"][j], idsizes)
        BY <2>2 DEF SizesFirst
      <3>2. CASE s = "dbg"
        BY <1>1, <1>3, <1>5, <1>6, <3>1, <3>2, OtherSide
      <3>3. CASE s = "vm"
        <4>1. in["vm"] \in Seq(Packets) /\ vtold \in BOOLEAN
          BY InvTypes, OtherSide DEF ProxyTyped, ProxyTypeOK
        <4> QED BY <1>2, <1>3, <3>1, <3>3, <4>1, OtherSide, VmArrivalSizes
      <3> QED BY <3>2, <3>3, OtherSide
    <2> QED BY <1>1, <2>1, <2>2 DEF SizesFirst
  <1>11. LoggedAgainstOwnCommand' /\ LoggedWithVmSizes'
    BY <1>1 DEF LoggedAgainstOwnCommand, LoggedWithVmSizes
  <1> QED BY <1>7, <1>8, <1>9, <1>10, <1>11

------------------------------------------------------------------------------
(* The peers read, and connections are lost.                                *)
LEMMA VmTakesParts ==
  ASSUME ProxyInv, PeerTakes("vm")
  PROVE  ProxyParts'
  <1> DEFINE p == Head(out["vm"])
  <1> USE DEF ProxyInv, ProxyParts
  <1>1. /\ out["vm"] # <<>> /\ owed' = owed \cup {p}
        /\ out' = [out EXCEPT !["vm"] = Tail(@)]
        /\ paused' = [paused EXCEPT !["vm"] = paused'["vm"]]
        /\ paused'["vm"] => paused["vm"] /\ Len(out["vm"]) > 1
    <2>1. paused \in [Sides -> BOOLEAN]
      BY DEF ProxyTyped, ProxyTypeOK
    <2> QED BY <2>1, OtherSide DEF PeerTakes
  <1>2. UNCHANGED <<in, hand, loop, cancelled, phase, closeEvent, rx, awaiting,
                    outstanding, idsizes, spec, dtold, vtold, log, logged>>
    BY OtherSide DEF PeerTakes, runVars, loopVars, tableVars, logVars
  <1>3. /\ p \in Commands /\ p \in Packets /\ HasId(p) /\ p.id \in Ids
    BY <1>1, HeadTail, InvTypes, PacketsSplit, CommandFields DEF HasId
  <1>4. out'["vm"] = Tail(out["vm"]) /\ out'["dbg"] = out["dbg"]
        /\ paused'["dbg"] = paused["dbg"]
    BY <1>1, InvTypes, OtherSide DEF ProxyTyped, ProxyTypeOK
  <1>5. /\ Len(out["vm"]) \in Nat \ {0} /\ p = out["vm"][1]
        /\ Len(out'["vm"]) = Len(out["vm"]) - 1
        /\ \A k \in 1..Len(out'["vm"]) :
             k + 1 \in 1..Len(out["vm"]) /\ out'["vm"][k] = out["vm"][k + 1]
    <2>1. out["vm"] \in Seq(Packets) /\ out["vm"] # <<>>
      BY <1>1, InvTypes, OtherSide
    <2> DEFINE q == out["vm"]
    <2>2. /\ Len(q) \in Nat \ {0} /\ Head(q) = q[1]
          /\ Len(Tail(q)) = Len(q) - 1
          /\ \A k \in 1..Len(Tail(q)) : k + 1 \in 1..Len(q) /\ Tail(q)[k] = q[k + 1]
      <3> HIDE DEF q
      <3>1. q \in Seq(Packets) /\ q # <<>>
        BY <2>1 DEF q
      <3> QED BY <3>1, HeadTail
    <2>3. out'["vm"] = Tail(q)
      BY <1>4
    <2> QED BY <2>2, <2>3, Zenon
  <1> HIDE DEF p
  <1>6. /\ IdsOf(out["vm"]) = {p.id} \cup IdsOf(out'["vm"])
        /\ Distinct(out["vm"]) =>
             Distinct(out'["vm"]) /\ p.id \notin IdsOf(out'["vm"])
    <2>1. out["vm"] \in Seq(Packets)
      BY InvTypes, OtherSide
    <2> QED BY <1>1, <1>3, <1>4, <2>1, IdsTail DEF IdOf, p
  <1>7. OwedIds' = OwedIds \cup {p.id}
    BY <1>1, <1>3 DEF OwedIds
  <1>8. InOnePlace'
    <2>1. p.id \notin OwedIds
      BY <1>6 DEF InOnePlace
    <2>2. \A q \in owed : q.id # p.id
      BY <1>3, <2>1 DEF OwedIds
    <2>3. \A a, b \in owed' : a.id = b.id => a = b
      BY <1>1, <2>2 DEF InOnePlace
    <2>4. \A s \in Sides : Distinct(in'[s]) /\ Distinct(out'[s])
      BY <1>2, <1>4, <1>6, OtherSide DEF InOnePlace
    <2>5. UNCHANGED <<in, awaiting>> /\ out'["dbg"] = out["dbg"]
      BY <1>2, <1>4
    <2>6. IdsOf(out'["vm"]) = IdsOf(out["vm"]) \ {p.id} /\ p.id \in IdsOf(out["vm"])
      BY <1>6 DEF InOnePlace, Sides
    <2> QED BY <1>7, <2>3, <2>4, <2>5, <2>6 DEF InOnePlace
  <1>9. Registered'
    <2>1. outstanding[p.id] = p.n
      BY <1>5 DEF Registered
    <2>2. \A k \in 1..Len(out'["vm"]) : outstanding[out'["vm"][k].id] = out'["vm"][k].n
      BY <1>5 DEF Registered
    <2>3. \A q \in owed' : outstanding[q.id] = q.n
      BY <1>1, <2>1 DEF Registered
    <2> QED BY <1>2, <2>2, <2>3 DEF Registered
  <1>10. ReplyInHand'
    BY <1>2, <1>4, <1>6, <1>7 DEF ReplyInHand
  <1>11. LoggedBeforeReply'
    <2> SUFFICES ASSUME VmReadable
                 PROVE  /\ \A k \in 1..Len(out'["vm"]) :
                             \/ out'["vm"][k].n \in logged
                             \/ k = Len(out'["vm"]) /\ hand["dbg"] = out'["vm"][k]
                        /\ \A q \in owed' :
                             q.n \in logged \/ (hand["dbg"] = q /\ ~paused'["vm"])
      BY <1>2 DEF LoggedBeforeReply, VmReadable
    <2>1. \A k \in 1..Len(out["vm"]) :
            \/ out["vm"][k].n \in logged
            \/ k = Len(out["vm"]) /\ hand["dbg"] = out["vm"][k]
      BY DEF LoggedBeforeReply
    <2>2. \A k \in 1..Len(out'["vm"]) :
            \/ out'["vm"][k].n \in logged
            \/ k = Len(out'["vm"]) /\ hand["dbg"] = out'["vm"][k]
      BY <1>5, <2>1
    <2>3. p.n \in logged \/ (hand["dbg"] = p /\ ~paused'["vm"])
      BY <1>1, <1>5, <2>1
    <2>4. \A q \in owed : q.n \in logged \/ (hand["dbg"] = q /\ ~paused'["vm"])
      BY <1>1 DEF LoggedBeforeReply
    <2> QED BY <1>1, <2>2, <2>3, <2>4
  <1>12. OpenEntries'
    BY <1>2, <1>4 DEF OpenEntries, Going
  <1>13. SizesFirst'
    <2>1. \A q : Sizing(q, idsizes') <=> Sizing(q, idsizes)
      BY <1>2 DEF Sizing
    <2>2. p.cmd = "idsizes" => p.id \in idsizes
      BY <1>5 DEF SizesFirst
    <2> QED BY <1>1, <1>2, <1>4, <1>5, <2>1, <2>2 DEF SizesFirst
  <1>14. LoggedAgainstOwnCommand' /\ LoggedWithVmSizes'
    BY <1>2 DEF LoggedAgainstOwnCommand, LoggedWithVmSizes
  <1> QED BY <1>8, <1>9, <1>10, <1>11, <1>12, <1>13, <1>14

LEMMA DebuggerTakesParts ==
  ASSUME ProxyInv, PeerTakes("dbg")
  PROVE  ProxyParts'
  <1> DEFINE p == Head(out["dbg"])
  <1> USE DEF ProxyInv, ProxyParts
  <1>1. /\ out["dbg"] # <<>>
        /\ awaiting' = IF IsReply(p) THEN awaiting \ {p.id} ELSE awaiting
        /\ out' = [out EXCEPT !["dbg"] = Tail(@)]
        /\ paused'["vm"] = paused["vm"]
        /\ paused'["dbg"] => paused["dbg"] /\ Len(out["dbg"]) > 1
    <2>1. paused \in [Sides -> BOOLEAN]
      BY DEF ProxyTyped, ProxyTypeOK
    <2> QED BY <2>1, OtherSide DEF PeerTakes
  <1>2. UNCHANGED <<in, hand, loop, cancelled, phase, closeEvent, rx, owed,
                    outstanding, idsizes, spec, vtold, log, logged>>
        /\ dtold' = (dtold \/ p.told)
    BY OtherSide DEF PeerTakes, runVars, loopVars, tableVars, logVars
  <1>3. p \in Packets /\ p \in Answers /\ (HasId(p) <=> IsReply(p))
    BY <1>1, HeadTail, InvTypes, PacketsSplit, ReplyFields, EventFields
    DEF HasId, IsReply, Answers
  <1>4. out'["dbg"] = Tail(out["dbg"]) /\ out'["vm"] = out["vm"]
    BY <1>1, InvTypes, OtherSide
  <1>5. /\ Len(out["dbg"]) \in Nat \ {0} /\ p = out["dbg"][1]
        /\ Len(out'["dbg"]) = Len(out["dbg"]) - 1
        /\ \A k \in 1..Len(out'["dbg"]) :
             k + 1 \in 1..Len(out["dbg"]) /\ out'["dbg"][k] = out["dbg"][k + 1]
    <2>1. out["dbg"] \in Seq(Packets) /\ out["dbg"] # <<>>
      BY <1>1, InvTypes, OtherSide
    <2> DEFINE q == out["dbg"]
    <2>2. /\ Len(q) \in Nat \ {0} /\ Head(q) = q[1]
          /\ Len(Tail(q)) = Len(q) - 1
          /\ \A k \in 1..Len(Tail(q)) : k + 1 \in 1..Len(q) /\ Tail(q)[k] = q[k + 1]
      <3> HIDE DEF q
      <3>1. q \in Seq(Packets) /\ q # <<>>
        BY <2>1 DEF q
      <3> QED BY <3>1, HeadTail
    <2>3. out'["dbg"] = Tail(q)
      BY <1>4
    <2> QED BY <2>2, <2>3, Zenon
  <1> HIDE DEF p
  <1>6. /\ IdsOf(out["dbg"]) = IdOf(p) \cup IdsOf(out'["dbg"])
        /\ Distinct(out["dbg"]) /\ Distinct(out'["dbg"])
        /\ IdOf(p) \cap IdsOf(out'["dbg"]) = {}
    <2>1. out["dbg"] \in Seq(Packets) /\ Distinct(out["dbg"])
      BY InvTypes, OtherSide DEF InOnePlace
    <2> QED BY <1>1, <1>4, <2>1, IdsTail DEF p
  <1>7. awaiting' = awaiting \ IdOf(p)
    BY <1>1, <1>3 DEF IdOf
  <1>8. InOnePlace'
    <2>1. \A s \in Sides : Distinct(in'[s]) /\ Distinct(out'[s])
      BY <1>2, <1>4, <1>6, OtherSide DEF InOnePlace
    <2>2. OwedIds' = OwedIds
      BY <1>2 DEF OwedIds
    <2> QED BY <1>2, <1>4, <1>6, <1>7, <2>1, <2>2 DEF InOnePlace
  <1>9. Registered' /\ LoggedBeforeReply'
    BY <1>1, <1>2, <1>4 DEF Registered, LoggedBeforeReply, VmReadable
  <1>10. ReplyInHand'
    <2>1. ASSUME IsReply(hand["vm"]), paused'["dbg"]
          PROVE  /\ hand["vm"].id \in awaiting'
                 /\ out'["dbg"][Len(out'["dbg"])] = hand["vm"]
      <3>1. /\ hand["vm"].id \in awaiting
            /\ out["dbg"][Len(out["dbg"])] = hand["vm"] /\ Len(out["dbg"]) > 1
        BY <1>1, <2>1 DEF ReplyInHand
      <3>2. /\ Len(out'["dbg"]) \in 1..Len(out'["dbg"])
            /\ Len(out'["dbg"]) + 1 = Len(out["dbg"])
        BY <1>5, <3>1
      <3>3. out'["dbg"][Len(out'["dbg"])] = hand["vm"]
        BY <1>5, <3>1, <3>2
      <3>4. hand["vm"].id \in IdsOf(out'["dbg"])
        <4>1. HasId(hand["vm"]) /\ hand["vm"] \in Packets
          BY <2>1, InvTypes, PacketsSplit, ConstantFields DEF HasId, IsReply
        <4> QED BY <3>2, <3>3, <4>1, PacketId DEF IdsOf
      <3> QED BY <1>6, <1>7, <3>1, <3>3, <3>4
    <2> QED BY <1>2, <1>4, <2>1 DEF ReplyInHand, OwedIds
  <1>11. OpenEntries'
    <2> SUFFICES ASSUME Going
                 PROVE  /\ \A i \in Ids : outstanding[i] # 0 =>
                             \/ i \in awaiting'
                             \/ IsReply(hand["vm"]) /\ hand["vm"].id = i
                        /\ \A k \in 1..Len(out'["dbg"]) : IsReply(out'["dbg"][k]) =>
                             \/ outstanding[out'["dbg"][k].id] = 0
                             \/ /\ IsReply(hand["vm"])
                                /\ hand["vm"].id = out'["dbg"][k].id
      BY <1>2 DEF OpenEntries, Going
    <2>1. \A k \in 1..Len(out["dbg"]) : IsReply(out["dbg"][k]) =>
            \/ outstanding[out["dbg"][k].id] = 0
            \/ IsReply(hand["vm"]) /\ hand["vm"].id = out["dbg"][k].id
      BY DEF OpenEntries
    <2>2. IsReply(p) => \/ outstanding[p.id] = 0
                        \/ IsReply(hand["vm"]) /\ hand["vm"].id = p.id
      BY <1>5, <2>1
    <2>3. ASSUME NEW i \in Ids, outstanding[i] # 0
          PROVE  i \in awaiting' \/ (IsReply(hand["vm"]) /\ hand["vm"].id = i)
      <3>1. i \in awaiting \/ (IsReply(hand["vm"]) /\ hand["vm"].id = i)
        BY <2>3 DEF OpenEntries
      <3>2. i \in awaiting' \/ i \notin awaiting \/ (IsReply(p) /\ i = p.id)
        BY <1>1
      <3> QED BY <2>2, <2>3, <3>1, <3>2
    <2>4. \A k \in 1..Len(out'["dbg"]) : IsReply(out'["dbg"][k]) =>
            \/ outstanding[out'["dbg"][k].id] = 0
            \/ IsReply(hand["vm"]) /\ hand["vm"].id = out'["dbg"][k].id
      BY <1>5, <2>1
    <2> QED BY <2>3, <2>4
  <1>12. SizesFirst'
    <2>1. \A q : Sizing(q, idsizes') <=> Sizing(q, idsizes)
      BY <1>2 DEF Sizing
    <2>2. spec # "vm" => ~p.told
      BY <1>5 DEF SizesFirst
    <2>3. spec # "vm" => \A k \in 1..Len(out'["dbg"]) : ~out'["dbg"][k].told
      BY <1>5 DEF SizesFirst
    <2> QED BY <1>2, <1>4, <2>1, <2>2, <2>3 DEF SizesFirst
  <1>13. LoggedAgainstOwnCommand' /\ LoggedWithVmSizes'
    BY <1>2 DEF LoggedAgainstOwnCommand, LoggedWithVmSizes
  <1> QED BY <1>8, <1>9, <1>10, <1>11, <1>12, <1>13

LEMMA LinkLostParts ==
  ASSUME ProxyInv, NEW s \in Sides, LinkLost(s)
  PROVE  ProxyParts'
  <1> USE DEF ProxyInv, ProxyParts
  <1>1. /\ out' = [out EXCEPT ![s] = <<>>] /\ rx' = [rx EXCEPT ![s] = "broken"]
        /\ UNCHANGED <<in, hand, loop, cancelled, phase, closeEvent, paused, awaiting,
                       owed, outstanding, idsizes, spec, dtold, vtold, log, logged>>
    BY DEF LinkLost, runVars, loopVars, tableVars, peerVars, logVars
  <1>2. \A t \in Sides : out'[t] = out[t] \/ (t = s /\ out'[t] = <<>>)
    BY <1>1, InvTypes
  <1>3. \A t \in Sides : IdsOf(out'[t]) \subseteq IdsOf(out[t]) /\ Distinct(out'[t])
    BY <1>2, IdsEmpty DEF InOnePlace
  <1>4. /\ Len(out'["vm"]) = 0 \/ out'["vm"] = out["vm"]
        /\ Len(out'["dbg"]) = 0 \/ out'["dbg"] = out["dbg"]
    BY <1>2, OtherSide
  <1>5. InOnePlace'
    <2>1. OwedIds' = OwedIds /\ in' = in /\ awaiting' = awaiting /\ owed' = owed
      BY <1>1 DEF OwedIds
    <2> QED BY <1>3, <2>1, OtherSide DEF InOnePlace
  <1>6. Registered'
    BY <1>1, <1>4 DEF Registered
  <1>7. ReplyInHand'
    <2>1. OwedIds' = OwedIds
      BY <1>1 DEF OwedIds
    <2>2. out'["dbg"] # <<>> => out'["dbg"] = out["dbg"]
      BY <1>2, OtherSide
    <2> QED BY <1>1, <1>3, <2>1, <2>2, OtherSide DEF ReplyInHand
  <1>8. LoggedBeforeReply'
    <2>1. VmReadable' => VmReadable
      <3>1. rx \in [Sides -> {"open", "eof", "broken"}]
        BY DEF ProxyTyped, ProxyTypeOK
      <3> QED BY <1>1, <3>1, OtherSide DEF VmReadable
    <2> QED BY <1>1, <1>4, <2>1 DEF LoggedBeforeReply
  <1>9. OpenEntries'
    BY <1>1, <1>4 DEF OpenEntries, Going
  <1>10. SizesFirst'
    <2>1. \A q : Sizing(q, idsizes') <=> Sizing(q, idsizes)
      BY <1>1 DEF Sizing
    <2> QED BY <1>1, <1>4, <2>1 DEF SizesFirst
  <1>11. LoggedAgainstOwnCommand' /\ LoggedWithVmSizes'
    BY <1>1 DEF LoggedAgainstOwnCommand, LoggedWithVmSizes
  <1> QED BY <1>5, <1>6, <1>7, <1>8, <1>9, <1>10, <1>11

------------------------------------------------------------------------------
(* The debugger loop.                                                       *)
LEMMA DebuggerPacketParts ==
  ASSUME ProxyInv, HandleDebuggerPacket
  PROVE  ProxyParts'
  <1> DEFINE p == Head(in["dbg"])
             table == [outstanding EXCEPT ![p.id] = p.n]
  <1> USE DEF ProxyInv, ProxyParts
  <1>1. /\ CanHandle("dbg") /\ Forward("dbg", p, table) /\ spec' = spec
        /\ idsizes' = IF p.cmd = "idsizes" THEN idsizes \cup {p.id} ELSE idsizes
    BY DEF HandleDebuggerPacket
  <1>2. /\ p \in Commands /\ p \in Packets /\ HasId(p) /\ ~IsReply(p) /\ p.id \in Ids
        /\ p.n \in 1..MaxCommands /\ in["dbg"] # <<>> /\ p # NoPacket
    BY <1>1, HandledPacket, OtherSide, PacketsSplit, CommandFields, ConstantFields
    DEF HasId, IsReply
  <1>3. /\ in' = [in EXCEPT !["dbg"] = Tail(@)]
        /\ UNCHANGED <<cancelled, rx, owed, awaiting, dtold, vtold>> /\ phase' = phase
        /\ \/ SentAtOnce("dbg", p, table)
           \/ Suspended("dbg", p, table)
           \/ SendRaises("dbg", table)
    <2>1. /\ in' = [in EXCEPT !["dbg"] = Tail(@)]
          /\ UNCHANGED <<phase, cancelled, link, rx, peerVars>>
          /\ \/ SentAtOnce("dbg", p, table)
             \/ Suspended("dbg", p, table)
             \/ SendRaises("dbg", table)
      <3> HIDE DEF p, table
      <3> QED BY <1>1, ForwardCases
    <2> QED BY <2>1 DEF peerVars
  <1>4. hand["dbg"] = NoPacket
    BY <1>1, InvTypes, OtherSide DEF CanHandle
  <1>5. outstanding' = table
    BY <1>2, <1>3
    DEF SentAtOnce, Suspended, SendRaises, PacketSent, LogPacket, LogCallbackRaises
  <1>6. /\ hand'["vm"] = hand["vm"] /\ loop'["vm"] = loop["vm"]
        /\ hand'["dbg"] \in {p, NoPacket}
    <2>1. /\ \E h \in {p, NoPacket} : hand' = [hand EXCEPT !["dbg"] = h]
          /\ \E l \in {"receiving", "sending", "ended"} : loop' = [loop EXCEPT !["dbg"] = l]
      BY <1>3
      DEF SentAtOnce, Suspended, SendRaises, PacketSent, LogPacket, LogCallbackRaises,
          LoopEndsInError
    <2> QED BY <2>1, OtherSide DEF ProxyTyped, ProxyTypeOK
  <1>7. /\ paused'["dbg"] = paused["dbg"] /\ out'["dbg"] = out["dbg"]
        /\ \/ out'["vm"] = Append(out["vm"], p)
           \/ out'["vm"] = out["vm"] /\ ~VmReadable
    <2>1. \/ paused' = paused
          \/ paused' = [paused EXCEPT !["vm"] = TRUE]
      BY <1>3, OtherSide DEF SentAtOnce, Suspended, SendRaises
    <2>2. \/ out' = [out EXCEPT !["vm"] = Append(@, p)]
          \/ out' = out /\ link["vm"] = "lost"
      BY <1>3, OtherSide DEF SentAtOnce, Suspended, SendRaises
    <2>3. link["vm"] = "lost" => ~VmReadable
      BY OtherSide DEF Stages, VmReadable
    <2> QED BY <2>1, <2>2, <2>3, OtherSide DEF ProxyTyped, ProxyTypeOK
  <1>8. /\ logged \subseteq logged'
        /\ VmReadable => p.n \in logged' \/ hand'["dbg"] = p
        /\ Going' => Going
        /\ \/ UNCHANGED <<log, logged>>
           \/ log'.packet = p /\ log'.sizes \in {spec, "none"}
    <2>1. CASE SentAtOnce("dbg", p, table)
      <3>1. LogLine(p, table)
        BY <2>1 DEF SentAtOnce, PacketSent, LogPacket, LogCallbackRaises
      <3>2. logged' = logged \cup {p.n} /\ log'.packet = p /\ log'.sizes \in {spec, "none"}
        BY <1>1, <1>2, <3>1, CommandFields DEF LogLine
      <3>3. Going' => Going
        BY <1>3, <2>1
        DEF SentAtOnce, PacketSent, LogPacket, LogCallbackRaises, Going
      <3> QED BY <3>2, <3>3
    <2>2. CASE Suspended("dbg", p, table)
      BY <1>3, <2>2, OtherSide
      DEF Suspended, logVars, Going, ProxyTyped, ProxyTypeOK
    <2>3. CASE SendRaises("dbg", table)
      <3>1. ~VmReadable
        BY <2>3, OtherSide DEF SendRaises, Stages, VmReadable
      <3> QED BY <2>3, <3>1 DEF SendRaises, LoopEndsInError, logVars, Going
    <2> QED BY <1>3, <2>1, <2>2, <2>3
  <1>9. in'["dbg"] = Tail(in["dbg"]) /\ in'["vm"] = in["vm"]
    BY <1>3, InvTypes, OtherSide
  <1>10. /\ \A i \in Ids : i # p.id => outstanding'[i] = outstanding[i]
         /\ outstanding'[p.id] = p.n
    BY <1>2, <1>5, InvTypes
  <1>11. /\ IdsOf(in["dbg"]) = {p.id} \cup IdsOf(in'["dbg"])
         /\ Distinct(in'["dbg"]) /\ p.id \notin IdsOf(in'["dbg"])
    <2>1. in["dbg"] \in Seq(Packets) /\ Distinct(in["dbg"])
      BY InvTypes, OtherSide DEF InOnePlace
    <2> QED BY <1>2, <1>9, <2>1, IdsTail DEF IdOf
  <1> HIDE DEF p, table
  <1>12. /\ p.id \notin IdsOf(out["vm"]) \cup OwedIds \cup IdsOf(in["vm"])
                          \cup IdsOf(out["dbg"])
         /\ p.id \in awaiting
    BY <1>11 DEF InOnePlace
  <1>13. /\ IdsOf(out'["vm"]) \subseteq IdsOf(out["vm"]) \cup {p.id}
         /\ Distinct(out'["vm"])
    <2>1. out["vm"] \in Seq(Packets) /\ Distinct(out["vm"])
      BY InvTypes, OtherSide DEF InOnePlace
    <2>2. /\ IdsOf(Append(out["vm"], p)) = IdsOf(out["vm"]) \cup {p.id}
          /\ Distinct(Append(out["vm"], p))
      <3>1. IdOf(p) = {p.id} /\ IdOf(p) \cap IdsOf(out["vm"]) = {}
        BY <1>2, <1>12 DEF IdOf
      <3> QED BY <1>2, <2>1, <3>1, IdsAppend
    <2> QED BY <1>7, <2>1, <2>2
  <1>14. InOnePlace'
    <2>1. UNCHANGED <<awaiting, owed>> /\ OwedIds' = OwedIds
      BY <1>3 DEF OwedIds
    <2>2. \A s \in Sides : Distinct(in'[s]) /\ Distinct(out'[s])
      BY <1>7, <1>9, <1>11, <1>13, OtherSide DEF InOnePlace
    <2> QED BY <1>7, <1>9, <1>11, <1>12, <1>13, <2>1, <2>2 DEF InOnePlace
  <1>15. ASSUME NEW k \in 1..Len(out'["vm"])
         PROVE  \/ k \in 1..Len(out["vm"]) /\ out'["vm"][k] = out["vm"][k]
                \/ k = Len(out'["vm"]) /\ out'["vm"][k] = p /\ out'["vm"] # out["vm"]
    <2>1. /\ Len(Append(out["vm"], p)) = Len(out["vm"]) + 1 /\ Len(out["vm"]) \in Nat
          /\ \A m \in 1..Len(out["vm"]) : Append(out["vm"], p)[m] = out["vm"][m]
          /\ Append(out["vm"], p)[Len(out["vm"]) + 1] = p
      BY <1>2, AppendTo, InvTypes
    <2>2. CASE out'["vm"] = out["vm"]
      BY <2>2
    <2>3. CASE out'["vm"] # out["vm"]
      BY <1>7, <2>1, <2>3
    <2> QED BY <2>2, <2>3
  <1>16. \A s \in Sides : \A k \in 1..Len(out[s]) :
           HasId(out[s][k]) => out[s][k].id \in IdsOf(out[s])
    BY IdsMember, InvTypes
  <1>17. \A k \in 1..Len(in["vm"]) :
           HasId(in["vm"][k]) => in["vm"][k].id \in IdsOf(in["vm"])
    BY IdsMember, InvTypes, OtherSide
  <1>18. \A k \in 1..Len(out["vm"]) :
           /\ out["vm"][k].id \in IdsOf(out["vm"]) /\ out["vm"][k].id # p.id
           /\ out["vm"][k].id \in Ids
    <2>1. \A k \in 1..Len(out["vm"]) : out["vm"][k] \in Commands
      BY InvTypes
    <2>2. \A k \in 1..Len(out["vm"]) : HasId(out["vm"][k]) /\ out["vm"][k].id \in Ids
      BY <2>1, CommandFields DEF HasId
    <2> QED BY <1>12, <1>16, <2>2, OtherSide
  <1>19. \A q \in owed : q.id \in Ids /\ q.id # p.id
    BY <1>12, InvTypes, CommandFields DEF OwedIds
  <1>20. Registered'
    <2>1. ASSUME NEW k \in 1..Len(in["vm"]), IsReply(in["vm"][k])
          PROVE  outstanding'[in["vm"][k].id] = in["vm"][k].n
      <3>1. in["vm"][k].id # p.id /\ in["vm"][k].id \in Ids
        BY <1>12, <1>17, <2>1 DEF HasId, IsReply, IdsOf
      <3> QED BY <1>10, <2>1, <3>1 DEF Registered
    <2>2. \A k \in 1..Len(out'["vm"]) : outstanding'[out'["vm"][k].id] = out'["vm"][k].n
      BY <1>10, <1>15, <1>18 DEF Registered
    <2>3. \A q \in owed' : outstanding'[q.id] = q.n
      BY <1>3, <1>10, <1>19 DEF Registered
    <2> QED BY <1>9, <2>1, <2>2, <2>3 DEF Registered
  <1>21. ReplyInHand'
    <2> SUFFICES ASSUME IsReply(hand["vm"])
                 PROVE  ReplyInHand'
      BY <1>6 DEF ReplyInHand
    <2>1. hand["vm"].id # p.id /\ hand["vm"].id \in Ids
      <3>1. hand["vm"].id # p.id
        BY <1>11 DEF ReplyInHand
      <3>2. hand["vm"] \in Packets /\ HasId(hand["vm"])
        BY InvTypes, PacketsSplit, ConstantFields DEF IsReply, HasId
      <3> QED BY <3>1, <3>2, PacketId
    <2>2. OwedIds' = OwedIds /\ awaiting' = awaiting
      BY <1>3 DEF OwedIds
    <2>3. idsizes' \subseteq idsizes \cup {p.id}
      BY <1>1 DEF p
    <2> QED
      BY <1>6, <1>7, <1>8, <1>9, <1>10, <1>11, <1>13, <2>1, <2>2, <2>3 DEF ReplyInHand
  <1>22. LoggedBeforeReply'
    <2> SUFFICES ASSUME VmReadable
                 PROVE  /\ \A k \in 1..Len(out'["vm"]) :
                             \/ out'["vm"][k].n \in logged'
                             \/ k = Len(out'["vm"]) /\ hand'["dbg"] = out'["vm"][k]
                        /\ \A q \in owed : q.n \in logged'
                        /\ \A k \in 1..Len(in["vm"]) :
                             IsReply(in["vm"][k]) => in["vm"][k].n \in logged'
      BY <1>3, <1>6, <1>9 DEF LoggedBeforeReply, VmReadable
    <2>1. /\ \A k \in 1..Len(out["vm"]) : out["vm"][k].n \in logged
          /\ \A q \in owed : q.n \in logged
      <3>1. \A q \in Commands : q # NoPacket
        BY CommandFields, ConstantFields
      <3>2. \A k \in 1..Len(out["vm"]) : out["vm"][k] \in Commands
        BY InvTypes
      <3> QED BY <1>4, <3>1, <3>2, InvTypes DEF LoggedBeforeReply
    <2> QED BY <1>8, <1>15, <2>1 DEF LoggedBeforeReply
  <1>23. OpenEntries'
    <2>1. \A i \in idsizes' : outstanding'[i] # 0
      <3>1. idsizes' \subseteq idsizes \cup {p.id}
        BY <1>1 DEF p
      <3> QED BY <1>2, <1>10, <3>1, InvTypes DEF OpenEntries
    <2>2. ASSUME Going', NEW i \in Ids, outstanding'[i] # 0
          PROVE  i \in awaiting' \/ (IsReply(hand'["vm"]) /\ hand'["vm"].id = i)
      BY <1>3, <1>6, <1>8, <1>10, <1>12, <2>2 DEF OpenEntries
    <2>3. ASSUME Going', NEW k \in 1..Len(out["dbg"]), IsReply(out["dbg"][k])
          PROVE  \/ outstanding'[out["dbg"][k].id] = 0
                 \/ IsReply(hand["vm"]) /\ hand["vm"].id = out["dbg"][k].id
      <3>1. out["dbg"][k].id # p.id /\ out["dbg"][k].id \in Ids
        BY <1>12, <1>16, <2>3, OtherSide DEF HasId, IsReply, IdsOf
      <3> QED BY <1>8, <1>10, <2>3, <3>1 DEF OpenEntries
    <2> QED BY <1>6, <1>7, <2>1, <2>2, <2>3 DEF OpenEntries
  <1>24. spec # "vm" => ~p.told
    <2>1. p = in["dbg"][1] /\ 1 \in 1..Len(in["dbg"])
      BY <1>2, HeadTail, InvTypes DEF p
    <2> QED BY <2>1 DEF SizesFirst
  <1>25. SizesFirst'
    <2>1. idsizes \subseteq idsizes' /\ (p.cmd = "idsizes" => p.id \in idsizes')
      BY <1>1 DEF p
    <2>2. \A q : Sizing(q, idsizes) => Sizing(q, idsizes')
      BY <2>1 DEF Sizing
    <2>3. \A k \in 1..Len(out'["vm"]) :
            out'["vm"][k].cmd = "idsizes" => out'["vm"][k].id \in idsizes'
      BY <1>15, <2>1 DEF SizesFirst
    <2>4. \A q \in owed' : q.cmd = "idsizes" => q.id \in idsizes'
      BY <1>3, <2>1 DEF SizesFirst
    <2>5. ASSUME spec # "vm"
          PROVE  /\ ~dtold /\ \A s \in Sides : ~hand'[s].told
                 /\ \A k \in 1..Len(in'["dbg"]) : ~in'["dbg"][k].told
                 /\ \A k \in 1..Len(out["dbg"]) : ~out["dbg"][k].told
      <3>1. \A k \in 1..Len(in'["dbg"]) :
              k + 1 \in 1..Len(in["dbg"]) /\ in'["dbg"][k] = in["dbg"][k + 1]
        BY <1>2, <1>9, HeadTail, InvTypes
      <3> QED
        BY <1>6, <1>24, <2>5, <3>1, ConstantFields, OtherSide DEF SizesFirst
    <2> QED BY <1>1, <1>3, <1>7, <1>9, <2>2, <2>3, <2>4, <2>5 DEF SizesFirst
  <1>26. LoggedAgainstOwnCommand' /\ LoggedWithVmSizes'
    BY <1>2, <1>8, <1>24 DEF LoggedAgainstOwnCommand, LoggedWithVmSizes
  <1> QED BY <1>14, <1>20, <1>21, <1>22, <1>23, <1>25, <1>26

------------------------------------------------------------------------------
(* The VM loop.  What a packet that it takes up leaves behind: the packet   *)
(* goes to the debugger's buffer, or the session is over.                   *)
TakenUp(p) ==
  /\ in["vm"] # <<>> /\ p = Head(in["vm"]) /\ p \in Answers
  /\ VmReadable /\ hand["vm"] = NoPacket
  /\ in'["vm"] = Tail(in["vm"]) /\ in'["dbg"] = in["dbg"]
  /\ InterceptIdSizes(p)
  /\ UNCHANGED <<cancelled, rx, owed, awaiting, dtold, vtold>>
  /\ out'["vm"] = out["vm"] /\ paused'["vm"] = paused["vm"]
  /\ hand'["dbg"] = hand["dbg"] /\ hand'["vm"] \in {p, NoPacket}
  /\ \/ out'["dbg"] = Append(out["dbg"], p)
     \/ out'["dbg"] = out["dbg"] /\ ~Going' /\ hand'["vm"] = NoPacket
  /\ Going' => Going
  /\ \/ outstanding' = outstanding /\ (Going' => ~IsReply(p) \/ hand'["vm"] = p)
     \/ /\ IsReply(p) /\ hand'["vm"] = NoPacket
        /\ outstanding' = [outstanding EXCEPT ![p.id] = 0]
  /\ logged' = logged
  /\ \/ log' = log
     \/ /\ log'.packet = p /\ log'.sizes \in {spec', "none"}
        /\ IsReply(p) => log'.against = outstanding[p.id]

LEMMA VmHandlers ==
  ASSUME ProxyInv, HandleVmPacket \/ HandleUnusableReply
  PROVE  TakenUp(Head(in["vm"]))
  <1> DEFINE p == Head(in["vm"])
  <1> USE DEF ProxyInv
  <1>1. CanHandle("vm") /\ InterceptIdSizes(p)
    BY DEF HandleVmPacket, HandleUnusableReply
  <1>2. in["vm"] # <<>> /\ p \in Answers /\ p.kind # "command"
    BY <1>1, HandledPacket, OtherSide, ReplyFields, EventFields DEF Answers
  <1>3. /\ VmReadable /\ hand["vm"] = NoPacket
    BY <1>1, InvTypes, OtherSide DEF CanHandle, VmReadable
  <1>4. \/ Forward("vm", p, outstanding)
        \/ HandleUnusableReply
    BY DEF HandleVmPacket
  <1>5. CASE Forward("vm", p, outstanding)
    <2>1. /\ in' = [in EXCEPT !["vm"] = Tail(@)]
          /\ UNCHANGED <<phase, cancelled, link, rx, owed, awaiting, dtold, vtold>>
          /\ \/ SentAtOnce("vm", p, outstanding)
             \/ Suspended("vm", p, outstanding)
             \/ SendRaises("vm", outstanding)
      <3>1. /\ in' = [in EXCEPT !["vm"] = Tail(@)]
            /\ UNCHANGED <<phase, cancelled, link, rx, peerVars>>
            /\ \/ SentAtOnce("vm", p, outstanding)
               \/ Suspended("vm", p, outstanding)
               \/ SendRaises("vm", outstanding)
        <4> HIDE DEF p
        <4> QED BY <1>5, ForwardCases
      <3> QED BY <3>1 DEF peerVars
    <2>2. in'["vm"] = Tail(in["vm"]) /\ in'["dbg"] = in["dbg"]
      BY <2>1, InvTypes, OtherSide
    <2>3. paused \in [Sides -> BOOLEAN] /\ hand \in [Sides -> Packets \cup {NoPacket}]
          /\ out \in [Sides -> Seq(Packets)]
      BY DEF ProxyTyped, ProxyTypeOK
    <2> HIDE DEF p
    <2>4. CASE SentAtOnce("vm", p, outstanding)
      <3>1. /\ out' = [out EXCEPT !["dbg"] = Append(@, p)] /\ paused' = paused
            /\ hand' = [hand EXCEPT !["vm"] = NoPacket]
            /\ LogLine(p, outstanding)
            /\ \/ /\ closeEvent' = closeEvent
                  /\ outstanding' = IF IsReply(p) THEN [outstanding EXCEPT ![p.id] = 0]
                                                  ELSE outstanding
               \/ closeEvent' = TRUE /\ outstanding' = outstanding
        BY <2>4, OtherSide
        DEF SentAtOnce, PacketSent, LogPacket, LogCallbackRaises
      <3>2. /\ out'["vm"] = out["vm"] /\ out'["dbg"] = Append(out["dbg"], p)
            /\ hand'["dbg"] = hand["dbg"] /\ hand'["vm"] = NoPacket
        BY <2>3, <3>1, OtherSide
      <3>3. /\ Going' => Going
            /\ \/ outstanding' = outstanding /\ (Going' => ~IsReply(p))
               \/ IsReply(p) /\ outstanding' = [outstanding EXCEPT ![p.id] = 0]
        BY <2>1, <3>1 DEF Going
      <3>4. /\ logged' = logged /\ log'.packet = p /\ log'.sizes \in {spec', "none"}
            /\ IsReply(p) => log'.against = outstanding[p.id]
        BY <1>2, <3>1 DEF LogLine, p
      <3> QED
        BY <1>1, <1>2, <1>3, <2>1, <2>2, <3>1, <3>2, <3>3, <3>4 DEF TakenUp, p
    <2>5. CASE Suspended("vm", p, outstanding)
      <3>1. /\ out'["vm"] = out["vm"] /\ out'["dbg"] = Append(out["dbg"], p)
            /\ hand'["dbg"] = hand["dbg"] /\ hand'["vm"] = p
            /\ paused'["vm"] = paused["vm"]
        BY <2>3, <2>5, OtherSide DEF Suspended
      <3>2. Going' => Going
        BY <2>1, <2>5 DEF Suspended, Going
      <3>3. UNCHANGED <<outstanding, log, logged>>
        BY <2>5 DEF Suspended, logVars
      <3> QED BY <1>1, <1>2, <1>3, <2>1, <2>2, <3>1, <3>2, <3>3 DEF TakenUp, p
    <2>6. CASE SendRaises("vm", outstanding)
      <3>1. /\ UNCHANGED <<out, paused, outstanding, log, logged>> /\ ~Going'
            /\ hand' = [hand EXCEPT !["vm"] = NoPacket]
        BY <2>6 DEF SendRaises, LoopEndsInError, Going, logVars
      <3>2. hand'["dbg"] = hand["dbg"] /\ hand'["vm"] = NoPacket
        BY <2>3, <3>1, OtherSide
      <3> QED BY <1>1, <1>2, <1>3, <2>1, <2>2, <3>1, <3>2 DEF TakenUp, p
    <2> QED BY <2>1, <2>4, <2>5, <2>6 DEF p
  <1>6. CASE HandleUnusableReply
    <2>1. /\ in' = [in EXCEPT !["vm"] = Tail(@)]
          /\ hand' = [hand EXCEPT !["vm"] = NoPacket] /\ closeEvent' = TRUE
          /\ UNCHANGED <<cancelled, outstanding, rx, out, paused, owed, awaiting, dtold,
                         vtold, log, logged>>
      BY <1>6 DEF HandleUnusableReply, LoopEndsInError, peerVars, logVars
    <2>2. /\ in'["vm"] = Tail(in["vm"]) /\ in'["dbg"] = in["dbg"]
          /\ hand'["dbg"] = hand["dbg"] /\ hand'["vm"] = NoPacket
      BY <2>1, InvTypes, OtherSide DEF ProxyTyped, ProxyTypeOK
    <2> QED BY <1>1, <1>2, <1>3, <2>1, <2>2 DEF TakenUp, Going
  <1> QED BY <1>4, <1>5, <1>6

LEMMA VmPacketParts ==
  ASSUME ProxyInv, NEW p, TakenUp(p)
  PROVE  ProxyParts'
  <1> USE DEF ProxyInv, ProxyParts
  <1>1. /\ in["vm"] # <<>> /\ p = Head(in["vm"]) /\ p \in Answers /\ p \in Packets
        /\ VmReadable /\ hand["vm"] = NoPacket
        /\ in'["vm"] = Tail(in["vm"]) /\ in'["dbg"] = in["dbg"]
        /\ UNCHANGED <<cancelled, rx, owed, awaiting, dtold, vtold>>
        /\ out'["vm"] = out["vm"] /\ paused'["vm"] = paused["vm"]
        /\ hand'["dbg"] = hand["dbg"] /\ hand'["vm"] \in {p, NoPacket}
        /\ Going' => Going
        /\ logged' = logged
    BY PacketsSplit DEF TakenUp
  <1>2. /\ HasId(p) <=> IsReply(p)
        /\ IsReply(p) => p.id \in Ids /\ p.n \in 1..MaxCommands /\ p \in Replies
    BY <1>1, ReplyFields, EventFields DEF HasId, IsReply, Answers
  <1>3. /\ idsizes' = idsizes \ IdOf(p)
        /\ spec' = IF Sizing(p, idsizes) THEN "vm" ELSE spec
    BY <1>2 DEF TakenUp, InterceptIdSizes, IdOf, Sizing
  <1>4. /\ Len(in["vm"]) \in Nat \ {0} /\ p = in["vm"][1]
        /\ Len(in'["vm"]) = Len(in["vm"]) - 1
        /\ \A k \in 1..Len(in'["vm"]) :
             k + 1 \in 1..Len(in["vm"]) /\ in'["vm"][k] = in["vm"][k + 1]
    <2>1. in["vm"] \in Seq(Packets)
      BY InvTypes, OtherSide
    <2> QED BY <1>1, <2>1, HeadTail
  <1>5. 1 \in 1..Len(in["vm"])
    BY <1>4
  <1>6. /\ IdsOf(in["vm"]) = IdOf(p) \cup IdsOf(in'["vm"])
        /\ Distinct(in'["vm"]) /\ IdOf(p) \cap IdsOf(in'["vm"]) = {}
    <2>1. in["vm"] \in Seq(Packets) /\ Distinct(in["vm"])
      BY InvTypes, OtherSide DEF InOnePlace
    <2> QED BY <1>1, <2>1, IdsTail
  <1>7. /\ IdOf(p) \cap (IdsOf(in["dbg"]) \cup IdsOf(out["vm"]) \cup OwedIds
                           \cup IdsOf(out["dbg"])) = {}
        /\ IdOf(p) \subseteq awaiting
    BY <1>6 DEF InOnePlace
  <1>8. \/ out'["dbg"] = out["dbg"] /\ ~Going' /\ hand'["vm"] = NoPacket
        \/ /\ out'["dbg"] = Append(out["dbg"], p)
           /\ Len(out["dbg"]) \in Nat /\ Len(out'["dbg"]) = Len(out["dbg"]) + 1
           /\ \A k \in 1..Len(out["dbg"]) : out'["dbg"][k] = out["dbg"][k]
           /\ out'["dbg"][Len(out["dbg"]) + 1] = p
    <2>1. /\ Len(Append(out["dbg"], p)) = Len(out["dbg"]) + 1 /\ Len(out["dbg"]) \in Nat
          /\ \A m \in 1..Len(out["dbg"]) : Append(out["dbg"], p)[m] = out["dbg"][m]
          /\ Append(out["dbg"], p)[Len(out["dbg"]) + 1] = p
      BY <1>1, AppendTo, InvTypes
    <2>2. \/ out'["dbg"] = Append(out["dbg"], p)
          \/ out'["dbg"] = out["dbg"] /\ ~Going' /\ hand'["vm"] = NoPacket
      BY DEF TakenUp
    <2> QED BY <2>1, <2>2
  <1>9. ASSUME NEW k \in 1..Len(out'["dbg"])
        PROVE  \/ k \in 1..Len(out["dbg"]) /\ out'["dbg"][k] = out["dbg"][k]
               \/ out'["dbg"][k] = p
    BY <1>8
  <1>10. /\ IdsOf(out'["dbg"]) \subseteq IdsOf(out["dbg"]) \cup IdOf(p)
         /\ Distinct(out'["dbg"])
    <2>1. out["dbg"] \in Seq(Packets) /\ Distinct(out["dbg"])
      BY InvTypes, OtherSide DEF InOnePlace
    <2>2. /\ IdsOf(Append(out["dbg"], p)) = IdsOf(out["dbg"]) \cup IdOf(p)
          /\ Distinct(Append(out["dbg"], p))
      BY <1>1, <1>7, <2>1, IdsAppend
    <2> QED BY <1>8, <2>1, <2>2
  <1>11. /\ \A i \in Ids : i \notin IdOf(p) => outstanding'[i] = outstanding[i]
         /\ \A i \in Ids : outstanding'[i] # 0 => outstanding'[i] = outstanding[i]
    BY <1>2, InvTypes DEF TakenUp, IdOf
  <1>12. InOnePlace'
    <2>1. OwedIds' = OwedIds
      BY <1>1 DEF OwedIds
    <2>2. \A s \in Sides : Distinct(in'[s]) /\ Distinct(out'[s])
      BY <1>1, <1>6, <1>10, OtherSide DEF InOnePlace
    <2> QED BY <1>1, <1>6, <1>7, <1>10, <2>1, <2>2 DEF InOnePlace
  <1>13. \A k \in 1..Len(out["vm"]) :
           out["vm"][k].id \in Ids /\ out["vm"][k].id \notin IdOf(p)
    <2>1. \A k \in 1..Len(out["vm"]) : out["vm"][k] \in Commands
      BY InvTypes
    <2>2. \A k \in 1..Len(out["vm"]) : HasId(out["vm"][k]) /\ out["vm"][k].id \in Ids
      BY <2>1, CommandFields DEF HasId
    <2>3. out["vm"] \in Seq(Packets)
      BY InvTypes, OtherSide
    <2>4. \A k \in 1..Len(out["vm"]) : out["vm"][k].id \in IdsOf(out["vm"])
      BY <2>2, <2>3, IdsMember
    <2> QED BY <1>7, <2>2, <2>4
  <1>14. \A q \in owed : q.id \in Ids /\ q.id \notin IdOf(p)
    BY <1>7, InvTypes, CommandFields DEF OwedIds
  <1>15. ASSUME NEW k \in 1..Len(in'["vm"]), IsReply(in'["vm"][k])
         PROVE  in'["vm"][k].id \in Ids /\ in'["vm"][k].id \notin IdOf(p)
    <2>1. in'["vm"] \in Seq(Packets) /\ HasId(in'["vm"][k])
      <3>1. in["vm"] \in Seq(Packets)
        BY InvTypes, OtherSide
      <3> QED BY <1>1, <1>15, <3>1, HeadTail DEF HasId, IsReply
    <2>2. in'["vm"][k].id \in IdsOf(in'["vm"])
      BY <2>1, IdsMember
    <2> QED BY <1>6, <2>2 DEF IdsOf
  <1>16. Registered'
    <2>1. \A k \in 1..Len(in'["vm"]) : IsReply(in'["vm"][k]) =>
            outstanding'[in'["vm"][k].id] = in'["vm"][k].n
      BY <1>4, <1>11, <1>15 DEF Registered
    <2>2. \A k \in 1..Len(out["vm"]) : outstanding'[out["vm"][k].id] = out["vm"][k].n
      BY <1>11, <1>13 DEF Registered
    <2>3. \A q \in owed : outstanding'[q.id] = q.n
      BY <1>11, <1>14 DEF Registered
    <2> QED BY <1>1, <2>1, <2>2, <2>3 DEF Registered
  <1>17. IsReply(p) => outstanding[p.id] = p.n /\ p.n \in logged
    BY <1>1, <1>4, <1>5 DEF Registered, LoggedBeforeReply
  <1>18. ReplyInHand'
    <2> SUFFICES ASSUME IsReply(hand'["vm"])
                 PROVE  ReplyInHand'
      BY DEF ReplyInHand
    <2>1. hand'["vm"] = p /\ IsReply(p) /\ IdOf(p) = {p.id}
      BY <1>1, <1>2, ConstantFields DEF IsReply, IdOf
    <2>2. outstanding' = outstanding
      <3>1. p # NoPacket
        BY <2>1, ConstantFields DEF IsReply
      <3> QED BY <2>1, <3>1 DEF TakenUp
    <2>3. /\ out'["dbg"][Len(out'["dbg"])] = p
      <3>1. p # NoPacket
        BY <2>1, ConstantFields DEF IsReply
      <3> QED BY <1>8, <2>1, <3>1
    <2>4. OwedIds' = OwedIds
      BY <1>1 DEF OwedIds
    <2> QED
      BY <1>1, <1>3, <1>6, <1>7, <1>17, <2>1, <2>2, <2>3, <2>4 DEF ReplyInHand
  <1>19. LoggedBeforeReply'
    <2>1. /\ \A k \in 1..Len(out["vm"]) :
               \/ out["vm"][k].n \in logged
               \/ k = Len(out["vm"]) /\ hand["dbg"] = out["vm"][k]
          /\ \A q \in owed : q.n \in logged \/ (hand["dbg"] = q /\ ~paused["vm"])
          /\ \A k \in 1..Len(in["vm"]) : IsReply(in["vm"][k]) => in["vm"][k].n \in logged
      BY <1>1 DEF LoggedBeforeReply
    <2>2. \A k \in 1..Len(in'["vm"]) : IsReply(in'["vm"][k]) => in'["vm"][k].n \in logged
      BY <1>4, <2>1
    <2> QED BY <1>1, <2>1, <2>2 DEF LoggedBeforeReply
  <1>20. OpenEntries'
    <2>1. \A i \in idsizes' : outstanding'[i] # 0
      BY <1>3, <1>11, InvTypes DEF OpenEntries
    <2>2. ~IsReply(hand["vm"])
      BY <1>1, ConstantFields DEF IsReply
    <2>3. ASSUME Going', NEW i \in Ids, outstanding'[i] # 0
          PROVE  i \in awaiting'
      BY <1>1, <1>11, <2>2, <2>3 DEF OpenEntries
    <2>4. ASSUME Going', NEW k \in 1..Len(out'["dbg"]), IsReply(out'["dbg"][k])
          PROVE  \/ outstanding'[out'["dbg"][k].id] = 0
                 \/ IsReply(hand'["vm"]) /\ hand'["vm"].id = out'["dbg"][k].id
      <3>1. CASE out'["dbg"][k] = p
        <4>1. CASE hand'["vm"] = p
          BY <2>4, <3>1, <4>1
        <4>2. CASE hand'["vm"] # p
          <5>1. outstanding' = [outstanding EXCEPT ![p.id] = 0]
            BY <2>4, <3>1, <4>2 DEF TakenUp
          <5>2. p.id \in Ids
            BY <1>2, <2>4, <3>1
          <5> QED BY <3>1, <5>1, <5>2, InvTypes
        <4> QED BY <4>1, <4>2
      <3>2. CASE k \in 1..Len(out["dbg"]) /\ out'["dbg"][k] = out["dbg"][k]
        <4>1. outstanding[out["dbg"][k].id] = 0
          BY <1>1, <2>2, <2>4, <3>2 DEF OpenEntries
        <4>2. out["dbg"] \in Seq(Packets) /\ HasId(out["dbg"][k])
          BY <2>4, <3>2, InvTypes, OtherSide DEF HasId, IsReply
        <4>3. out["dbg"][k].id \in Ids
          BY <3>2, <4>2, IdsMember DEF IdsOf
        <4> QED BY <1>11, <3>2, <4>1, <4>3
      <3> QED BY <1>9, <3>1, <3>2
    <2> QED BY <2>1, <2>3, <2>4 DEF OpenEntries
  <1>21. spec' # "vm" => spec # "vm" /\ ~Sizing(p, idsizes) /\ ~p.told
    <2>1. ASSUME spec # "vm", ~Sizing(p, idsizes), p.told
          PROVE  FALSE
      <3>1. PICK j \in 1..1 : Sizing(in["vm"][j], idsizes)
        BY <1>4, <1>5, <2>1 DEF SizesFirst
      <3> QED BY <1>4, <2>1, <3>1
    <2> QED BY <1>3, <2>1
  <1>22. ASSUME NEW j \in 1..Len(in["vm"]), Sizing(in["vm"][j], idsizes), ~Sizing(p, idsizes)
         PROVE  /\ j - 1 \in 1..Len(in'["vm"])
                /\ Sizing(in'["vm"][j - 1], idsizes')
    <2>1. j # 1
      BY <1>4, <1>22
    <2>2. j - 1 \in 1..Len(in'["vm"]) /\ in'["vm"][j - 1] = in["vm"][j]
      BY <1>4, <2>1
    <2>3. IsReply(in'["vm"][j - 1])
      BY <1>22, <2>2 DEF Sizing
    <2>4. in'["vm"][j - 1].id \notin IdOf(p)
      BY <1>15, <2>2, <2>3
    <2> QED BY <1>3, <1>22, <2>2, <2>4 DEF Sizing
  <1>23. SizesFirst'
    <2>1. /\ \A k \in 1..Len(out["vm"]) :
               out["vm"][k].cmd = "idsizes" => out["vm"][k].id \in idsizes'
          /\ \A q \in owed : q.cmd = "idsizes" => q.id \in idsizes'
      BY <1>3, <1>13, <1>14 DEF SizesFirst
    <2>2. ASSUME spec' # "vm"
          PROVE  /\ ~dtold
                 /\ \A s \in Sides : ~hand'[s].told
                 /\ \A k \in 1..Len(in["dbg"]) : ~in["dbg"][k].told
                 /\ \A k \in 1..Len(out'["dbg"]) : ~out'["dbg"][k].told
      BY <1>1, <1>9, <1>21, <2>2, ConstantFields, OtherSide DEF SizesFirst
    <2>3. ASSUME spec' # "vm", vtold
          PROVE  \E j \in 1..Len(in'["vm"]) : Sizing(in'["vm"][j], idsizes')
      <3>1. PICK j \in 1..Len(in["vm"]) : Sizing(in["vm"][j], idsizes)
        BY <1>21, <2>3 DEF SizesFirst
      <3> QED BY <1>21, <1>22, <2>3, <3>1
    <2>4. ASSUME spec' # "vm", NEW k \in 1..Len(in'["vm"]), in'["vm"][k].told
          PROVE  \E j \in 1..k : Sizing(in'["vm"][j], idsizes')
      <3>1. PICK j \in 1..(k + 1) : Sizing(in["vm"][j], idsizes)
        BY <1>4, <1>21, <2>4 DEF SizesFirst
      <3>2. j \in 1..Len(in["vm"]) /\ j - 1 \in 1..Len(in'["vm"]) => j - 1 \in 1..k
        BY <1>4
      <3>3. j \in 1..Len(in["vm"])
        BY <1>4
      <3> QED BY <1>21, <1>22, <2>4, <3>1, <3>2, <3>3
    <2> QED BY <1>1, <2>1, <2>2, <2>3, <2>4 DEF SizesFirst
  <1>24. LoggedAgainstOwnCommand' /\ LoggedWithVmSizes'
    <2>1. \/ log' = log
          \/ /\ log'.packet = p /\ log'.sizes \in {spec', "none"}
             /\ IsReply(p) => log'.against = outstanding[p.id]
      BY DEF TakenUp
    <2> QED
      BY <1>1, <1>17, <1>21, <2>1 DEF LoggedAgainstOwnCommand, LoggedWithVmSizes
  <1> QED BY <1>12, <1>16, <1>18, <1>19, <1>20, <1>23, <1>24

(* A loop that was suspended in drain() logs the packet it sent.            *)
LEMMA DebuggerDrainedParts ==
  ASSUME ProxyInv, Drained("dbg")
  PROVE  ProxyParts'
  <1> DEFINE p == hand["dbg"]
  <1> USE DEF ProxyInv, ProxyParts
  <1>1. /\ loop["dbg"] = "sending" /\ PacketSent("dbg", p, outstanding)
        /\ UNCHANGED <<spec, idsizes, phase, cancelled, rx, in, out, paused, awaiting,
                       owed, dtold, vtold>>
    BY DEF Drained, netVars, peerVars
  <1>2. p \in Commands /\ p.kind = "command" /\ ~IsReply(p)
    BY <1>1, InvTypes, OtherSide, CommandFields DEF IsReply
  <1> HIDE DEF p
  <1>3. /\ outstanding' = outstanding /\ hand' = [hand EXCEPT !["dbg"] = NoPacket]
        /\ (Going' => Going)
        /\ \E l \in {"receiving", "ended"} : loop' = [loop EXCEPT !["dbg"] = l]
        /\ LogLine(p, outstanding)
    BY <1>1, <1>2 DEF PacketSent, LogPacket, LogCallbackRaises, Going
  <1>4. /\ logged' = logged \cup {p.n} /\ log'.packet = p /\ log'.sizes \in {spec, "none"}
    BY <1>1, <1>2, <1>3 DEF LogLine
  <1>5. /\ hand'["vm"] = hand["vm"] /\ hand'["dbg"] = NoPacket
        /\ loop'["vm"] = loop["vm"]
    BY <1>3, OtherSide DEF ProxyTyped, ProxyTypeOK
  <1>6. InOnePlace' /\ Registered'
    BY <1>1, <1>3 DEF InOnePlace, OwedIds, Registered
  <1>7. ReplyInHand'
    BY <1>1, <1>3, <1>4, <1>5 DEF ReplyInHand, OwedIds
  <1>8. LoggedBeforeReply'
    BY <1>1, <1>4, <1>5 DEF LoggedBeforeReply, VmReadable, p
  <1>9. OpenEntries'
    BY <1>1, <1>3, <1>5 DEF OpenEntries
  <1>10. SizesFirst'
    BY <1>1, <1>5, ConstantFields, OtherSide DEF SizesFirst
  <1>11. LoggedAgainstOwnCommand' /\ LoggedWithVmSizes'
    <2>1. spec # "vm" => ~p.told
      BY OtherSide DEF SizesFirst, p
    <2> QED BY <1>2, <1>4, <2>1 DEF LoggedAgainstOwnCommand, LoggedWithVmSizes
  <1> QED BY <1>6, <1>7, <1>8, <1>9, <1>10, <1>11

LEMMA VmDrainedParts ==
  ASSUME ProxyInv, Drained("vm")
  PROVE  ProxyParts'
  <1> DEFINE p == hand["vm"]
  <1> USE DEF ProxyInv, ProxyParts
  <1>1. /\ loop["vm"] = "sending" /\ PacketSent("vm", p, outstanding)
        /\ UNCHANGED <<spec, idsizes, phase, cancelled, rx, in, out, paused, awaiting,
                       owed, dtold, vtold>>
    BY DEF Drained, netVars, peerVars
  <1>2. p \in Answers /\ p.kind # "command" /\ (IsReply(p) => p.id \in Ids)
    BY <1>1, InvTypes, OtherSide, ReplyFields, EventFields DEF IsReply, Answers
  <1> HIDE DEF p
  <1>3. /\ hand' = [hand EXCEPT !["vm"] = NoPacket]
        /\ (Going' => Going)
        /\ \E l \in {"receiving", "ended"} : loop' = [loop EXCEPT !["vm"] = l]
        /\ LogLine(p, outstanding)
        /\ \/ outstanding' = outstanding /\ (Going' => ~IsReply(p))
           \/ IsReply(p) /\ outstanding' = [outstanding EXCEPT ![p.id] = 0]
    BY <1>1, <1>2 DEF PacketSent, LogPacket, LogCallbackRaises, Going
  <1>4. /\ logged' = logged /\ log'.packet = p /\ log'.sizes \in {spec, "none"}
        /\ IsReply(p) => log'.against = outstanding[p.id]
    BY <1>1, <1>2, <1>3 DEF LogLine
  <1>5. hand'["dbg"] = hand["dbg"] /\ hand'["vm"] = NoPacket
    BY <1>3, OtherSide DEF ProxyTyped, ProxyTypeOK
  <1>6. VmReadable' => VmReadable
    BY <1>1 DEF VmReadable
  <1>7. InOnePlace'
    BY <1>1 DEF InOnePlace, OwedIds
  <1>8. IsReply(p) => /\ p.id \notin IdsOf(out["vm"]) \cup OwedIds \cup IdsOf(in["vm"])
                                       \cup idsizes
                      /\ outstanding[p.id] = p.n /\ p.n \in logged
    BY DEF ReplyInHand, p
  <1>9. /\ \A i \in Ids : outstanding'[i] = outstanding[i] \/ (IsReply(p) /\ i = p.id)
        /\ \A i \in Ids : outstanding'[i] = outstanding[i] \/ outstanding'[i] = 0
        /\ Going' /\ IsReply(p) => outstanding'[p.id] = 0
    BY <1>2, <1>3, InvTypes
  <1>10. Registered'
    <2>1. ASSUME NEW k \in 1..Len(out["vm"])
          PROVE  outstanding'[out["vm"][k].id] = out["vm"][k].n
      <3>1. out["vm"][k] \in Commands /\ out["vm"] \in Seq(Packets)
        BY InvTypes, OtherSide
      <3>2. out["vm"][k].id \in Ids /\ out["vm"][k].id \in IdsOf(out["vm"])
        BY <3>1, CommandFields, IdsMember DEF HasId
      <3> QED BY <1>8, <1>9, <3>2 DEF Registered
    <2>2. ASSUME NEW q \in owed
          PROVE  outstanding'[q.id] = q.n
      BY <1>8, <1>9, InvTypes, CommandFields DEF Registered, OwedIds
    <2>3. ASSUME NEW k \in 1..Len(in["vm"]), IsReply(in["vm"][k])
          PROVE  outstanding'[in["vm"][k].id] = in["vm"][k].n
      <3>1. in["vm"] \in Seq(Packets) /\ HasId(in["vm"][k])
        BY <2>3, InvTypes, OtherSide DEF HasId, IsReply
      <3>2. in["vm"][k].id \in IdsOf(in["vm"])
        BY <3>1, IdsMember
      <3> QED BY <1>8, <1>9, <2>3, <3>2 DEF Registered, IdsOf
    <2> QED BY <1>1, <2>1, <2>2, <2>3 DEF Registered
  <1>11. ReplyInHand'
    BY <1>5, ConstantFields DEF ReplyInHand, IsReply
  <1>12. LoggedBeforeReply'
    BY <1>1, <1>4, <1>5, <1>6 DEF LoggedBeforeReply
  <1>13. OpenEntries'
    <2>1. \A i \in idsizes' : outstanding'[i] # 0
      BY <1>1, <1>8, <1>9, InvTypes DEF OpenEntries
    <2>2. ASSUME Going', NEW i \in Ids, outstanding'[i] # 0
          PROVE  i \in awaiting'
      <3>1. i \in awaiting \/ (IsReply(p) /\ p.id = i)
        BY <1>3, <1>9, <2>2 DEF OpenEntries, p
      <3> QED BY <1>1, <1>9, <2>2, <3>1
    <2>3. ASSUME Going', NEW k \in 1..Len(out["dbg"]), IsReply(out["dbg"][k])
          PROVE  outstanding'[out["dbg"][k].id] = 0
      <3>1. out["dbg"] \in Seq(Packets) /\ HasId(out["dbg"][k])
        BY <2>3, InvTypes, OtherSide DEF HasId, IsReply
      <3>2. out["dbg"][k].id \in Ids
        BY <3>1, IdsMember DEF IdsOf
      <3>3. \/ outstanding[out["dbg"][k].id] = 0
            \/ IsReply(p) /\ p.id = out["dbg"][k].id
        BY <1>3, <2>3 DEF OpenEntries, p
      <3> QED BY <1>9, <2>3, <3>2, <3>3
    <2> QED BY <1>1, <2>1, <2>2, <2>3 DEF OpenEntries
  <1>14. SizesFirst'
    BY <1>1, <1>5, ConstantFields, OtherSide DEF SizesFirst
  <1>15. LoggedAgainstOwnCommand' /\ LoggedWithVmSizes'
    <2>1. spec # "vm" => ~p.told
      BY OtherSide DEF SizesFirst, p
    <2> QED BY <1>4, <1>8, <2>1 DEF LoggedAgainstOwnCommand, LoggedWithVmSizes
  <1> QED BY <1>7, <1>10, <1>11, <1>12, <1>13, <1>14, <1>15

------------------------------------------------------------------------------
LEMMA ProxyInvInit ==
  ASSUME ProxyInit
  PROVE  ProxyInv
  <1> USE DEF ProxyInit, Both
  <1>1. \A S : <<>> \in Seq(S)
    OBVIOUS
  <1>2. ProxyTyped
    <2>1. /\ in \in [Sides -> Seq(Packets)] /\ out \in [Sides -> Seq(Packets)]
          /\ hand \in [Sides -> Packets \cup {NoPacket}]
          /\ took \in [Sides -> Packets \cup {NoPacket}]
      BY <1>1
    <2>2. /\ loop \in [Sides -> {"none", "receiving", "sending", "ended"}]
          /\ cancelled \in [Sides -> BOOLEAN] /\ paused \in [Sides -> BOOLEAN]
          /\ link \in [Sides -> {"none", "up", "closing", "closed", "lost"}]
          /\ rx \in [Sides -> {"open", "eof", "broken"}]
      OBVIOUS
    <2>3. outstanding \in [Ids -> 0..MaxCommands] /\ dsent \in 0..MaxCommands
          /\ vsent \in 0..MaxEvents /\ log.packet = NoPacket
      BY ProxyAssumption
    <2>4. ProxyTypeOK
      BY <2>1, <2>2, <2>3 DEF ProxyTypeOK
    <2>5. Contents
      BY <1>1, OtherSide DEF Contents
    <2> QED BY <2>4, <2>5 DEF ProxyTyped
  <1>3. Stages
    BY OtherSide DEF Stages, Early
  <1>4. \A s \in Sides : in[s] = <<>> /\ out[s] = <<>> /\ hand[s] = NoPacket
    OBVIOUS
  <1>5. \A s \in Sides : Len(in[s]) = 0 /\ Len(out[s]) = 0
    BY <1>4
  <1>6. InOnePlace
    BY <1>4, IdsEmpty, OtherSide DEF InOnePlace, OwedIds
  <1>7. Registered /\ ReplyInHand /\ LoggedBeforeReply
    BY <1>4, <1>5, ConstantFields, OtherSide
    DEF Registered, ReplyInHand, LoggedBeforeReply, IsReply
  <1>8. OpenEntries /\ SizesFirst
    BY <1>4, <1>5, ConstantFields, OtherSide DEF OpenEntries, SizesFirst
  <1>9. LoggedAgainstOwnCommand /\ LoggedWithVmSizes
    BY ConstantFields DEF LoggedAgainstOwnCommand, LoggedWithVmSizes, IsReply
  <1> QED BY <1>2, <1>3, <1>6, <1>7, <1>8, <1>9 DEF ProxyInv, ProxyParts

LEMMA ProxyInvStep ==
  ASSUME ProxyInv, [ProxyNext]_vars
  PROVE  ProxyInv'
  <1>1. ProxyTyped' /\ Stages'
    BY TypesStep, StagesStep DEF ProxyInv
  <1>2. ProxyParts'
    <2>1. CASE HandleDebuggerPacket
      BY <2>1, DebuggerPacketParts
    <2>2. CASE HandleVmPacket \/ HandleUnusableReply
      BY <2>2, VmHandlers, VmPacketParts
    <2>3. ASSUME NEW s \in Sides, Drained(s)
          PROVE  ProxyParts'
      BY <2>3, OtherSide, DebuggerDrainedParts, VmDrainedParts
    <2>4. ASSUME NEW s \in Sides, PeerTakes(s)
          PROVE  ProxyParts'
      BY <2>4, OtherSide, VmTakesParts, DebuggerTakesParts
    <2>5. ASSUME NEW s \in Sides, LinkLost(s)
          PROVE  ProxyParts'
      BY <2>5, LinkLostParts
    <2>6. ASSUME NEW i \in Ids, NEW cmd \in Kinds, DebuggerSends(i, cmd)
          PROVE  ProxyParts'
      BY <2>6, DebuggerSendsParts
    <2>7. ASSUME NEW p \in owed, NEW outcome \in Outcomes, VmReplies(p, outcome)
          PROVE  ProxyParts'
      BY <2>7, VmRepliesParts
    <2>8. CASE VmSendsEvent \/ \E s \in Sides : SendsGarbage(s)
      BY <2>8, OtherArrivalParts
    <2>9. CASE \/ OpenVmConnection \/ VmShakes \/ DebuggerShakes \/ CreateFails
               \/ RunCancelled \/ RunStep \/ UNCHANGED vars
               \/ \E s \in Sides : HangsUp(s) \/ LinkClosed(s) \/ DrainFails(s)
                                     \/ ReceiveFails(s) \/ LoopCancelled(s)
      BY <2>9, QuietSteps
    <2> QED
      BY <2>1, <2>2, <2>3, <2>4, <2>5, <2>6, <2>7, <2>8, <2>9 DEF ProxyNext, LoopStep
  <1> QED BY <1>1, <1>2 DEF ProxyInv

(* The inductive invariant of a session of the proxy.                       *)
THEOREM ProxyInvariant == ProxySpec => []ProxyInv
  BY ProxyInvInit, ProxyInvStep, PTL DEF ProxySpec

(* Every variable has its type in every reachable state.                    *)
THEOREM ProxyTypes == ProxySpec => []ProxyTypeOK
  <1>1. ProxyInv => ProxyTypeOK
    BY DEF ProxyInv, ProxyTyped
  <1> QED BY <1>1, ProxyInvariant, PTL

(* A reply is logged against the command it answers, which was logged       *)
(* before it, whatever ids the debugger uses again and however the loops    *)
(* are suspended.                                                           *)
THEOREM ProxyLoggedAgainstOwnCommand == ProxySpec => []LoggedAgainstOwnCommand
  <1>1. ProxyInv => LoggedAgainstOwnCommand
    BY DEF ProxyInv, ProxyParts
  <1> QED BY <1>1, ProxyInvariant, PTL

(* What a peer that knows the VM's id sizes sends is parsed with them.      *)
THEOREM ProxyLoggedWithVmSizes == ProxySpec => []LoggedWithVmSizes
  <1>1. ProxyInv => LoggedWithVmSizes
    BY DEF ProxyInv, ProxyParts
  <1> QED BY <1>1, ProxyInvariant, PTL

(* The tables hold the commands whose reply is still to be logged, and no   *)
(* others, so that they never grow past the ids in use.                     *)
THEOREM ProxyTablesHoldOpenCommands == ProxySpec => []TablesHoldOpenCommands
  <1>1. ProxyInv => TablesHoldOpenCommands
    <2> SUFFICES ASSUME ProxyInv, NEW i \in Ids
                 PROVE  /\ i \in idsizes => outstanding[i] # 0
                        /\ (outstanding[i] # 0 /\ phase = "running" /\ ~closeEvent) =>
                             i \in awaiting \/ (IsReply(hand["vm"]) /\ hand["vm"].id = i)
      BY DEF TablesHoldOpenCommands
    <2> QED BY DEF ProxyInv, ProxyParts, OpenEntries, Going
  <1> QED BY <1>1, ProxyInvariant, PTL

------------------------------------------------------------------------------
(* Each direction of a session of the proxy implements PacketChannel.      *)
(*                                                                         *)
(* What is under way in a direction is the buffer to one side, and what    *)
(* has arrived from the other up to the first malformed packet, as long as *)
(* the loop between them goes on.  Sending on moves a packet over the      *)
(* border between the two, which changes nothing (SendingOnIsQuiet);       *)
(* whatever ends the loop leaves the buffer or nothing (EndIsCut).  That a *)
(* loop only runs while its direction carries needs to know that the       *)
(* loops are over before the connections are closed (LoopsOver).           *)

\* Where the first malformed packet is, and what a loop will get to before it.
GarbageAt(q) ==
  LET I == {i \in 1..Len(q) : q[i] = Garbage} IN IF I # {} THEN Min(I) ELSE 0
Sound(q) == IF GarbageAt(q) = 0 THEN q ELSE SubSeq(q, 1, GarbageAt(q) - 1)

------------------------------------------------------------------------------
(* What has arrived up to the first malformed packet.                       *)
LEMMA LeastNumber ==
  ASSUME NEW S, S \subseteq Nat, S # {}
  PROVE  Min(S) \in S /\ \A y \in S : Min(S) <= y
  <1> DEFINE Less == {ss \in Nat \X Nat : ss[1] < ss[2]}
  <1>1. IsWellFoundedOn(Less, Nat)
    BY NatLessThanWellFounded DEF OpToRel
  <1>2. PICK x \in S : \A y \in S : ~(<<y, x>> \in Less)
    <2> HIDE DEF Less
    <2> QED BY <1>1, WFMin
  <1>3. ASSUME NEW y \in S PROVE x <= y
    <2> DEFINE z == <<y, x>>
    <2>1. z \in Nat \X Nat /\ z[1] = y /\ z[2] = x
      OBVIOUS
    <2>2. z \notin Less
      BY <1>2
    <2>3. x \in Nat /\ y \in Nat /\ ~(y < x)
      BY <2>1, <2>2
    <2> QED BY <2>3
  <1> QED BY <1>3 DEF Min

LEMMA GarbageAtCases ==
  ASSUME NEW S, NEW q \in Seq(S)
  PROVE  \/ GarbageAt(q) = 0 /\ \A k \in 1..Len(q) : q[k] # Garbage
         \/ /\ GarbageAt(q) \in 1..Len(q)
            /\ q[GarbageAt(q)] = Garbage
            /\ \A k \in 1..Len(q) : q[k] = Garbage => GarbageAt(q) <= k
  <1> DEFINE I == {i \in 1..Len(q) : q[i] = Garbage}
  <1>1. GarbageAt(q) = IF I # {} THEN Min(I) ELSE 0
    BY DEF GarbageAt
  <1>2. CASE I = {}
    BY <1>1, <1>2
  <1>3. CASE I # {}
    <2>1. I \subseteq Nat
      OBVIOUS
    <2> HIDE DEF I
    <2>2. Min(I) \in I /\ \A y \in I : Min(I) <= y
      BY <1>3, <2>1, LeastNumber
    <2> USE DEF I
    <2> QED BY <1>1, <1>3, <2>2
  <1> QED BY <1>2, <1>3

LEMMA FirstGarbageIs ==
  ASSUME NEW s \in Sides
  PROVE  /\ FirstGarbage(s) = GarbageAt(in[s])
         /\ FirstGarbage(s)' = GarbageAt(in'[s])
  BY DEF FirstGarbage, GarbageAt, SelectInSeq

LEMMA GarbageAtIs ==
  ASSUME NEW S, NEW q \in Seq(S), NEW n \in 1..Len(q), q[n] = Garbage,
         \A k \in 1..(n - 1) : q[k] # Garbage
  PROVE  GarbageAt(q) = n /\ Sound(q) = SubSeq(q, 1, n - 1)
  <1>1. GarbageAt(q) \in 1..Len(q) /\ q[GarbageAt(q)] = Garbage /\ GarbageAt(q) <= n
    BY GarbageAtCases
  <1>2. Len(q) \in Nat
    BY LenProperties
  <1>3. GarbageAt(q) = n
    BY <1>1, <1>2
  <1> QED BY <1>3 DEF Sound

LEMMA NoGarbage ==
  ASSUME NEW S, NEW q \in Seq(S), \A k \in 1..Len(q) : q[k] # Garbage
  PROVE  GarbageAt(q) = 0 /\ Sound(q) = q
  BY GarbageAtCases DEF Sound

LEMMA SoundType ==
  ASSUME NEW S, NEW q \in Seq(S)
  PROVE  /\ Sound(q) \in Seq(S)
         /\ Len(Sound(q)) = IF GarbageAt(q) = 0 THEN Len(q) ELSE GarbageAt(q) - 1
         /\ Len(Sound(q)) <= Len(q)
         /\ \A k \in 1..Len(Sound(q)) : Sound(q)[k] = q[k] /\ q[k] # Garbage
  <1>1. Len(q) \in Nat /\ \A k \in 1..Len(q) : q[k] \in S
    BY LenProperties, ElementOfSeq
  <1>2. CASE GarbageAt(q) = 0
    BY <1>1, <1>2, GarbageAtCases DEF Sound
  <1>3. CASE GarbageAt(q) # 0
    <2> DEFINE n == GarbageAt(q) - 1
    <2>1. /\ n \in Nat /\ n + 1 = GarbageAt(q) /\ n < Len(q)
          /\ \A k \in 1..n : k \in 1..Len(q) /\ q[k] # Garbage
      BY <1>1, <1>3, GarbageAtCases
    <2>2. Sound(q) = SubSeq(q, 1, n)
      BY <1>3 DEF Sound
    <2> HIDE DEF n
    <2>3. /\ SubSeq(q, 1, n) \in Seq(S) /\ Len(SubSeq(q, 1, n)) = n
          /\ \A k \in 1..n : SubSeq(q, 1, n)[k] = q[k]
      <3>1. \A k \in 1..n : q[k] \in S
        BY <1>1, <2>1
      <3>2. /\ SubSeq(q, 1, n) \in Seq(S)
            /\ Len(SubSeq(q, 1, n)) = IF 1 <= n THEN n - 1 + 1 ELSE 0
            /\ \A k \in 1..(n - 1 + 1) : SubSeq(q, 1, n)[k] = q[1 + k - 1]
        BY <2>1, <3>1, SubSeqProperties
      <3> QED BY <2>1, <3>2
    <2> QED BY <1>1, <1>3, <2>1, <2>2, <2>3 DEF n
  <1> QED BY <1>2, <1>3

\* What arrives behind garbage, or is garbage, adds nothing to the sound part.
LEMMA SoundAppend ==
  ASSUME NEW S, NEW q \in Seq(S), NEW p \in S
  PROVE  IF GarbageAt(q) = 0 /\ p # Garbage
         THEN GarbageAt(Append(q, p)) = 0 /\ Sound(Append(q, p)) = Append(Sound(q), p)
         ELSE GarbageAt(Append(q, p)) # 0 /\ Sound(Append(q, p)) = Sound(q)
  <1> DEFINE a == Append(q, p)
  <1>1. /\ a \in Seq(S) /\ Len(q) \in Nat /\ Len(a) = Len(q) + 1
        /\ \A k \in 1..Len(q) : a[k] = q[k]
        /\ a[Len(q) + 1] = p
    BY AppendTo
  <1> HIDE DEF a
  <1>2. CASE GarbageAt(q) = 0 /\ p # Garbage
    <2>1. \A k \in 1..Len(a) : a[k] # Garbage
      BY <1>1, <1>2, GarbageAtCases
    <2> QED BY <1>1, <1>2, <2>1, NoGarbage DEF Sound, a
  <1>3. CASE ~(GarbageAt(q) = 0 /\ p # Garbage)
    <2> DEFINE n == IF GarbageAt(q) = 0 THEN Len(q) + 1 ELSE GarbageAt(q)
    <2>1. /\ n \in 1..Len(a) /\ a[n] = Garbage
          /\ \A k \in 1..(n - 1) : k \in 1..Len(q) /\ a[k] # Garbage
          /\ Len(Sound(q)) = n - 1
      BY <1>1, <1>3, GarbageAtCases, SoundType
    <2> HIDE DEF n
    <2>2. GarbageAt(a) = n
      BY <1>1, <2>1, GarbageAtIs
    <2>3. /\ Sound(a) \in Seq(S) /\ Sound(q) \in Seq(S)
          /\ Len(Sound(a)) = Len(Sound(q))
          /\ \A k \in 1..Len(Sound(a)) : Sound(a)[k] = Sound(q)[k]
      BY <1>1, <2>1, <2>2, SoundType
    <2>4. Sound(a) = Sound(q)
      BY <2>3, SeqEqual
    <2>5. GarbageAt(a) # 0
      BY <1>1, <2>1, <2>2
    <2> QED BY <1>3, <2>4, <2>5 DEF a
  <1> QED BY <1>2, <1>3

\* What a loop takes from the front is the front of the sound part.
LEMMA SoundTail ==
  ASSUME NEW S, NEW q \in Seq(S), q # <<>>, Head(q) # Garbage
  PROVE  /\ GarbageAt(Tail(q)) = 0 <=> GarbageAt(q) = 0
         /\ Sound(q) # <<>>
         /\ Head(Sound(q)) = Head(q)
         /\ Tail(Sound(q)) = Sound(Tail(q))
  <1> DEFINE t == Tail(q)
             m == GarbageAt(q)
  <1>1. /\ t \in Seq(S) /\ Len(q) \in Nat \ {0} /\ Len(t) = Len(q) - 1
        /\ Head(q) = q[1]
        /\ \A k \in 1..Len(t) : k + 1 \in 1..Len(q) /\ t[k] = q[k + 1]
    BY HeadTail
  <1>2. \/ m = 0 /\ \A k \in 1..Len(q) : q[k] # Garbage
        \/ /\ m \in 1..Len(q) /\ q[m] = Garbage
           /\ \A k \in 1..Len(q) : q[k] = Garbage => m <= k
    BY GarbageAtCases
  <1>3. GarbageAt(t) = IF m = 0 THEN 0 ELSE m - 1
    <2> HIDE DEF t, m
    <2>1. CASE m = 0
      <3>1. \A k \in 1..Len(t) : t[k] # Garbage
        BY <1>1, <1>2, <2>1
      <3> QED BY <1>1, <2>1, <3>1, NoGarbage
    <2>2. CASE m # 0
      <3> DEFINE n == m - 1
      <3>1. n \in 1..Len(t) /\ t[n] = Garbage /\ \A k \in 1..(n - 1) : t[k] # Garbage
        BY <1>1, <1>2, <2>2
      <3> HIDE DEF n
      <3>2. GarbageAt(t) = n
        BY <1>1, <3>1, GarbageAtIs
      <3> QED BY <2>2, <3>2 DEF n
    <2> QED BY <2>1, <2>2
  <1>4. m # 0 => m > 1
    BY <1>1, <1>2
  <1> HIDE DEF t, m
  <1>5. /\ Sound(q) \in Seq(S) /\ Sound(t) \in Seq(S)
        /\ Len(Sound(q)) = Len(Sound(t)) + 1 /\ Len(Sound(t)) \in Nat
        /\ \A k \in 1..Len(Sound(q)) : Sound(q)[k] = q[k]
        /\ \A k \in 1..Len(Sound(t)) : Sound(t)[k] = t[k]
        /\ Len(Sound(t)) <= Len(t)
    <2>1. Len(Sound(q)) = IF m = 0 THEN Len(q) ELSE m - 1
      BY SoundType DEF m
    <2>2. Len(Sound(t)) = IF GarbageAt(t) = 0 THEN Len(t) ELSE GarbageAt(t) - 1
      BY <1>1, SoundType
    <2>3. Len(Sound(q)) = Len(Sound(t)) + 1 /\ Len(Sound(t)) \in Nat
      BY <1>1, <1>2, <1>3, <1>4, <2>1, <2>2
    <2> QED BY <1>1, <2>3, SoundType
  <1>6. Sound(q) # <<>>
    BY <1>5, EmptySeq
  <1>7. /\ Head(Sound(q)) = q[1]
        /\ Tail(Sound(q)) \in Seq(S) /\ Len(Tail(Sound(q))) = Len(Sound(t))
        /\ \A k \in 1..Len(Sound(t)) : Tail(Sound(q))[k] = Sound(q)[k + 1]
    <2> DEFINE u == Sound(q)
    <2>1. u \in Seq(S) /\ u # <<>> /\ Len(u) = Len(Sound(t)) + 1 /\ u[1] = q[1]
      BY <1>5, <1>6
    <2> HIDE DEF u
    <2>2. /\ Head(u) = u[1] /\ Tail(u) \in Seq(S) /\ Len(Tail(u)) = Len(u) - 1
          /\ \A k \in 1..Len(Tail(u)) : Tail(u)[k] = u[k + 1]
      BY <2>1, HeadTail
    <2>3. Len(Tail(u)) = Len(Sound(t))
      BY <1>5, <2>1, <2>2
    <2> QED BY <2>1, <2>2, <2>3 DEF u
  <1>8. Tail(Sound(q)) = Sound(t)
    <2>1. ASSUME NEW k \in 1..Len(Sound(t))
          PROVE  Tail(Sound(q))[k] = Sound(t)[k]
      <3>1. k \in 1..Len(t) /\ k + 1 \in 1..Len(Sound(q))
        BY <1>1, <1>5
      <3>2. Tail(Sound(q))[k] = q[k + 1]
        BY <1>5, <1>7, <3>1
      <3>3. Sound(t)[k] = q[k + 1]
        BY <1>1, <1>5, <3>1
      <3> QED BY <3>2, <3>3
    <2> QED BY <1>5, <1>7, <2>1, SeqEqual
  <1>9. GarbageAt(t) = 0 <=> m = 0
    BY <1>2, <1>3, <1>4
  <1> QED BY <1>1, <1>6, <1>7, <1>8, <1>9 DEF t, m

------------------------------------------------------------------------------
(* A buffer and what is still to be written to it.                          *)
LEMMA MoveConcat ==
  ASSUME NEW S, NEW q \in Seq(S), NEW r \in Seq(S), r # <<>>
  PROVE  Append(q, Head(r)) \o Tail(r) = q \o r
  <1>1. /\ Head(r) \in S /\ Tail(r) \in Seq(S)
        /\ Len(r) \in Nat \ {0} /\ Head(r) = r[1]
        /\ Len(Tail(r)) = Len(r) - 1
        /\ \A k \in 1..Len(Tail(r)) : k + 1 \in 1..Len(r) /\ Tail(r)[k] = r[k + 1]
    BY HeadTail
  <1> DEFINE a == Append(q, Head(r))
             l == a \o Tail(r)
             g == q \o r
  <1>2. /\ a \in Seq(S) /\ Len(q) \in Nat /\ Len(a) = Len(q) + 1
        /\ \A k \in 1..Len(q) : a[k] = q[k]
        /\ a[Len(q) + 1] = r[1]
    BY <1>1, AppendTo
  <1> HIDE DEF a
  <1>3. /\ l \in Seq(S) /\ Len(l) = Len(a) + Len(Tail(r))
        /\ \A k \in 1..(Len(a) + Len(Tail(r))) :
             l[k] = IF k <= Len(a) THEN a[k] ELSE Tail(r)[k - Len(a)]
    BY <1>1, <1>2, ConcatProperties
  <1>4. /\ g \in Seq(S) /\ Len(g) = Len(q) + Len(r)
        /\ \A k \in 1..(Len(q) + Len(r)) :
             g[k] = IF k <= Len(q) THEN q[k] ELSE r[k - Len(q)]
    BY ConcatProperties
  <1> HIDE DEF l, g
  <1>5. Len(l) = Len(g)
    BY <1>1, <1>2, <1>3, <1>4
  <1>6. ASSUME NEW k \in 1..Len(l) PROVE l[k] = g[k]
    <2>1. CASE k <= Len(q)
      BY <1>1, <1>2, <1>3, <1>4, <1>5, <2>1
    <2>2. CASE k = Len(q) + 1
      BY <1>1, <1>2, <1>3, <1>4, <1>5, <2>2
    <2>3. CASE k > Len(q) + 1
      <3> DEFINE j == k - Len(a)
      <3>1. j \in 1..Len(Tail(r)) /\ j + 1 = k - Len(q) /\ ~(k <= Len(a)) /\ ~(k <= Len(q))
        BY <1>1, <1>2, <1>3, <2>3
      <3>2. l[k] = Tail(r)[j] /\ g[k] = r[j + 1]
        BY <1>1, <1>2, <1>3, <1>4, <1>5, <3>1
      <3> QED BY <1>1, <3>1, <3>2
    <2> QED BY <1>1, <1>2, <1>3, <2>1, <2>2, <2>3
  <1>7. l = g
    BY <1>3, <1>4, <1>5, <1>6, SeqEqual
  <1> QED BY <1>7 DEF l, g, a

LEMMA AppendConcat ==
  ASSUME NEW S, NEW q \in Seq(S), NEW r \in Seq(S), NEW p \in S
  PROVE  q \o Append(r, p) = Append(q \o r, p)
  <1>1. <<p>> \in Seq(S) /\ q \o r \in Seq(S)
    BY ConcatProperties
  <1>2. Append(r, p) = r \o <<p>> /\ Append(q \o r, p) = (q \o r) \o <<p>>
    BY <1>1, AppendIsConcat
  <1> QED BY <1>1, <1>2, ConcatAssociative

LEMMA TakeConcat ==
  ASSUME NEW S, NEW q \in Seq(S), q # <<>>, NEW r \in Seq(S)
  PROVE  /\ q \o r # <<>> /\ Head(q \o r) = Head(q)
         /\ Tail(q \o r) = Tail(q) \o r
  <1> DEFINE g == q \o r
             t == Tail(q) \o r
  <1>1. /\ Tail(q) \in Seq(S) /\ Len(q) \in Nat \ {0} /\ Head(q) = q[1]
        /\ Len(Tail(q)) = Len(q) - 1
        /\ \A k \in 1..Len(Tail(q)) : k + 1 \in 1..Len(q) /\ Tail(q)[k] = q[k + 1]
    BY HeadTail
  <1>2. /\ g \in Seq(S) /\ Len(g) = Len(q) + Len(r) /\ Len(r) \in Nat
        /\ \A k \in 1..(Len(q) + Len(r)) :
             g[k] = IF k <= Len(q) THEN q[k] ELSE r[k - Len(q)]
    BY ConcatProperties, LenProperties
  <1>3. /\ t \in Seq(S) /\ Len(t) = Len(Tail(q)) + Len(r)
        /\ \A k \in 1..(Len(Tail(q)) + Len(r)) :
             t[k] = IF k <= Len(Tail(q)) THEN Tail(q)[k] ELSE r[k - Len(Tail(q))]
    BY <1>1, ConcatProperties
  <1> HIDE DEF g, t
  <1>4. g # <<>>
    BY <1>1, <1>2, EmptySeq
  <1>5. /\ Head(g) = g[1] /\ Tail(g) \in Seq(S) /\ Len(Tail(g)) = Len(g) - 1
        /\ \A k \in 1..Len(Tail(g)) : Tail(g)[k] = g[k + 1]
    BY <1>2, <1>4, HeadTail
  <1>6. Len(Tail(g)) = Len(t)
    BY <1>1, <1>2, <1>3, <1>5
  <1>7. ASSUME NEW k \in 1..Len(t) PROVE Tail(g)[k] = t[k]
    <2>1. k + 1 \in 1..(Len(q) + Len(r)) /\ k \in Nat
      BY <1>1, <1>2, <1>3
    <2>2. CASE k + 1 <= Len(q)
      <3>1. k \in 1..Len(Tail(q))
        BY <1>1, <2>1, <2>2
      <3> QED BY <1>1, <1>2, <1>3, <1>5, <1>6, <2>1, <2>2, <3>1
    <2>3. CASE ~(k + 1 <= Len(q))
      <3>1. ~(k <= Len(Tail(q))) /\ k - Len(Tail(q)) = (k + 1) - Len(q)
        BY <1>1, <2>1, <2>3
      <3> QED BY <1>1, <1>2, <1>3, <1>5, <1>6, <2>1, <2>3, <3>1
    <2> QED BY <2>2, <2>3
  <1>8. Tail(g) = t
    BY <1>3, <1>5, <1>6, <1>7, SeqEqual
  <1>9. Head(g) = Head(q)
    BY <1>1, <1>2, <1>5
  <1> QED BY <1>4, <1>8, <1>9 DEF g, t

\* Every part of a buffer is a prefix of it and what is to follow.
LEMMA PrefixConcat ==
  ASSUME NEW S, NEW q \in Seq(S), NEW r \in Seq(S)
  PROVE  /\ Len(q) \in 0..Len(q \o r) /\ SubSeq(q \o r, 1, Len(q)) = q
         /\ 0 \in 0..Len(q \o r) /\ SubSeq(q \o r, 1, 0) = <<>>
  <1> DEFINE g == q \o r
             n == Len(q)
  <1>1. /\ g \in Seq(S) /\ Len(g) = n + Len(r) /\ Len(r) \in Nat /\ n \in Nat
        /\ \A k \in 1..n : g[k] = q[k] /\ q[k] \in S
    <2>1. \A k \in 1..n : q[k] \in S
      BY ElementOfSeq
    <2> QED BY <2>1, ConcatProperties, LenProperties
  <1> HIDE DEF g
  <1>2. /\ SubSeq(g, 1, n) \in Seq(S)
        /\ Len(SubSeq(g, 1, n)) = IF 1 <= n THEN n - 1 + 1 ELSE 0
        /\ \A k \in 1..(n - 1 + 1) : SubSeq(g, 1, n)[k] = g[1 + k - 1]
    <2>1. \A k \in 1..n : g[k] \in S
      BY <1>1
    <2>2. n \in Int
      BY <1>1
    <2> HIDE DEF n
    <2> QED BY <2>1, <2>2, SubSeqProperties
  <1>3. Len(SubSeq(g, 1, n)) = n /\ \A k \in 1..n : SubSeq(g, 1, n)[k] = q[k]
    <2> HIDE DEF n
    <2> QED BY <1>1, <1>2
  <1>4. SubSeq(g, 1, n) = q
    BY <1>2, <1>3, SeqEqual
  <1>5. SubSeq(g, 1, 0) = <<>>
    BY SubSeqEmpty
  <1> QED BY <1>1, <1>4, <1>5 DEF g

------------------------------------------------------------------------------
(* What a step does to a direction.                                         *)
Waiting(s) == IF Carrying(s) THEN Sound(in[s]) ELSE <<>>

LEMMA TransitIs ==
  ASSUME NEW s \in Sides
  PROVE  /\ Transit(s) = out[Other(s)] \o Waiting(s)
         /\ Transit(s)' = out'[Other(s)] \o Waiting(s)'
         /\ Open(s) <=> Carrying(s) /\ GarbageAt(in[s]) = 0
         /\ Open(s)' <=> Carrying(s)' /\ GarbageAt(in'[s]) = 0
  BY FirstGarbageIs DEF Transit, Open, Waiting, Sound

SendStep(s) ==
  \E p \in Packets :
    /\ Open(s)
    /\ Transit(s)' = Append(Transit(s), p)
    /\ Open(s)' = Open(s) /\ took'[Other(s)] = took[Other(s)]

DeliverStep(s) ==
  /\ Transit(s) # <<>>
  /\ took'[Other(s)] = Head(Transit(s))
  /\ Transit(s)' = Tail(Transit(s))
  /\ Open(s)' = Open(s)

CutStep(s) ==
  /\ Open(s)' = FALSE
  /\ \E n \in 0..Len(Transit(s)) : Transit(s)' = SubSeq(Transit(s), 1, n)
  /\ took'[Other(s)] = took[Other(s)]

QuietChannel(s) ==
  /\ Open(s)' = Open(s)
  /\ Transit(s)' = Transit(s)
  /\ took'[Other(s)] = took[Other(s)]

DirectionStep(s) == SendStep(s) \/ DeliverStep(s) \/ CutStep(s) \/ QuietChannel(s)

LEMMA DirectionsAreChannels ==
  /\ DirectionStep("dbg") => [ToVm!ChannelNext]_(ToVm!chvars)
  /\ DirectionStep("vm") => [ToDebugger!ChannelNext]_(ToDebugger!chvars)
  <1>1. DirectionStep("dbg") => [ToVm!ChannelNext]_(ToVm!chvars)
    <2>1. SendStep("dbg") => \E p \in Packets : ToVm!SendPacket(p)
      BY OtherSide DEF SendStep, ToVm!SendPacket
    <2>2. DeliverStep("dbg") => ToVm!DeliverPacket
      BY OtherSide DEF DeliverStep, ToVm!DeliverPacket
    <2>3. CutStep("dbg") => ToVm!CutChannel
      BY OtherSide DEF CutStep, ToVm!CutChannel
    <2>4. QuietChannel("dbg") => UNCHANGED ToVm!chvars
      BY OtherSide DEF QuietChannel, ToVm!chvars
    <2> QED BY <2>1, <2>2, <2>3, <2>4 DEF DirectionStep, ToVm!ChannelNext
  <1>2. DirectionStep("vm") => [ToDebugger!ChannelNext]_(ToDebugger!chvars)
    <2>1. SendStep("vm") => \E p \in Packets : ToDebugger!SendPacket(p)
      BY OtherSide DEF SendStep, ToDebugger!SendPacket
    <2>2. DeliverStep("vm") => ToDebugger!DeliverPacket
      BY OtherSide DEF DeliverStep, ToDebugger!DeliverPacket
    <2>3. CutStep("vm") => ToDebugger!CutChannel
      BY OtherSide DEF CutStep, ToDebugger!CutChannel
    <2>4. QuietChannel("vm") => UNCHANGED ToDebugger!chvars
      BY OtherSide DEF QuietChannel, ToDebugger!chvars
    <2> QED BY <2>1, <2>2, <2>3, <2>4 DEF DirectionStep, ToDebugger!ChannelNext
  <1> QED BY <1>1, <1>2

LEMMA SidesOther ==
  ASSUME NEW s \in Sides
  PROVE  Other(s) \in Sides /\ Other(s) # s /\ Other(Other(s)) = s
  BY OtherSide

\* in and out hold packets.
LEMMA WireTypes ==
  ASSUME ProxyTypeOK, NEW s \in Sides
  PROVE  in[s] \in Seq(Packets) /\ out[s] \in Seq(Packets)
         /\ Sound(in[s]) \in Seq(Packets) /\ Waiting(s) \in Seq(Packets)
  <1>1. in[s] \in Seq(Packets) /\ out[s] \in Seq(Packets)
    BY DEF ProxyTypeOK
  <1>2. Sound(in[s]) \in Seq(Packets) /\ <<>> \in Seq(Packets)
    BY <1>1, SoundType, EmptySeq
  <1> QED BY <1>1, <1>2 DEF Waiting

\* Nothing of a direction changes,
LEMMA SameIsQuiet ==
  ASSUME NEW s \in Sides, Carrying(s)' <=> Carrying(s), in'[s] = in[s],
         out'[Other(s)] = out[Other(s)], took'[Other(s)] = took[Other(s)]
  PROVE  DirectionStep(s)
  <1>1. Waiting(s)' = Waiting(s)
    BY DEF Waiting
  <1>2. (Open(s)' <=> Open(s)) /\ Transit(s)' = Transit(s)
    BY <1>1, TransitIs
  <1>3. Open(s)' = Open(s)
    BY <1>2 DEF Open
  <1> QED BY <1>2, <1>3 DEF DirectionStep, QuietChannel

\* it ends, with or without what is in the buffer,
LEMMA EndIsCut ==
  ASSUME ProxyTypeOK, NEW s \in Sides, ~Carrying(s)',
         out'[Other(s)] \in {out[Other(s)], <<>>}, took'[Other(s)] = took[Other(s)]
  PROVE  DirectionStep(s)
  <1> DEFINE o == Other(s)
  <1>1. out[o] \in Seq(Packets) /\ Waiting(s) \in Seq(Packets)
    BY WireTypes, SidesOther
  <1>2. <<>> \in Seq(Packets)
    BY EmptySeq
  <1>3. Transit(s)' = out'[o]
    <2>1. Waiting(s)' = <<>>
      BY DEF Waiting
    <2> QED BY <1>1, <1>2, <2>1, TransitIs, ConcatEmptySeq
  <1>4. \E n \in 0..Len(Transit(s)) : Transit(s)' = SubSeq(Transit(s), 1, n)
    <2> DEFINE q == out[o]
               g == q \o Waiting(s)
    <2>1. /\ Len(q) \in 0..Len(g) /\ SubSeq(g, 1, Len(q)) = q
          /\ 0 \in 0..Len(g) /\ SubSeq(g, 1, 0) = <<>>
      BY <1>1, PrefixConcat
    <2>2. Transit(s) = g
      BY TransitIs
    <2> QED BY <1>3, <2>1, <2>2
  <1>5. Open(s)' = FALSE
    BY DEF Open
  <1> QED BY <1>4, <1>5 DEF DirectionStep, CutStep

\* a packet arrives,
LEMMA ArrivalIsSend ==
  ASSUME ProxyTypeOK, NEW s \in Sides, NEW p \in Packets, Carrying(s)' <=> Carrying(s),
         in'[s] = Append(in[s], p),
         out'[Other(s)] = out[Other(s)], took'[Other(s)] = took[Other(s)]
  PROVE  DirectionStep(s)
  <1> DEFINE o == Other(s)
  <1>1. /\ in[s] \in Seq(Packets) /\ out[o] \in Seq(Packets)
        /\ Waiting(s) \in Seq(Packets)
    BY WireTypes, SidesOther
  <1>2. Transit(s) = out[o] \o Waiting(s) /\ Transit(s)' = out[o] \o Waiting(s)'
    BY TransitIs
  <1>3. CASE ~Carrying(s)
    BY <1>3, EndIsCut
  <1>4. CASE Carrying(s) /\ GarbageAt(in[s]) = 0 /\ p # Garbage
    <2>1. /\ GarbageAt(in'[s]) = 0
          /\ Waiting(s)' = Append(Waiting(s), p)
      BY <1>1, <1>4, SoundAppend DEF Waiting
    <2>2. Open(s) /\ Open(s)'
      BY <1>4, <2>1, TransitIs
    <2>3. Transit(s)' = Append(Transit(s), p)
      <3> DEFINE q == out[o]
                 r == Waiting(s)
      <3>1. q \in Seq(Packets) /\ r \in Seq(Packets)
        BY <1>1
      <3> HIDE DEF q, r
      <3>2. q \o Append(r, p) = Append(q \o r, p)
        BY <3>1, AppendConcat
      <3> QED BY <1>2, <2>1, <3>2 DEF q, r
    <2>4. Open(s)' = Open(s)
      BY <2>2 DEF Open
    <2> QED BY <2>2, <2>3, <2>4 DEF DirectionStep, SendStep
  <1>5. CASE Carrying(s) /\ ~(GarbageAt(in[s]) = 0 /\ p # Garbage)
    <2>1. GarbageAt(in'[s]) # 0 /\ Waiting(s)' = Waiting(s)
      BY <1>1, <1>5, SoundAppend DEF Waiting
    <2>2. Open(s)' = FALSE
      BY <2>1, FirstGarbageIs DEF Open
    <2>3. Transit(s)' = Transit(s)
      BY <1>2, <2>1
    <2>4. Transit(s) \in Seq(Packets) /\ Len(Transit(s)) \in Nat
      BY <1>1, <1>2, ConcatProperties, LenProperties
    <2>5. Len(Transit(s)) \in 0..Len(Transit(s))
      BY <2>4
    <2>6. SubSeq(Transit(s), 1, Len(Transit(s))) = Transit(s)
      BY <2>4, SubSeqFull
    <2> QED BY <2>2, <2>3, <2>5, <2>6 DEF DirectionStep, CutStep
  <1> QED BY <1>3, <1>4, <1>5

\* the peer reads one,
LEMMA TakingIsDelivery ==
  ASSUME ProxyTypeOK, NEW s \in Sides, Carrying(s)' <=> Carrying(s), in'[s] = in[s],
         out[Other(s)] # <<>>, out'[Other(s)] = Tail(out[Other(s)]),
         took'[Other(s)] = Head(out[Other(s)])
  PROVE  DirectionStep(s)
  <1>1. out[Other(s)] \in Seq(Packets) /\ Waiting(s) \in Seq(Packets)
    BY WireTypes, SidesOther
  <1>2. Waiting(s)' = Waiting(s)
    BY DEF Waiting
  <1>3. /\ Transit(s) # <<>> /\ took'[Other(s)] = Head(Transit(s))
        /\ Transit(s)' = Tail(Transit(s))
    <2> DEFINE q == out[Other(s)]
               r == Waiting(s)
    <2>1. q \o r # <<>> /\ Head(q \o r) = Head(q) /\ Tail(q \o r) = Tail(q) \o r
      BY <1>1, TakeConcat
    <2>2. Transit(s) = q \o r /\ Transit(s)' = Tail(q) \o r
      BY <1>2, TransitIs
    <2> QED BY <2>1, <2>2
  <1>4. Open(s)' = Open(s)
    <2>1. Open(s)' <=> Open(s)
      BY TransitIs
    <2> QED BY <2>1 DEF Open
  <1> QED BY <1>3, <1>4 DEF DirectionStep, DeliverStep

\* or the loop sends one on, and goes on or ends.
LEMMA SendingOnIsQuiet ==
  ASSUME ProxyTypeOK, NEW s \in Sides, Carrying(s), in[s] # <<>>,
         Head(in[s]) # Garbage, in'[s] = Tail(in[s]),
         out'[Other(s)] = Append(out[Other(s)], Head(in[s])),
         took'[Other(s)] = took[Other(s)]
  PROVE  DirectionStep(s)
  <1> DEFINE o == Other(s)
             p == Head(in[s])
             w == Sound(in[s])
  <1>1. /\ in[s] \in Seq(Packets) /\ out[o] \in Seq(Packets) /\ w \in Seq(Packets)
    BY WireTypes, SidesOther
  <1>2. /\ GarbageAt(in'[s]) = 0 <=> GarbageAt(in[s]) = 0
        /\ w # <<>> /\ Head(w) = p /\ Tail(w) = Sound(in'[s])
    BY <1>1, SoundTail
  <1>3. Transit(s) = out[o] \o w /\ p \in Packets /\ Tail(w) \in Seq(Packets)
    BY <1>1, <1>2, TransitIs, HeadTail DEF Waiting
  <1>4. out'[o] \o Tail(w) = Transit(s) /\ out'[o] \in Seq(Packets)
    <2>1. Append(out[o], Head(w)) \o Tail(w) = out[o] \o w
      BY <1>1, <1>2, MoveConcat
    <2>2. Append(out[o], p) \in Seq(Packets)
      BY <1>1, <1>3, AppendTo
    <2> QED BY <1>2, <1>3, <2>1, <2>2
  <1>5. CASE Carrying(s)'
    <2>1. Transit(s)' = Transit(s) /\ (Open(s)' <=> Open(s))
      BY <1>2, <1>4, <1>5, TransitIs DEF Waiting
    <2>2. Open(s)' = Open(s)
      BY <2>1 DEF Open
    <2> QED BY <2>1, <2>2 DEF DirectionStep, QuietChannel
  <1>6. CASE ~Carrying(s)'
    <2>1. Transit(s)' = out'[o]
      <3>1. Waiting(s)' = <<>>
        BY <1>6 DEF Waiting
      <3> QED BY <1>4, <3>1, TransitIs, ConcatEmptySeq
    <2>2. \E n \in 0..Len(Transit(s)) : Transit(s)' = SubSeq(Transit(s), 1, n)
      <3> DEFINE u == out'[o]
                 r == Tail(w)
      <3>1. /\ Len(u) \in 0..Len(u \o r) /\ SubSeq(u \o r, 1, Len(u)) = u
        BY <1>3, <1>4, PrefixConcat
      <3> QED BY <1>4, <2>1, <3>1
    <2>3. Open(s)' = FALSE
      BY <1>6 DEF Open
    <2> QED BY <2>2, <2>3 DEF DirectionStep, CutStep
  <1> QED BY <1>5, <1>6

------------------------------------------------------------------------------
(* The loops are over before the connections are closed, and the VM's is    *)
(* opened first.                                                            *)
LoopsOver ==
  /\ phase \in {"closing_dbg", "closing_vm"} => \A s \in Sides : loop[s] = "ended"
  /\ phase = "over" => \A s \in Sides : loop[s] \in {"none", "ended"}
  /\ phase = "connecting" => link["vm"] = "none"

LEMMA LoopsOverInit == ProxyInit => LoopsOver
  BY DEF ProxyInit, LoopsOver, Both, Sides

LEMMA LoopsOverStep ==
  ASSUME ProxyInv, LoopsOver, [ProxyNext]_vars
  PROVE  LoopsOver'
  <1> USE DEF LoopsOver
  <1>1. ProxyTypeOK /\ Stages
    BY DEF ProxyInv, ProxyTyped
  <1>2. CASE UNCHANGED vars
    BY <1>2 DEF vars, runVars, loopVars, netVars
  <1>3. CASE OpenVmConnection \/ VmShakes \/ DebuggerShakes
    BY <1>3 DEF OpenVmConnection, VmShakes, DebuggerShakes, loopVars, netVars
  <1>4. CASE CreateFails
    BY <1>1, <1>4 DEF CreateFails, Stages, Early, loopVars
  <1>5. ASSUME NEW s \in Sides, NEW p, NEW table, Forward(s, p, table), loop[s] = "receiving"
        PROVE  LoopsOver'
    <2>1. phase' = phase /\ link' = link
      BY <1>5, ForwardCases
    <2>2. phase \notin {"closing_dbg", "closing_vm", "over"}
      BY <1>5
    <2> QED BY <2>1, <2>2
  <1>6. CASE HandleDebuggerPacket
    <2>1. PICK p, table : Forward("dbg", p, table)
      BY <1>6 DEF HandleDebuggerPacket
    <2> QED BY <1>5, <1>6, <2>1, OtherSide DEF HandleDebuggerPacket, CanHandle
  <1>7. CASE HandleVmPacket
    BY <1>5, <1>7, OtherSide DEF HandleVmPacket, CanHandle
  <1>8. CASE HandleUnusableReply
    BY <1>8, OtherSide DEF HandleUnusableReply, CanHandle, LoopEndsInError
  <1>9. ASSUME NEW s \in Sides, LoopStep(s)
        PROVE  LoopsOver'
    <2>1. phase' = phase /\ link' = link /\ loop[s] \in {"receiving", "sending"}
      BY <1>9 DEF LoopStep, Drained, DrainFails, ReceiveFails, LoopCancelled,
        LoopEndsInError, Running, netVars, runVars
    <2>2. phase \notin {"closing_dbg", "closing_vm", "over"}
      BY <2>1
    <2> QED BY <2>1, <2>2
  <1>10. CASE RunCancelled \/ RunStep
    <2>1. CASE RunCancelled \/ RunStops
      BY <2>1 DEF RunCancelled, RunStops, StopLoops
    <2>2. CASE CloseDebugger \/ CloseVm
      BY <2>2 DEF CloseDebugger, CloseVm, loopVars
    <2>3. CASE CloseDebuggerRaises \/ RunEnds
      BY <2>3 DEF CloseDebuggerRaises, RunEnds, loopVars
    <2> QED BY <1>10, <2>1, <2>2, <2>3 DEF RunStep
  <1>11. ASSUME NEW s \in Sides, SendsGarbage(s) \/ PeerTakes(s) \/ HangsUp(s)
        PROVE  LoopsOver'
    BY <1>11 DEF SendsGarbage, Arrives, PeerTakes, HangsUp, runVars, loopVars
  <1>12. ASSUME NEW s \in Sides, LinkLost(s) \/ LinkClosed(s)
        PROVE  LoopsOver'
    <2>1. phase' = phase /\ loop' = loop
      BY <1>12 DEF LinkLost, LinkClosed, runVars, loopVars
    <2>2. phase = "connecting" => link'["vm"] = "none"
      BY <1>1, <1>12, OtherSide DEF ProxyTypeOK, LinkLost, LinkClosed
    <2> QED BY <2>1, <2>2
  <1>13. CASE \/ \E i \in Ids, cmd \in Kinds : DebuggerSends(i, cmd)
              \/ \E p \in owed, outcome \in Outcomes : VmReplies(p, outcome)
              \/ VmSendsEvent
    BY <1>13 DEF DebuggerSends, VmReplies, VmSendsEvent, Arrives, runVars, loopVars
  <1> QED
    BY <1>2, <1>3, <1>4, <1>6, <1>7, <1>8, <1>9, <1>10, <1>11, <1>12, <1>13
    DEF ProxyNext

------------------------------------------------------------------------------
(* Each step is one of each direction.                                      *)
BothStep == \A s \in Sides : DirectionStep(s)

LEMMA SessionDirections ==
  ASSUME ProxyInv, LoopsOver,
         \/ OpenVmConnection \/ VmShakes \/ DebuggerShakes \/ CreateFails
         \/ RunCancelled \/ RunStep \/ UNCHANGED vars
  PROVE  BothStep
  <1>1. ProxyTypeOK /\ Stages
    BY DEF ProxyInv, ProxyTyped
  <1>2. SUFFICES ASSUME NEW s \in Sides PROVE DirectionStep(s)
    BY DEF BothStep
  <1>3. in' = in /\ out' = out /\ took' = took /\ rx' = rx
    BY DEF OpenVmConnection, VmShakes, DebuggerShakes, CreateFails, RunCancelled,
      RunStep, RunStops, StopLoops, CloseDebugger, CloseVm, CloseDebuggerRaises,
      RunEnds, vars, netVars, peerVars
  <1>4. Other(s) \in Sides
    BY SidesOther
  <1>5. ASSUME ~Carrying(s)' PROVE DirectionStep(s)
    BY <1>1, <1>3, <1>5, EndIsCut
  <1>6. ASSUME Carrying(s)' <=> Carrying(s) PROVE DirectionStep(s)
    BY <1>3, <1>6, SameIsQuiet
  <1>7. CASE OpenVmConnection
    <2>1. link'[Other(s)] \in {"none", "up"} <=> link[Other(s)] \in {"none", "up"}
      BY <1>1, <1>4, <1>7, OtherSide DEF OpenVmConnection, LoopsOver, ProxyTypeOK
    <2> QED BY <1>3, <1>6, <1>7, <2>1 DEF OpenVmConnection, Carrying, loopVars
  <1>8. CASE VmShakes \/ UNCHANGED vars
    BY <1>3, <1>6, <1>8
    DEF VmShakes, Carrying, loopVars, netVars, vars, runVars
  <1>9. CASE DebuggerShakes
    <2>1. loop[s] # "ended" /\ loop'[s] # "ended"
      BY <1>1, <1>9 DEF DebuggerShakes, Stages, Early, Both
    <2> QED BY <1>3, <1>6, <1>9, <2>1 DEF DebuggerShakes, Carrying, netVars
  <1>10. CASE CreateFails \/ CloseDebuggerRaises \/ RunEnds
    BY <1>5, <1>10 DEF CreateFails, CloseDebuggerRaises, RunEnds, Carrying
  <1>11. CASE RunCancelled \/ RunStops
    <2>1. /\ ~cancelled[s] /\ phase = "running" /\ phase' = "joining"
          /\ loop' = loop /\ link' = link
      BY <1>1, <1>11 DEF RunCancelled, RunStops, StopLoops, Stages, netVars
    <2>2. CASE cancelled'[s]
      BY <1>5, <2>2 DEF Carrying
    <2>3. CASE ~cancelled'[s]
      BY <1>3, <1>6, <2>1, <2>3 DEF Carrying
    <2> QED BY <2>2, <2>3
  <1>12. CASE CloseDebugger \/ CloseVm
    <2>1. loop'[s] = "ended"
      BY <1>12 DEF CloseDebugger, CloseVm, LoopsOver, loopVars
    <2> QED BY <1>5, <2>1 DEF Carrying
  <1> QED
    BY <1>7, <1>8, <1>9, <1>10, <1>11, <1>12 DEF RunStep

LEMMA ForwardDirections ==
  ASSUME ProxyInv, LoopsOver, NEW s \in Sides, NEW table,
         CanHandle(s), Forward(s, Head(in[s]), table)
  PROVE  BothStep
  <1> DEFINE o == Other(s)
             p == Head(in[s])
  <1>1. ProxyTypeOK /\ o \in Sides /\ o # s /\ Other(o) = s
    BY SidesOther DEF ProxyInv, ProxyTyped
  <1>2. /\ loop[s] = "receiving" /\ ~cancelled[s] /\ rx[s] # "broken"
        /\ in[s] # <<>> /\ p.kind # "garbage"
    BY DEF CanHandle
  <1>3. p # Garbage
    BY <1>2, ConstantFields
  <1>4. /\ in' = [in EXCEPT ![s] = Tail(@)]
        /\ phase' = phase /\ cancelled' = cancelled /\ link' = link /\ rx' = rx
        /\ took' = took
    BY ForwardCases DEF peerVars
  <1>5. in'[s] = Tail(in[s]) /\ in'[o] = in[o]
    BY <1>1, <1>4 DEF ProxyTypeOK
  <1>6. loop'[o] = loop[o] /\ out'[s] = out[s]
    <2>1. CASE SentAtOnce(s, p, table)
      <3>1. PICK next : loop' = [loop EXCEPT ![s] = next]
        BY <2>1, PacketSentEffect DEF SentAtOnce
      <3> QED BY <1>1, <2>1, <3>1 DEF ProxyTypeOK, SentAtOnce
    <2>2. CASE Suspended(s, p, table)
      BY <1>1, <2>2 DEF ProxyTypeOK, Suspended
    <2>3. CASE SendRaises(s, table)
      BY <1>1, <2>3 DEF ProxyTypeOK, SendRaises, LoopEndsInError
    <2> QED BY <2>1, <2>2, <2>3, ForwardCases
  <1>7. DirectionStep(o)
    <2>1. Carrying(o)' <=> Carrying(o)
      BY <1>1, <1>4, <1>6 DEF Carrying
    <2> QED BY <1>1, <1>4, <1>5, <1>6, <2>1, SameIsQuiet
  <1>8. DirectionStep(s)
    <2>1. CASE link[o] = "up" /\ out' = [out EXCEPT ![o] = Append(@, p)]
      <3>1. Carrying(s)
        BY <1>2, <2>1 DEF Carrying, LoopsOver
      <3>2. out'[o] = Append(out[o], p)
        BY <1>1, <2>1 DEF ProxyTypeOK
      <3> QED BY <1>1, <1>2, <1>3, <1>4, <1>5, <3>1, <3>2, SendingOnIsQuiet
    <2>2. CASE link[o] = "lost" /\ out' = out
      <3>1. ~Carrying(s)'
        BY <1>4, <2>2 DEF Carrying
      <3> QED BY <1>1, <1>4, <2>2, <3>1, EndIsCut
    <2> QED BY <2>1, <2>2 DEF Forward
  <1>9. Sides = {s, o}
    BY <1>1, OtherSide
  <1> QED BY <1>7, <1>8, <1>9 DEF BothStep

LEMMA LoopDirections ==
  ASSUME ProxyInv, NEW s \in Sides, LoopStep(s)
  PROVE  BothStep
  <1> DEFINE o == Other(s)
  <1>1. ProxyTypeOK /\ o \in Sides /\ o # s /\ Other(o) = s
    BY SidesOther DEF ProxyInv, ProxyTyped
  <1>2. /\ in' = in /\ out' = out /\ took' = took /\ rx' = rx /\ link' = link
        /\ phase' = phase /\ cancelled' = cancelled
        /\ loop[s] \in {"receiving", "sending"}
    BY DEF LoopStep, Drained, DrainFails, ReceiveFails, LoopCancelled,
      LoopEndsInError, Running, netVars, peerVars, runVars
  <1>3. \E next \in {"receiving", "ended"} : loop' = [loop EXCEPT ![s] = next]
    <2>1. CASE Drained(s)
      BY <2>1, PacketSentEffect DEF Drained
    <2>2. CASE DrainFails(s) \/ ReceiveFails(s) \/ LoopCancelled(s)
      BY <2>2 DEF DrainFails, ReceiveFails, LoopCancelled, LoopEndsInError
    <2> QED BY <2>1, <2>2 DEF LoopStep
  <1>4. loop'[o] = loop[o] /\ loop'[s] \in {"receiving", "ended"}
    BY <1>1, <1>3 DEF ProxyTypeOK
  <1>5. DirectionStep(o)
    <2>1. Carrying(o)' <=> Carrying(o)
      BY <1>2, <1>4 DEF Carrying
    <2> QED BY <1>1, <1>2, <2>1, SameIsQuiet
  <1>6. DirectionStep(s)
    <2>1. CASE loop'[s] = "ended"
      <3>1. ~Carrying(s)'
        BY <2>1 DEF Carrying
      <3> QED BY <1>1, <1>2, <3>1, EndIsCut
    <2>2. CASE loop'[s] = "receiving"
      <3>1. Carrying(s)' <=> Carrying(s)
        BY <1>2, <2>2 DEF Carrying
      <3> QED BY <1>2, <3>1, SameIsQuiet
    <2> QED BY <1>4, <2>1, <2>2
  <1>7. Sides = {s, o}
    BY <1>1, OtherSide
  <1> QED BY <1>5, <1>6, <1>7 DEF BothStep

LEMMA ArrivalDirections ==
  ASSUME ProxyInv, NEW s \in Sides, NEW p \in Packets, Arrives(s, p), took' = took
  PROVE  BothStep
  <1> DEFINE o == Other(s)
  <1>1. ProxyTypeOK /\ o \in Sides /\ o # s /\ Other(o) = s
    BY SidesOther DEF ProxyInv, ProxyTyped
  <1>2. /\ in'[s] = Append(in[s], p) /\ in'[o] = in[o]
        /\ out' = out /\ rx' = rx /\ link' = link
        /\ phase' = phase /\ cancelled' = cancelled /\ loop' = loop
    BY <1>1 DEF ProxyTypeOK, Arrives, runVars, loopVars
  <1>3. \A t \in Sides : Carrying(t)' <=> Carrying(t)
    BY <1>2 DEF Carrying
  <1>4. DirectionStep(s)
    BY <1>1, <1>2, <1>3, ArrivalIsSend
  <1>5. DirectionStep(o)
    BY <1>1, <1>2, <1>3, SameIsQuiet
  <1>6. Sides = {s, o}
    BY <1>1, OtherSide
  <1> QED BY <1>4, <1>5, <1>6 DEF BothStep

LEMMA PeerDirections ==
  ASSUME ProxyInv, ProxyInv',
         \/ \E s \in Sides : SendsGarbage(s)
         \/ \E i \in Ids, cmd \in Kinds : DebuggerSends(i, cmd)
         \/ \E p \in owed, outcome \in Outcomes : VmReplies(p, outcome)
         \/ VmSendsEvent
  PROVE  BothStep
  <1>1. ASSUME NEW s \in Sides, NEW p, Arrives(s, p)
        PROVE  p \in Packets
    <2>1. ProxyTypeOK /\ ProxyTypeOK'
      BY DEF ProxyInv, ProxyTyped
    <2>2. in[s] \in Seq(Packets) /\ Append(in[s], p) \in Seq(Packets)
      BY <1>1, <2>1 DEF ProxyTypeOK, Arrives
    <2>3. Len(in[s]) + 1 \in 1..Len(Append(in[s], p))
          /\ Append(in[s], p)[Len(in[s]) + 1] = p
      BY <2>2
    <2> QED BY <2>2, <2>3, ElementOfSeq
  <1>2. \E s \in Sides : \E p : Arrives(s, p) /\ took' = took
    <2>1. CASE \E s \in Sides : SendsGarbage(s)
      BY <2>1 DEF SendsGarbage, peerVars
    <2>2. CASE \E i \in Ids, cmd \in Kinds : DebuggerSends(i, cmd)
      BY <2>2, OtherSide DEF DebuggerSends
    <2>3. CASE \E p \in owed, outcome \in Outcomes : VmReplies(p, outcome)
      BY <2>3, OtherSide DEF VmReplies
    <2>4. CASE VmSendsEvent
      BY <2>4, OtherSide DEF VmSendsEvent
    <2> QED BY <2>1, <2>2, <2>3, <2>4
  <1> QED BY <1>1, <1>2, ArrivalDirections

LEMMA NetworkDirections ==
  ASSUME ProxyInv, NEW x \in Sides,
         PeerTakes(x) \/ HangsUp(x) \/ LinkLost(x) \/ LinkClosed(x)
  PROVE  BothStep
  <1> DEFINE s == Other(x)
  <1>1. ProxyTypeOK /\ s \in Sides /\ s # x /\ Other(s) = x
    BY SidesOther DEF ProxyInv, ProxyTyped
  <1>2. in' = in /\ phase' = phase /\ loop' = loop /\ cancelled' = cancelled
    BY DEF PeerTakes, HangsUp, LinkLost, LinkClosed, runVars, loopVars
  <1>3. CASE PeerTakes(x)
    <2>1. /\ out[x] # <<>> /\ out'[x] = Tail(out[x]) /\ out'[s] = out[s]
          /\ took'[x] = Head(out[x]) /\ took'[s] = took[s]
          /\ link' = link /\ rx' = rx
      BY <1>1, <1>3 DEF PeerTakes, ProxyTypeOK
    <2>2. (Carrying(s)' <=> Carrying(s)) /\ (Carrying(x)' <=> Carrying(x))
      BY <1>2, <2>1 DEF Carrying
    <2>3. DirectionStep(s)
      BY <1>1, <1>2, <2>1, <2>2, TakingIsDelivery
    <2>4. DirectionStep(x)
      BY <1>2, <2>1, <2>2, SameIsQuiet
    <2> QED BY <1>1, <2>3, <2>4, OtherSide DEF BothStep
  <1>4. CASE HangsUp(x) \/ LinkClosed(x)
    <2>1. out' = out /\ took' = took
      BY <1>4 DEF HangsUp, LinkClosed, peerVars
    <2>2. \A t \in Sides :
            /\ rx'[t] = "broken" <=> rx[t] = "broken"
            /\ link'[Other(t)] \in {"none", "up"} <=> link[Other(t)] \in {"none", "up"}
      BY <1>1, <1>4, SidesOther DEF HangsUp, LinkClosed, ProxyTypeOK
    <2>3. \A t \in Sides : Carrying(t)' <=> Carrying(t)
      BY <1>2, <2>2 DEF Carrying
    <2> QED BY <1>2, <2>1, <2>3, SameIsQuiet DEF BothStep
  <1>5. CASE LinkLost(x)
    <2>1. /\ out'[x] = <<>> /\ out'[s] = out[s] /\ took' = took
          /\ link'[x] = "lost" /\ rx'[x] = "broken"
      BY <1>1, <1>5 DEF LinkLost, ProxyTypeOK, peerVars
    <2>2. ~Carrying(s)' /\ ~Carrying(x)'
      BY <1>1, <2>1 DEF Carrying
    <2>3. DirectionStep(s)
      BY <1>1, <2>1, <2>2, EndIsCut
    <2>4. DirectionStep(x)
      BY <1>1, <2>1, <2>2, EndIsCut
    <2> QED BY <1>1, <2>3, <2>4, OtherSide DEF BothStep
  <1> QED BY <1>3, <1>4, <1>5

\* Every step of the session is a step or a stutter of both channels.
LEMMA StepOfBothDirections ==
  ASSUME ProxyInv, ProxyInv', LoopsOver, [ProxyNext]_vars
  PROVE  BothStep
  <1>1. CASE \/ OpenVmConnection \/ VmShakes \/ DebuggerShakes \/ CreateFails
             \/ RunCancelled \/ RunStep \/ UNCHANGED vars
    BY <1>1, SessionDirections
  <1>2. CASE HandleDebuggerPacket
    BY <1>2, OtherSide, ForwardDirections DEF HandleDebuggerPacket
  <1>3. CASE HandleVmPacket
    BY <1>3, OtherSide, ForwardDirections DEF HandleVmPacket
  <1>4. CASE HandleUnusableReply
    <2>1. ProxyTypeOK
      BY DEF ProxyInv, ProxyTyped
    <2>2. /\ in'["dbg"] = in["dbg"] /\ out' = out /\ took' = took /\ rx' = rx
          /\ link' = link /\ phase' = phase /\ cancelled' = cancelled
          /\ loop'["dbg"] = loop["dbg"] /\ loop'["vm"] = "ended"
      BY <1>4, <2>1, OtherSide
      DEF HandleUnusableReply, LoopEndsInError, ProxyTypeOK, peerVars
    <2>3. (Carrying("dbg")' <=> Carrying("dbg")) /\ ~Carrying("vm")'
      BY <2>2 DEF Carrying
    <2>4. DirectionStep("dbg") /\ DirectionStep("vm")
      BY <2>1, <2>2, <2>3, OtherSide, SameIsQuiet, EndIsCut
    <2> QED BY <2>4, OtherSide DEF BothStep
  <1>5. ASSUME NEW s \in Sides, LoopStep(s) PROVE BothStep
    BY <1>5, LoopDirections
  <1>6. ASSUME NEW s \in Sides, PeerTakes(s) \/ HangsUp(s) \/ LinkLost(s) \/ LinkClosed(s)
        PROVE  BothStep
    BY <1>6, NetworkDirections
  <1>7. CASE \/ \E s \in Sides : SendsGarbage(s)
             \/ \E i \in Ids, cmd \in Kinds : DebuggerSends(i, cmd)
             \/ \E p \in owed, outcome \in Outcomes : VmReplies(p, outcome)
             \/ VmSendsEvent
    BY <1>7, PeerDirections
  <1> QED
    BY <1>1, <1>2, <1>3, <1>4, <1>5, <1>6, <1>7 DEF ProxyNext

LEMMA ChannelsInit ==
  ASSUME ProxyInit
  PROVE  ToVm!ChannelInit /\ ToDebugger!ChannelInit
  <1>1. \A s \in Sides : Open(s) = TRUE /\ Transit(s) = <<>> /\ took[s] = NoPacket
    <2> SUFFICES ASSUME NEW s \in Sides
                 PROVE  Open(s) = TRUE /\ Transit(s) = <<>> /\ took[s] = NoPacket
      OBVIOUS
    <2>1. /\ Other(s) \in Sides /\ in[s] = <<>> /\ out[Other(s)] = <<>>
          /\ took[s] = NoPacket
      BY SidesOther DEF ProxyInit, Both
    <2>2. <<>> \in Seq(Packets) /\ Len(<<>>) = 0 /\ \A k \in 1..Len(<<>>) : FALSE
      BY EmptySeq
    <2>3. GarbageAt(<<>>) = 0 /\ Sound(<<>>) = <<>>
      BY <2>2, NoGarbage
    <2>4. Carrying(s)
      BY <2>1, OtherSide DEF ProxyInit, Both, Carrying
    <2>5. Open(s) /\ Transit(s) = <<>> \o <<>>
      BY <2>1, <2>3, <2>4, TransitIs DEF Waiting
    <2> QED BY <2>1, <2>2, <2>5, ConcatEmptySeq DEF Open
  <1> QED
    BY <1>1, OtherSide DEF ToVm!ChannelInit, ToDebugger!ChannelInit

(* Each direction of a session delivers the packets that were sent, each    *)
(* once, unchanged and in their order, until it is cut, for any number of   *)
(* packets and however the loops are suspended and ended                    *)
(* (proxy.py:122-170, 188-202).                                             *)
THEOREM ProxyForwardsInOrder == ProxySpec => ForwardsInOrder
  <1>1. ProxyInit => ToVm!ChannelInit /\ ToDebugger!ChannelInit /\ LoopsOver
    BY ChannelsInit, LoopsOverInit
  <1>2. ProxyInv /\ LoopsOver /\ [ProxyNext]_vars => LoopsOver'
    BY LoopsOverStep
  <1>3. ProxyInv /\ ProxyInv' /\ LoopsOver /\ [ProxyNext]_vars
          => /\ [ToVm!ChannelNext]_(ToVm!chvars)
             /\ [ToDebugger!ChannelNext]_(ToDebugger!chvars)
    BY StepOfBothDirections, DirectionsAreChannels, OtherSide DEF BothStep
  <1> QED
    BY <1>1, <1>2, <1>3, ProxyInvariant, PTL
    DEF ProxySpec, ForwardsInOrder, ToVm!ChannelSpec, ToDebugger!ChannelSpec
==============================================================================
