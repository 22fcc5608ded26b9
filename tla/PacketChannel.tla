----------------------------- MODULE PacketChannel -----------------------------
(***************************************************************************)
(* What one direction of a connection promises: the packets that are sent  *)
(* are delivered once, in their order and unchanged, until the channel is  *)
(* cut; then a prefix of what was under way may still be delivered, and    *)
(* nothing that is sent later.                                             *)
(***************************************************************************)
EXTENDS Naturals, Sequences

CONSTANTS Packets, NoPacket

VARIABLES open,     \* packets sent now can still be delivered
          transit,  \* packets sent and not delivered, oldest first
          last      \* the packet delivered last

chvars == <<open, transit, last>>

ChannelInit ==
  /\ open = TRUE
  /\ transit = <<>>
  /\ last = NoPacket

SendPacket(p) ==
  /\ open
  /\ transit' = Append(transit, p)
  /\ UNCHANGED <<open, last>>

DeliverPacket ==
  /\ transit # <<>>
  /\ last' = Head(transit)
  /\ transit' = Tail(transit)
  /\ UNCHANGED open

CutChannel ==
  /\ open' = FALSE
  /\ \E n \in 0..Len(transit) : transit' = SubSeq(transit, 1, n)
  /\ UNCHANGED last

ChannelNext == (\E p \in Packets : SendPacket(p)) \/ DeliverPacket \/ CutChannel

ChannelSpec == ChannelInit /\ [][ChannelNext]_chvars
==============================================================================
