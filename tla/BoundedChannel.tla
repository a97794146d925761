--------------------------- MODULE BoundedChannel ---------------------------
(***************************************************************************)
(* What the frame pipeline promises to the threads that use it: a bounded  *)
(* first-in first-out channel.  A thread first reserves a slot, then       *)
(* either fills it or gives it back; a thread that takes an item keeps the *)
(* item's slot until it has finished serving it.  No more than Capacity    *)
(* slots are ever in use, and every item is taken once, in the order in    *)
(* which the items were put in.                                            *)
(*                                                                         *)
(* There are no semaphores here: that the counters of the real class add   *)
(* up to this behaviour is what module Pipeline shows.                     *)
(***************************************************************************)
EXTENDS Naturals, Sequences, FiniteSets

CONSTANTS Users,     \* the threads that use the channel
          Payloads,  \* what can be put in the channel
          Capacity,  \* the number of slots
          Nothing    \* what a thread that serves no item serves

VARIABLES reserved,  \* the threads that hold a reserved, unfilled slot
          channel,   \* the items put in and not yet taken
          serving    \* the item each thread is serving

channelVars == <<reserved, channel, serving>>

Busy == {u \in Users : serving[u] # Nothing}

SlotsInUse == Cardinality(reserved) + Len(channel) + Cardinality(Busy)

ChannelInit ==
  /\ reserved = {}
  /\ channel = <<>>
  /\ serving = [u \in Users |-> Nothing]

Reserve(u) ==
  /\ u \notin reserved
  /\ SlotsInUse < Capacity
  /\ reserved' = reserved \cup {u}
  /\ UNCHANGED <<channel, serving>>

Put(u, x) ==
  /\ u \in reserved
  /\ reserved' = reserved \ {u}
  /\ channel' = Append(channel, x)
  /\ UNCHANGED serving

\* A slot is given back unused only by a thread that finds items waiting.
Withdraw(u) ==
  /\ u \in reserved
  /\ channel # <<>>
  /\ reserved' = reserved \ {u}
  /\ UNCHANGED <<channel, serving>>

Take(u) ==
  /\ serving[u] = Nothing
  /\ channel # <<>>
  /\ serving' = [serving EXCEPT ![u] = Head(channel)]
  /\ channel' = Tail(channel)
  /\ UNCHANGED reserved

Finish(u) ==
  /\ serving[u] # Nothing
  /\ serving' = [serving EXCEPT ![u] = Nothing]
  /\ UNCHANGED <<reserved, channel>>

ChannelNext ==
  \E u \in Users :
    \/ Reserve(u)
    \/ \E x \in Payloads : Put(u, x)
    \/ Withdraw(u)
    \/ Take(u)
    \/ Finish(u)

ChannelSpec == ChannelInit /\ [][ChannelNext]_channelVars
=============================================================================
