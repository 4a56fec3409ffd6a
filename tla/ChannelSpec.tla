---------------------------- MODULE ChannelSpec -----------------------------
(* What a MessageQueue promises: a bounded first-in first-out channel.      *)
EXTENDS Naturals, Sequences

CONSTANTS Threads, Messages, Capacity, NoMessage

VARIABLES chan,  \* messages in transit
          got    \* the message a thread has received and not consumed

CInit == chan = <<>> /\ got = [t \in Threads |-> NoMessage]

Send(m) ==
  /\ Len(chan) < Capacity
  /\ chan' = Append(chan, m)
  /\ UNCHANGED got

Recv(t) ==
  /\ chan # <<>>
  /\ got' = [got EXCEPT ![t] = Head(chan)]
  /\ chan' = Tail(chan)

Consume(t) == got' = [got EXCEPT ![t] = NoMessage] /\ UNCHANGED chan

CNext ==
  \/ \E m \in Messages : Send(m)
  \/ \E t \in Threads : Recv(t) \/ Consume(t)

CSpec == CInit /\ [][CNext]_<<chan, got>>
=============================================================================
