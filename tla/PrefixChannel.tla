---------------------------- MODULE PrefixChannel ----------------------------
(***************************************************************************)
(* What a confirmed Bluetooth session promises its caller, for each end    *)
(* that sends: the other end receives a prefix of what was sent, each      *)
(* message once and in order.  Nothing promises that it receives all.      *)
(***************************************************************************)
EXTENDS Naturals, Sequences

CONSTANTS
  Senders,
  Messages,
  Capacity     \* the messages one sender may send

VARIABLES
  sent,        \* what each sender has sent
  received     \* what was received of it

channel == <<sent, received>>

Init == sent = [e \in Senders |-> <<>>] /\ received = [e \in Senders |-> <<>>]

Send(e, m) ==
  /\ Len(sent[e]) < Capacity
  /\ sent' = [sent EXCEPT ![e] = Append(@, m)]
  /\ UNCHANGED received

Receive(e) ==
  /\ Len(received[e]) < Len(sent[e])
  /\ received' = [received EXCEPT ![e] = Append(@, sent[e][Len(received[e]) + 1])]
  /\ UNCHANGED sent

Next == \E e \in Senders : (\E m \in Messages : Send(e, m)) \/ Receive(e)

Spec == Init /\ [][Next]_channel
=============================================================================
