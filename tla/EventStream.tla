---------------------------- MODULE EventStream ----------------------------
(***************************************************************************)
(* What the event channel promises the rest of the debugger: events are    *)
(* handled whole, one at a time, in the order in which they were sent.     *)
(* Backend uses the channel like this (an event is one message of its      *)
(* pipe); Wire shows that fields, pieces and polls add up to it, until an  *)
(* event is torn in one of the two ways the code leaves open.              *)
(***************************************************************************)
EXTENDS Naturals, Sequences

CONSTANTS Event

VARIABLES sent,    \* the events of the backend, in the order they were begun
          handled  \* the events the adapter has taken from the channel

Init == sent = <<>> /\ handled = <<>>

Send == \E e \in Event :
    /\ sent' = Append(sent, e)
    /\ UNCHANGED handled

Handle ==
    /\ Len(handled) < Len(sent)
    /\ handled' = Append(handled, sent[Len(handled) + 1])
    /\ UNCHANGED sent

Next == Send \/ Handle

Spec == Init /\ [][Next]_<<sent, handled>>

=============================================================================
