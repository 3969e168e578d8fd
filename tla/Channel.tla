------------------------------ MODULE Channel ------------------------------
(***************************************************************************)
(* What the buffers promise: each is a first-in first-out queue of bounded   *)
(* length, and one operation concerns one of them.                          *)
(***************************************************************************)
EXTENDS Naturals, Sequences

CONSTANTS Buffer, Value, Capacity
VARIABLE chan

Init == chan = [b \in Buffer |-> <<>>]

Put(b, v) == /\ Len(chan[b]) < Capacity
             /\ chan' = [chan EXCEPT ![b] = Append(@, v)]

Get(b) == /\ chan[b] # <<>>
          /\ chan' = [chan EXCEPT ![b] = Tail(@)]

Next == \E b \in Buffer : Get(b) \/ \E v \in Value : Put(b, v)

Spec == Init /\ [][Next]_chan
=============================================================================
