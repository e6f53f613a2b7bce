------------------------------ MODULE DualSlot ------------------------------
(***************************************************************************)
(* What two application slots promise (partitions.csv): there is always a  *)
(* complete image to run, in the live slot; an update may spoil and        *)
(* rewrite the spare slot only, and the device moves to it in one step,    *)
(* when it holds a complete image.                                         *)
(***************************************************************************)
CONSTANTS Release, Factory, None

VARIABLES
  live,    \* the image in the slot the device runs from
  spare    \* the complete image in the other slot, or None

vars == <<live, spare>>

Init == live = Factory /\ spare = None

Spoil == spare # None /\ spare' = None /\ UNCHANGED live

Install(r) == spare = None /\ spare' = r /\ UNCHANGED live

Swap == spare # None /\ live' = spare /\ spare' = live

Next == Spoil \/ Swap \/ \E r \in Release : Install(r)

Spec == Init /\ [][Next]_vars
=============================================================================
