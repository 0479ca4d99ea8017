----------------------------- MODULE AmService ------------------------------
(***************************************************************************)
(* What an acknowledged link promises its caller (docs of mac/am.py and    *)
(* mac/reassembly.py): every SDU, whole, once and in order, until a        *)
(* segment is given up on; from then on SDUs may be missing or lack their  *)
(* beginning, but still come in order and at most once.                    *)
(***************************************************************************)
EXTENDS Naturals, FiniteSets

VARIABLES
  offered,      \* SDUs the sender has accepted, or numbered and then refused
  gaveUp,       \* a segment was given up on
  delivered     \* what the receiver's caller got: [turn, sdu: its number, whole],
                \* in the order of the turns 1, 2, 3, ...

vars == <<offered, gaveUp, delivered>>

InOrder(deliveries) ==
  \A d, e \in deliveries : d.turn < e.turn => d.sdu < e.sdu

Perfect(deliveries) ==
  \A d \in deliveries : d.sdu = d.turn /\ d.whole

Init == offered = 0 /\ gaveUp = FALSE /\ delivered = {}

Offer ==
  /\ offered' = offered + 1
  /\ gaveUp' \in {gaveUp, TRUE}       \* TRUE: the SDU was refused half way
  /\ UNCHANGED delivered

GiveUp ==
  /\ gaveUp' = TRUE
  /\ UNCHANGED <<offered, delivered>>

Deliver ==
  /\ UNCHANGED offered
  /\ gaveUp' \in {gaveUp, TRUE}
  /\ LET before == delivered
         after  == delivered'
     IN  /\ before \subseteq after /\ before # after
         /\ {d.turn : d \in after} = 1 .. Cardinality(after)
         /\ InOrder(after)
         /\ ~gaveUp' => Perfect(after)
         /\ \A d \in after : d.sdu <= offered

Next == Offer \/ Deliver \/ GiveUp

Spec == Init /\ [][Next]_vars

=============================================================================
