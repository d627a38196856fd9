---------------------------- MODULE PhotoDelivery ----------------------------
(***************************************************************************)
(* What the receiver promises for one photo, with spools, connections and  *)
(* retries forgotten: the photo is stored once, byte for byte, and the     *)
(* card is told "success" only after that.  A card that is told "success"  *)
(* never offers the photo again, so a promise broken here loses it.        *)
(***************************************************************************)
EXTENDS Integers, Sequences

CONSTANT Media            \* number of units of media data in the photo's tar

VARIABLES
    library,              \* stored content, << >> while nothing is stored
    acked                 \* the card has received success=true

vars == <<library, acked>>

\* Unit i of the photo is written i, so an intact copy is the identity.
MediaUnits == [i \in 1..Media |-> i]

Init == library = << >> /\ acked = FALSE

Store ==
    /\ library = << >>
    /\ library' = MediaUnits
    /\ UNCHANGED acked

Acknowledge ==
    /\ library = MediaUnits
    /\ ~acked
    /\ acked' = TRUE
    /\ UNCHANGED library

Next == Store \/ Acknowledge

Fairness == WF_vars(Store) /\ WF_vars(Acknowledge)

Spec == Init /\ [][Next]_vars

FairSpec == Spec /\ Fairness
=============================================================================
