--------------------------- MODULE MCSpoolTransfer ---------------------------
(***************************************************************************)
(* SpoolTransfer on small instances.  A calm behaviour, chosen in the first*)
(* state, has one connection open at a time and neither a crash nor a save *)
(* that fails; drops and stalls remain.                                    *)
(***************************************************************************)
EXTENDS SpoolTransfer

VARIABLE calm

OneAtATime == \A c, d \in Conn : pc[c] # "closed" /\ pc[d] # "closed" => c = d

CalmStep == OneAtATime' /\ ~Crash /\ \A c \in Conn : ~SaveFails(c)

MCInit == Init /\ calm \in BOOLEAN

MCNext == Next /\ (calm => CalmStep) /\ UNCHANGED calm

MCSpec == MCInit /\ [][MCNext]_<<vars, calm>> /\ Fairness

\* A calm transfer makes progress as PhotoDelivery says: however often the
\* connection is dropped or stalls, the card resumes at the offset it is told
\* until the photo is stored, and then it is told success.
CalmDelivered == calm => Delivery!Fairness
=============================================================================
