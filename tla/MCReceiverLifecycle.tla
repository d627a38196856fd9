------------------------- MODULE MCReceiverLifecycle -------------------------
(***************************************************************************)
(* Two components of the window that share no state: the server's life     *)
(* cycle and the windows of a card's networks.  The first state picks the  *)
(* one that runs; the other stays in an initial state in which nothing is  *)
(* under way.                                                              *)
(***************************************************************************)
EXTENDS ReceiverLifecycle

CONSTANTS Windows, Nets, NoNet, MaxOps

VARIABLES
    runs,                                                   \* what runs
    helper, nets, late, window, shown, job, saved, ops      \* networks

\* Every server object comes from a start of the program, a click or a death.
AllServers == 1 + MaxClicks + MaxFaults

Wifi == INSTANCE CardWifi
-----------------------------------------------------------------------------
NotStarted == foreign = FALSE /\ folder = FALSE /\ tk = "idle" /\ wanted = FALSE /\ Init

NoWindow == helper = FALSE /\ nets = {} /\ Wifi!Init

MCInit ==
    \/ runs = "server" /\ Init /\ NoWindow
    \/ runs = "wifi" /\ Wifi!Init /\ NotStarted

wVars == <<helper, nets, late, window, shown, job, saved, ops>>

MCNext ==
    /\ UNCHANGED runs
    /\ \/ runs = "server" /\ Next /\ UNCHANGED wVars
       \/ runs = "wifi" /\ Wifi!Next /\ UNCHANGED vars

MCSpec ==
    /\ MCInit /\ [][MCNext]_<<vars, runs, wVars>>
    /\ Fairness /\ Wifi!Fairness
-----------------------------------------------------------------------------
\* The types of the network windows, and: "registered" and "deleted" are true of
\* the card when they are written, whatever was given up and repeated, unless
\* another session was mixed up with the operation.
VerdictTrue == []Wifi!TypeOK /\ Wifi!VerdictTrue

\* The buttons of a window that is not closed come back.
ButtonsBack == Wifi!ButtonsBack
=============================================================================
