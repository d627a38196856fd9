---------------------------- MODULE MCSpoolWatchdog ----------------------------
(***************************************************************************)
(* SpoolWatchdog and EventPopups for TLC: the watchdog thread and the      *)
(* popups of the window, which share no state here.  The first state picks *)
(* the one that runs; the other stays in an initial state.                 *)
(*                                                                         *)
(* In the code the times of the watchdog are 10, 30 and 4320 periods; only *)
(* their order decides what a tick does.  A spool is alerted at age 2,     *)
(* reminded of at age 5 and given up at age 6.                             *)
(***************************************************************************)
EXTENDS SpoolWatchdog, TLC

CONSTANTS MaxUploads, MaxRunning, MaxAlerts, MaxClicks, MaxWindows, MAX_THUMBS

VARIABLES
    runs,                                                   \* what runs
    upload, events, toastOn, prog, window, opened, safety, thumbs, announced,
    muted, previewed, alerts, clicks                        \* popups

Popups == INSTANCE EventPopups

ASSUME PopupConstants ==
    /\ MaxUploads \in Nat /\ MaxRunning \in Nat /\ MaxAlerts \in Nat
    /\ MaxClicks \in Nat /\ MaxWindows \in Nat
    /\ MAX_THUMBS \in Nat \ {0}

AlertPeriods == 2
RealertPeriods == 3
GiveUpPeriods == 6

\* An upload opens at most two windows, so this bound follows from the others.
AllWindows == 2 * MaxUploads + MaxAlerts
-----------------------------------------------------------------------------
MCInit ==
    /\ Init /\ Popups!Init
    /\ runs \in {"watchdog", "popups"}
    /\ runs = "watchdog" => toastOn

pVars == <<upload, events, toastOn, prog, window, opened, safety, thumbs, announced,
           muted, previewed, alerts, clicks>>

MCNext ==
    /\ UNCHANGED runs
    /\ \/ runs = "watchdog" /\ Next /\ UNCHANGED pVars
       \/ runs = "popups" /\ Popups!Next /\ UNCHANGED vars

\* The fairness of SpoolWatchdog, when it runs.  That of the popups asks for nothing
\* in their initial state, where no event waits and no timer is set.
WatchdogRuns ==
    /\ WF_vars(runs = "watchdog" /\ Watchdog)
    /\ WF_vars(runs = "watchdog" /\ Elapse)

MCSpec ==
    /\ MCInit /\ [][MCNext]_<<vars, runs, pVars>>
    /\ WatchdogRuns /\ Popups!Fairness
-----------------------------------------------------------------------------
\* Types, no progress popup on the screen that _prog does not refer to, and the newest
\* photos in the strip.
ScreenSound == Popups!ScreenSound

\* A photo whose "received" was handled was announced by exactly one window, or popups
\* were off, although uploads share the progress popup.
AnnouncedOnce == Popups!AnnouncedOnce

\* The 45 s timer of one upload's popup never closes that of a later one.
OwnTimerOnly == Popups!OwnTimerOnly

\* No popup stays for ever, however its upload ends.
PopupsGo == Popups!PopupsGo
=============================================================================
