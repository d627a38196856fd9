---------------------------- MODULE EventPopups ----------------------------
(***************************************************************************)
(* What the user sees of uploads: the handler threads of the server put    *)
(* events into a queue, the Tk thread drains it (gui.py, _drain_events and *)
(* _on_event) and keeps one progress popup, toasts and a strip of          *)
(* thumbnails.                                                             *)
(*                                                                         *)
(* The Tk thread handles one event, timer or click at a time; that a drain *)
(* takes several events before the next timer is left open.  Timers fire   *)
(* at any time after they are set.  What a popup says, except whose photo  *)
(* it announces, is left out, and so are upload_progress and the events    *)
(* that are only logged.                                                   *)
(***************************************************************************)
EXTENDS Integers, Sequences, FiniteSets

CONSTANTS
    MaxUploads,     \* bound on uploads, each of one photo
    MaxRunning,     \* bound on uploads at the same time
    MaxAlerts,      \* bound on alerts of the watchdog
    MaxClicks,      \* bound on what the user does
    MaxWindows,     \* bound on windows; 0 stands for None
    MAX_THUMBS

Upload == 1..MaxUploads      \* in the order in which they start
Window == 1..MaxWindows
None == 0
Toast == {"done", "toast", "alert"}

VARIABLES
    upload,         \* upload[u]: "todo", "running", "received" or "ended"
    events,         \* the queue
    toastOn,        \* the check box for popups
    prog,           \* _prog["win"]
    window,         \* window[w]: "none", "progress", a member of Toast, "closed"
    opened,         \* windows opened so far
    safety,         \* windows whose 45 s timer is set
    thumbs,         \* the strip, the newest first
    announced,      \* history: announced[u]: windows that showed its photo
    muted,          \* history: photos that arrived while popups were off
    previewed,      \* history: photos put into the strip, the oldest first
    alerts, clicks

screen == <<prog, window, opened, safety>>
strip == <<thumbs, previewed>>
vars == <<upload, events, toastOn, prog, window, opened, safety, thumbs, announced,
          muted, previewed, alerts, clicks>>

Event(k, u) == [kind |-> k, of |-> u]

Init ==
    /\ upload = [u \in Upload |-> "todo"]
    /\ events = <<>>
    /\ toastOn \in BOOLEAN
    /\ prog = None
    /\ window = [w \in Window |-> "none"]
    /\ opened = 0
    /\ safety = {}
    /\ thumbs = <<>> /\ previewed = <<>>
    /\ announced = [u \in Upload |-> 0]
    /\ muted = {}
    /\ alerts = 0 /\ clicks = 0

(***************************************************************************)
(* The server.  An upload ends with "received", with one of the events     *)
(* that close the popup (partial, upload_empty, duplicate, error: here     *)
(* "closing"), or without any: it was superseded, or the save failed.      *)
(***************************************************************************)
StartUpload(u) ==
    /\ upload[u] = "todo" /\ \A v \in 1..(u - 1) : upload[v] # "todo"
    /\ Cardinality({v \in Upload : upload[v] = "running"}) < MaxRunning
    /\ upload' = [upload EXCEPT ![u] = "running"]
    /\ events' = Append(events, Event("upload_start", u))
    /\ UNCHANGED <<toastOn, screen, strip, announced, muted, alerts, clicks>>

EndUpload(u) ==
    /\ upload[u] = "running"
    /\ \/ /\ upload' = [upload EXCEPT ![u] = "received"]
          /\ events' = Append(events, Event("received", u))
       \/ /\ upload' = [upload EXCEPT ![u] = "ended"]
          /\ events' \in {Append(events, Event("closing", u)), events}
    /\ UNCHANGED <<toastOn, screen, strip, announced, muted, alerts, clicks>>

\* The watchdog thread: "stalled" or "stall_giveup".
Alert ==
    /\ alerts < MaxAlerts
    /\ alerts' = alerts + 1
    /\ events' = Append(events, Event("alert", None))
    /\ UNCHANGED <<upload, toastOn, screen, strip, announced, muted, clicks>>

(***************************************************************************)
(* Windows: a new one on top of some state of the others, and              *)
(* _close_progress_popup.                                                  *)
(***************************************************************************)
Opened(state, kind) ==
    /\ opened < MaxWindows
    /\ opened' = opened + 1
    /\ window' = [state EXCEPT ![opened + 1] = kind]

\* Mutant: only the reference is dropped.
MutantProgClosed == window

ProgClosed == IF prog = None THEN window ELSE [window EXCEPT ![prog] = "closed"]

CloseProgress ==
    /\ window' = ProgClosed
    /\ prog' = None
    /\ UNCHANGED <<opened, safety>>

\* Mutant: no timer for an upload of unknown size.
MutantStartProgress ==
    IF toastOn
    THEN /\ Opened(ProgClosed, "progress")
         /\ prog' = opened + 1
         /\ safety' \in {safety, safety \cup {opened + 1}}
    ELSE UNCHANGED screen

StartProgress ==
    IF toastOn
    THEN /\ Opened(ProgClosed, "progress")
         /\ prog' = opened + 1
         /\ safety' = safety \cup {opened + 1}
    ELSE UNCHANGED screen

Announce(u) ==
    /\ announced' = [announced EXCEPT ![u] = @ + 1]
    /\ UNCHANGED muted

ShowToast(u) ==
    /\ UNCHANGED safety
    /\ IF toastOn THEN Opened(window, "toast") /\ Announce(u)
                  ELSE muted' = muted \cup {u} /\ UNCHANGED <<window, opened, announced>>

\* Mutant: a popup that the user closed still counts as one.
MutantFinishProgress(u) ==
    /\ prog' = None
    /\ window' = [window EXCEPT ![prog] = IF @ = "progress" THEN "done" ELSE @]
    /\ announced' = [announced EXCEPT ![u] = IF window[prog] = "progress" THEN @ + 1 ELSE @]
    /\ UNCHANGED <<opened, safety, muted>>

FinishProgress(u) ==
    /\ prog' = None
    /\ IF window[prog] = "progress"
       THEN /\ window' = [window EXCEPT ![prog] = "done"]
            /\ Announce(u)
            /\ UNCHANGED <<opened, safety>>
       ELSE ShowToast(u)

\* A photo that cannot be opened as a picture gets no thumbnail.
AddThumbnail(u) ==
    \/ /\ previewed' = Append(previewed, u)
       /\ LET row == <<u>> \o thumbs
          IN thumbs' = IF Len(row) > MAX_THUMBS THEN SubSeq(row, 1, MAX_THUMBS) ELSE row
    \/ UNCHANGED strip

(***************************************************************************)
(* _on_event.                                                              *)
(***************************************************************************)
OnEvent ==
    /\ events # <<>>
    /\ events' = Tail(events)
    /\ LET e == Head(events)
       IN \/ /\ e.kind = "upload_start"
             /\ StartProgress
             /\ UNCHANGED <<strip, announced, muted>>
          \/ /\ e.kind = "received"
             /\ AddThumbnail(e.of)
             /\ IF prog # None THEN FinishProgress(e.of)
                              ELSE ShowToast(e.of) /\ UNCHANGED prog
          \/ /\ e.kind = "closing"
             /\ CloseProgress
             /\ UNCHANGED <<strip, announced, muted>>
          \/ /\ e.kind = "alert"
             /\ Opened(window, "alert")
             /\ UNCHANGED <<prog, safety, strip, announced, muted>>
    /\ UNCHANGED <<upload, toastOn, alerts, clicks>>

\* Mutant: the timer closes whatever popup there is.
MutantSafetyTimer(w) ==
    /\ w \in safety
    /\ safety' = safety \ {w}
    /\ prog' = None /\ window' = ProgClosed
    /\ UNCHANGED <<upload, events, toastOn, opened, strip, announced, muted, alerts, clicks>>

SafetyTimer(w) ==
    /\ w \in safety
    /\ safety' = safety \ {w}
    /\ IF prog = w THEN prog' = None /\ window' = ProgClosed
                   ELSE UNCHANGED <<prog, window>>
    /\ UNCHANGED <<upload, events, toastOn, opened, strip, announced, muted, alerts, clicks>>

CloseTimer(w) ==
    /\ window[w] \in Toast
    /\ window' = [window EXCEPT ![w] = "closed"]
    /\ UNCHANGED <<upload, events, toastOn, prog, opened, safety, strip, announced, muted,
                   alerts, clicks>>

\* A click on a toast, or any popup closed through the window manager.
UserCloses(w) ==
    /\ window[w] \in Toast \cup {"progress"} /\ clicks < MaxClicks
    /\ clicks' = clicks + 1
    /\ window' = [window EXCEPT ![w] = "closed"]
    /\ UNCHANGED <<upload, events, toastOn, prog, opened, safety, strip, announced, muted,
                   alerts>>

ToggleToast ==
    /\ clicks < MaxClicks
    /\ clicks' = clicks + 1
    /\ toastOn' = ~toastOn
    /\ UNCHANGED <<upload, events, screen, strip, announced, muted, alerts>>

Next ==
    \/ \E u \in Upload : StartUpload(u) \/ EndUpload(u)
    \/ Alert \/ OnEvent \/ ToggleToast
    \/ \E w \in Window : SafetyTimer(w) \/ CloseTimer(w) \/ UserCloses(w)

Spec == Init /\ [][Next]_vars

(***************************************************************************)
(* Tk runs its drain and its timers.  Uploads need not end.                *)
(***************************************************************************)
Fairness ==
    /\ WF_vars(OnEvent)
    /\ \A w \in Window : WF_vars(SafetyTimer(w)) /\ WF_vars(CloseTimer(w))

FairSpec == Spec /\ Fairness
-----------------------------------------------------------------------------
(***************************************************************************)
(* Types.                                                                  *)
(***************************************************************************)
TypeOK ==
    /\ upload \in [Upload -> {"todo", "running", "received", "ended"}]
    /\ events \in Seq([kind : {"upload_start", "received", "closing", "alert"}, of : 0..MaxUploads])
    /\ toastOn \in BOOLEAN
    /\ prog \in 0..opened /\ opened \in 0..MaxWindows
    /\ window \in [Window -> Toast \cup {"none", "progress", "closed"}]
    /\ safety \subseteq 1..opened
    /\ thumbs \in Seq(Upload) /\ Len(thumbs) <= MAX_THUMBS
    /\ previewed \in Seq(Upload)
    /\ announced \in [Upload -> Nat] /\ muted \subseteq Upload
    /\ alerts \in 0..MaxAlerts /\ clicks \in 0..MaxClicks

(***************************************************************************)
(* Whatever other uploads start, fail or end meanwhile, and although they  *)
(* share one progress popup: a photo whose "received" has been handled was *)
(* announced by exactly one window, the popup turned over or a toast; by   *)
(* none only if popups were off and there was no popup to turn over.       *)
(***************************************************************************)
AnnouncedOnce ==
    \A u \in Upload :
        /\ announced[u] <= 1
        /\ upload[u] = "received" /\ (\A i \in 1..Len(events) : events[i] # Event("received", u))
              => announced[u] = 1 \/ u \in muted
        /\ u \in muted => announced[u] = 0

(***************************************************************************)
(* No progress popup is on the screen that _prog has lost: nothing would   *)
(* ever update, turn over or close it.                                     *)
(***************************************************************************)
NoStrayProgress == \A w \in Window : window[w] = "progress" => prog = w

(***************************************************************************)
(* The strip shows the newest photos that could be opened, newest first.   *)
(***************************************************************************)
StripNewest ==
    LET n == Len(previewed)
    IN thumbs = [i \in 1..(IF n < MAX_THUMBS THEN n ELSE MAX_THUMBS) |-> previewed[n + 1 - i]]

(***************************************************************************)
(* The types of the windows, the queue and the strip, no stray popup, and  *)
(* the newest photos in the strip.                                         *)
(***************************************************************************)
ScreenSound == TypeOK /\ NoStrayProgress /\ StripNewest

(***************************************************************************)
(* The 45 s timer of one upload's popup never closes that of a later one.  *)
(***************************************************************************)
OwnTimerOnly ==
    [][\A w \in Window :
          (window[w] = "progress" /\ window'[w] = "closed" /\ events' = events
             /\ clicks' = clicks) => w \in safety \ safety']_vars

(***************************************************************************)
(* No popup stays for ever, also when its upload ends without an event     *)
(* (superseded, failed save) or does not end at all.                       *)
(***************************************************************************)
PopupsGo ==
    \A w \in Window : window[w] \in Toast \cup {"progress"} ~> window[w] = "closed"
=============================================================================
