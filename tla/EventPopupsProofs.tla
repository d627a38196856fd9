-------------------------- MODULE EventPopupsProofs --------------------------
(***************************************************************************)
(* ScreenSound, AnnouncedOnce and OwnTimerOnly for any number of uploads,  *)
(* of those that run at once, and of alerts, clicks, windows and           *)
(* thumbnails.                                                             *)
(***************************************************************************)
EXTENDS MCSpoolWatchdog, Sequences, FiniteSets, TLAPS

(***************************************************************************)
(* The types of the windows, and that none is used before its number.      *)
(***************************************************************************)
ScreenType ==
    /\ prog \in 0..opened /\ opened \in 0..MaxWindows
    /\ window \in [Popups!Window -> Popups!Toast \cup {"none", "progress", "closed"}]
    /\ \A w \in Popups!Window : w > opened => window[w] = "none"

ScreenInv == ScreenType /\ Popups!NoStrayProgress

LEMMA ScreenInit == Popups!Init => ScreenInv
  BY PopupConstants DEF Popups!Init, ScreenInv, ScreenType, Popups!NoStrayProgress,
     Popups!Window, Popups!None, Popups!Toast

(***************************************************************************)
(* One lemma for each thing that happens to the windows.                   *)
(***************************************************************************)
LEMMA ClosedState ==
    ASSUME ScreenInv
    PROVE  /\ Popups!ProgClosed \in
                 [Popups!Window -> Popups!Toast \cup {"none", "progress", "closed"}]
           /\ \A w \in Popups!Window : Popups!ProgClosed[w] # "progress"
           /\ \A w \in Popups!Window : w > opened => Popups!ProgClosed[w] = "none"
<1>1. prog = Popups!None \/ prog \in Popups!Window
  BY PopupConstants DEF ScreenInv, ScreenType, Popups!Window, Popups!None
<1>2. CASE prog = Popups!None
  BY <1>2 DEF Popups!ProgClosed, ScreenInv, ScreenType, Popups!NoStrayProgress,
     Popups!Window, Popups!None
<1>3. CASE prog # Popups!None
  <2>1. \A w \in Popups!Window : Popups!ProgClosed[w] = IF w = prog THEN "closed" ELSE window[w]
    BY <1>1, <1>3 DEF Popups!ProgClosed, ScreenInv, ScreenType
  <2>2. Popups!ProgClosed \in [Popups!Window -> Popups!Toast \cup {"none", "progress", "closed"}]
    BY <1>1, <1>3 DEF Popups!ProgClosed, ScreenInv, ScreenType
  <2> QED
    BY <1>1, <2>1, <2>2, PopupConstants DEF ScreenInv, ScreenType, Popups!NoStrayProgress,
       Popups!Window
<1> QED
  BY <1>2, <1>3

LEMMA OpenedState ==
    ASSUME NEW state \in [Popups!Window -> Popups!Toast \cup {"none", "progress", "closed"}],
           NEW kind \in Popups!Toast \cup {"progress"},
           opened \in 0..MaxWindows, Popups!Opened(state, kind),
           \A w \in Popups!Window : w > opened => state[w] = "none"
    PROVE  /\ opened' = opened + 1 /\ opened' \in 0..MaxWindows /\ opened + 1 \in Popups!Window
           /\ window' \in [Popups!Window -> Popups!Toast \cup {"none", "progress", "closed"}]
           /\ \A w \in Popups!Window : window'[w] = IF w = opened + 1 THEN kind ELSE state[w]
           /\ \A w \in Popups!Window : w > opened' => window'[w] = "none"
  BY PopupConstants DEF Popups!Opened, Popups!Window

LEMMA ToastState ==
    ASSUME ScreenInv, NEW u, Popups!ShowToast(u), prog' \in {Popups!None, prog},
           prog = Popups!None \/ prog' = prog \/ window[prog] # "progress"
    PROVE  ScreenInv'
<1>1. CASE toastOn
  <2>1. Popups!Opened(window, "toast")
    BY <1>1 DEF Popups!ShowToast
  <2>2. /\ opened' = opened + 1 /\ opened' \in 0..MaxWindows
        /\ window' \in [Popups!Window -> Popups!Toast \cup {"none", "progress", "closed"}]
        /\ \A w \in Popups!Window : window'[w] = IF w = opened + 1 THEN "toast" ELSE window[w]
        /\ \A w \in Popups!Window : w > opened' => window'[w] = "none"
    BY <2>1, OpenedState DEF ScreenInv, ScreenType, Popups!Toast
  <2> QED
    BY <2>2, PopupConstants DEF ScreenInv, ScreenType, Popups!NoStrayProgress, Popups!None,
       Popups!Window
<1>2. CASE ~toastOn
  BY <1>2 DEF Popups!ShowToast, ScreenInv, ScreenType, Popups!NoStrayProgress, Popups!None,
     Popups!Window
<1> QED
  BY <1>1, <1>2

LEMMA EventScreen ==
    ASSUME ScreenInv, Popups!OnEvent
    PROVE  ScreenInv'
<1> DEFINE e == Head(events)
<1>1. CASE e.kind = "upload_start" /\ Popups!StartProgress
  <2>1. CASE toastOn
    <3>1. Popups!Opened(Popups!ProgClosed, "progress") /\ prog' = opened + 1
      BY <1>1, <2>1 DEF Popups!StartProgress
    <3>2. /\ opened' = opened + 1 /\ opened' \in 0..MaxWindows
          /\ window' \in [Popups!Window -> Popups!Toast \cup {"none", "progress", "closed"}]
          /\ \A w \in Popups!Window : window'[w] = IF w = opened + 1 THEN "progress" ELSE Popups!ProgClosed[w]
          /\ \A w \in Popups!Window : w > opened' => window'[w] = "none"
      BY <3>1, ClosedState, OpenedState DEF ScreenInv, ScreenType
    <3> QED
      BY <3>1, <3>2, ClosedState DEF ScreenInv, ScreenType, Popups!NoStrayProgress
  <2>2. CASE ~toastOn
    BY <1>1, <2>2 DEF Popups!StartProgress, Popups!screen, ScreenInv, ScreenType,
       Popups!NoStrayProgress
  <2> QED
    BY <2>1, <2>2
<1>2. CASE e.kind = "received" /\ prog # Popups!None /\ Popups!FinishProgress(e.of)
  <2>1. prog \in Popups!Window /\ prog' = Popups!None
    BY <1>2, PopupConstants DEF Popups!FinishProgress, ScreenInv, ScreenType,
       Popups!Window, Popups!None
  <2>2. CASE window[prog] = "progress"
    <3>1. opened' = opened /\ window' = [window EXCEPT ![prog] = "done"]
      BY <1>2, <2>2 DEF Popups!FinishProgress
    <3>2. window' \in [Popups!Window -> Popups!Toast \cup {"none", "progress", "closed"}]
      BY <2>1, <3>1 DEF ScreenInv, ScreenType, Popups!Toast
    <3>3. \A w \in Popups!Window : window'[w] = IF w = prog THEN "done" ELSE window[w]
      BY <2>1, <3>1 DEF ScreenInv, ScreenType
    <3> QED
      BY <2>1, <2>2, <3>1, <3>2, <3>3, PopupConstants
      DEF ScreenInv, ScreenType, Popups!NoStrayProgress, Popups!Window, Popups!None
  <2>3. CASE window[prog] # "progress"
    BY <1>2, <2>1, <2>3, ToastState DEF Popups!FinishProgress
  <2> QED
    BY <2>2, <2>3
<1>3. CASE e.kind = "received" /\ prog = Popups!None /\ Popups!ShowToast(e.of) /\ UNCHANGED prog
  BY <1>3, ToastState
<1>4. CASE e.kind = "closing" /\ Popups!CloseProgress
  BY <1>4, ClosedState DEF Popups!CloseProgress, ScreenInv, ScreenType,
     Popups!NoStrayProgress, Popups!None
<1>5. CASE e.kind = "alert" /\ Popups!Opened(window, "alert") /\ UNCHANGED prog
  <2>1. /\ opened' = opened + 1 /\ opened' \in 0..MaxWindows
        /\ window' \in [Popups!Window -> Popups!Toast \cup {"none", "progress", "closed"}]
        /\ \A w \in Popups!Window : window'[w] = IF w = opened + 1 THEN "alert" ELSE window[w]
        /\ \A w \in Popups!Window : w > opened' => window'[w] = "none"
    BY <1>5, OpenedState DEF ScreenInv, ScreenType, Popups!Toast
  <2> QED
    BY <1>5, <2>1 DEF ScreenInv, ScreenType, Popups!NoStrayProgress
<1> QED
  BY <1>1, <1>2, <1>3, <1>4, <1>5 DEF Popups!OnEvent

LEMMA ScreenStep ==
    ASSUME ScreenInv, [Popups!Next]_(Popups!vars)
    PROVE  ScreenInv'
<1>1. CASE Popups!OnEvent
  BY <1>1, EventScreen
<1>2. ASSUME NEW w \in Popups!Window, Popups!SafetyTimer(w)
      PROVE  ScreenInv'
  BY <1>2, ClosedState DEF Popups!SafetyTimer, ScreenInv, ScreenType,
     Popups!NoStrayProgress, Popups!None
<1>3. ASSUME NEW w \in Popups!Window, Popups!CloseTimer(w) \/ Popups!UserCloses(w)
      PROVE  ScreenInv'
  <2>1. window' = [window EXCEPT ![w] = "closed"] /\ UNCHANGED <<prog, opened>>
        /\ window[w] # "none"
    BY <1>3 DEF Popups!CloseTimer, Popups!UserCloses, Popups!Toast
  <2>2. \A v \in Popups!Window : window'[v] = IF v = w THEN "closed" ELSE window[v]
    BY <2>1 DEF ScreenInv, ScreenType
  <2>3. window' \in [Popups!Window -> Popups!Toast \cup {"none", "progress", "closed"}]
    BY <2>1 DEF ScreenInv, ScreenType
  <2> QED
    BY <2>1, <2>2, <2>3 DEF ScreenInv, ScreenType, Popups!NoStrayProgress
<1>4. ASSUME UNCHANGED Popups!screen
      PROVE  ScreenInv'
  BY <1>4 DEF Popups!screen, ScreenInv, ScreenType, Popups!NoStrayProgress
<1>5. ASSUME NEW u \in Popups!Upload, Popups!StartUpload(u) \/ Popups!EndUpload(u)
      PROVE  ScreenInv'
  BY <1>4, <1>5 DEF Popups!StartUpload, Popups!EndUpload
<1>6. CASE Popups!Alert \/ Popups!ToggleToast
  BY <1>4, <1>6 DEF Popups!Alert, Popups!ToggleToast
<1>7. CASE UNCHANGED Popups!vars
  BY <1>4, <1>7 DEF Popups!vars, Popups!screen
<1> QED
  BY <1>1, <1>2, <1>3, <1>5, <1>6, <1>7 DEF Popups!Next

(***************************************************************************)
(* The queue: what Append and Tail do to it.                               *)
(***************************************************************************)
Events == [kind : {"upload_start", "received", "closing"}, of : Popups!Upload]
            \cup {Popups!Event("alert", Popups!None)}

LEMMA AppendEvent ==
    ASSUME NEW q \in Seq(Events), NEW e \in Events
    PROVE  /\ Append(q, e) \in Seq(Events) /\ Len(Append(q, e)) = Len(q) + 1
           /\ \A i \in 1..Len(q) : Append(q, e)[i] = q[i]
           /\ Append(q, e)[Len(q) + 1] = e
  OBVIOUS

LEMMA TailEvent ==
    ASSUME NEW q \in Seq(Events), q # <<>>
    PROVE  /\ Tail(q) \in Seq(Events) /\ Len(Tail(q)) = Len(q) - 1 /\ Len(q) > 0
           /\ \A i \in 1..(Len(q) - 1) : Tail(q)[i] = q[i + 1]
           /\ Head(q) = q[1] /\ Head(q) \in Events
  OBVIOUS

(***************************************************************************)
(* The invariant behind AnnouncedOnce: an upload posts at most one         *)
(* "received", nothing announces its photo before that event is handled,   *)
(* and handling it announces the photo once or notes that popups are off.  *)
(***************************************************************************)
Pending(u) == \E i \in 1..Len(events) : events[i] = Popups!Event("received", u)

PostedOnce(u) ==
    \A i, j \in 1..Len(events) :
        events[i] = Popups!Event("received", u) /\ events[j] = Popups!Event("received", u) => i = j

Due(u) == upload[u] # "received" \/ Pending(u)

Told(u) ==
    /\ Pending(u) => upload[u] = "received"
    /\ Due(u) => announced[u] = 0 /\ u \notin muted
    /\ ~Due(u) => \/ announced[u] = 1 /\ u \notin muted
                  \/ announced[u] = 0 /\ u \in muted

QueueType ==
    /\ upload \in [Popups!Upload -> {"todo", "running", "received", "ended"}]
    /\ events \in Seq(Events)
    /\ announced \in [Popups!Upload -> Nat]
    /\ muted \subseteq Popups!Upload

QueueInv == QueueType /\ \A u \in Popups!Upload : PostedOnce(u) /\ Told(u)

LEMMA QueueInit == Popups!Init => QueueInv
  BY DEF Popups!Init, QueueInv, QueueType, PostedOnce, Told, Due, Pending

(***************************************************************************)
(* An event other than "received" is posted.                               *)
(***************************************************************************)
LEMMA OtherPosted ==
    ASSUME QueueInv, NEW e \in Events, e.kind # "received", events' = Append(events, e),
           NEW u \in Popups!Upload, upload'[u] = "received" <=> upload[u] = "received",
           UNCHANGED <<announced, muted>>
    PROVE  PostedOnce(u)' /\ Told(u)'
<1>1. Popups!Event("received", u) # e
  BY DEF Popups!Event
<1>2. events \in Seq(Events)
  BY DEF QueueInv, QueueType
<1>3. Pending(u)' = Pending(u)
  BY <1>1, <1>2, AppendEvent DEF Pending, Popups!Event
<1>4. PostedOnce(u)'
  BY <1>1, <1>2, AppendEvent DEF QueueInv, PostedOnce, Popups!Event
<1> QED
  BY <1>3, <1>4 DEF QueueInv, Told, Due

LEMMA SameQueue ==
    ASSUME QueueInv, UNCHANGED <<upload, events, announced, muted>>
    PROVE  QueueInv'
  BY DEF QueueInv, QueueType, PostedOnce, Told, Due, Pending

LEMMA UploadQueue ==
    ASSUME QueueInv, NEW v \in Popups!Upload, Popups!StartUpload(v) \/ Popups!EndUpload(v)
    PROVE  QueueInv'
<1>1. UNCHANGED <<announced, muted>>
  BY DEF Popups!StartUpload, Popups!EndUpload
<1>2. ASSUME NEW k \in {"upload_start", "closing"}, NEW s \in {"running", "ended"},
             upload[v] # "received",
             upload' = [upload EXCEPT ![v] = s], events' = Append(events, Popups!Event(k,
             v))
      PROVE  QueueInv'
  <2>1. Popups!Event(k, v) \in Events /\ Popups!Event(k, v).kind # "received"
    BY DEF Events, Popups!Event
  <2>2. \A u \in Popups!Upload : upload'[u] = "received" <=> upload[u] = "received"
    BY <1>2 DEF QueueInv, QueueType
  <2>3. QueueType'
    BY <1>1, <1>2, <2>1, AppendEvent DEF QueueInv, QueueType
  <2> QED
    BY <1>1, <1>2, <2>1, <2>2, <2>3, OtherPosted DEF QueueInv
<1>3. ASSUME upload[v] = "running", upload' = [upload EXCEPT ![v] = "ended"], UNCHANGED events
      PROVE  QueueInv'
  <2>1. \A u \in Popups!Upload : upload'[u] = "received" <=> upload[u] = "received"
    BY <1>3 DEF QueueInv, QueueType
  <2>2. QueueType'
    BY <1>1, <1>3 DEF QueueInv, QueueType
  <2> QED
    BY <1>1, <1>3, <2>1, <2>2 DEF QueueInv, PostedOnce, Told, Due, Pending
<1>4. ASSUME upload[v] = "running", upload' = [upload EXCEPT ![v] = "received"],
             events' = Append(events, Popups!Event("received", v))
      PROVE  QueueInv'
  <2>1. Popups!Event("received", v) \in Events /\ events \in Seq(Events)
    BY DEF Events, Popups!Event, QueueInv, QueueType
  <2>2. QueueType'
    BY <1>1, <1>4, <2>1, AppendEvent DEF QueueInv, QueueType
  <2>3. ~Pending(v)
    BY <1>4 DEF QueueInv, Told
  <2>4. PostedOnce(v)' /\ Pending(v)'
    BY <1>4, <2>1, <2>3, AppendEvent DEF PostedOnce, Pending
  <2>5. upload'[v] = "received"
    BY <1>4 DEF QueueInv, QueueType
  <2>6. Told(v)'
    BY <1>1, <1>4, <2>4, <2>5 DEF QueueInv, Told, Due
  <2>7. ASSUME NEW u \in Popups!Upload, u # v
        PROVE  PostedOnce(u)' /\ Told(u)'
    <3>1. Popups!Event("received", u) # Popups!Event("received", v)
      BY <2>7 DEF Popups!Event
    <3>2. Pending(u)' = Pending(u)
      BY <1>4, <2>1, <3>1, AppendEvent DEF Pending
    <3>3. PostedOnce(u)'
      BY <1>4, <2>1, <3>1, AppendEvent DEF QueueInv, PostedOnce
    <3>4. upload'[u] = upload[u]
      BY <1>4, <2>7 DEF QueueInv, QueueType
    <3> QED
      BY <1>1, <3>2, <3>3, <3>4 DEF QueueInv, Told, Due
  <2> QED
    BY <2>2, <2>4, <2>6, <2>7 DEF QueueInv
<1> QED
  BY <1>2, <1>3, <1>4 DEF Popups!StartUpload, Popups!EndUpload

LEMMA EventQueue ==
    ASSUME QueueInv, Popups!OnEvent
    PROVE  QueueInv'
<1> DEFINE e == Head(events)
<1>1. events \in Seq(Events) /\ events # <<>> /\ events' = Tail(events) /\ UNCHANGED upload
  BY DEF QueueInv, QueueType, Popups!OnEvent
<1>2. e \in Events
  BY <1>1, TailEvent
<1>3. \A u \in Popups!Upload : PostedOnce(u)'
  BY <1>1, TailEvent DEF QueueInv, PostedOnce
<1>4. ASSUME NEW u \in Popups!Upload, e # Popups!Event("received", u)
      PROVE  Pending(u)' = Pending(u)
  <2>1. ASSUME Pending(u) PROVE Pending(u)'
    <3>1. PICK i \in 1..Len(events) : events[i] = Popups!Event("received", u)
      BY <2>1 DEF Pending
    <3>2. i # 1 /\ i - 1 \in 1..(Len(events) - 1)
      BY <1>1, <1>4, <3>1, TailEvent
    <3>3. Tail(events)[i - 1] = events[i]
      BY <1>1, <3>2, TailEvent
    <3> QED
      BY <1>1, <3>1, <3>2, <3>3, TailEvent DEF Pending
  <2>2. ASSUME Pending(u)' PROVE Pending(u)
    BY <1>1, <2>2, TailEvent DEF Pending
  <2> QED
    BY <2>1, <2>2 DEF Pending
<1>5. CASE e.kind # "received"
  <2>1. UNCHANGED <<announced, muted>>
    BY <1>5 DEF Popups!OnEvent
  <2>2. \A u \in Popups!Upload : e # Popups!Event("received", u)
    BY <1>5 DEF Popups!Event
  <2>3. QueueType'
    BY <1>1, <2>1, TailEvent DEF QueueInv, QueueType
  <2> QED
    BY <1>1, <1>3, <1>4, <2>1, <2>2, <2>3 DEF QueueInv, Told, Due
<1>6. CASE e.kind = "received"
  <2>1. PICK v \in Popups!Upload : e = Popups!Event("received", v) /\ e.of = v
    BY <1>2, <1>6 DEF Events, Popups!Event, Popups!None
  <2>2. Pending(v) /\ ~Pending(v)'
    <3>1. events[1] = Popups!Event("received", v) /\ 1 \in 1..Len(events)
      BY <1>1, <2>1, TailEvent
    <3>2. \A i \in 1..Len(events) : events[i] = Popups!Event("received", v) => i = 1
      BY <3>1 DEF QueueInv, PostedOnce
    <3>3. ~Pending(v)'
      BY <1>1, <3>2, TailEvent DEF Pending
    <3> QED
      BY <3>1, <3>3 DEF Pending
  <2>3. upload[v] = "received" /\ announced[v] = 0 /\ v \notin muted
    BY <2>2 DEF QueueInv, Told, Due
  <2>4. Popups!FinishProgress(v) \/ Popups!ShowToast(v)
    BY <1>6, <2>1 DEF Popups!OnEvent
  <2>5. \/ announced' = [announced EXCEPT ![v] = @ + 1] /\ muted' = muted
        \/ muted' = muted \cup {v} /\ announced' = announced
    BY <2>4 DEF Popups!FinishProgress, Popups!ShowToast, Popups!Announce
  <2>6. QueueType'
    <3>1. events' \in Seq(Events)
      BY <1>1, TailEvent
    <3>2. announced' \in [Popups!Upload -> Nat] /\ muted' \subseteq Popups!Upload
      <4>1. CASE announced' = [announced EXCEPT ![v] = @ + 1] /\ muted' = muted
        BY <4>1 DEF QueueInv, QueueType
      <4>2. CASE muted' = muted \cup {v} /\ announced' = announced
        BY <4>2 DEF QueueInv, QueueType
      <4> QED
        BY <2>5, <4>1, <4>2
    <3> QED
      BY <1>1, <3>1, <3>2 DEF QueueInv, QueueType
  <2>7. Told(v)'
    BY <1>1, <2>2, <2>3, <2>5 DEF QueueInv, QueueType, Told, Due
  <2>8. ASSUME NEW u \in Popups!Upload, u # v
        PROVE  Told(u)'
    <3>0. e # Popups!Event("received", u)
      <4> SUFFICES ASSUME e = Popups!Event("received", u) PROVE FALSE
        OBVIOUS
      <4> QED
        BY <2>1, <2>8 DEF Popups!Event
    <3>1. Pending(u)' = Pending(u)
      BY <1>4, <3>0
    <3>2. announced'[u] = announced[u] /\ (u \in muted' <=> u \in muted)
      BY <2>5, <2>8 DEF QueueInv, QueueType
    <3> QED
      BY <1>1, <3>1, <3>2 DEF QueueInv, Told, Due
  <2> QED
    BY <1>3, <2>6, <2>7, <2>8 DEF QueueInv
<1> QED
  BY <1>5, <1>6

LEMMA QueueStep ==
    ASSUME QueueInv, [Popups!Next]_(Popups!vars)
    PROVE  QueueInv'
<1>1. CASE Popups!OnEvent
  BY <1>1, EventQueue
<1>2. ASSUME NEW u \in Popups!Upload, Popups!StartUpload(u) \/ Popups!EndUpload(u)
      PROVE  QueueInv'
  BY <1>2, UploadQueue
<1>3. CASE Popups!Alert
  <2>1. events' = Append(events, Popups!Event("alert", Popups!None)) /\ UNCHANGED <<upload, announced, muted>>
    BY <1>3 DEF Popups!Alert
  <2>2. Popups!Event("alert", Popups!None) \in Events /\ Popups!Event("alert", Popups!None).kind # "received"
    BY DEF Events, Popups!Event
  <2>3. QueueType'
    BY <2>1, <2>2, AppendEvent DEF QueueInv, QueueType
  <2> QED
    BY <2>1, <2>2, <2>3, OtherPosted DEF QueueInv
<1>4. ASSUME NEW w \in Popups!Window, Popups!SafetyTimer(w) \/ Popups!CloseTimer(w) \/ Popups!UserCloses(w)
      PROVE  QueueInv'
  BY <1>4, SameQueue DEF Popups!SafetyTimer, Popups!CloseTimer, Popups!UserCloses
<1>5. CASE Popups!ToggleToast \/ UNCHANGED Popups!vars
  BY <1>5, SameQueue DEF Popups!ToggleToast, Popups!vars
<1> QED
  BY <1>1, <1>2, <1>3, <1>4, <1>5 DEF Popups!Next

(***************************************************************************)
(* The strip: it is what _thumbs.insert(0, ...) and the loop that destroys *)
(* the last ones make of the photos put into it.                           *)
(***************************************************************************)
StripInv == previewed \in Seq(Popups!Upload) /\ Popups!StripNewest

Shown == IF Len(previewed) < MAX_THUMBS THEN Len(previewed) ELSE MAX_THUMBS

LEMMA StripType ==
    ASSUME StripInv
    PROVE  /\ thumbs \in Seq(Popups!Upload) /\ Len(thumbs) = Shown /\ Len(thumbs) <= MAX_THUMBS
           /\ \A i \in 1..Shown : thumbs[i] = previewed[Len(previewed) + 1 - i]
<1>1. /\ Len(previewed) \in Nat /\ MAX_THUMBS \in Nat \ {0} /\ Shown \in Nat
      /\ Shown <= MAX_THUMBS /\ Shown <= Len(previewed)
  BY PopupConstants DEF StripInv, Shown
<1>2. thumbs = [i \in 1..Shown |-> previewed[Len(previewed) + 1 - i]]
  BY DEF StripInv, Popups!StripNewest, Shown
<1>3. \A i \in 1..Shown : previewed[Len(previewed) + 1 - i] \in Popups!Upload
  BY <1>1 DEF StripInv
<1>4. thumbs \in [1..Shown -> Popups!Upload]
  BY <1>2, <1>3
<1>5. thumbs \in Seq(Popups!Upload) /\ Len(thumbs) = Shown
  BY <1>1, <1>4
<1> QED
  BY <1>1, <1>2, <1>5

LEMMA AddedNewest ==
    ASSUME StripInv, NEW u \in Popups!Upload, Popups!AddThumbnail(u)
    PROVE  StripInv'
<1>1. CASE UNCHANGED Popups!strip
  BY <1>1 DEF Popups!strip, StripInv, Popups!StripNewest
<1>2. CASE previewed' = Append(previewed, u) /\ ~UNCHANGED Popups!strip
  <2> DEFINE n == Len(previewed)
             row == <<u>> \o thumbs
  <2>1. /\ thumbs \in Seq(Popups!Upload) /\ Len(thumbs) = Shown
        /\ \A i \in 1..Shown : thumbs[i] = previewed[n + 1 - i]
        /\ n \in Nat /\ MAX_THUMBS \in Nat \ {0} /\ Shown \in Nat /\ Shown <= n
    BY StripType, PopupConstants DEF StripInv, Shown
  <2>2. /\ previewed' \in Seq(Popups!Upload) /\ Len(previewed') = n + 1
        /\ previewed'[n + 1] = u /\ \A i \in 1..n : previewed'[i] = previewed[i]
    BY <1>2, <2>1 DEF StripInv
  <2>3. /\ row \in Seq(Popups!Upload) /\ Len(row) = Shown + 1 /\ row[1] = u
        /\ \A i \in 2..(Shown + 1) : row[i] = thumbs[i - 1]
    BY <2>1
  <2>4. \A i \in 1..(Shown + 1) : row[i] = previewed'[n + 2 - i]
    <3> TAKE i \in 1..(Shown + 1)
    <3>1. CASE i = 1
      BY <2>1, <2>2, <2>3, <3>1
    <3>2. CASE i # 1
      <4>1. i \in 2..(Shown + 1) /\ i - 1 \in 1..Shown /\ n + 2 - i \in 1..n
        BY <2>1, <3>2
      <4>2. n + 1 - (i - 1) = n + 2 - i
        BY <2>1
      <4>3. row[i] = thumbs[i - 1]
        BY <2>3, <4>1
      <4>4. thumbs[i - 1] = previewed[n + 2 - i]
        BY <2>1, <4>1, <4>2
      <4> QED
        BY <2>2, <4>1, <4>3, <4>4
    <3> QED
      BY <3>1, <3>2
  <2>5. Shown' = IF Shown + 1 > MAX_THUMBS THEN MAX_THUMBS ELSE Shown + 1
    BY <2>1, <2>2 DEF Shown
  <2>6. thumbs' = IF Len(row) > MAX_THUMBS THEN SubSeq(row, 1, MAX_THUMBS) ELSE row
    BY <1>2 DEF Popups!AddThumbnail
  <2>7. thumbs' \in Seq(Popups!Upload) /\ Len(thumbs') = Shown'
        /\ \A i \in 1..Shown' : thumbs'[i] = row[i]
    BY <2>1, <2>3, <2>5, <2>6
  <2>8. thumbs' = [i \in 1..Shown' |-> thumbs'[i]]
    BY <2>7
  <2>9. \A i \in 1..Shown' : thumbs'[i] = previewed'[Len(previewed') + 1 - i]
    <3> TAKE i \in 1..Shown'
    <3>1. i \in 1..(Shown + 1) /\ Len(previewed') + 1 - i = n + 2 - i
      BY <2>1, <2>2, <2>5
    <3>2. thumbs'[i] = row[i]
      BY <2>7
    <3>3. row[i] = previewed'[n + 2 - i]
      BY <2>4, <3>1
    <3> HIDE DEF row
    <3> QED
      BY <3>1, <3>2, <3>3
  <2>10. thumbs' = [i \in 1..Shown' |-> previewed'[Len(previewed') + 1 - i]]
    BY <2>8, <2>9
  <2> QED
    BY <2>2, <2>10 DEF StripInv, Popups!StripNewest, Shown
<1> QED
  BY <1>1, <1>2 DEF Popups!AddThumbnail

LEMMA StripStep ==
    ASSUME StripInv, QueueInv, [Popups!Next]_(Popups!vars)
    PROVE  StripInv'
<1>1. CASE Popups!OnEvent
  <2>1. CASE Head(events).kind = "received" /\ Popups!AddThumbnail(Head(events).of)
    <3>1. Head(events) \in Events
      BY <1>1, TailEvent DEF Popups!OnEvent, QueueInv, QueueType
    <3>2. Head(events).of \in Popups!Upload
      BY <2>1, <3>1 DEF Events, Popups!Event
    <3> QED
      BY <2>1, <3>2, AddedNewest
  <2>2. CASE UNCHANGED Popups!strip
    BY <2>2 DEF Popups!strip, StripInv, Popups!StripNewest
  <2> QED
    BY <1>1, <2>1, <2>2 DEF Popups!OnEvent
<1>2. CASE UNCHANGED Popups!strip
  BY <1>2 DEF Popups!strip, StripInv, Popups!StripNewest
<1> QED
  BY <1>1, <1>2 DEF Popups!Next, Popups!vars, Popups!strip, Popups!StartUpload,
     Popups!EndUpload, Popups!Alert, Popups!ToggleToast, Popups!SafetyTimer,
     Popups!CloseTimer, Popups!UserCloses

LEMMA LargerSeq ==
    ASSUME NEW S, NEW T, S \subseteq T, NEW s \in Seq(S)
    PROVE  s \in Seq(T)
<1>1. Len(s) \in Nat /\ DOMAIN s = 1..Len(s) /\ s = [i \in 1..Len(s) |-> s[i]]
  OBVIOUS
<1>2. \A i \in 1..Len(s) : s[i] \in T
  OBVIOUS
<1> QED
  BY <1>1, <1>2

(***************************************************************************)
(* What is left of the types: the check box, the timers and the counters.  *)
(***************************************************************************)
RestType ==
    /\ toastOn \in BOOLEAN
    /\ safety \subseteq 1..opened
    /\ alerts \in 0..MaxAlerts /\ clicks \in 0..MaxClicks

LEMMA RestStep ==
    ASSUME RestType, ScreenInv, ScreenInv', [Popups!Next]_(Popups!vars)
    PROVE  RestType'
<1>1. opened \in Nat /\ opened' \in Nat
  BY PopupConstants DEF ScreenInv, ScreenType
<1>2. CASE Popups!OnEvent
  <2>1. UNCHANGED <<toastOn, alerts, clicks>>
    BY <1>2 DEF Popups!OnEvent
  <2>2. opened' = opened + 1 \/ opened' = opened
    BY <1>2 DEF Popups!OnEvent, Popups!StartProgress, Popups!FinishProgress,
       Popups!ShowToast, Popups!CloseProgress, Popups!Opened, Popups!screen
  <2>3. \/ safety' = safety
        \/ safety' = safety \cup {opened + 1} /\ opened' = opened + 1
    <3>1. CASE Popups!StartProgress
      BY <3>1 DEF Popups!StartProgress, Popups!Opened, Popups!screen
    <3>2. CASE ~Popups!StartProgress
      BY <1>2, <3>2 DEF Popups!OnEvent, Popups!FinishProgress, Popups!ShowToast,
         Popups!CloseProgress
    <3> QED
      BY <3>1, <3>2
  <2>4. 1..opened \subseteq 1..(opened + 1) /\ opened + 1 \in 1..(opened + 1)
    BY <1>1
  <2>5. safety' \subseteq 1..opened'
    BY <2>2, <2>3, <2>4 DEF RestType
  <2> QED
    BY <2>1, <2>5 DEF RestType
<1>3. CASE ~Popups!OnEvent
  <2>1. opened' = opened /\ safety' \subseteq safety
    BY <1>3 DEF Popups!Next, Popups!vars, Popups!screen, Popups!StartUpload,
       Popups!EndUpload, Popups!Alert, Popups!ToggleToast, Popups!SafetyTimer,
       Popups!CloseTimer, Popups!UserCloses
  <2>2. toastOn' \in BOOLEAN
    BY <1>3 DEF RestType, Popups!Next, Popups!vars, Popups!StartUpload, Popups!EndUpload,
       Popups!Alert, Popups!ToggleToast, Popups!SafetyTimer,
       Popups!CloseTimer, Popups!UserCloses
  <2>3. /\ alerts' = alerts \/ (alerts < MaxAlerts /\ alerts' = alerts + 1)
        /\ clicks' = clicks \/ (clicks < MaxClicks /\ clicks' = clicks + 1)
    BY <1>3 DEF Popups!Next, Popups!vars, Popups!screen, Popups!strip, Popups!StartUpload,
       Popups!EndUpload, Popups!Alert, Popups!ToggleToast,
       Popups!SafetyTimer, Popups!CloseTimer, Popups!UserCloses
  <2>4. alerts' \in 0..MaxAlerts /\ clicks' \in 0..MaxClicks
    BY <2>3, PopupConstants DEF RestType
  <2> QED
    BY <2>1, <2>2, <2>4 DEF RestType
<1> QED
  BY <1>2, <1>3

(***************************************************************************)
(* ScreenSound: _start_progress_popup, _finish_progress_popup and          *)
(* _close_progress_popup never leave a progress popup behind that _prog    *)
(* has lost, whatever uploads start and end in whatever order, and the     *)
(* strip shows the newest photos.                                          *)
(***************************************************************************)
THEOREM ScreenIsSound == Popups!Spec => []ScreenSound
<1> DEFINE Inv == ScreenInv /\ QueueInv /\ StripInv /\ RestType
<1>1. Popups!Init => Inv
  <2> SUFFICES ASSUME Popups!Init PROVE Inv
    OBVIOUS
  <2>1. StripInv
    <3>1. previewed = <<>> /\ thumbs = <<>> /\ Len(previewed) = 0 /\ 0 < MAX_THUMBS
      BY PopupConstants DEF Popups!Init
    <3>2. Popups!StripNewest
      BY <3>1 DEF Popups!StripNewest
    <3> QED
      BY <3>1, <3>2 DEF StripInv
  <2>2. RestType
    BY PopupConstants DEF Popups!Init, RestType
  <2> QED
    BY <2>1, <2>2, ScreenInit, QueueInit
<1>2. Inv /\ [Popups!Next]_(Popups!vars) => Inv'
  BY ScreenStep, QueueStep, StripStep, RestStep
<1>3. Inv => ScreenSound
  <2> SUFFICES ASSUME Inv PROVE ScreenSound
    OBVIOUS
  <2> DEFINE Kinds == [kind : {"upload_start", "received", "closing", "alert"}, of : 0..MaxUploads]
  <2>1. Events \subseteq Kinds
    BY PopupConstants DEF Events, Popups!Event, Popups!Upload, Popups!None
  <2>2. events \in Seq(Kinds)
    <3>1. events \in Seq(Events)
      BY DEF QueueInv, QueueType
    <3> HIDE DEF Kinds
    <3> QED
      BY <2>1, <3>1, LargerSeq
  <2>3. Popups!TypeOK
    BY <2>2, StripType DEF Popups!TypeOK, ScreenInv, ScreenType, QueueInv, QueueType,
       StripInv, RestType
  <2> QED
    BY <2>3 DEF ScreenSound, Popups!ScreenSound, ScreenInv, StripInv
<1> QED
  BY <1>1, <1>2, <1>3, PTL DEF Popups!Spec

(***************************************************************************)
(* AnnouncedOnce: every photo that was received is announced by one popup, *)
(* however the events of several uploads mix in the queue and whatever     *)
(* else opens, turns over or closes the shared progress popup.             *)
(***************************************************************************)
THEOREM EveryPhotoAnnounced == Popups!Spec => []AnnouncedOnce
<1>1. QueueInv => AnnouncedOnce
  <2> SUFFICES ASSUME QueueInv, NEW u \in Popups!Upload
               PROVE  /\ announced[u] <= 1
                      /\ upload[u] = "received" /\ ~Pending(u)
                            => announced[u] = 1 \/ u \in muted
                      /\ u \in muted => announced[u] = 0
    BY DEF AnnouncedOnce, Popups!AnnouncedOnce, Pending
  <2> QED
    BY DEF QueueInv, Told, Due
<1> QED
  BY QueueInit, QueueStep, <1>1, PTL DEF Popups!Spec
(***************************************************************************)
(* A step other than an event's or a click's takes a progress popup off    *)
(* the screen only as the timer that was set for this very popup.          *)
(***************************************************************************)
LEMMA ClosedByTimer ==
    ASSUME ScreenInv, QueueInv, RestType, [Popups!Next]_(Popups!vars), NEW w \in Popups!Window,
           window[w] = "progress", window'[w] = "closed", events' = events, clicks' = clicks
    PROVE  w \in safety \ safety'
<1>1. ~Popups!OnEvent
  BY TailEvent DEF QueueInv, QueueType, Popups!OnEvent
<1>2. ASSUME NEW v \in Popups!Window, Popups!SafetyTimer(v)
      PROVE  w \in safety \ safety'
  <2>1. prog = v /\ v # Popups!None /\ window' = Popups!ProgClosed
    BY <1>2, PopupConstants DEF Popups!SafetyTimer, Popups!Window, Popups!None
  <2>2. \A x \in Popups!Window : x # v => window'[x] = window[x]
    BY <2>1 DEF Popups!ProgClosed, ScreenInv, ScreenType
  <2>3. w = v
    BY <2>2
  <2> QED
    BY <1>2, <2>3 DEF Popups!SafetyTimer
<1>3. ASSUME NEW v \in Popups!Window, Popups!CloseTimer(v)
      PROVE  FALSE
  BY <1>3 DEF Popups!CloseTimer, ScreenInv, ScreenType, Popups!Toast
<1>4. ~Popups!ToggleToast /\ \A v \in Popups!Window : ~Popups!UserCloses(v)
  BY DEF RestType, Popups!ToggleToast, Popups!UserCloses
<1>5. window' # window
  OBVIOUS
<1> QED
  BY <1>1, <1>2, <1>3, <1>4, <1>5 DEF Popups!Next, Popups!vars, Popups!screen,
     Popups!StartUpload, Popups!EndUpload, Popups!Alert

(***************************************************************************)
(* OwnTimerOnly: the 45 s timer of a popup that an event has closed or     *)
(* replaced does nothing to the popups that follow it.                     *)
(***************************************************************************)
THEOREM TimerClosesItsOwn == Popups!Spec => OwnTimerOnly
<1> DEFINE Inv == ScreenInv /\ QueueInv /\ RestType
<1>1. Popups!Init => Inv
  BY ScreenInit, QueueInit, PopupConstants DEF Popups!Init, RestType
<1>2. Inv /\ [Popups!Next]_(Popups!vars) => Inv'
  BY ScreenStep, QueueStep, RestStep
<1>3. Inv /\ [Popups!Next]_(Popups!vars) =>
        [\A w \in Popups!Window :
            (window[w] = "progress" /\ window'[w] = "closed" /\ events' = events
               /\ clicks' = clicks) => w \in safety \ safety']_(Popups!vars)
  BY ClosedByTimer
<1> QED
  BY <1>1, <1>2, <1>3, PTL DEF Popups!Spec, OwnTimerOnly, Popups!OwnTimerOnly
=============================================================================
