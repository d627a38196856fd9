----------------------- MODULE ReceiverLifecycleProofs -----------------------
(***************************************************************************)
(* OneServer for any number of server objects, clicks and faults, and what *)
(* the network windows say for any number of windows and operations.       *)
(***************************************************************************)
EXTENDS MCReceiverLifecycle, TLAPS

(***************************************************************************)
(* _start_server begins, and goes on, only while there is no server.       *)
(***************************************************************************)
TryingAlone == tk = "trying" => server = None

LifecycleInv == TypeOK /\ OneServer /\ TryingAlone

LEMMA InitHolds == Init => LifecycleInv
<1> SUFFICES ASSUME Init PROVE LifecycleInv
  OBVIOUS
<1>1. TypeOK
  <2>1. PICK mode \in {"window", "tray", "headless"} :
          /\ tk = IF mode = "headless" \/ (mode = "tray" /\ folder) THEN "trying" ELSE "idle"
          /\ attempt = IF mode = "headless" THEN Attempts ELSE 1
          /\ caller = IF mode = "headless" THEN mode ELSE "auto"
          /\ outcome = IF mode = "tray" /\ ~folder THEN "cancelled" ELSE "none"
          /\ wanted = (mode # "window")
    BY DEF Init
  <2>2. wanted \in BOOLEAN
    BY <2>1
  <2>3. /\ tk \in {"idle", "trying"} /\ attempt \in 1..Attempts
        /\ caller \in {"auto", "button", "watch", "headless"}
        /\ outcome \in {"none", "ok", "cancelled", "told", "raised"}
    BY <2>1 DEF Attempts
  <2>4. /\ loop \in [Servers -> {"none", "running", "dead", "ended"}]
        /\ dog \in [Servers -> {"none", "running", "ended"}]
    BY DEF Init
  <2>5. /\ process = "run" /\ server = 0 /\ made = 0 /\ clicks = 0 /\ faults = 0
        /\ stopped = {} /\ listening = {} /\ backlog = 0
        /\ status \in BOOLEAN /\ foreign \in BOOLEAN /\ folder \in BOOLEAN
    BY DEF Init, None
  <2> QED
    BY <2>2, <2>3, <2>4, <2>5, BoundsAssumption DEF TypeOK
<1>2. OneServer /\ TryingAlone
  BY DEF Init, OneServer, TryingAlone, Servers, None
<1> QED
  BY <1>1, <1>2 DEF LifecycleInv

(***************************************************************************)
(* Taking down the server leaves nothing of it but a watchdog that was     *)
(* told to end.                                                            *)
(***************************************************************************)
LEMMA StopKeeps ==
    ASSUME LifecycleInv, server # None, caller # "headless", StopServer
    PROVE  /\ server' = None /\ status' = FALSE /\ listening' = {}
           /\ made' = made /\ dog' = dog /\ backlog' = 0
           /\ loop' \in [Servers -> {"none", "running", "dead", "ended"}]
           /\ stopped' \subseteq Servers
           /\ \A s \in Servers : loop'[s] \notin {"running", "dead"}
           /\ \A s \in Servers : dog[s] = "running" => s \in stopped'
<1>1. server \in Servers
  BY BoundsAssumption DEF LifecycleInv, TypeOK, None, Servers
<1>2. \A s \in Servers : s # server => loop[s] \in {"none", "ended"}
  BY DEF LifecycleInv, TypeOK, OneServer
<1>3. listening \subseteq {server}
  BY DEF LifecycleInv, TypeOK, OneServer
<1>4. \A s \in Servers : loop'[s] = IF s = server THEN "ended" ELSE loop[s]
  BY DEF StopServer, LifecycleInv, TypeOK
<1>5. \A s \in Servers : dog[s] = "running" /\ s \notin stopped => s = server
  BY DEF LifecycleInv, OneServer
<1> QED
  BY <1>1, <1>2, <1>3, <1>4, <1>5 DEF StopServer, LifecycleInv, TypeOK

LEMMA StepKeeps ==
    ASSUME LifecycleInv, [Next]_vars
    PROVE  LifecycleInv'
<1> USE BoundsAssumption DEF None, Attempts
<1>1. CASE ToggleServer
  <2>1. CASE server # None
    <3>1. StopServer /\ UNCHANGED start /\ caller # "headless"
      BY <1>1, <2>1 DEF ToggleServer, Idle
    <3>2. clicks' \in 0..MaxClicks /\ UNCHANGED <<process, foreign, folder, faults>>
          /\ UNCHANGED <<tk, attempt, caller, outcome>>
      BY <1>1, <3>1 DEF ToggleServer, start, LifecycleInv, TypeOK
    <3>3. wanted' \in BOOLEAN
      BY <1>1 DEF ToggleServer
    <3>4. /\ server' = 0 /\ status' \in BOOLEAN /\ listening' = {}
          /\ made' = made /\ dog' = dog /\ backlog' = 0
          /\ loop' \in [Servers -> {"none", "running", "dead", "ended"}]
          /\ stopped' \subseteq Servers
      BY <2>1, <3>1, StopKeeps
    <3>5. TypeOK'
      BY <3>2, <3>3, <3>4 DEF LifecycleInv, TypeOK
    <3>6. OneServer' /\ TryingAlone'
      BY <2>1, <3>1, <3>2, StopKeeps DEF LifecycleInv, OneServer, TryingAlone
    <3> QED
      BY <3>5, <3>6 DEF LifecycleInv
  <2>2. CASE server = None
    BY <1>1, <2>2 DEF ToggleServer, BeginStart, Idle, object, LifecycleInv, TypeOK,
      OneServer, TryingAlone
  <2> QED
    BY <2>1, <2>2
<1>2. CASE WatchServer
  <2>1. CASE Answers
    <3>1. UNCHANGED <<process, tk, attempt, caller, outcome, server, made, loop, dog,
                      stopped, listening, status>>
      BY <1>2, <2>1 DEF WatchServer, start
    <3>2. UNCHANGED <<foreign, folder, wanted, clicks, faults>>
      BY <1>2 DEF WatchServer, outside
    <3>3. backlog' \in 0..Backlog
      BY <1>2, <2>1 DEF WatchServer, Answers, LifecycleInv, TypeOK
    <3> QED
      BY <3>1, <3>2, <3>3 DEF LifecycleInv, TypeOK, OneServer, TryingAlone
  <2>2. CASE ~Answers
    <3>1. StopServer /\ BeginStart("watch") /\ caller # "headless" /\ server # None
      BY <1>2, <2>2 DEF WatchServer, Idle
    <3>2. UNCHANGED <<process, foreign, folder, wanted, clicks, faults>>
      BY <1>2 DEF WatchServer, outside
    <3>3. /\ server' = 0 /\ status' \in BOOLEAN /\ listening' = {}
          /\ made' = made /\ dog' = dog /\ backlog' = 0
          /\ loop' \in [Servers -> {"none", "running", "dead", "ended"}]
          /\ stopped' \subseteq Servers
      BY <3>1, StopKeeps
    <3>4. /\ tk' \in {"idle", "trying"} /\ attempt' \in 1..Attempts
          /\ caller' \in {"auto", "button", "watch", "headless"}
          /\ outcome' \in {"none", "ok", "cancelled", "told", "raised"}
      BY <3>1 DEF BeginStart, LifecycleInv, TypeOK
    <3>5. TypeOK'
      BY <3>2, <3>3, <3>4 DEF LifecycleInv, TypeOK
    <3>6. OneServer' /\ TryingAlone'
      BY <3>1, <3>2, StopKeeps DEF BeginStart, LifecycleInv, OneServer, TryingAlone
    <3> QED
      BY <3>5, <3>6 DEF LifecycleInv
  <2> QED
    BY <2>1, <2>2
<1>3. CASE Succeeds
  <2>1. server = None /\ made + 1 \in Servers /\ listening = {} /\ ~foreign
    BY <1>3 DEF Succeeds, Attempt, PortTaken, LifecycleInv, TypeOK, TryingAlone, Servers
  <2>2. server' = made + 1 /\ made' = made + 1 /\ listening' = {made + 1} /\ tk' = "idle"
        /\ status' = (caller # "headless") /\ UNCHANGED <<caller, stopped, backlog, foreign>>
    BY <1>3 DEF Succeeds, Attempt, outside
  <2>3. \A s \in Servers : s # made + 1 => loop'[s] = loop[s] /\ dog'[s] = dog[s]
    BY <1>3 DEF Succeeds, LifecycleInv, TypeOK
  <2>4. OneServer' /\ TryingAlone'
    BY <2>1, <2>2, <2>3 DEF LifecycleInv, OneServer, TryingAlone, Servers
  <2>5. TypeOK'
    BY <1>3, <2>1 DEF Succeeds, Attempt, outside, LifecycleInv, TypeOK, Servers
  <2> QED
    BY <2>4, <2>5 DEF LifecycleInv
<1>4. CASE SpoolFails
  BY <1>4 DEF SpoolFails, object, LifecycleInv, TypeOK, OneServer, TryingAlone
<1>5. CASE BindFails
  BY <1>5 DEF BindFails, Attempt, object, outside, LifecycleInv, TypeOK, OneServer, TryingAlone
<1>6. CASE Leave
  BY <1>6 DEF Leave, start, object, LifecycleInv, TypeOK, OneServer, TryingAlone
<1>7. CASE EditFolder
  BY <1>7 DEF EditFolder, start, object, LifecycleInv, TypeOK, OneServer, TryingAlone
<1>8. ASSUME NEW s \in Servers, DogEnds(s) PROVE LifecycleInv'
  BY <1>8 DEF DogEnds, start, outside, LifecycleInv, TypeOK, OneServer, TryingAlone
<1>9. CASE LoopDies
  <2>1. \A s \in Servers : loop'[s] = IF s = server THEN "dead" ELSE loop[s]
    BY <1>9 DEF LoopDies, LifecycleInv, TypeOK
  <2>2. UNCHANGED <<tk, attempt, caller, outcome, server, made, dog, stopped, backlog,
                    status, foreign, folder, wanted, clicks>>
    BY <1>9 DEF LoopDies, start
  <2>3. OneServer' /\ TryingAlone'
    BY <1>9, <2>1, <2>2 DEF LoopDies, LifecycleInv, TypeOK, OneServer, TryingAlone
  <2>4. listening' \subseteq Servers
    BY <1>9 DEF LoopDies, LifecycleInv, TypeOK
  <2>5. process' \in {"run", "ended"} /\ faults' \in 0..MaxFaults
    BY <1>9 DEF LoopDies, LifecycleInv, TypeOK
  <2>6. loop' \in [Servers -> {"none", "running", "dead", "ended"}]
    BY <1>9 DEF LoopDies, LifecycleInv, TypeOK
  <2>7. TypeOK'
    BY <2>2, <2>4, <2>5, <2>6 DEF LifecycleInv, TypeOK
  <2> QED
    BY <2>3, <2>7 DEF LifecycleInv
<1>10. CASE Foreign
  BY <1>10 DEF Foreign, start, object, LifecycleInv, TypeOK, OneServer, TryingAlone
<1>11. CASE UNCHANGED vars
  BY <1>11 DEF vars, LifecycleInv, TypeOK, OneServer, TryingAlone
<1> QED
  BY <1>1, <1>2, <1>3, <1>4, <1>5, <1>6, <1>7, <1>8, <1>9, <1>10, <1>11 DEF Next

(***************************************************************************)
(* TypeOK: the values of the server, its threads and the watch, for every  *)
(* bound; in particular the queue of a dead loop never exceeds Backlog.    *)
(***************************************************************************)
THEOREM TypeCorrect == Spec => []TypeOK
<1>1. LifecycleInv => TypeOK
  BY DEF LifecycleInv
<1> QED
  BY InitHolds, StepKeeps, <1>1, PTL DEF Spec

(***************************************************************************)
(* OneServer: _start_server and _stop_server leave at most one server with *)
(* a loop, a socket or a live watchdog, the one the window shows, after    *)
(* any sequence of clicks, deaths, restarts and failed starts.             *)
(***************************************************************************)
THEOREM AtMostOneServer == Spec => []ServerSound
<1>1. LifecycleInv => ServerSound
  BY DEF LifecycleInv, ServerSound
<1> QED
  BY InitHolds, StepKeeps, <1>1, PTL DEF Spec

(***************************************************************************)
(* The windows of a card's networks: the types, what an operation is       *)
(* about, what it has read, and who else is at the card.                   *)
(***************************************************************************)
WifiType ==
    /\ helper \in BOOLEAN
    /\ nets \in SUBSET Nets /\ late \in SUBSET Wifi!Change /\ saved \in Nets \cup {NoNet}
    /\ window \in [Windows -> {"new", "idle", "busy", "closed"}]
    /\ shown \in [Windows -> SUBSET Nets]
    /\ job \in [Windows -> Wifi!Job]

\* A window has an operation while its buttons are disabled.
Busy ==
    \A w \in Windows :
        /\ window[w] = "busy" => job[w].at # "none"
        /\ window[w] \in {"new", "idle"} => job[w] = Wifi!NoJob

\* Only the list of networks is about no network.
Named(j) == j.op \in {"none", "list"} \/ j.net \in Nets

\* The list of networks was read.
HasList(j) == \/ j.at = "rest"
              \/ j.at = "posted" /\ j.outcome = "done" /\ j.op # "test"

\* What was read holds of the networks ns.
Answered(j, ns) ==
    HasList(j) /\ j.trust # "mixed" =>
        /\ Wifi!Confirms(j, j.list) => Wifi!Confirms(j, ns)
        /\ j.trust = "own" => j.list = ns

\* The given-up changes cs are its own, and there is none unless it missed one.
OwnLate(j, cs) ==
    j.trust # "mixed" =>
        /\ \A c \in cs : c.op = j.op /\ c.net = j.net
        /\ j.trust = "own" => cs = {}

Truthful == \A w \in Windows : Named(job[w]) /\ Answered(job[w], nets) /\ OwnLate(job[w], late)

\* No other operation runs while one is on its own.
Alone == \A w, v \in Windows : job[w].trust # "mixed" /\ v # w => ~Wifi!Running(v)

WifiInv == WifiType /\ Busy /\ Truthful /\ Alone

LEMMA NoJobIsJob ==
    /\ Wifi!NoJob \in Wifi!Job /\ Named(Wifi!NoJob)
    /\ Wifi!NoJob.trust = "mixed" /\ Wifi!NoJob.at = "none"
    /\ \A ns : Answered(Wifi!NoJob, ns) /\ OwnLate(Wifi!NoJob, ns)
  BY DEF Wifi!NoJob, Wifi!Job, Named, Answered, HasList, OwnLate

\* What a job is that another session was mixed up with.
Mixed(j) == [j EXCEPT !.trust = "mixed"]

LEMMA MixedJob ==
    ASSUME NEW j \in Wifi!Job, Named(j)
    PROVE  /\ Mixed(j) \in Wifi!Job /\ Mixed(j).trust = "mixed" /\ Mixed(j).at = j.at
           /\ Named(Mixed(j)) /\ (j = Wifi!NoJob => Mixed(j) = Wifi!NoJob)
           /\ \A ns : Answered(Mixed(j), ns) /\ OwnLate(Mixed(j), ns)
BY DEF Mixed, Wifi!Job, Wifi!NoJob, Named, Answered, OwnLate

LEMMA WifiInit == Wifi!Init => WifiInv
<1> SUFFICES ASSUME Wifi!Init PROVE WifiInv
  OBVIOUS
<1>1. \A w \in Windows : window[w] = "new" /\ job[w] = Wifi!NoJob
  BY DEF Wifi!Init
<1>2. WifiType
  BY NoJobIsJob DEF Wifi!Init, WifiType
<1>3. Busy /\ Truthful /\ Alone
  BY <1>1, NoJobIsJob DEF Busy, Truthful, Alone
<1> QED
  BY <1>2, <1>3 DEF WifiInv

(***************************************************************************)
(* What a step may make of the operation j: the card has the networks ns,  *)
(* and the changes cs are given up.                                        *)
(***************************************************************************)
Sound(j, k, ns, cs) ==
    /\ k \in Wifi!Job /\ k.at # "none" /\ k.op = j.op /\ k.net = j.net
    /\ k.trust # "mixed" => j.trust # "mixed"
    /\ Answered(k, ns) /\ OwnLate(k, cs)

LEMMA SoundStep ==
    ASSUME WifiInv, NEW w \in Windows, Wifi!Running(w),
           NEW k, NEW ns \in SUBSET Nets, NEW cs \in SUBSET Wifi!Change,
           Sound(job[w], k, ns, cs),
           nets' = ns, late' = cs, job' = [job EXCEPT ![w] = k],
           UNCHANGED <<helper, window, shown, saved>>
    PROVE  WifiInv'
<1>1. WifiType /\ Busy /\ Truthful /\ Alone
  BY DEF WifiInv
<1>2. job[w].at # "none" /\ job[w] # Wifi!NoJob
  BY NoJobIsJob DEF Wifi!Running
<1>3. \A v \in Windows : v # w => job[v].trust = "mixed" /\ job'[v] = job[v]
  BY <1>1 DEF Alone, WifiType
<1>4. k \in Wifi!Job /\ k.at # "none" /\ Named(k) /\ Answered(k, ns) /\ OwnLate(k, cs)
  BY <1>1 DEF Truthful, Sound, Named
<1>5. job'[w] = k
  BY <1>1 DEF WifiType
<1>6. WifiType'
  BY <1>1, <1>4 DEF WifiType
<1>7. Busy'
  BY <1>1, <1>2, <1>3, <1>4, <1>5 DEF Busy
<1>8. Truthful'
  <2>1. \A v \in Windows : v # w => Answered(job[v], ns) /\ OwnLate(job[v], cs) /\ Named(job[v])
    BY <1>1, <1>3 DEF Truthful, Answered, OwnLate
  <2> QED
    BY <1>3, <1>4, <1>5, <2>1 DEF Truthful
<1>9. Alone'
  <2> SUFFICES ASSUME NEW u \in Windows, NEW v \in Windows, job'[u].trust # "mixed", v # u
               PROVE  ~Wifi!Running(v)'
    BY DEF Alone
  <2>1. u = w
    BY <1>3
  <2>2. job[w].trust # "mixed"
    BY <1>5, <2>1 DEF Sound
  <2>3. ~Wifi!Running(v) /\ job'[v] = job[v]
    BY <1>1, <1>3, <2>1, <2>2 DEF Alone
  <2> QED
    BY <2>3 DEF Wifi!Running
<1> QED
  BY <1>6, <1>7, <1>8, <1>9 DEF WifiInv

\* A step with the networks ns, and one that leaves the change in the card.
LEMMA CardStep ==
    ASSUME WifiInv, NEW w \in Windows, Wifi!Running(w), NEW ns \in SUBSET Nets, NEW k,
           Sound(job[w], k, ns, late), Wifi!Card(w, ns, k)
    PROVE  WifiInv'
<1>1. late \in SUBSET Wifi!Change
  BY DEF WifiInv, WifiType
<1> QED
  BY <1>1, SoundStep DEF Wifi!Card

LEMMA LeaveStep ==
    ASSUME WifiInv, NEW w \in Windows, Wifi!Running(w), NEW k \in Wifi!Job,
           k.at # "none", ~HasList(k), k.op = job[w].op, k.net = job[w].net, k.trust = job[w].trust,
           Wifi!Leave(w, k)
    PROVE  WifiInv'
<1> DEFINE cs == late \cup {c \in Wifi!Change : c.op = job[w].op /\ c.net = job[w].net}
           m == [k EXCEPT !.trust = IF @ = "own" THEN "missed" ELSE @]
<1>1. nets \in SUBSET Nets /\ late \in SUBSET Wifi!Change /\ OwnLate(job[w], late)
  BY DEF WifiInv, WifiType, Truthful
<1>2. late' = cs /\ job' = [job EXCEPT ![w] = m] /\ UNCHANGED <<helper, nets, window, shown, saved>>
  BY DEF Wifi!Leave
<1>3. /\ m \in Wifi!Job /\ m.at # "none" /\ m.op = job[w].op /\ m.net = job[w].net /\ ~HasList(m)
      /\ m.trust # "mixed" => job[w].trust # "mixed"
      /\ m.trust # "own"
  BY DEF Wifi!Job, HasList
<1>4. OwnLate(m, cs)
  BY <1>1, <1>3 DEF OwnLate
<1>5. Answered(m, nets)
  BY <1>3 DEF Answered
<1>6. Sound(job[w], m, nets, cs)
  BY <1>3, <1>4, <1>5 DEF Sound
<1> HIDE DEF cs, m
<1>7. cs \in SUBSET Wifi!Change
  BY <1>1 DEF cs
<1> QED
  BY <1>1, <1>2, <1>6, <1>7, SoundStep

\* A running operation that goes on without a list, with any networks.
LEMMA NoListSound ==
    ASSUME WifiInv, NEW w \in Windows, NEW k \in Wifi!Job, NEW ns,
           k.at # "none", ~HasList(k), k.op = job[w].op, k.net = job[w].net, k.trust = job[w].trust
    PROVE  Sound(job[w], k, ns, late)
<1>1. OwnLate(job[w], late)
  BY DEF WifiInv, Truthful
<1>2. OwnLate(k, late) /\ Answered(k, ns)
  BY <1>1 DEF OwnLate, Answered
<1> QED
  BY <1>2 DEF Sound

\* An operation that has read the list ns.
LEMMA ReadSound ==
    ASSUME WifiInv, NEW w \in Windows, NEW k \in Wifi!Job, NEW ns \in Wifi!Listed(job[w]),
           k.at # "none", k.list = ns, k.op = job[w].op, k.net = job[w].net, k.trust = job[w].trust
    PROVE  Sound(job[w], k, nets, late)
<1>1. OwnLate(job[w], late)
  BY DEF WifiInv, Truthful
<1>2. k.trust # "mixed" => k.list = nets
  BY DEF Wifi!Listed
<1>3. OwnLate(k, late) /\ Answered(k, nets)
  BY <1>1, <1>2 DEF OwnLate, Answered
<1> QED
  BY <1>3 DEF Sound

\* The outcomes that have no list.
LEMMA FailedIs ==
    ASSUME NEW j \in Wifi!Job, NEW how \in {"failed", "failedWithData"}
    PROVE  LET k == Wifi!Failed(j, how)
           IN  /\ k \in Wifi!Job /\ k.at # "none" /\ ~HasList(k)
               /\ k.op = j.op /\ k.net = j.net /\ k.trust = j.trust
BY DEF Wifi!Failed, Wifi!Job, HasList

LEMMA FallbackIs ==
    ASSUME NEW j \in Wifi!Job
    PROVE  LET k == Wifi!Fallback(j)
           IN  /\ k \in Wifi!Job /\ k.at # "none" /\ ~HasList(k)
               /\ k.op = j.op /\ k.net = j.net /\ k.trust = j.trust
<1>1. CASE helper
  BY <1>1 DEF Wifi!Fallback, Wifi!Job, HasList
<1>2. CASE ~helper
  BY <1>2 DEF Wifi!Fallback, Wifi!Job, HasList
<1> QED
  BY <1>1, <1>2

LEMMA EffectType ==
    ASSUME WifiInv, NEW w \in Windows
    PROVE  Wifi!Effect(job[w], nets) \in SUBSET Nets
<1>1. Named(job[w]) /\ nets \in SUBSET Nets
  BY DEF WifiInv, WifiType, Truthful
<1>2. CASE job[w].op = "add"
  BY <1>1, <1>2 DEF Wifi!Effect, Named
<1>3. CASE job[w].op = "delete"
  BY <1>1, <1>3 DEF Wifi!Effect
<1>4. CASE job[w].op \notin {"add", "delete"}
  BY <1>1, <1>4 DEF Wifi!Effect
<1> QED
  BY <1>2, <1>3, <1>4

(***************************************************************************)
(* The steps of a worker.                                                  *)
(***************************************************************************)
LEMMA ChangeStep ==
    ASSUME WifiInv, NEW w \in Windows, Wifi!ChangeCard(w) PROVE WifiInv'
<1> DEFINE j == job[w]
           next == [j EXCEPT !.at = "list"]
<1>1. j \in Wifi!Job /\ Wifi!Running(w) /\ nets \in SUBSET Nets
  BY DEF WifiInv, WifiType, Wifi!ChangeCard, Wifi!Running
<1>2. /\ next \in Wifi!Job /\ next.at # "none" /\ ~HasList(next)
      /\ next.op = j.op /\ next.net = j.net /\ next.trust = j.trust
  BY <1>1 DEF Wifi!Job, HasList
<1>3. ASSUME NEW ns \in {nets, Wifi!Effect(j, nets)},
             Wifi!Card(w, ns, next) \/ Wifi!Card(w, ns, Wifi!Fallback(j))
      PROVE  WifiInv'
  <2>1. ns \in SUBSET Nets
    BY <1>1, <1>3, EffectType
  <2>2. Sound(j, next, ns, late)
    BY <1>2, NoListSound
  <2>3. Sound(j, Wifi!Fallback(j), ns, late)
    BY <1>1, FallbackIs, NoListSound
  <2> HIDE DEF next
  <2> QED
    BY <1>1, <1>3, <2>1, <2>2, <2>3, CardStep
<1>4. CASE Wifi!Leave(w, Wifi!Fallback(j))
  BY <1>1, <1>4, FallbackIs, LeaveStep
<1>5. CASE Wifi!Leave(w, next)
  BY <1>1, <1>2, <1>5, LeaveStep
<1> QED
  BY <1>3, <1>4, <1>5 DEF Wifi!ChangeCard

LEMMA ReadStep ==
    ASSUME WifiInv, NEW w \in Windows, Wifi!Read(w) PROVE WifiInv'
<1> DEFINE j == job[w]
           next(ns) == [j EXCEPT !.at = "rest", !.list = ns]
<1>1. j \in Wifi!Job /\ Wifi!Running(w) /\ nets \in SUBSET Nets
  BY DEF WifiInv, WifiType, Wifi!Read, Wifi!Running
<1>2. ASSUME NEW ns \in Wifi!Listed(j), Wifi!Card(w, nets, next(ns))
      PROVE  WifiInv'
  <2>1. ns \in SUBSET Nets
    BY <1>1 DEF Wifi!Listed
  <2>2. /\ next(ns) \in Wifi!Job /\ next(ns).at # "none" /\ next(ns).list = ns
        /\ next(ns).op = j.op /\ next(ns).net = j.net /\ next(ns).trust = j.trust
    BY <1>1, <2>1 DEF Wifi!Job
  <2> HIDE DEF next
  <2>3. Sound(j, next(ns), nets, late)
    BY <2>2, ReadSound
  <2> QED
    BY <1>1, <1>2, <2>3, CardStep
<1>3. CASE Wifi!Card(w, nets, Wifi!Fallback(j))
  <2>1. Sound(j, Wifi!Fallback(j), nets, late)
    BY <1>1, FallbackIs, NoListSound
  <2> QED
    BY <1>1, <1>3, <2>1, CardStep
<1> QED
  BY <1>2, <1>3 DEF Wifi!Read

LEMMA RestStep ==
    ASSUME WifiInv, NEW w \in Windows, Wifi!Rest(w) PROVE WifiInv'
<1> DEFINE j == job[w]
           next == [j EXCEPT !.at = "posted", !.outcome = "done"]
<1>1. j \in Wifi!Job /\ Wifi!Running(w) /\ nets \in SUBSET Nets /\ j.at = "rest"
  BY DEF WifiInv, WifiType, Wifi!Rest, Wifi!Running
<1>2. CASE Wifi!Card(w, nets, next)
  <2>1. /\ next \in Wifi!Job /\ next.at # "none" /\ next.list = j.list
        /\ next.op = j.op /\ next.net = j.net /\ next.trust = j.trust
    BY <1>1 DEF Wifi!Job
  <2>2. Answered(j, nets) /\ OwnLate(j, late) /\ HasList(j)
    BY <1>1 DEF WifiInv, Truthful, HasList
  <2> HIDE DEF next
  <2>3. Answered(next, nets) /\ OwnLate(next, late)
    BY <2>1, <2>2 DEF Answered, OwnLate, Wifi!Confirms
  <2>4. Sound(j, next, nets, late)
    BY <2>1, <2>3 DEF Sound
  <2> QED
    BY <1>1, <1>2, <2>4, CardStep
<1>3. CASE Wifi!Card(w, nets, Wifi!Fallback(j))
  <2>1. Sound(j, Wifi!Fallback(j), nets, late)
    BY <1>1, FallbackIs, NoListSound
  <2> QED
    BY <1>1, <1>3, <2>1, CardStep
<1> QED
  BY <1>2, <1>3 DEF Wifi!Rest

LEMMA HelperStep ==
    ASSUME WifiInv, NEW w \in Windows, Wifi!RunHelper(w) PROVE WifiInv'
<1> DEFINE j == job[w]
           next == IF j.op = "test" THEN Wifi!Failed(j, "done") ELSE [j EXCEPT !.at = "relist"]
<1>1. j \in Wifi!Job /\ Wifi!Running(w) /\ nets \in SUBSET Nets
  BY DEF WifiInv, WifiType, Wifi!RunHelper, Wifi!Running
<1>2. /\ next \in Wifi!Job /\ next.at # "none" /\ ~HasList(next)
      /\ next.op = j.op /\ next.net = j.net /\ next.trust = j.trust
  BY <1>1 DEF Wifi!Job, Wifi!Failed, HasList
<1>3. ASSUME NEW ns \in {nets, Wifi!Effect(j, nets)},
             \/ Wifi!Card(w, ns, next)
             \/ \E how \in {"failed", "failedWithData"} : Wifi!Card(w, ns, Wifi!Failed(j, how))
      PROVE  WifiInv'
  <2>1. ns \in SUBSET Nets
    BY <1>1, <1>3, EffectType
  <2>2. Sound(j, next, ns, late)
    BY <1>2, NoListSound
  <2>3. ASSUME NEW how \in {"failed", "failedWithData"}
        PROVE  Sound(j, Wifi!Failed(j, how), ns, late)
    BY <1>1, FailedIs, NoListSound
  <2> HIDE DEF next
  <2> QED
    BY <1>1, <1>3, <2>1, <2>2, <2>3, CardStep
<1>4. CASE Wifi!Leave(w, Wifi!Failed(j, "failed"))
  BY <1>1, <1>4, FailedIs, LeaveStep
<1> QED
  BY <1>3, <1>4 DEF Wifi!RunHelper

LEMMA RelistStep ==
    ASSUME WifiInv, NEW w \in Windows, Wifi!Relist(w) PROVE WifiInv'
<1> DEFINE j == job[w]
           read == [j EXCEPT !.at = "posted", !.outcome = "done"]
           next(ns) == [read EXCEPT !.list = ns]
           unread == [read EXCEPT !.list = {}, !.trust = "mixed"]
<1>1. j \in Wifi!Job /\ Wifi!Running(w) /\ nets \in SUBSET Nets
  BY DEF WifiInv, WifiType, Wifi!Relist, Wifi!Running
<1>2. ASSUME NEW ns \in Wifi!Listed(j), Wifi!Card(w, nets, next(ns))
      PROVE  WifiInv'
  <2>1. ns \in SUBSET Nets
    BY <1>1 DEF Wifi!Listed
  <2>2. /\ next(ns) \in Wifi!Job /\ next(ns).at # "none" /\ next(ns).list = ns
        /\ next(ns).op = j.op /\ next(ns).net = j.net /\ next(ns).trust = j.trust
    BY <1>1, <2>1 DEF Wifi!Job
  <2> HIDE DEF next
  <2>3. Sound(j, next(ns), nets, late)
    BY <2>2, ReadSound
  <2> QED
    BY <1>1, <1>2, <2>3, CardStep
<1>3. CASE Wifi!Card(w, nets, unread)
  <2>1. /\ unread \in Wifi!Job /\ unread.at # "none" /\ unread.trust = "mixed"
        /\ unread.op = j.op /\ unread.net = j.net
    BY <1>1 DEF Wifi!Job
  <2> HIDE DEF unread
  <2>2. Sound(j, unread, nets, late)
    BY <2>1 DEF Sound, Answered, OwnLate
  <2> QED
    BY <1>1, <1>3, <2>2, CardStep
<1>4. ASSUME NEW how \in {"failed", "failedWithData"}, Wifi!Card(w, nets, Wifi!Failed(j, how))
      PROVE  WifiInv'
  <2>1. Sound(j, Wifi!Failed(j, how), nets, late)
    BY <1>1, FailedIs, NoListSound
  <2> QED
    BY <1>1, <1>4, <2>1, CardStep
<1> QED
  BY <1>2, <1>3, <1>4 DEF Wifi!Relist

(***************************************************************************)
(* What the user does, the callback, the card and the other sessions.      *)
(***************************************************************************)
LEMMA WindowStep ==
    ASSUME WifiInv, NEW w \in Windows, Wifi!OpenWindow(w) \/ Wifi!CloseWindow(w)
    PROVE  WifiInv'
<1>1. WifiType /\ Busy /\ Truthful /\ Alone
  BY DEF WifiInv
<1>2. UNCHANGED <<helper, nets, late, shown, job, saved>>
  BY DEF Wifi!OpenWindow, Wifi!CloseWindow
<1>3. Truthful' /\ Alone'
  BY <1>1, <1>2 DEF Truthful, Alone, Wifi!Running
<1>4. WifiType' /\ Busy'
  BY <1>1 DEF WifiType, Busy, Wifi!OpenWindow, Wifi!CloseWindow
<1> QED
  BY <1>3, <1>4 DEF WifiInv

LEMMA DeliverStep ==
    ASSUME WifiInv, NEW w \in Windows, Wifi!Deliver(w) PROVE WifiInv'
<1>1. WifiType /\ Busy /\ Truthful /\ Alone
  BY DEF WifiInv
<1>2. job' = [job EXCEPT ![w] = Wifi!NoJob] /\ UNCHANGED <<helper, nets, late>>
  BY DEF Wifi!Deliver
<1>3. job[w] \in Wifi!Job /\ Named(job[w]) /\ job[w].list \in SUBSET Nets
  BY <1>1 DEF WifiType, Truthful, Wifi!Job
<1>4. window' = [window EXCEPT ![w] = IF @ = "busy" THEN "idle" ELSE @]
  BY DEF Wifi!Deliver, Wifi!Enabled
<1>5. shown' \in [Windows -> SUBSET Nets]
  <2>1. ASSUME NEW list \in SUBSET Nets, Wifi!Show(w, list)
        PROVE  shown' \in [Windows -> SUBSET Nets]
    BY <1>1, <2>1 DEF WifiType, Wifi!Show
  <2>2. CASE UNCHANGED shown
    BY <1>1, <2>2 DEF WifiType
  <2>3. Wifi!Show(w, job[w].list) \/ Wifi!Show(w, {}) \/ UNCHANGED shown
    <3>1. CASE job[w].outcome = "done" /\ job[w].op # "test"
      BY <3>1 DEF Wifi!Deliver
    <3>2. CASE job[w].outcome = "failedWithData"
      BY <3>2 DEF Wifi!Deliver
    <3>3. CASE ~(job[w].outcome = "done" /\ job[w].op # "test") /\ job[w].outcome # "failedWithData"
      BY <3>3 DEF Wifi!Deliver
    <3> QED
      BY <3>1, <3>2, <3>3
  <2> QED
    BY <1>3, <2>1, <2>2, <2>3
<1>6. saved' \in Nets \cup {NoNet}
  BY <1>1, <1>3 DEF WifiType, Named, Wifi!Deliver
<1>7. WifiType'
  BY <1>1, <1>2, <1>4, <1>5, <1>6, NoJobIsJob DEF WifiType
<1>8. \A v \in Windows : job'[v] = IF v = w THEN Wifi!NoJob ELSE job[v]
  BY <1>1, <1>2 DEF WifiType
<1>9. Busy'
  BY <1>1, <1>4, <1>8 DEF WifiType, Busy
<1>10. Truthful'
  BY <1>1, <1>2, <1>8, NoJobIsJob DEF Truthful
<1>11. Alone'
  BY <1>1, <1>8, NoJobIsJob DEF Alone, Wifi!Running
<1> QED
  BY <1>7, <1>9, <1>10, <1>11 DEF WifiInv

\* What an operation is when it begins.
LEMMA BegunIs ==
    ASSUME NEW op \in {"list", "add", "delete", "test"}, NEW net \in Nets \cup {NoNet},
           NEW trust \in {"own", "mixed"}
    PROVE  LET k == Wifi!Begun(op, net, trust)
           IN  /\ k \in Wifi!Job /\ k.op = op /\ k.net = net /\ k.trust = trust
               /\ k.at # "none" /\ ~HasList(k)
<1> DEFINE j == [Wifi!NoJob EXCEPT !.op = op, !.net = net, !.trust = trust]
<1>1. j \in Wifi!Job /\ j.op = op /\ j.net = net /\ j.trust = trust
  BY DEF Wifi!NoJob, Wifi!Job
<1>2. Wifi!Begun(op, net, trust) \in {[j EXCEPT !.at = "posted", !.outcome = "failed"],
        [j EXCEPT !.at = "helper"], [j EXCEPT !.at = "list"], [j EXCEPT !.at = "change"]}
  <2>1. CASE op = "test" /\ helper
    BY <2>1 DEF Wifi!Begun
  <2>2. CASE op = "test" /\ ~helper
    BY <2>2 DEF Wifi!Begun
  <2>3. CASE op = "list"
    BY <2>3 DEF Wifi!Begun
  <2>4. CASE op \notin {"test", "list"}
    BY <2>4 DEF Wifi!Begun
  <2> QED
    BY <2>1, <2>2, <2>3, <2>4
<1> HIDE DEF j
<1> QED
  BY <1>1, <1>2 DEF Wifi!Job, HasList

LEMMA PressStep ==
    ASSUME WifiInv, NEW w \in Windows, NEW op \in {"list", "add", "delete", "test"},
           NEW net \in Nets \cup {NoNet}, NEW trust \in {"own", "mixed"},
           Wifi!Press(w, op, net, trust)
    PROVE  WifiInv'
<1> DEFINE k == Wifi!Begun(op, net, trust)
<1>1. WifiType /\ Busy /\ Truthful /\ Alone
  BY DEF WifiInv
<1>2. /\ k \in Wifi!Job /\ k.op = op /\ k.net = net /\ k.trust = trust
      /\ k.at # "none" /\ ~HasList(k)
  BY BegunIs
<1> HIDE DEF k
<1>3. /\ job' = [v \in Windows |-> IF v = w THEN k ELSE Mixed(job[v])]
      /\ window' = [window EXCEPT ![w] = "busy"] /\ UNCHANGED <<helper, nets, late, shown, saved>>
  BY DEF Wifi!Press, Mixed, k
<1>4. \A v \in Windows : job[v] \in Wifi!Job /\ Named(job[v])
  BY <1>1 DEF WifiType, Truthful
<1>5. Named(k) /\ Answered(k, nets) /\ OwnLate(k, late)
  <2>1. (op = "list") = (net = NoNet)
    BY DEF Wifi!Press
  <2>2. op = "list" \/ net \in Nets
    BY <2>1
  <2>3. trust = "own" => late = {}
    BY DEF Wifi!Press
  <2> QED
    BY <1>2, <2>2, <2>3 DEF Named, Answered, OwnLate
<1>6. \A v \in Windows :
        LET m == Mixed(job[v])
        IN  /\ m \in Wifi!Job /\ m.trust = "mixed" /\ m.at = job[v].at /\ Named(m)
            /\ job[v] = Wifi!NoJob => m = Wifi!NoJob
            /\ Answered(m, nets) /\ OwnLate(m, late)
  BY <1>4, MixedJob
<1>7. WifiType'
  BY <1>1, <1>2, <1>3, <1>6 DEF WifiType
<1>8. Busy'
  BY <1>1, <1>2, <1>3, <1>6 DEF WifiType, Busy
<1>9. Truthful'
  BY <1>3, <1>5, <1>6 DEF Truthful
<1>10. Alone'
  <2> SUFFICES ASSUME NEW u \in Windows, NEW v \in Windows, job'[u].trust # "mixed", v # u
               PROVE  ~Wifi!Running(v)'
    BY DEF Alone
  <2>1. u = w
    BY <1>3, <1>6
  <2>2. trust = "own"
    BY <1>2, <1>3, <2>1
  <2>3. ~Wifi!Running(v)
    BY <2>2 DEF Wifi!Press
  <2>4. job'[v].at = job[v].at
    BY <1>3, <1>6, <2>1
  <2> QED
    BY <2>3, <2>4 DEF Wifi!Running
<1> QED
  BY <1>7, <1>8, <1>9, <1>10 DEF WifiInv

\* A given-up change is that of the operation that is on its own.
LEMMA ArriveStep ==
    ASSUME WifiInv, NEW c \in Wifi!Change, Wifi!Arrive(c) PROVE WifiInv'
<1>1. WifiType /\ Busy /\ Truthful /\ Alone
  BY DEF WifiInv
<1>2. /\ c \in late /\ late' = late \ {c} /\ nets' \in {nets, Wifi!Effect(c, nets)}
      /\ UNCHANGED <<helper, window, shown, job, saved>>
  BY DEF Wifi!Arrive
<1>3. c.op \in {"add", "delete"} /\ c.net \in Nets
  BY DEF Wifi!Change
<1>4. nets' \in SUBSET Nets
  BY <1>1, <1>2, <1>3 DEF WifiType, Wifi!Effect
<1>5. WifiType' /\ Busy' /\ Alone'
  BY <1>1, <1>2, <1>4 DEF WifiType, Busy, Alone, Wifi!Running
<1>6. ASSUME NEW w \in Windows
      PROVE  Answered(job[w], nets') /\ OwnLate(job[w], late')
  <2>1. Answered(job[w], nets) /\ OwnLate(job[w], late)
    BY <1>1 DEF Truthful
  <2>2. job[w].trust # "mixed" => /\ c.op = job[w].op /\ c.net = job[w].net
                                  /\ job[w].trust # "own"
    BY <1>2, <2>1 DEF OwnLate
  <2>3. OwnLate(job[w], late')
    BY <1>2, <2>1 DEF OwnLate
  <2>4. job[w].trust # "mixed" /\ Wifi!Confirms(job[w], nets) => Wifi!Confirms(job[w], nets')
    BY <1>2, <1>3, <2>2 DEF Wifi!Confirms, Wifi!Effect
  <2> QED
    BY <2>1, <2>2, <2>3, <2>4 DEF Answered
<1>7. Truthful'
  BY <1>1, <1>2, <1>6 DEF Truthful
<1> QED
  BY <1>5, <1>7 DEF WifiInv

LEMMA OtherSessionStep ==
    ASSUME WifiInv, Wifi!OtherSession PROVE WifiInv'
<1>1. WifiType /\ Busy /\ Truthful /\ Alone
  BY DEF WifiInv
<1>2. UNCHANGED <<helper, nets, late, window, shown, saved>>
  BY DEF Wifi!OtherSession
<1>3. ASSUME NEW w \in Windows
      PROVE  job'[w] = IF Wifi!Running(w) THEN Mixed(job[w]) ELSE job[w]
  <2>1. job'[w] = [job[w] EXCEPT !.trust = IF Wifi!Running(w) THEN "mixed" ELSE @]
    BY DEF Wifi!OtherSession
  <2>2. job[w] \in Wifi!Job
    BY <1>1 DEF WifiType
  <2>3. CASE Wifi!Running(w)
    BY <2>1, <2>3 DEF Mixed
  <2>4. CASE ~Wifi!Running(w)
    BY <2>1, <2>2, <2>4 DEF Wifi!Job
  <2> QED
    BY <2>3, <2>4
<1>4. \A w \in Windows :
        LET m == Mixed(job[w])
        IN  /\ m \in Wifi!Job /\ m.trust = "mixed" /\ m.at = job[w].at /\ Named(m)
            /\ job[w] = Wifi!NoJob => m = Wifi!NoJob
            /\ Answered(m, nets) /\ OwnLate(m, late)
  BY <1>1, MixedJob DEF WifiType, Truthful
<1>5. job' = [w \in Windows |-> job'[w]]
  BY DEF Wifi!OtherSession
<1>6. WifiType'
  BY <1>1, <1>2, <1>3, <1>4, <1>5 DEF WifiType
<1>7. Busy'
  BY <1>1, <1>2, <1>3, <1>4 DEF Busy
<1>8. Truthful'
  BY <1>1, <1>2, <1>3, <1>4 DEF Truthful
<1>9. \A w \in Windows : /\ job'[w].at = job[w].at
                         /\ job'[w].trust # "mixed" => job[w].trust # "mixed"
  BY <1>3, <1>4
<1>10. Alone'
  BY <1>1, <1>9 DEF Alone, Wifi!Running
<1> QED
  BY <1>6, <1>7, <1>8, <1>10 DEF WifiInv

LEMMA WifiStep == WifiInv /\ [Wifi!Next]_(Wifi!vars) => WifiInv'
<1> SUFFICES ASSUME WifiInv, [Wifi!Next]_(Wifi!vars) PROVE WifiInv'
  OBVIOUS
<1>1. CASE UNCHANGED Wifi!vars
  BY <1>1 DEF Wifi!vars, WifiInv, WifiType, Busy, Truthful, Alone, Wifi!Running
<1>2. CASE \E w \in Windows :
             \/ Wifi!OpenWindow(w) \/ Wifi!CloseWindow(w) \/ Wifi!Work(w)
             \/ \E op \in {"list", "add", "delete", "test"}, net \in Nets \cup {NoNet},
                   trust \in {"own", "mixed"} : Wifi!Press(w, op, net, trust)
  BY <1>2, WindowStep, ChangeStep, ReadStep, RestStep, HelperStep, RelistStep, DeliverStep,
     PressStep DEF Wifi!Work
<1>3. CASE \E c \in Wifi!Change : Wifi!Arrive(c)
  BY <1>3, ArriveStep
<1>4. CASE Wifi!OtherSession
  BY <1>4, OtherSessionStep
<1> QED
  BY <1>1, <1>2, <1>3, <1>4 DEF Wifi!Next

(***************************************************************************)
(* VerdictTrue: what _card_wifi_dialog writes under the lists is true of   *)
(* the card, for any number of windows, networks and operations, with and  *)
(* without the helper script, whatever was given up and repeated, unless   *)
(* another session was mixed up with the operation.                        *)
(***************************************************************************)
THEOREM WifiVerdictTrue == Wifi!Spec => VerdictTrue
<1>1. WifiInv => Wifi!TypeOK
  BY NoJobIsJob DEF WifiInv, WifiType, Busy, Wifi!TypeOK
<1>2. ASSUME WifiInv, NEW w \in Windows, Wifi!Deliver(w),
             job[w].outcome = "done", job[w].op # "test", job[w].trust # "mixed"
      PROVE  /\ Wifi!Confirms(job[w], job[w].list) => Wifi!Confirms(job[w], nets)
             /\ job[w].trust = "own" => job[w].list = nets
  BY <1>2 DEF WifiInv, Truthful, Answered, HasList, Wifi!Deliver
<1>3. WifiInv /\ [Wifi!Next]_(Wifi!vars) =>
        [\A w \in Windows :
           LET j == job[w]
           IN  Wifi!Deliver(w) /\ j.outcome = "done" /\ j.op # "test" /\ j.trust # "mixed" =>
                 /\ Wifi!Confirms(j, j.list) => Wifi!Confirms(j, nets)
                 /\ j.trust = "own" => j.list = nets]_(Wifi!vars)
  BY <1>2
<1> QED
  BY WifiInit, WifiStep, <1>1, <1>3, PTL DEF Wifi!Spec, VerdictTrue, Wifi!VerdictTrue
=============================================================================
