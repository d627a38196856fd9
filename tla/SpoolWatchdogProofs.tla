------------------------- MODULE SpoolWatchdogProofs -------------------------
(***************************************************************************)
(* Theorems about SpoolWatchdog: for any set of spools, any periods and any*)
(* number of restarts, alerts are neither too dense nor too late.          *)
(***************************************************************************)
EXTENDS SpoolWatchdog, TLAPS

\* The entry of a spool is the age of its last event; where it was deleted,
\* the spool was written since.
Linked(f) ==
    f \notin fresh =>
        \/ stallAlerted[f] = told[f]
        \/ stallAlerted[f] = Realert /\ told[f] >= idle[f]

\* A spool that rests longer than its last event is old was stalled then.
Rested(f) ==
    /\ size[f] = 0 => idle[f] = 0
    /\ idle[f] > told[f] /\ told[f] < Realert => idle[f] >= AlertAfter

\* What find_stalled saw is still so, or the spool was written or removed.
Seen(f) ==
    stalled[f] # Fresh =>
        /\ phase # "wait"
        /\ stalled[f] >= AlertAfter
        /\ idle[f] \in {0, stalled[f]}
        /\ \/ f \in fresh
           \/ stallAlerted[f] = told[f]
           \/ stallAlerted[f] = Realert /\ told[f] >= stalled[f]

\* What find_stalled passed over is not stalled.
Passed(f) ==
    /\ phase = "scan" /\ f \notin todo /\ stalled[f] = Fresh => idle[f] < AlertAfter
    /\ phase = "judge" /\ stalled[f] = Fresh => idle[f] < AlertAfter

\* How far the judging of f is.
Judged(f) ==
    /\ phase # "judge" => f \notin live
    /\ phase = "wait" => f \notin todo
    /\ f \in fresh => f \in live
    /\ f \in live => stalled[f] # Fresh
    /\ f \in live /\ f \notin fresh => stallAlerted[f] < Realert
    /\ f \in fresh => /\ stallAlerted[f] = 0
                      /\ told[f] = Realert \/ told[f] >= stalled[f]
    /\ phase = "judge" /\ f \in todo => stalled[f] # Fresh /\ f \notin live
    /\ phase = "scan" /\ f \in todo => stalled[f] = Fresh
    /\ phase = "judge" /\ f \notin todo /\ stalled[f] # Fresh =>
          IF stalled[f] >= GiveUp THEN idle[f] = 0 ELSE f \in live

FileInv(f) == Linked(f) /\ Rested(f) /\ Seen(f) /\ Passed(f) /\ Judged(f)

WatchdogInv ==
    /\ TypeOK
    /\ ~due => phase = "wait"
    /\ AlertTimely
    /\ \A f \in File : FileInv(f)

USE DEF Fresh

LEMMA TypeInit == Init => TypeOK
BY TimesAssumption DEF Init, TypeOK

LEMMA OlderType ==
    ASSUME NEW cap \in Nat, NEW age \in 0..cap
    PROVE  /\ Older(age, cap) \in 0..cap
           /\ Older(age, cap) >= age /\ Older(age, cap) <= age + 1
           /\ age < cap => Older(age, cap) = age + 1
BY DEF Older

LEMMA TypeStep == TypeOK /\ [Next]_vars => TypeOK'
<1> SUFFICES ASSUME TypeOK, [Next]_vars PROVE TypeOK'
  OBVIOUS
<1> USE TimesAssumption
<1>1. ASSUME NEW f \in File, SpoolAppend(f) PROVE TypeOK'
  BY <1>1 DEF SpoolAppend, TypeOK, tick
<1>2. ASSUME NEW f \in File, Remove(f) PROVE TypeOK'
  BY <1>2 DEF Remove, TypeOK, tick
<1>3. CASE StartTick
  BY <1>3 DEF StartTick, TypeOK, spools
<1>4. ASSUME NEW f \in File, Stat(f) PROVE TypeOK'
  BY <1>4 DEF Stat, TypeOK, spools
<1>5. CASE ScanDone
  BY <1>5 DEF ScanDone, TypeOK, spools
<1>6. ASSUME NEW f \in File, Abandon(f) PROVE TypeOK'
  BY <1>6 DEF Abandon, TypeOK
<1>7. ASSUME NEW f \in File, Alert(f) PROVE TypeOK'
  BY <1>7 DEF Alert, TypeOK, spools
<1>8. CASE FinishTick
  <2>1. stallAlerted' \in [File -> 0..Realert]
    BY <1>8 DEF FinishTick, Kept, TypeOK
  <2>2. told' \in [File -> 0..Realert]
    BY <1>8 DEF FinishTick, TypeOK
  <2>3. stalled' \in [File -> Fresh..GiveUp]
    BY <1>8 DEF FinishTick
  <2>4. /\ phase' = "wait" /\ live' = {} /\ fresh' = {} /\ due' = FALSE
        /\ UNCHANGED <<size, idle, archive, todo, crashes>>
    BY <1>8 DEF FinishTick, spools
  <2> QED
    BY <2>1, <2>2, <2>3, <2>4 DEF TypeOK
<1>9. CASE Elapse
  <2>1. idle' \in [File -> 0..GiveUp]
    BY <1>9, OlderType DEF Elapse, TypeOK
  <2>2. stallAlerted' \in [File -> 0..Realert] /\ told' \in [File -> 0..Realert]
    BY <1>9, OlderType DEF Elapse, TypeOK
  <2> QED
    BY <1>9, <2>1, <2>2 DEF Elapse, TypeOK, tick
<1>10. CASE Crash
  BY <1>10 DEF Crash, TypeOK, spools
<1>11. CASE UNCHANGED vars
  BY <1>11 DEF vars, TypeOK
<1> QED
  BY <1>1, <1>2, <1>3, <1>4, <1>5, <1>6, <1>7, <1>8, <1>9, <1>10, <1>11
     DEF Next, Handlers, Watchdog

\* The type invariant of SpoolWatchdog.
THEOREM TypeCorrect == Spec => []TypeOK
BY TypeInit, TypeStep, PTL DEF Spec

-----------------------------------------------------------------------------
LEMMA WatchdogInit == Init => WatchdogInv
<1> SUFFICES ASSUME Init PROVE WatchdogInv
  OBVIOUS
<1>1. TypeOK
  BY TypeInit
<1>2. ASSUME NEW f \in File PROVE FileInv(f)
  BY TimesAssumption DEF Init, FileInv, Linked, Rested, Seen, Passed, Judged
<1> QED
  BY <1>1, <1>2 DEF Init, WatchdogInv, AlertTimely

\* What FileInv says of one spool, with the types the arithmetic needs.
LEMMA FileTypes ==
    ASSUME TypeOK, NEW f \in File
    PROVE  /\ size[f] \in 0..MaxSize /\ idle[f] \in 0..GiveUp
           /\ stallAlerted[f] \in 0..Realert /\ told[f] \in 0..Realert
           /\ stalled[f] \in Fresh..GiveUp
BY DEF TypeOK

\* A handler writes or removes a spool: its file is young.
LEMMA HandlerStep ==
    ASSUME WatchdogInv, NEW g \in File, SpoolAppend(g) \/ Remove(g)
    PROVE  WatchdogInv'
<1>1. TypeOK'
  BY TypeStep DEF Next, Handlers, WatchdogInv
<1>2. /\ idle' = [idle EXCEPT ![g] = 0]
      /\ \A f \in File \ {g} : size'[f] = size[f]
      /\ UNCHANGED <<stallAlerted, phase, todo, stalled, live, fresh, due, told>>
  BY DEF SpoolAppend, Remove, tick, WatchdogInv, TypeOK
<1>3. ASSUME NEW f \in File PROVE FileInv(f)'
  <2>1. FileInv(f) /\ idle'[f] \in {0, idle[f]} /\ (size'[f] = 0 => idle'[f] = 0)
    BY <1>2 DEF WatchdogInv, TypeOK, FileInv, Rested
  <2>2. /\ idle[f] \in Nat /\ told[f] \in Nat /\ stalled[f] \in Int
        /\ AlertAfter \in Nat \ {0} /\ Realert \in Nat
    BY FileTypes, TimesAssumption DEF WatchdogInv
  <2> QED
    BY <1>2, <2>1, <2>2 DEF FileInv, Linked, Rested, Seen, Passed, Judged
<1>4. AlertTimely'
  <2> SUFFICES ASSUME ~due', NEW f \in File, size'[f] > 0, idle'[f] >= AlertAfter
               PROVE  idle'[f] < GiveUp /\ told'[f] < Realert
    BY DEF AlertTimely
  <2>1. f # g
    BY <1>2, TimesAssumption DEF WatchdogInv, TypeOK
  <2> QED
    BY <1>2, <2>1 DEF WatchdogInv, AlertTimely, TypeOK
<1> QED
  BY <1>1, <1>2, <1>3, <1>4 DEF WatchdogInv

\* The steps of a tick before its end.
LEMMA TickStep ==
    ASSUME WatchdogInv, NEW g \in File,
           StartTick \/ ScanDone \/ Stat(g) \/ Abandon(g) \/ Alert(g)
    PROVE  WatchdogInv'
<1>1. TypeOK'
  BY TypeStep DEF Next, Watchdog, WatchdogInv
<1>2. due /\ due'
  BY DEF StartTick, ScanDone, Stat, Abandon, Alert, WatchdogInv
<1>3. AlertTimely'
  BY <1>2 DEF AlertTimely
<1> USE TimesAssumption
<1>4. ASSUME NEW f \in File PROVE FileInv(f)'
  <2>0. FileInv(f) /\ TypeOK
    BY DEF WatchdogInv
  <2>1. /\ size[f] \in 0..MaxSize /\ idle[f] \in 0..GiveUp
        /\ stallAlerted[f] \in 0..Realert /\ told[f] \in 0..Realert
        /\ stalled[f] \in Fresh..GiveUp
    BY <2>0, FileTypes
  <2>2. CASE StartTick
    BY <2>0, <2>1, <2>2
       DEF StartTick, spools, TypeOK, FileInv, Linked, Rested, Seen, Passed, Judged
  <2>3. CASE ScanDone
    BY <2>0, <2>1, <2>3
       DEF ScanDone, spools, TypeOK, FileInv, Linked, Rested, Seen, Passed, Judged
  <2>4. CASE Stat(g)
    <3>1. CASE f = g
      BY <2>0, <2>1, <2>4, <3>1
         DEF Stat, spools, TypeOK, FileInv, Linked, Rested, Seen, Passed, Judged
    <3>2. CASE f # g
      BY <2>0, <2>1, <2>4, <3>2
         DEF Stat, spools, TypeOK, FileInv, Linked, Rested, Seen, Passed, Judged
    <3> QED
      BY <3>1, <3>2
  <2>5. CASE Abandon(g)
    <3>1. CASE f = g
      BY <2>0, <2>1, <2>5, <3>1
         DEF Abandon, TypeOK, FileInv, Linked, Rested, Seen, Passed, Judged
    <3>2. CASE f # g
      BY <2>0, <2>1, <2>5, <3>2
         DEF Abandon, TypeOK, FileInv, Linked, Rested, Seen, Passed, Judged
    <3> QED
      BY <3>1, <3>2
  <2>6. CASE Alert(g)
    <3>1. CASE f = g
      BY <2>0, <2>1, <2>6, <3>1
         DEF Alert, MayAlert, spools, TypeOK, FileInv, Linked, Rested, Seen, Passed, Judged
    <3>2. CASE f # g
      BY <2>0, <2>1, <2>6, <3>2
         DEF Alert, MayAlert, spools, TypeOK, FileInv, Linked, Rested, Seen, Passed, Judged
    <3> QED
      BY <3>1, <3>2
  <2> QED
    BY <2>2, <2>3, <2>4, <2>5, <2>6
<1> QED
  BY <1>1, <1>2, <1>3, <1>4 DEF WatchdogInv

LEMMA FinishStep ==
    ASSUME WatchdogInv, FinishTick
    PROVE  WatchdogInv'
<1>1. TypeOK'
  BY TypeStep DEF Next, Watchdog, WatchdogInv
<1> USE TimesAssumption
<1>2. ASSUME NEW f \in File
      PROVE  /\ FileInv(f)'
             /\ size'[f] > 0 /\ idle'[f] >= AlertAfter => idle'[f] < GiveUp /\ told'[f] < Realert
  <2>0. FileInv(f) /\ TypeOK
    BY DEF WatchdogInv
  <2>1. /\ size[f] \in 0..MaxSize /\ idle[f] \in 0..GiveUp
        /\ stallAlerted[f] \in 0..Realert /\ told[f] \in 0..Realert
        /\ stalled[f] \in Fresh..GiveUp
    BY <2>0, FileTypes
  <2>2. /\ phase = "judge" /\ f \notin todo
        /\ phase' = "wait" /\ todo' = todo /\ stalled'[f] = Fresh
        /\ f \notin live' /\ f \notin fresh'
        /\ size'[f] = size[f] /\ idle'[f] = idle[f]
        /\ stallAlerted'[f] = Kept(f)
        /\ told'[f] = IF f \in fresh THEN 0 ELSE told[f]
    BY DEF FinishTick, spools
  <2>3. CASE f \in fresh
    BY <2>0, <2>1, <2>2, <2>3 DEF Kept, FileInv, Linked, Rested, Seen, Passed, Judged
  <2>4. CASE f \in live /\ f \notin fresh
    BY <2>0, <2>1, <2>2, <2>4 DEF Kept, FileInv, Linked, Rested, Seen, Passed, Judged
  <2>5. CASE f \notin live
    BY <2>0, <2>1, <2>2, <2>5 DEF Kept, FileInv, Linked, Rested, Seen, Passed, Judged
  <2> QED
    BY <2>0, <2>3, <2>4, <2>5
<1>3. AlertTimely'
  BY <1>2 DEF AlertTimely
<1>4. ~due' => phase' = "wait"
  BY DEF FinishTick
<1> QED
  BY <1>1, <1>2, <1>3, <1>4 DEF WatchdogInv

LEMMA ElapseStep ==
    ASSUME WatchdogInv, Elapse
    PROVE  WatchdogInv'
<1>1. TypeOK'
  BY TypeStep DEF Next, WatchdogInv
<1> USE TimesAssumption
<1>2. ASSUME NEW f \in File PROVE FileInv(f)'
  <2>0. FileInv(f) /\ TypeOK /\ phase = "wait"
    BY DEF WatchdogInv, Elapse
  <2>1. /\ size[f] \in 0..MaxSize /\ idle[f] \in 0..GiveUp
        /\ stallAlerted[f] \in 0..Realert /\ told[f] \in 0..Realert
        /\ stalled[f] \in Fresh..GiveUp
    BY <2>0, FileTypes
  <2>2. /\ phase' = phase /\ todo' = todo /\ stalled' = stalled
        /\ live' = live /\ fresh' = fresh /\ size' = size
        /\ idle'[f] = IF size[f] > 0 THEN Older(idle[f], GiveUp) ELSE 0
        /\ stallAlerted'[f] = Older(stallAlerted[f], Realert)
        /\ told'[f] = Older(told[f], Realert)
    BY DEF Elapse, tick
  <2> QED
    BY <2>0, <2>1, <2>2 DEF Older, FileInv, Linked, Rested, Seen, Passed, Judged
<1>3. AlertTimely' /\ (~due' => phase' = "wait")
  BY DEF Elapse, AlertTimely
<1> QED
  BY <1>1, <1>2, <1>3 DEF WatchdogInv

LEMMA CrashStep ==
    ASSUME WatchdogInv, Crash
    PROVE  WatchdogInv'
<1>1. TypeOK'
  BY TypeStep DEF Next, WatchdogInv
<1> USE TimesAssumption
<1>2. ASSUME NEW f \in File PROVE FileInv(f)'
  <2>0. FileInv(f) /\ TypeOK
    BY DEF WatchdogInv
  <2>1. size[f] \in 0..MaxSize /\ idle[f] \in 0..GiveUp
    BY <2>0, FileTypes
  <2> QED
    BY <2>0, <2>1 DEF Crash, spools, FileInv, Linked, Rested, Seen, Passed, Judged
<1>3. AlertTimely' /\ (~due' => phase' = "wait")
  BY DEF Crash, AlertTimely
<1> QED
  BY <1>1, <1>2, <1>3 DEF WatchdogInv

LEMMA WatchdogStep == WatchdogInv /\ [Next]_vars => WatchdogInv'
<1> SUFFICES ASSUME WatchdogInv, [Next]_vars PROVE WatchdogInv'
  OBVIOUS
<1>1. CASE Handlers
  BY <1>1, HandlerStep DEF Handlers
<1>2. CASE StartTick \/ ScanDone
  <2>1. CASE File = {}
    BY <1>2, <2>1, TypeStep DEF WatchdogInv, StartTick, ScanDone, AlertTimely, Next, Watchdog
  <2>2. CASE File # {}
    <3>1. PICK g \in File : TRUE
      BY <2>2
    <3> QED
      BY <1>2, <3>1, TickStep
  <2> QED
    BY <2>1, <2>2
<1>3. CASE \E f \in File : Stat(f) \/ Abandon(f) \/ Alert(f)
  BY <1>3, TickStep
<1>4. CASE FinishTick
  BY <1>4, FinishStep
<1>5. CASE Elapse
  BY <1>5, ElapseStep
<1>6. CASE Crash
  BY <1>6, CrashStep
<1>7. CASE UNCHANGED vars
  BY <1>7 DEF vars, WatchdogInv, TypeOK, AlertTimely, FileInv, Linked, Rested, Seen,
              Passed, Judged
<1> QED
  BY <1>1, <1>2, <1>3, <1>4, <1>5, <1>6, <1>7 DEF Next, Watchdog

\* Every spool that rests is reported in time, and given up in time.
THEOREM AlertsInTime == Spec => []WatchSound
<1>1. WatchdogInv => WatchSound
  BY DEF WatchdogInv, WatchSound
<1> QED
  BY WatchdogInit, WatchdogStep, <1>1, PTL DEF Spec

\* The events for one spool keep their distance.
THEOREM AlertsKeepApart == Spec => AlertsApart
<1> DEFINE Apart == phase = "judge" /\ phase' = "wait" /\ due' = FALSE =>
                      \A f \in fresh : /\ told[f] >= AlertAfter
                                       /\ idle[f] > told[f] => told[f] >= Realert
<1>1. WatchdogInv => Apart
  <2> SUFFICES ASSUME WatchdogInv, NEW f \in fresh
               PROVE  /\ told[f] >= AlertAfter
                      /\ idle[f] > told[f] => told[f] >= Realert
    OBVIOUS
  <2>1. f \in File /\ FileInv(f) /\ TypeOK
    BY DEF WatchdogInv, TypeOK
  <2>2. /\ idle[f] \in 0..GiveUp /\ told[f] \in 0..Realert /\ stalled[f] \in Fresh..GiveUp
    BY <2>1, FileTypes
  <2> QED
    BY <2>1, <2>2, TimesAssumption DEF FileInv, Seen, Judged
<1>2. WatchdogInv /\ [Next]_vars => [Apart]_vars
  BY <1>1
<1> QED
  BY WatchdogInit, WatchdogStep, <1>2, PTL DEF Spec, AlertsApart
=============================================================================
