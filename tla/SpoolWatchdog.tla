---------------------------- MODULE SpoolWatchdog ----------------------------
(***************************************************************************)
(* The watchdog thread of eyefi_server.py (find_stalled, _watchdog_tick,   *)
(* _spool_abandon) beside the upload handlers that write and remove the    *)
(* spools it looks at.                                                     *)
(*                                                                         *)
(* Time is counted in periods of the watchdog (WATCHDOG_INTERVAL).  It     *)
(* passes between ticks only, a tick being short; each period has one tick.*)
(* Ages are kept instead of times and stop counting where nothing depends  *)
(* on them any more.                                                       *)
(***************************************************************************)
EXTENDS Integers

CONSTANTS
    File,           \* the spools, one per (card, file name)
    MaxSize,        \* units of a whole file
    AlertAfter,     \* STALL_ALERT_AFTER in periods
    Realert,        \* STALL_REALERT in periods
    GiveUp,         \* STALL_GIVEUP_AFTER in periods
    MaxCrash        \* bound on restarts of the program

ASSUME TimesAssumption ==
    /\ AlertAfter \in Nat \ {0}
    /\ Realert \in Nat /\ AlertAfter <= Realert
    /\ GiveUp \in Nat /\ AlertAfter <= GiveUp
    /\ MaxSize \in Nat \ {0}
    /\ MaxCrash \in Nat

VARIABLES
    size,           \* size[f]: size of the .part file, 0 if there is none
    idle,           \* idle[f]: age of its mtime, up to GiveUp
    archive,        \* archive[f]: size of .part.abandoned, 0 if there is none
    stallAlerted,   \* stallAlerted[f]: age of _stall_alerted[f]; Realert stands
                    \*   for that age or more and for no entry
    phase,          \* of the watchdog: "wait", "scan" or "judge"
    todo,           \* spools the phase has still to look at
    stalled,        \* stalled[f]: age that find_stalled reports, Fresh if none
    live,           \* keys of this tick that stay in _stall_alerted
    fresh,          \* keys of this tick that are alerted
    due,            \* this period's tick is still to come
    told,           \* told[f]: age of the last "stalled" event, up to Realert
    crashes

spools == <<size, idle, archive>>
tick == <<phase, todo, stalled, live, fresh>>
vars == <<size, idle, archive, stallAlerted, phase, todo, stalled, live, fresh,
          due, told, crashes>>

Fresh == -1

Older(age, cap) == IF age < cap THEN age + 1 ELSE cap

Init ==
    /\ size = [f \in File |-> 0]
    /\ idle = [f \in File |-> 0]
    /\ archive = [f \in File |-> 0]
    /\ stallAlerted = [f \in File |-> Realert]
    /\ phase = "wait"
    /\ todo = {}
    /\ stalled = [f \in File |-> Fresh]
    /\ live = {}
    /\ fresh = {}
    /\ due = TRUE
    /\ told = [f \in File |-> Realert]
    /\ crashes = 0

(***************************************************************************)
(* The upload handlers: spool_append_at, and spool_reset or                *)
(* spool_stream_begin from 0.                                              *)
(***************************************************************************)
SpoolAppend(f) ==
    /\ size[f] < MaxSize
    /\ size' = [size EXCEPT ![f] = @ + 1]
    /\ idle' = [idle EXCEPT ![f] = 0]
    /\ UNCHANGED <<archive, stallAlerted, tick, due, told, crashes>>

Remove(f) ==
    /\ size[f] > 0
    /\ size' = [size EXCEPT ![f] = 0]
    /\ idle' = [idle EXCEPT ![f] = 0]
    /\ UNCHANGED <<archive, stallAlerted, tick, due, told, crashes>>

(***************************************************************************)
(* A period passes after its tick.                                         *)
(***************************************************************************)
Elapse ==
    /\ phase = "wait" /\ ~due
    /\ idle' = [f \in File |-> IF size[f] > 0 THEN Older(idle[f], GiveUp) ELSE 0]
    /\ stallAlerted' = [f \in File |-> Older(stallAlerted[f], Realert)]
    /\ told' = [f \in File |-> Older(told[f], Realert)]
    /\ due' = TRUE
    /\ UNCHANGED <<size, archive, tick, crashes>>

(***************************************************************************)
(* _watchdog_tick.  find_stalled lists the directory, then takes the state *)
(* of one file after the other.                                            *)
(***************************************************************************)
StartTick ==
    /\ phase = "wait" /\ due
    /\ phase' = "scan"
    /\ todo' = {f \in File : size[f] > 0}
    /\ UNCHANGED <<spools, stallAlerted, stalled, live, fresh, due, told, crashes>>

Stat(f) ==
    /\ phase = "scan" /\ f \in todo
    /\ todo' = todo \ {f}
    /\ stalled' = IF size[f] > 0 /\ idle[f] >= AlertAfter
                  THEN [stalled EXCEPT ![f] = idle[f]] ELSE stalled
    /\ UNCHANGED <<spools, stallAlerted, phase, live, fresh, due, told, crashes>>

ScanDone ==
    /\ phase = "scan" /\ todo = {}
    /\ phase' = "judge"
    /\ todo' = {f \in File : stalled[f] # Fresh}
    /\ UNCHANGED <<spools, stallAlerted, stalled, live, fresh, due, told, crashes>>

\* Mutant: the archived spool is not taken away.
MutantAbandon(f) ==
    /\ phase = "judge" /\ f \in todo /\ stalled[f] >= GiveUp
    /\ todo' = todo \ {f}
    /\ archive' = [archive EXCEPT ![f] = size[f]]
    /\ UNCHANGED <<size, idle, stallAlerted, phase, stalled, live, fresh, due, told, crashes>>

\* _spool_abandon: what the spool is now goes to .part.abandoned, over an
\* earlier one; nothing happens if it is gone.
Abandon(f) ==
    /\ phase = "judge" /\ f \in todo /\ stalled[f] >= GiveUp
    /\ todo' = todo \ {f}
    /\ archive' = [archive EXCEPT ![f] = IF size[f] > 0 THEN size[f] ELSE @]
    /\ size' = [size EXCEPT ![f] = 0]
    /\ idle' = [idle EXCEPT ![f] = 0]
    /\ UNCHANGED <<stallAlerted, phase, stalled, live, fresh, due, told, crashes>>

MayAlert(f) == stallAlerted[f] >= Realert

Alert(f) ==
    /\ phase = "judge" /\ f \in todo /\ stalled[f] < GiveUp
    /\ todo' = todo \ {f}
    /\ live' = live \cup {f}
    /\ fresh' = IF MayAlert(f) THEN fresh \cup {f} ELSE fresh
    /\ stallAlerted' = IF MayAlert(f) THEN [stallAlerted EXCEPT ![f] = 0] ELSE stallAlerted
    /\ UNCHANGED <<spools, phase, stalled, due, told, crashes>>

\* Mutants of the cleaning of _stall_alerted: what was not alerted in this
\* tick is forgotten; nothing is ever forgotten or renewed.
MutantKept(f) == IF f \in fresh THEN stallAlerted[f] ELSE Realert
MutantKeptForever(f) == 0

\* Entries of spools that are no longer stalled, or are given up, are deleted.
Kept(f) == IF f \in live THEN stallAlerted[f] ELSE Realert

\* The entries are cleaned, and one "stalled" event names the fresh spools.
FinishTick ==
    /\ phase = "judge" /\ todo = {}
    /\ phase' = "wait"
    /\ stallAlerted' = [f \in File |-> Kept(f)]
    /\ told' = [f \in File |-> IF f \in fresh THEN 0 ELSE told[f]]
    /\ stalled' = [f \in File |-> Fresh]
    /\ live' = {}
    /\ fresh' = {}
    /\ due' = FALSE
    /\ UNCHANGED <<spools, todo, crashes>>

\* The program dies and is started again: _stall_alerted starts empty.
Crash ==
    /\ crashes < MaxCrash
    /\ crashes' = crashes + 1
    /\ stallAlerted' = [f \in File |-> Realert]
    /\ told' = [f \in File |-> Realert]
    /\ phase' = "wait"
    /\ todo' = {}
    /\ stalled' = [f \in File |-> Fresh]
    /\ live' = {}
    /\ fresh' = {}
    /\ due' = TRUE
    /\ UNCHANGED spools

Handlers == \E f \in File : SpoolAppend(f) \/ Remove(f)

Watchdog ==
    \/ StartTick \/ ScanDone \/ FinishTick
    \/ \E f \in File : Stat(f) \/ Abandon(f) \/ Alert(f)

Next == Handlers \/ Watchdog \/ Elapse \/ Crash

Spec == Init /\ [][Next]_vars

FairSpec == Spec /\ WF_vars(Watchdog) /\ WF_vars(Elapse)
-----------------------------------------------------------------------------
TypeOK ==
    /\ size \in [File -> 0..MaxSize]
    /\ idle \in [File -> 0..GiveUp]
    /\ archive \in [File -> 0..MaxSize]
    /\ stallAlerted \in [File -> 0..Realert]
    /\ phase \in {"wait", "scan", "judge"}
    /\ todo \in SUBSET File
    /\ stalled \in [File -> Fresh..GiveUp]
    /\ live \in SUBSET File
    /\ fresh \in SUBSET File
    /\ due \in BOOLEAN
    /\ told \in [File -> 0..Realert]
    /\ crashes \in 0..MaxCrash

\* The user is not pestered.  The events for one spool are at least
\* STALL_ALERT_AFTER apart, and at least STALL_REALERT unless the transfer made
\* progress in between, although the entry that remembers the last event is
\* deleted and made again by ticks that run beside the handlers.  Exception: a
\* restart, after which the program may repeat an event at once (Crash resets told
\* with the entries), so this speaks of one run of the program.
AlertsApart ==
    [][ phase = "judge" /\ phase' = "wait" /\ due' = FALSE =>
        \A f \in fresh :
            /\ told[f] >= AlertAfter
            /\ idle[f] > told[f] => told[f] >= Realert
      ]_vars

\* The user is told.  After a period's tick every spool that rests for
\* STALL_ALERT_AFTER was named within the last STALL_REALERT by this run of the
\* program, and none rests for STALL_GIVEUP_AFTER.
AlertTimely ==
    ~due => \A f \in File :
        size[f] > 0 /\ idle[f] >= AlertAfter => idle[f] < GiveUp /\ told[f] < Realert

\* A spool does not stay stalled for ever: it moves on or is given up.
StallEnds ==
    \A f \in File : (size[f] > 0 /\ idle[f] >= AlertAfter) ~> (size[f] = 0 \/ idle[f] = 0)

\* The types of the watchdog's state, and its promise to the user.
WatchSound == TypeOK /\ AlertTimely
=============================================================================
