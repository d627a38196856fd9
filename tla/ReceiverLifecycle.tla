-------------------------- MODULE ReceiverLifecycle --------------------------
(***************************************************************************)
(* The server object of the program: how gui.py and __main__.py start,     *)
(* stop, watch and replace it, the port it listens on and the two threads  *)
(* it has (serve_forever and the spool watchdog of eyefi_server.py).       *)
(*                                                                         *)
(* The Tk thread runs one handler at a time.  Only _start_server lets time *)
(* pass inside a handler (its attempts are 0.8 s apart), so an attempt is  *)
(* an action and every other handler is one.                               *)
(***************************************************************************)
EXTENDS Integers

CONSTANTS
    MaxServers,     \* bound on server objects; 0 stands for None
    MaxClicks,      \* bound on what the user does
    MaxFaults,      \* bound on faults and moves of the other program
    Backlog         \* connections the kernel completes for nobody

ASSUME BoundsAssumption ==
    MaxServers \in Nat /\ MaxClicks \in Nat /\ MaxFaults \in Nat /\ Backlog \in Nat

Servers == 1..MaxServers
Attempts == 3
None == 0

VARIABLES
    process,        \* "run", or "ended" with all its threads
    tk,             \* the Tk thread: "idle", or "trying" in _start_server
    attempt,        \* of the loop in _start_server
    caller,         \* who called it: "auto", "button", "watch" or "headless"
    outcome,        \* of the last start: "none", "ok", "cancelled",
                    \*   "told" (logged as failed) or "raised"
    server,         \* self.server
    made,           \* server objects made so far
    loop,           \* loop[s]: serve_forever: "none", "running", "dead", "ended"
    dog,            \* dog[s]: _watchdog_loop: "none", "running", "ended"
    stopped,        \* servers whose _watchdog_stop is set
    listening,      \* servers whose socket listens
    backlog,        \* connections no loop accepts
    status,         \* the window shows that it receives
    foreign,        \* another program has the port
    folder,         \* the entry for the folder is filled in
    wanted,         \* history: the user last asked for a running server
    clicks, faults

start == <<tk, attempt, caller, outcome>>
object == <<server, made, loop, dog, stopped, listening, backlog, status>>
outside == <<foreign, folder, wanted, clicks, faults>>
vars == <<process, tk, attempt, caller, outcome, server, made, loop, dog, stopped,
          listening, backlog, status, foreign, folder, wanted, clicks, faults>>

(***************************************************************************)
(* run_headless makes one attempt and checks no folder; --tray starts the  *)
(* server in the constructor of the window; without arguments the user     *)
(* starts it.                                                              *)
(***************************************************************************)
Init ==
    /\ process = "run"
    /\ foreign \in BOOLEAN /\ folder \in BOOLEAN
    /\ \E mode \in {"window", "tray", "headless"} :
          /\ tk = IF mode = "headless" \/ (mode = "tray" /\ folder) THEN "trying" ELSE "idle"
          /\ attempt = IF mode = "headless" THEN Attempts ELSE 1
          /\ caller = IF mode = "headless" THEN mode ELSE "auto"
          /\ outcome = IF mode = "tray" /\ ~folder THEN "cancelled" ELSE "none"
          /\ wanted = (mode # "window")
    /\ server = None /\ made = 0
    /\ loop = [s \in Servers |-> "none"]
    /\ dog = [s \in Servers |-> "none"]
    /\ stopped = {} /\ listening = {} /\ backlog = 0 /\ status = FALSE
    /\ clicks = 0 /\ faults = 0

Idle == process = "run" /\ tk = "idle" /\ caller # "headless"

PortTaken == foreign \/ listening # {}

(***************************************************************************)
(* _start_server up to its loop.                                           *)
(***************************************************************************)
BeginStart(who) ==
    /\ IF folder THEN tk' = "trying" /\ UNCHANGED outcome
                 ELSE tk' = "idle" /\ outcome' = "cancelled"
    /\ attempt' = 1
    /\ caller' = who

\* Mutant: the socket stays open.
MutantStopServer ==
    /\ loop' = [loop EXCEPT ![server] = "ended"]
    /\ stopped' = stopped \cup {server}
    /\ server' = None
    /\ status' = FALSE
    /\ UNCHANGED <<made, dog, listening, backlog>>

StopServer ==
    /\ loop' = [loop EXCEPT ![server] = "ended"]
    /\ listening' = listening \ {server}
    /\ backlog' = 0
    /\ stopped' = stopped \cup {server}
    /\ server' = None
    /\ status' = FALSE
    /\ UNCHANGED <<made, dog>>

ToggleServer ==
    /\ Idle /\ clicks < MaxClicks
    /\ clicks' = clicks + 1
    /\ wanted' = (server = None)
    /\ IF server # None THEN StopServer /\ UNCHANGED start
                        ELSE BeginStart("button") /\ UNCHANGED object
    /\ UNCHANGED <<process, foreign, folder, faults>>

(***************************************************************************)
(* One attempt: EyeFiServer(...).  os.makedirs of the spool may raise      *)
(* OSError, which the loop catches.  When bind fails, TCPServer.__init__   *)
(* calls server_close, which is overridden and reads _watchdog_stop before *)
(* it is assigned: AttributeError takes the place of OSError and leaves    *)
(* _start_server.                                                          *)
(***************************************************************************)
Attempt ==
    /\ process = "run" /\ tk = "trying"
    /\ UNCHANGED outside

Succeeds ==
    /\ Attempt /\ ~PortTaken /\ made < MaxServers
    /\ made' = made + 1
    /\ server' = made'
    /\ loop' = [loop EXCEPT ![made'] = "running"]
    /\ dog' = [dog EXCEPT ![made'] = "running"]
    /\ listening' = {made'}
    /\ status' = (caller # "headless")
    /\ tk' = "idle" /\ outcome' = "ok"
    /\ UNCHANGED <<process, attempt, caller, stopped, backlog>>

SpoolFails ==
    /\ process = "run" /\ tk = "trying" /\ faults < MaxFaults
    /\ faults' = faults + 1
    /\ IF attempt < Attempts
       THEN attempt' = attempt + 1 /\ UNCHANGED <<process, tk, outcome>>
       ELSE /\ tk' = "idle" /\ outcome' = "told"
            /\ process' = IF caller = "headless" THEN "ended" ELSE process
            /\ UNCHANGED attempt
    /\ UNCHANGED <<caller, object, foreign, folder, wanted, clicks>>

BindFails ==
    /\ Attempt /\ PortTaken
    /\ tk' = "idle" /\ outcome' = "raised"
    /\ process' = IF caller \in {"auto", "headless"} THEN "ended" ELSE process
    /\ UNCHANGED <<attempt, caller, object>>

(***************************************************************************)
(* _watch_server, once a minute.  A connection succeeds as long as a       *)
(* socket listens and its queue has room, whether or not a loop accepts.   *)
(***************************************************************************)
Answers ==
    /\ PortTaken
    /\ foreign \/ loop[server] = "running" \/ backlog < Backlog

\* Mutant: only a port nobody listens on is taken for dead.
MutantWatchServer ==
    /\ Idle /\ server # None
    /\ ~PortTaken
    /\ StopServer /\ BeginStart("watch")
    /\ UNCHANGED <<process, outside>>

WatchServer ==
    /\ Idle /\ server # None
    /\ IF Answers
       THEN /\ backlog' = IF loop[server] = "running" \/ foreign THEN backlog ELSE backlog + 1
            /\ UNCHANGED <<start, server, made, loop, dog, stopped, listening, status>>
       ELSE StopServer /\ BeginStart("watch")
    /\ UNCHANGED <<process, outside>>

(***************************************************************************)
(* _quit_app, the closing of a window without a tray icon followed by      *)
(* run, or Ctrl+C without a window: the process ends.                      *)
(***************************************************************************)
Leave ==
    /\ process = "run" /\ tk = "idle" /\ clicks < MaxClicks
    /\ clicks' = clicks + 1
    /\ process' = "ended"
    /\ UNCHANGED <<start, object, foreign, folder, wanted, faults>>

EditFolder ==
    /\ Idle /\ clicks < MaxClicks
    /\ clicks' = clicks + 1
    /\ folder' = ~folder
    /\ UNCHANGED <<process, start, object, foreign, wanted, faults>>

(***************************************************************************)
(* The threads of a server.                                                *)
(***************************************************************************)
DogEnds(s) ==
    /\ process = "run" /\ dog[s] = "running" /\ s \in stopped
    /\ dog' = [dog EXCEPT ![s] = "ended"]
    /\ UNCHANGED <<process, start, server, made, loop, stopped, listening, backlog,
                   status, outside>>

\* serve_forever raises (its socket or selector was lost): in a window the
\* thread is gone, with or without the listening socket.
LoopDies ==
    /\ process = "run" /\ server # None /\ loop[server] = "running" /\ faults < MaxFaults
    /\ faults' = faults + 1
    /\ loop' = [loop EXCEPT ![server] = "dead"]
    /\ listening' \in {listening, {}}
    /\ process' = IF caller = "headless" THEN "ended" ELSE process
    /\ UNCHANGED <<start, server, made, dog, stopped, backlog, status, foreign, folder,
                   wanted, clicks>>

\* The official program takes the port when it is free, or leaves it.
Foreign ==
    /\ faults < MaxFaults
    /\ faults' = faults + 1
    /\ listening = {} \/ process = "ended"
    /\ foreign' = ~foreign
    /\ UNCHANGED <<process, start, object, folder, wanted, clicks>>

Next ==
    \/ ToggleServer \/ Leave \/ EditFolder
    \/ Succeeds \/ SpoolFails \/ BindFails
    \/ WatchServer
    \/ \E s \in Servers : DogEnds(s)
    \/ LoopDies \/ Foreign

Spec == Init /\ [][Next]_vars

(***************************************************************************)
(* Timers of Tk and threads run; nothing is assumed of users and faults.   *)
(***************************************************************************)
Fairness ==
    /\ WF_vars(WatchServer)
    /\ WF_vars(Succeeds \/ BindFails)
    /\ \A s \in Servers : WF_vars(DogEnds(s))

FairSpec == Spec /\ Fairness
-----------------------------------------------------------------------------
(***************************************************************************)
(* Types.                                                                  *)
(***************************************************************************)
TypeOK ==
    /\ process \in {"run", "ended"}
    /\ tk \in {"idle", "trying"} /\ attempt \in 1..Attempts
    /\ caller \in {"auto", "button", "watch", "headless"}
    /\ outcome \in {"none", "ok", "cancelled", "told", "raised"}
    /\ server \in 0..MaxServers /\ made \in 0..MaxServers
    /\ loop \in [Servers -> {"none", "running", "dead", "ended"}]
    /\ dog \in [Servers -> {"none", "running", "ended"}]
    /\ stopped \subseteq Servers /\ listening \subseteq Servers
    /\ backlog \in 0..Backlog
    /\ status \in BOOLEAN /\ foreign \in BOOLEAN /\ folder \in BOOLEAN /\ wanted \in BOOLEAN
    /\ clicks \in 0..MaxClicks /\ faults \in 0..MaxFaults

(***************************************************************************)
(* Whatever sequence of clicks, deaths and restarts went before: only the  *)
(* server object the window holds has a loop, a socket or a watchdog that  *)
(* was not told to end, the window shows it as receiving, and the port is  *)
(* never shared (allow_reuse_address = False).                             *)
(***************************************************************************)
OneServer ==
    /\ \A s \in Servers :
          (s \in listening \/ loop[s] \in {"running", "dead"}
            \/ (dog[s] = "running" /\ s \notin stopped)) => s = server
    /\ status = (server # None /\ caller # "headless")
    /\ foreign /\ process = "run" => listening = {}

(***************************************************************************)
(* The types of the server objects, their threads and the port, and a      *)
(* single server.                                                          *)
(***************************************************************************)
ServerSound == TypeOK /\ OneServer

(***************************************************************************)
(* A server whose loop died does not stay: though its socket may go on     *)
(* taking connections nobody serves, the watch sees it when their queue is *)
(* full, and a new server serves unless the user stops it or the start     *)
(* fails.  The exception is a port another program took meanwhile: the     *)
(* watch connects to that program and finds all well.                      *)
(***************************************************************************)
Serving == server # None /\ loop[server] = "running"

DeadServerReplaced ==
    (server # None /\ loop[server] = "dead") ~>
        (Serving \/ ~wanted \/ process = "ended" \/ foreign
           \/ outcome \in {"cancelled", "told", "raised"})

(***************************************************************************)
(* What the comment on allow_reuse_address says: when the official program *)
(* has the port, our bind fails and the conflict is logged.                *)
(***************************************************************************)
ConflictLogged ==
    [][(tk = "trying" /\ PortTaken /\ tk' = "idle") => outcome' = "told"]_vars
=============================================================================
