------------------------------ MODULE CardWifi ------------------------------
(***************************************************************************)
(* The windows that show and change the networks stored in a card          *)
(* (_card_wifi_dialog of gui.py), and the two ways to the card behind them *)
(* (card_wifi.py): the mailbox, and after its failure the helper script,   *)
(* which a packaged program does not have.  A worker thread runs the       *)
(* operation and posts the result to the Tk thread; the window may be      *)
(* closed, and another one opened, meanwhile.                              *)
(*                                                                         *)
(* A step is a command and its answer, or the want of one: the program     *)
(* gives up, but nothing tells the card, which may carry the command out   *)
(* later.  How the mailbox gets from a command to an answer is in          *)
(* CardMailbox, and so is why an answer may be another command's when      *)
(* sessions overlap or a given-up command is still in the card.            *)
(***************************************************************************)
EXTENDS Integers, FiniteSets

CONSTANTS
    Windows,        \* windows; each is opened once
    Nets,           \* names of networks
    NoNet,
    MaxOps          \* bound on the operations

VARIABLES
    helper,         \* whether there is the helper script: not in a packaged program
    nets,           \* the networks stored in the card
    late,           \* changes given up that the card has not carried out or dropped
    window,         \* "new", "idle", "busy" (buttons disabled) or "closed"
    shown,          \* the list of stored networks a window shows
    job,            \* the operation a window started
    saved,          \* the network in the configuration (wifi_ssid)
    ops

vars == <<helper, nets, late, window, shown, job, saved, ops>>

Change == [op : {"add", "delete"}, net : Nets]

\* at: the next step.  outcome: of an operation that was posted to Tk; list: the
\* stored networks it read.  trust (history): "mixed" if another session, another
\* operation's given-up command or an unread list was mixed up with it; else "missed"
\* if it gave up a change of its own, and "own" if not.
NoJob == [op |-> "none", net |-> NoNet, at |-> "none", outcome |-> "none", list |-> {},
          trust |-> "mixed"]

Job == [op : {"none", "list", "add", "delete", "test"}, net : Nets \cup {NoNet},
        at : {"none", "change", "list", "rest", "helper", "relist", "posted"},
        outcome : {"none", "done", "failed", "failedWithData"},
        list : SUBSET Nets, trust : {"own", "missed", "mixed"}]

TypeOK ==
    /\ helper \in BOOLEAN
    /\ nets \subseteq Nets /\ late \subseteq Change /\ saved \in Nets \cup {NoNet}
    /\ \A w \in Windows :
          /\ window[w] \in {"new", "idle", "busy", "closed"}
          /\ shown[w] \subseteq Nets
          /\ job[w] \in Job
          /\ window[w] = "busy" => job[w] # NoJob
          /\ window[w] \in {"new", "idle"} => job[w] = NoJob

Init ==
    /\ helper \in BOOLEAN
    /\ nets \in SUBSET Nets
    /\ late = {}
    /\ window = [w \in Windows |-> "new"]
    /\ shown = [w \in Windows |-> {}]
    /\ job = [w \in Windows |-> NoJob]
    /\ saved = NoNet /\ ops = 0
-----------------------------------------------------------------------------
(***************************************************************************)
(* The user.                                                               *)
(***************************************************************************)
OpenWindow(w) ==
    /\ window[w] = "new" /\ window' = [window EXCEPT ![w] = "idle"]
    /\ UNCHANGED <<helper, nets, late, shown, job, saved, ops>>

CloseWindow(w) ==
    /\ window[w] \in {"idle", "busy"} /\ window' = [window EXCEPT ![w] = "closed"]
    /\ UNCHANGED <<helper, nets, late, shown, job, saved, ops>>

Running(w) == job[w].at \notin {"none", "posted"}

\* Where an operation begins.  test_network has no way through the mailbox.
Begun(op, net, trust) ==
    LET j == [NoJob EXCEPT !.op = op, !.net = net, !.trust = trust]
    IN  CASE op = "test" /\ ~helper -> [j EXCEPT !.at = "posted", !.outcome = "failed"]
          [] op = "test" /\ helper -> [j EXCEPT !.at = "helper"]
          [] op = "list" -> [j EXCEPT !.at = "list"]
          [] OTHER -> [j EXCEPT !.at = "change"]

\* run_op.  Only a listed network can be deleted.  The operation is on its own
\* unless another one, a given-up command (a question leaves no trace here but the
\* choice of trust) or a session of another part of the program is at the card; from
\* now on no other operation is.
Press(w, op, net, trust) ==
    /\ window[w] = "idle" /\ window' = [window EXCEPT ![w] = "busy"]
    /\ op = "delete" => net \in shown[w]
    /\ (op = "list") = (net = NoNet)
    /\ trust = "own" => late = {} /\ \A v \in Windows : ~Running(v)
    /\ ops < MaxOps /\ ops' = ops + 1
    /\ job' = [v \in Windows |-> IF v = w THEN Begun(op, net, trust)
                                 ELSE [job[v] EXCEPT !.trust = "mixed"]]
    /\ UNCHANGED <<helper, nets, late, shown, saved>>
-----------------------------------------------------------------------------
(***************************************************************************)
(* The card.                                                               *)
(***************************************************************************)
\* What an operation or a command c makes of the stored networks ns.
Effect(c, ns) ==
    CASE c.op = "add" -> ns \cup {c.net} [] c.op = "delete" -> ns \ {c.net} [] OTHER -> ns

\* The card has the networks ns now; w goes on as j.
Card(w, ns, j) ==
    /\ nets' = ns /\ job' = [job EXCEPT ![w] = j]
    /\ UNCHANGED <<helper, late, window, shown, saved, ops>>

\* The change of w was given up, and the card still has it.  A question that was
\* given up changes nothing.
Leave(w, j) ==
    /\ late' = late \cup {c \in Change : c.op = j.op /\ c.net = j.net}
    /\ job' = [job EXCEPT ![w] = [j EXCEPT !.trust = IF @ = "own" THEN "missed" ELSE @]]
    /\ UNCHANGED <<helper, nets, window, shown, saved, ops>>

\* The card carries a given-up change out, or drops it.
Arrive(c) ==
    /\ c \in late /\ late' = late \ {c}
    /\ nets' \in {nets, Effect(c, nets)}
    /\ UNCHANGED <<helper, window, shown, job, saved, ops>>

\* A registration or an identification has a session with the card meanwhile.
OtherSession ==
    /\ job' = [w \in Windows |-> [job[w] EXCEPT !.trust = IF Running(w) THEN "mixed" ELSE @]]
    /\ UNCHANGED <<helper, nets, late, window, shown, saved, ops>>

\* Mutant: that the change was answered is taken for its effect.
MutantListed(j) == {Effect(j, nets)}

\* The list that is read: anything, if it may be the answer to another command.
Listed(j) == IF j.trust = "mixed" THEN SUBSET Nets ELSE {nets}
-----------------------------------------------------------------------------
(***************************************************************************)
(* The worker thread: the mailbox.                                         *)
(***************************************************************************)
\* _mailbox_or_ps after an exception, which may come after the change.
Fallback(j) ==
    IF helper THEN [j EXCEPT !.at = "helper"]
    ELSE [j EXCEPT !.at = "posted", !.outcome = "failed"]

\* The change is answered, with or without an effect; or there is no answer, or
\* no session at all; or another command's answer is taken for its own.
ChangeCard(w) ==
    LET j == job[w]
        next == [j EXCEPT !.at = "list"]
    IN  /\ j.at = "change"
        /\ \/ \E ns \in {nets, Effect(j, nets)} : Card(w, ns, next) \/ Card(w, ns, Fallback(j))
           \/ Leave(w, Fallback(j))
           \/ j.trust = "mixed" /\ Leave(w, next)

\* list_configured.  For list_networks the MAC is read before it.
Read(w) ==
    LET j == job[w]
    IN  /\ j.at = "list"
        /\ \/ \E ns \in Listed(j) : Card(w, nets, [j EXCEPT !.at = "rest", !.list = ns])
           \/ Card(w, nets, Fallback(j))

\* The scan of list_networks, or get_mac: its failure is one of the whole operation.
Rest(w) ==
    LET j == job[w]
    IN  /\ j.at = "rest"
        /\ \/ Card(w, nets, [j EXCEPT !.at = "posted", !.outcome = "done"])
           \/ Card(w, nets, Fallback(j))
-----------------------------------------------------------------------------
(***************************************************************************)
(* The worker thread: the helper script.                                   *)
(***************************************************************************)
Failed(j, outcome) == [j EXCEPT !.at = "posted", !.outcome = outcome]

\* _run up to what the script does: the change with any rc; an error with the
\* script's answer as data (no card, the network out of sight, an exception); or
\* no answer, or none in time, without data.
RunHelper(w) ==
    LET j == job[w]
    IN  /\ j.at = "helper"
        /\ \/ \E ns \in {nets, Effect(j, nets)} :
                 \/ Card(w, ns, IF j.op = "test" THEN Failed(j, "done") ELSE [j EXCEPT !.at = "relist"])
                 \/ \E outcome \in {"failed", "failedWithData"} : Card(w, ns, Failed(j, outcome))
           \/ Leave(w, Failed(j, "failed"))

\* Get-Configured after it, which takes no list for an empty one.
Relist(w) ==
    LET j == job[w]
        read == [j EXCEPT !.at = "posted", !.outcome = "done"]
    IN  /\ j.at = "relist"
        /\ \/ \E ns \in Listed(j) : Card(w, nets, [read EXCEPT !.list = ns])
           \/ Card(w, nets, [read EXCEPT !.list = {}, !.trust = "mixed"])
           \/ \E outcome \in {"failed", "failedWithData"} : Card(w, nets, Failed(j, outcome))
-----------------------------------------------------------------------------
(***************************************************************************)
(* The callback in the Tk thread.                                          *)
(***************************************************************************)
\* show_lists; on a closed window it raises.
Show(w, list) ==
    shown' = [shown EXCEPT ![w] = IF window[w] = "busy" THEN list ELSE @]

\* Mutant: after a failure the buttons stay disabled.
MutantEnabled(w) ==
    [window EXCEPT ![w] = IF @ = "busy" /\ job[w].outcome = "done" THEN "idle" ELSE @]

Enabled(w) == [window EXCEPT ![w] = IF @ = "busy" THEN "idle" ELSE @]

\* An added network is written to the configuration after the lists are shown,
\* confirmed or not.  The answer of a failed script has no stored network to show.
Deliver(w) ==
    LET j == job[w]
    IN  /\ j.at = "posted"
        /\ job' = [job EXCEPT ![w] = NoJob]
        /\ window' = Enabled(w)
        /\ CASE j.outcome = "done" /\ j.op # "test" -> Show(w, j.list)
             [] j.outcome = "failedWithData" -> Show(w, {})
             [] OTHER -> UNCHANGED shown
        /\ saved' = IF j.outcome = "done" /\ j.op = "add" /\ window[w] = "busy" THEN j.net ELSE saved
        /\ UNCHANGED <<helper, nets, late, ops>>

Work(w) == ChangeCard(w) \/ Read(w) \/ Rest(w) \/ RunHelper(w) \/ Relist(w) \/ Deliver(w)

Next ==
    \/ \E w \in Windows :
          \/ OpenWindow(w) \/ CloseWindow(w) \/ Work(w)
          \/ \E op \in {"list", "add", "delete", "test"}, net \in Nets \cup {NoNet}, trust \in {"own", "mixed"} :
                Press(w, op, net, trust)
    \/ \E c \in Change : Arrive(c)
    \/ OtherSession

\* An operation of the mailbox or of the helper ends, and Tk runs what was posted.
Fairness == \A w \in Windows : WF_vars(Work(w))

Spec == Init /\ [][Next]_vars /\ Fairness
-----------------------------------------------------------------------------
\* The networks ns confirm the change ("registered", "removed").
Confirms(j, ns) == \/ j.op = "add" /\ j.net \in ns
                   \/ j.op = "delete" /\ j.net \notin ns

(***************************************************************************)
(* "Registered" and "deleted" are true of the card when they are written:  *)
(* after an answer without an effect, after a failed mailbox session whose *)
(* change was or was not carried out, after the helper repeated it, and    *)
(* with the given-up command arriving at any time.  If no change was given *)
(* up, the list that is shown is the card's.  For an operation that        *)
(* overlaps another one, or finds a given-up command in the card, answers  *)
(* may be swapped and nothing is said; nor if the DLL gives no list.       *)
(***************************************************************************)
VerdictTrue ==
    [][\A w \in Windows :
         LET j == job[w]
         IN  Deliver(w) /\ j.outcome = "done" /\ j.op # "test" /\ j.trust # "mixed" =>
               /\ Confirms(j, j.list) => Confirms(j, nets)
               /\ j.trust = "own" => j.list = nets]_vars

(***************************************************************************)
(* The buttons of a window that is not closed come back.                   *)
(***************************************************************************)
ButtonsBack == \A w \in Windows : window[w] = "busy" ~> window[w] # "busy"
=============================================================================
