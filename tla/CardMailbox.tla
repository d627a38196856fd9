----------------------------- MODULE CardMailbox -----------------------------
(***************************************************************************)
(* Command sessions of card_mailbox.py with a card in the reader.  Program *)
(* and card share four files: the program writes a request into REQM and   *)
(* then a new number into REQC; the card's firmware, which reacts to that  *)
(* write, puts its answer into RSPM and then the number into RSPC.  A      *)
(* session polls RSPC and gives up after a while, and nothing tells the    *)
(* card.  Sessions of the Wi-Fi window, of the registration and of the     *)
(* automatic identification run in threads of their own.                   *)
(*                                                                         *)
(* A request is known by its session and its place in it.  Of the answers  *)
(* only a yes or no matters: for "list" whether the network is on the card,*)
(* for "key" whether the card showed its upload key.                       *)
(***************************************************************************)
EXTENDS Integers, Sequences

CONSTANTS
    Session,        \* command sessions, each used once
    Kind,           \* the operations they run, of DOMAIN Script
    InitSeq,        \* numbers the card may have in RSPC to begin with
    FirstSeq,       \* 0x1234: where to start on a card without a number
    HighSeq,        \* 0xFFFFFF00: numbers from here on are erased flash
    SeqWrap,         \* 2^32
    Blank,          \* content of RSPM after it is cleared
    MaxTimeouts,    \* bound on commands that are given up
    Overlap         \* TRUE: several sessions may run at once

VARIABLES
    reqm, reqc, rspm, rspc,     \* the mailbox files
    posted,         \* REQC was written and the firmware has not reacted yet
    busy,           \* the request the firmware works on, and its number
    nets,           \* the network is in the list of the card
    pc,             \* pc[s]: where the session is
    kind,           \* kind[s]: the operation it runs
    at,             \* at[s]: place in the script
    step,           \* step[s]: commands written so far
    seq,            \* seq[s]: CardMailbox.seq
    retried,        \* retried[s]: the upload key was asked for again
    reported,       \* reported[s]: what the operation says of the network
    astray,         \* astray[s]: steps that got no answer of their own (history)
    timeouts

files == <<reqm, reqc, rspm, rspc>>
card == <<posted, busy, nets>>
locals == <<pc, kind, at, step, seq, retried, reported, astray>>
vars == <<reqm, reqc, rspm, rspc, posted, busy, nets, pc, kind, at, step, seq,
          retried, reported, astray, timeouts>>

\* Mutant: the list is read before the change.
MutantScript ==
    [info     |-> <<"mac", "key", "firmware", "code">>,
     firmware |-> <<"mac", "firmware">>,
     networks |-> <<"mac", "list", "scan">>,
     add      |-> <<"list", "add", "mac">>,
     delete   |-> <<"list", "delete", "mac">>,
     diagnose |-> <<"mac", "firmware", "key", "list", "key">>]

\* The commands of read_card_info, read_firmware, list_networks, add_network,
\* delete_network and collect_diagnostics.  The diagnostics read nine tokens, the
\* list and the key; five commands stand for them, as each may fail without the next.
Script ==
    [info     |-> <<"mac", "key", "firmware", "code">>,
     firmware |-> <<"mac", "firmware">>,
     networks |-> <<"mac", "list", "scan">>,
     add      |-> <<"add", "list", "mac">>,
     delete   |-> <<"delete", "list", "mac">>,
     diagnose |-> <<"mac", "firmware", "key", "list", "key">>]

MaxStep == 5        \* the longest script, or the one of "info" with a retry
Command == {"mac", "key", "firmware", "code", "list", "scan", "add", "delete"}

Ended == {"done", "failed"}
Running(s) == pc[s] \notin ({"closed"} \cup Ended)
Cmd(s) == Script[kind[s]][at[s]]

\* Commands whose failure the operation survives.
Optional(s) ==
    \/ kind[s] = "diagnose"
    \/ kind[s] = "info" /\ Cmd(s) \in {"firmware", "code"}

Goto(s, label) == pc' = [pc EXCEPT ![s] = label]

Init ==
    /\ reqm = Blank /\ rspm = Blank
    /\ rspc \in InitSeq /\ reqc = rspc
    /\ posted = FALSE /\ busy = Blank
    /\ nets \in BOOLEAN
    /\ pc = [s \in Session |-> "closed"]
    /\ kind \in [Session -> Kind]
    /\ at = [s \in Session |-> 1]
    /\ step = [s \in Session |-> 0]
    /\ seq = [s \in Session |-> 0]
    /\ retried = [s \in Session |-> FALSE]
    /\ reported = [s \in Session |-> FALSE]
    /\ astray = [s \in Session |-> {}]
    /\ timeouts = 0

(***************************************************************************)
(* CardMailbox.__init__ and _init_seq.                                     *)
(***************************************************************************)
Open(s) ==
    /\ pc[s] = "closed"
    /\ ~Overlap => \A r \in Session : ~Running(r)
    /\ Goto(s, "clear")
    /\ UNCHANGED <<files, card, kind, at, step, seq, retried, reported, astray, timeouts>>

ClearAnswer(s) ==
    /\ pc[s] = "clear"
    /\ rspm' = Blank
    /\ Goto(s, "begin")
    /\ UNCHANGED <<reqm, reqc, rspc, card, kind, at, step, seq, retried, reported, astray,
                   timeouts>>

Start(n) == IF n = 0 \/ n >= HighSeq THEN FirstSeq ELSE n

ReadSeq(s) ==
    /\ pc[s] = "begin"
    /\ seq' = [seq EXCEPT ![s] = Start(rspc) + 1]
    /\ Goto(s, "request")
    /\ UNCHANGED <<files, card, kind, at, step, retried, reported, astray, timeouts>>

(***************************************************************************)
(* command, _inc_seq and _wait_response.                                   *)
(***************************************************************************)
WriteRequest(s) ==
    /\ pc[s] = "request"
    /\ step' = [step EXCEPT ![s] = @ + 1]
    /\ reqm' = [from |-> s, step |-> step[s] + 1, cmd |-> Cmd(s)]
    /\ Goto(s, "number")
    /\ UNCHANGED <<reqc, rspm, rspc, card, kind, at, seq, retried, reported, astray, timeouts>>

\* Mutants: the number is not counted up; it is counted up after it was written.
MutantWriteSeq(s) ==
    /\ pc[s] = "number"
    /\ reqc' = seq[s]
    /\ posted' = TRUE
    /\ Goto(s, "poll")
    /\ UNCHANGED <<reqm, rspm, rspc, busy, nets, kind, at, step, seq, retried, reported, astray,
                   timeouts>>

MutantWriteSeqLate(s) ==
    /\ pc[s] = "number"
    /\ seq' = [seq EXCEPT ![s] = @ + 1]
    /\ reqc' = seq[s]
    /\ posted' = TRUE
    /\ Goto(s, "poll")
    /\ UNCHANGED <<reqm, rspm, rspc, busy, nets, kind, at, step, retried, reported, astray,
                   timeouts>>

WriteSeq(s) ==
    /\ pc[s] = "number"
    /\ seq' = [seq EXCEPT ![s] = (@ + 1) % SeqWrap]
    /\ reqc' = seq'[s]
    /\ posted' = TRUE
    /\ Goto(s, "poll")
    /\ UNCHANGED <<reqm, rspm, rspc, busy, nets, kind, at, step, retried, reported, astray,
                   timeouts>>

SeeNumber(s) ==
    /\ pc[s] = "poll" /\ rspc = seq[s]
    /\ Goto(s, "take")
    /\ UNCHANGED <<files, card, kind, at, step, seq, retried, reported, astray, timeouts>>

\* The next command of the script.
Proceed(s) ==
    IF at[s] = Len(Script[kind[s]])
    THEN Goto(s, "done") /\ UNCHANGED at
    ELSE Goto(s, "request") /\ at' = [at EXCEPT ![s] = @ + 1]

\* CardMailboxError after poll_tries.
TimeOut(s) ==
    /\ pc[s] = "poll" /\ rspc # seq[s] /\ timeouts < MaxTimeouts
    /\ timeouts' = timeouts + 1
    /\ \/ Optional(s) /\ Proceed(s)
       \/ ~Optional(s) /\ Goto(s, "failed") /\ UNCHANGED at
    /\ UNCHANGED <<files, card, kind, step, seq, retried, reported, astray>>

Own(s) == rspm # Blank /\ rspm.from = s /\ rspm.step = step[s]

\* What the program reads out of RSPM for a yes-or-no command: anything, if the
\* answer belongs to another command.
Reading(s) ==
    IF rspm = Blank THEN {FALSE} ELSE IF rspm.cmd = Cmd(s) THEN {rspm.yes} ELSE BOOLEAN

\* The answer is read and used as the script says.  get_mac raises if there are
\* no six bytes; an empty upload key is asked for once more.
Take(s) ==
    /\ pc[s] = "take"
    /\ astray' = [astray EXCEPT ![s] = IF Own(s) THEN @ ELSE @ \cup {step[s]}]
    /\ \E yes \in Reading(s) :
          /\ reported' = IF Cmd(s) = "list" THEN [reported EXCEPT ![s] = yes] ELSE reported
          /\ \/ /\ Cmd(s) = "mac" /\ kind[s] # "diagnose" /\ ~yes
                /\ Goto(s, "failed")
                /\ UNCHANGED <<at, retried>>
             \/ /\ Cmd(s) = "key" /\ kind[s] = "info" /\ ~yes /\ ~retried[s]
                /\ Goto(s, "request")
                /\ retried' = [retried EXCEPT ![s] = TRUE]
                /\ UNCHANGED at
             \/ /\ (Cmd(s) = "mac" /\ kind[s] # "diagnose") => yes
                /\ (Cmd(s) = "key" /\ kind[s] = "info") => (yes \/ retried[s])
                /\ Proceed(s)
                /\ UNCHANGED retried
    /\ UNCHANGED <<files, card, kind, step, seq, timeouts>>

(***************************************************************************)
(* The card.                                                               *)
(***************************************************************************)
Notice ==
    /\ busy = Blank /\ posted
    /\ posted' = FALSE
    /\ busy' = [request |-> reqm, seq |-> reqc, answered |-> FALSE]
    /\ UNCHANGED <<files, nets, locals, timeouts>>

\* It shows its upload key or an empty string.
Answer ==
    /\ busy # Blank /\ ~busy.answered
    /\ LET r == busy.request
       IN  /\ nets' = CASE r.cmd = "add" -> TRUE [] r.cmd = "delete" -> FALSE [] OTHER -> nets
           /\ \E yes \in CASE r.cmd = "list" -> {nets} [] r.cmd = "key" -> BOOLEAN
                           [] OTHER -> {TRUE} :
                 rspm' = [from |-> r.from, step |-> r.step, cmd |-> r.cmd, yes |-> yes]
    /\ busy' = [busy EXCEPT !.answered = TRUE]
    /\ UNCHANGED <<reqm, reqc, rspc, posted, locals, timeouts>>

Confirm ==
    /\ busy # Blank /\ busy.answered
    /\ rspc' = busy.seq
    /\ busy' = Blank
    /\ UNCHANGED <<reqm, reqc, rspm, posted, nets, locals, timeouts>>

Firmware == Notice \/ Answer \/ Confirm

Program(s) ==
    \/ ClearAnswer(s) \/ ReadSeq(s) \/ WriteRequest(s) \/ WriteSeq(s)
    \/ SeeNumber(s) \/ Take(s)

Next == Firmware \/ \E s \in Session : Open(s) \/ Program(s) \/ TimeOut(s)

Spec == Init /\ [][Next]_vars

\* The firmware goes on and so do the threads; no timeout is relied on.
Fairness == WF_vars(Firmware) /\ \A s \in Session : WF_vars(Program(s))

FairSpec == Spec /\ Fairness
-----------------------------------------------------------------------------
Request == [from : Session, step : 1..MaxStep, cmd : Command]
Response == [from : Session, step : 1..MaxStep, cmd : Command, yes : BOOLEAN]
Seq32 == 0..(SeqWrap - 1)
Work == [request : Request, seq : Seq32, answered : BOOLEAN]

TypeOK ==
    /\ reqm \in Request \cup {Blank} /\ reqc \in Seq32
    /\ rspm \in Response \cup {Blank} /\ rspc \in Seq32
    /\ posted \in BOOLEAN
    /\ busy \in Work \cup {Blank}
    /\ nets \in BOOLEAN
    /\ pc \in [Session -> {"closed", "clear", "begin", "request", "number", "poll", "take"}
                          \cup Ended]
    /\ kind \in [Session -> Kind]
    /\ at \in [Session -> 1..MaxStep] /\ step \in [Session -> 0..MaxStep]
    /\ seq \in [Session -> Seq32]
    /\ retried \in [Session -> BOOLEAN] /\ reported \in [Session -> BOOLEAN]
    /\ astray \in [Session -> SUBSET (1..MaxStep)]
    /\ timeouts \in 0..MaxTimeouts

\* With one session at a time, however many commands of earlier ones timed out and
\* however late the card answers them: at most two commands of a session, for the
\* request in the card's hands and the one in REQM when it opened, take an answer
\* that is not their own.
FewAstray ==
    \A s \in Session : \A i, j, k \in astray[s] : i = j \/ j = k \/ i = k

\* An add or delete that is done says truly whether the network is on the card,
\* unless its second command, the list, took another's answer.
NetworksTruthful ==
    [][ \A s \in Session :
          (kind[s] \in {"add", "delete"} /\ pc[s] # "done" /\ pc'[s] = "done")
          => (reported'[s] = nets' \/ 2 \in astray'[s]) ]_vars

\* A session that was opened ends, without a timeout to help it.
SessionEnds == \A s \in Session : pc[s] = "clear" ~> pc[s] \in Ended
=============================================================================
