----------------------------- MODULE ConfigFile -----------------------------
(***************************************************************************)
(* The configuration: cards.json, the copy each running program has of it, *)
(* and the dialogs that change the copy and save it (config.py, the card   *)
(* dialogs of gui.py).  Nothing keeps a second program from being started: *)
(* the one in the tray and one from the desktop share the file and the     *)
(* temporary file.  As on Windows, a file that is open is not replaced.    *)
(***************************************************************************)
EXTENDS Integers, Functions

CONSTANTS
    Programs,       \* programs on the PC
    Macs,           \* cards
    Keys,           \* upload keys
    Folders,        \* folders a card may have of its own
    Empty,          \* an empty field
    Missing,        \* no such file
    Cut,            \* a file opened for writing, or that ends in the middle
    Mixed,          \* a file into which two programs wrote
    Off,            \* what a program that does not run has in memory
    NoDialog,
    MaxSaves,       \* bound on the savings
    MaxFaults       \* bound on failed writes and crashes

VARIABLES
    disk, temp,     \* cards.json and cards.json.tmp
    mem,            \* of a program: its cards, or Off
    dialogs, grab,  \* of a program: the open dialogs, and the one that has the grab
    pc,             \* of a program: where it is in Config.save
    alone, failed,  \* of a program: none other ran since its start; its last save failed
    overlap,        \* two programs were in Config.save at once
    saves, faults

vars == <<disk, temp, mem, dialogs, grab, pc, alone, failed, overlap, saves, faults>>

Entry == [key : Keys \cup {Empty}, folder : Folders \cup {Empty}]
Cards == UNION {[C -> Entry] : C \in SUBSET Macs}

\* A dialog edits a card of the list, or registers the one in the reader.
Dialog == [edit : BOOLEAN, mac : Macs]

\* No cards are one of these, and no dialog is NoDialog.
Apart ==
    /\ Missing # Cut /\ Missing # Mixed
    /\ {Off, Missing, Cut, Mixed} \cap Cards = {}
    /\ NoDialog \notin Dialog

TypeOK ==
    /\ disk \in Cards \cup {Missing, Cut, Mixed}
    /\ temp \in Cards \cup {Missing, Cut, Mixed}
    /\ \A p \in Programs :
          /\ mem[p] \in Cards \cup {Off}
          /\ dialogs[p] \subseteq Dialog /\ grab[p] \in dialogs[p] \cup {NoDialog}
          /\ pc[p] \in {"loop", "save", "open", "written"}
          /\ mem[p] = Off => dialogs[p] = {} /\ pc[p] = "loop"

Init ==
    /\ disk = Missing /\ temp = Missing
    /\ mem = [p \in Programs |-> Off]
    /\ dialogs = [p \in Programs |-> {}] /\ grab = [p \in Programs |-> NoDialog]
    /\ pc = [p \in Programs |-> "loop"]
    /\ alone = [p \in Programs |-> FALSE] /\ failed = [p \in Programs |-> FALSE]
    /\ overlap = FALSE /\ saves = 0 /\ faults = 0
-----------------------------------------------------------------------------
(***************************************************************************)
(* Config: the cards in memory.                                            *)
(***************************************************************************)
Without(cards, mac) == Restrict(cards, DOMAIN cards \ {mac})

FolderFor(cards, mac) == IF mac \in DOMAIN cards THEN cards[mac].folder ELSE Empty

\* Mutant: the old entry is not looked at.
MutantWithCard(cards, mac, key, folder) ==
    [m \in DOMAIN cards \cup {mac} |->
        IF m = mac THEN [key |-> key, folder |-> folder] ELSE cards[m]]

\* add_or_update_card: with an empty folder the card keeps the one it has.
WithCard(cards, mac, key, folder) ==
    [m \in DOMAIN cards \cup {mac} |->
        IF m = mac
        THEN [key |-> key, folder |-> IF folder = Empty THEN FolderFor(cards, mac) ELSE folder]
        ELSE cards[m]]

\* What a start reads.
Loaded == IF disk = Missing THEN [m \in {} |-> Empty] ELSE disk

(***************************************************************************)
(* The programs.                                                           *)
(***************************************************************************)
Running(p) == mem[p] # Off
Others(p) == {q \in Programs \ {p} : Running(q)}

\* A start fails on a file that is no JSON.
Launch(p) ==
    /\ ~Running(p) /\ disk \notin {Cut, Mixed}
    /\ mem' = [mem EXCEPT ![p] = Loaded]
    /\ alone' = [q \in Programs |-> IF q = p THEN Others(p) = {} ELSE alone[q] /\ ~Running(q)]
    /\ failed' = [failed EXCEPT ![p] = FALSE]
    /\ UNCHANGED <<disk, temp, dialogs, grab, pc, overlap, saves, faults>>

\* The program ends or dies, within a save as well.
Ends(p) ==
    /\ Running(p)
    /\ faults < MaxFaults /\ faults' = faults + 1
    /\ mem' = [mem EXCEPT ![p] = Off]
    /\ dialogs' = [dialogs EXCEPT ![p] = {}] /\ grab' = [grab EXCEPT ![p] = NoDialog]
    /\ pc' = [pc EXCEPT ![p] = "loop"]
    /\ UNCHANGED <<disk, temp, alone, failed, overlap, saves>>

\* The Tk thread of p can run a callback.
InLoop(p) == Running(p) /\ pc[p] = "loop"

Open(p, d) ==
    /\ d \notin dialogs[p]
    /\ dialogs' = [dialogs EXCEPT ![p] = @ \cup {d}]
    /\ grab' = [grab EXCEPT ![p] = d]
    /\ UNCHANGED <<disk, temp, mem, pc, alone, failed, overlap, saves, faults>>

\* _edit_card needs the main window, which a dialog with the grab blocks.
OpenEdit(p) ==
    /\ InLoop(p) /\ grab[p] = NoDialog
    /\ \E mac \in DOMAIN mem[p] : Open(p, [edit |-> TRUE, mac |-> mac])

\* _reader_done comes from a thread, whatever is open.
OpenRegister(p) ==
    InLoop(p) /\ \E mac \in Macs : Open(p, [edit |-> FALSE, mac |-> mac])

Closes(p, d) ==
    /\ InLoop(p) /\ d \in dialogs[p] /\ grab[p] \in {d, NoDialog}
    /\ dialogs' = [dialogs EXCEPT ![p] = @ \ {d}]
    /\ grab' = [grab EXCEPT ![p] = NoDialog]

Cancel(p) ==
    /\ \E d \in dialogs[p] : Closes(p, d)
    /\ UNCHANGED <<disk, temp, mem, pc, alone, failed, overlap, saves, faults>>

\* The cards change and are saved.
Changed(p, cards) ==
    /\ saves < MaxSaves /\ saves' = saves + 1
    /\ mem' = [mem EXCEPT ![p] = cards]
    /\ pc' = [pc EXCEPT ![p] = "save"]

\* OK: a card that got another MAC is removed; only a registration takes an empty key.
Confirm(p, d, mac, key, folder) ==
    /\ Closes(p, d)
    /\ d.edit => key # Empty
    /\ LET cards == IF d.edit /\ mac # d.mac THEN Without(mem[p], d.mac) ELSE mem[p]
       IN  Changed(p, WithCard(cards, mac, key, folder))
    /\ UNCHANGED <<disk, temp, alone, failed, overlap, faults>>

Confirms(p) ==
    \E d \in dialogs[p], mac \in Macs, key \in Keys \cup {Empty}, folder \in Folders \cup {Empty} :
        Confirm(p, d, mac, key, folder)

DelCard(p) ==
    /\ InLoop(p) /\ grab[p] = NoDialog
    /\ \E mac \in DOMAIN mem[p] : Changed(p, Without(mem[p], mac))
    /\ UNCHANGED <<disk, temp, dialogs, grab, alone, failed, overlap, faults>>

\* A start of the server or a change of a setting.
SaveSettings(p) ==
    /\ InLoop(p) /\ Changed(p, mem[p])
    /\ UNCHANGED <<disk, temp, dialogs, grab, alone, failed, overlap, faults>>
-----------------------------------------------------------------------------
(***************************************************************************)
(* Config.save: open the temporary file, write it, replace the file.       *)
(***************************************************************************)
Quiet == UNCHANGED <<mem, dialogs, grab, alone, saves>>

\* Mutant: the file itself is opened for writing.
MutantOpenTemp(p) ==
    /\ pc[p] = "save" /\ pc' = [pc EXCEPT ![p] = "open"]
    /\ disk' = Cut /\ temp' = Cut
    /\ Quiet /\ UNCHANGED <<failed, overlap, faults>>

OpenTemp(p) ==
    /\ pc[p] = "save" /\ pc' = [pc EXCEPT ![p] = "open"]
    /\ temp' = Cut
    /\ overlap' = (overlap \/ \E q \in Programs : pc[q] \in {"open", "written"})
    /\ Quiet /\ UNCHANGED <<disk, failed, faults>>

\* What another program wrote since p opened the file may stick out.
Dump(p) ==
    /\ pc[p] = "open" /\ pc' = [pc EXCEPT ![p] = "written"]
    /\ temp' \in IF temp = Cut THEN {mem[p]} ELSE {mem[p], Mixed}
    /\ Quiet /\ UNCHANGED <<disk, failed, overlap, faults>>

\* The save ends with an error; the change stays in memory.
GivesUp(p) ==
    /\ pc' = [pc EXCEPT ![p] = "loop"]
    /\ failed' = [failed EXCEPT ![p] = TRUE]
    /\ Quiet /\ UNCHANGED <<disk, temp, overlap>>

WriteFails(p) ==
    /\ pc[p] = "open" /\ faults < MaxFaults /\ faults' = faults + 1
    /\ GivesUp(p)

Busy(p) == temp = Missing \/ \E q \in Programs \ {p} : pc[q] = "open"

Replace(p) ==
    /\ pc[p] = "written"
    /\ IF Busy(p)
       THEN GivesUp(p)
       ELSE /\ pc' = [pc EXCEPT ![p] = "loop"]
            /\ disk' = temp /\ temp' = Missing
            /\ failed' = [failed EXCEPT ![p] = FALSE]
            /\ Quiet /\ UNCHANGED overlap
    /\ UNCHANGED faults

Next == \E p \in Programs :
    \/ Launch(p) \/ Ends(p)
    \/ OpenEdit(p) \/ OpenRegister(p) \/ Cancel(p) \/ Confirms(p)
    \/ DelCard(p) \/ SaveSettings(p)
    \/ OpenTemp(p) \/ Dump(p) \/ WriteFails(p) \/ Replace(p)

Spec == Init /\ [][Next]_vars
-----------------------------------------------------------------------------
(***************************************************************************)
(* As long as no two programs save at the same time, cards.json can be     *)
(* read, whatever fails and whenever a program dies.                       *)
(***************************************************************************)
Loadable == ~overlap => disk \notin {Cut, Mixed}

(***************************************************************************)
(* A program that no other one ran beside finds at its next start what it  *)
(* has in memory, unless its last save failed.                             *)
(***************************************************************************)
SavedIsRead ==
    \A p \in Programs : InLoop(p) /\ alone[p] /\ ~failed[p] => Loaded = mem[p]

(***************************************************************************)
(* A registration, whose dialog comes with an empty folder, takes no card  *)
(* its folder, whatever else was open.                                     *)
(***************************************************************************)
RegistrationKeepsFolder ==
    [][\A p \in Programs : \A d \in dialogs[p] \ dialogs'[p] :
          ~d.edit /\ Running(p) /\ mem'[p] # Off =>
              \A mac \in DOMAIN mem[p] : FolderFor(mem[p], mac) # Empty =>
                                            FolderFor(mem'[p], mac) # Empty]_vars
=============================================================================
