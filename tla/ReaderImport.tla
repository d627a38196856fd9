----------------------------- MODULE ReaderImport -----------------------------
(***************************************************************************)
(* Cards in the reader, as the window of gui.py treats them: a timer of    *)
(* the Tk thread looks at the drives every ten seconds, a thread per       *)
(* newly seen drive reads the card's MAC through the mailbox, and its      *)
(* callback on the Tk thread may start the import of the photos, in one    *)
(* more thread.  The Tk thread runs one handler at a time; between two of  *)
(* them cards come and go and the user clicks.                             *)
(***************************************************************************)
EXTENDS Naturals, SequencesExt

CONSTANTS
    Card, NoCard,
    Drive,          \* drive letters of the reader
    InitForms,      \* bound on the forms that cards have to begin with
    InitSettings,   \* bound on <<autoimport, folder>> to begin with
    MaxJobs,        \* bound on the threads that read one drive at a time
    MaxMoves,       \* bound on cards put in
    MaxClicks       \* bound on what the user changes

Form == {"set", "fresh", "formatted"}

ASSUME CardAssumption ==
    /\ NoCard \notin Card
    /\ InitForms \subseteq Form /\ InitSettings \subseteq BOOLEAN \X BOOLEAN
    /\ MaxJobs \in Nat /\ MaxMoves \in Nat /\ MaxClicks \in Nat

VARIABLES
    reader,         \* reader[d]: the card in drive d
    form,           \* form[c]: "set" up with EYEFI, "fresh" from the factory, "formatted"
    shots,          \* shots[c]: "none" (no DCIM), "new", or all "kept" in the library
    registered,     \* config.cards
    autoimport,     \* config.reader_autoimport
    folder,         \* config.default_folder is set
    known,          \* _known_reader_drives
    jobs,           \* jobs[d]: the threads that read the card in d
    importing,      \* _importing
    importers,      \* import threads whose _reader_import_done has not run
    passed,         \* drives whose card was unreadable, or met a running import (history)
    moves, clicks

cards == <<reader, form, shots>>
config == <<registered, autoimport, folder>>
import == <<importing, importers>>
bounds == <<moves, clicks>>
vars == <<reader, form, shots, registered, autoimport, folder, known, jobs, importing,
          importers, passed, moves, clicks>>

Inserted(d) == reader[d] # NoCard

\* is_eyefi_drive of card_mailbox: a mailbox, or the label of a factory card.
IsEyeFi(d) == Inserted(d) /\ form[reader[d]] \in {"set", "fresh"}
HasDcim(d) == Inserted(d) /\ shots[reader[d]] # "none"

\* reader_import.find_eyefi_drives.
Importable == {d \in Drive : HasDcim(d) /\ form[reader[d]] = "set"}

Init ==
    /\ reader \in [Drive -> Card \cup {NoCard}]
    /\ \A d, e \in Drive : (d # e /\ Inserted(d)) => reader[d] # reader[e]
    /\ form \in [Card -> InitForms]
    /\ shots \in [Card -> {"none", "new"}]
    /\ registered \in SUBSET Card
    /\ \E s \in InitSettings : autoimport = s[1] /\ folder = s[2]
    /\ known = Importable
    /\ jobs = [d \in Drive |-> <<>>]
    /\ importing = FALSE /\ importers = <<>>
    /\ passed = {}
    /\ moves = 0 /\ clicks = 0

(***************************************************************************)
(* The timer.  A drive counts as new if it was empty at the last look.     *)
(***************************************************************************)
Thread(kind) == [kind |-> kind, read |-> FALSE, mac |-> NoCard]

\* Mutant: the drives are remembered before they are compared.
MutantPollReader ==
    LET seen == {d \in Drive : IsEyeFi(d)}
    IN  /\ known' = seen
        /\ UNCHANGED <<cards, config, jobs, import, passed, bounds>>

PollReader ==
    LET seen == {d \in Drive : IsEyeFi(d)}
        kind(d) == IF form[reader[d]] = "fresh" THEN "fresh" ELSE "identify"
    IN  /\ \A d \in seen \ known : Len(jobs[d]) < MaxJobs
        /\ known' = seen
        /\ jobs' = [d \in Drive |-> IF d \in seen \ known
                                    THEN Append(jobs[d], Thread(kind(d))) ELSE jobs[d]]
        /\ UNCHANGED <<cards, config, import, passed, bounds>>

(***************************************************************************)
(* Threads that read a card.  "register" stands for the buttons that read  *)
(* the first card found and probe a formatted one.                         *)
(***************************************************************************)
ReadButton(d) ==
    /\ clicks < MaxClicks /\ Len(jobs[d]) < MaxJobs
    /\ clicks' = clicks + 1
    /\ jobs' = [jobs EXCEPT ![d] = Append(@, Thread("register"))]
    /\ UNCHANGED <<cards, config, known, import, passed, moves>>

\* A factory card gets its mailbox whatever the reading comes to; the mailbox of a
\* formatted one is removed if the card does not answer.
ReadCard(d, i) ==
    /\ ~jobs[d][i].read
    /\ LET found == IsEyeFi(d) \/ (Inserted(d) /\ jobs[d][i].kind = "register")
       IN  \E mac \in {NoCard} \cup IF found THEN {reader[d]} ELSE {} :
             /\ jobs' = [jobs EXCEPT ![d][i].read = TRUE, ![d][i].mac = mac]
             /\ form' = IF mac # NoCard \/ IsEyeFi(d)
                        THEN [form EXCEPT ![reader[d]] = "set"] ELSE form
    /\ UNCHANGED <<reader, shots, config, known, import, passed, bounds>>

\* The thread's callback runs on the Tk thread.
Callback(d, i, kinds) ==
    /\ jobs[d][i].read /\ jobs[d][i].kind \in kinds
    /\ jobs' = [jobs EXCEPT ![d] = RemoveAt(@, i)]

\* A factory card is only announced.
Announced(d, i) ==
    /\ Callback(d, i, {"fresh"})
    /\ passed' = passed \cup {d}
    /\ UNCHANGED <<cards, config, known, import, bounds>>

(***************************************************************************)
(* _run_reader_import sets the flag on the Tk thread, before its thread    *)
(* starts; mac is the card identified, none for an import by hand.         *)
(***************************************************************************)
RunReaderImport(d, mac) ==
    \/ /\ folder
       /\ importing' = TRUE
       /\ importers' = Append(importers, [drive |-> d, card |-> reader[d], mac |-> mac,
                                          whole |-> TRUE, over |-> FALSE])
    \/ ~folder /\ UNCHANGED import

\* Mutants: a running import does not matter; neither does the registration.
MutantImportWanted(d, mac) == mac \in registered /\ HasDcim(d) /\ autoimport
MutantImportWantedAny(d, mac) == mac # NoCard /\ HasDcim(d) /\ autoimport /\ ~importing

ImportWanted(d, mac) == mac \in registered /\ HasDcim(d) /\ autoimport /\ ~importing

Identified(d, i) ==
    LET mac == jobs[d][i].mac
    IN  /\ Callback(d, i, {"identify"})
        /\ \/ ImportWanted(d, mac) /\ RunReaderImport(d, mac)
           \/ ~ImportWanted(d, mac) /\ UNCHANGED import
        /\ passed' = IF mac = NoCard \/ importers # <<>> THEN passed \cup {d} ELSE passed
        /\ UNCHANGED <<cards, config, known, bounds>>

\* The user registers the card or does not; one without upload key is imported at
\* once.
Registered(d, i) ==
    LET mac == jobs[d][i].mac
    IN  /\ Callback(d, i, {"register"})
        /\ \/ UNCHANGED <<registered, import>>
           \/ /\ mac # NoCard /\ registered' = registered \cup {mac}
              /\ \/ UNCHANGED import
                 \/ HasDcim(d) /\ ~importing /\ RunReaderImport(d, mac)
        /\ UNCHANGED <<cards, autoimport, folder, known, passed, bounds>>

ManualReaderImport(d) ==
    /\ clicks < MaxClicks
    /\ clicks' = clicks + 1
    /\ d \in Importable /\ ~importing
    /\ RunReaderImport(d, NoCard)
    /\ UNCHANGED <<cards, config, known, jobs, passed, moves>>

\* import_photos ends; it copies everything if the card was left alone.
CopyEnds(i) ==
    /\ ~importers[i].over
    /\ importers' = [importers EXCEPT ![i].over = TRUE]
    /\ shots' = IF importers[i].whole
                THEN [shots EXCEPT ![importers[i].card] = "kept"] ELSE shots
    /\ UNCHANGED <<reader, form, config, known, jobs, importing, passed, bounds>>

ReaderImportDone(i) ==
    /\ importers[i].over
    /\ importing' = FALSE
    /\ importers' = RemoveAt(importers, i)
    /\ UNCHANGED <<cards, config, known, jobs, passed, bounds>>

(***************************************************************************)
(* The user: cards are taken out, used in the camera and put in again, and *)
(* the settings change.                                                    *)
(***************************************************************************)
PutIn(d, c) ==
    /\ moves < MaxMoves
    /\ moves' = moves + 1
    /\ ~Inserted(d) /\ \A e \in Drive : reader[e] # c
    /\ reader' = [reader EXCEPT ![d] = c]
    /\ \/ UNCHANGED <<form, shots>>
       \/ shots' = [shots EXCEPT ![c] = "new"] /\ UNCHANGED form
       \/ form' = [form EXCEPT ![c] = "formatted"] /\ shots' = [shots EXCEPT ![c] = "new"]
    /\ passed' = passed \ {d}
    /\ UNCHANGED <<config, known, jobs, import, clicks>>

TakeOut(d) ==
    /\ Inserted(d)
    /\ reader' = [reader EXCEPT ![d] = NoCard]
    /\ importers' = [i \in DOMAIN importers |->
                       [importers[i] EXCEPT !.whole = @ /\ importers[i].drive # d]]
    /\ passed' = passed \ {d}
    /\ UNCHANGED <<form, shots, config, known, jobs, importing, bounds>>

ChangeSettings ==
    /\ clicks < MaxClicks
    /\ clicks' = clicks + 1
    /\ \/ \E c \in registered :
             \E new \in {{}} \cup {{e} : e \in Card} : registered' = (registered \ {c}) \cup new
          /\ UNCHANGED <<autoimport, folder>>
       \/ autoimport' = ~autoimport /\ UNCHANGED <<registered, folder>>
       \/ folder' = TRUE /\ UNCHANGED <<registered, autoimport>>
    /\ UNCHANGED <<cards, known, jobs, import, passed, moves>>

\* What ends by itself: timers and callbacks of the Tk thread, polls with a limit,
\* copies.
Progress ==
    \/ PollReader
    \/ \E d \in Drive : \E i \in DOMAIN jobs[d] :
          ReadCard(d, i) \/ Announced(d, i) \/ Identified(d, i)
    \/ \E i \in DOMAIN importers : CopyEnds(i) \/ ReaderImportDone(i)

User ==
    \/ \E d \in Drive : \E i \in DOMAIN jobs[d] : Registered(d, i)
    \/ \E d \in Drive : ReadButton(d) \/ ManualReaderImport(d) \/ TakeOut(d)
    \/ \E d \in Drive, c \in Card : PutIn(d, c)
    \/ ChangeSettings

Next == Progress \/ User
Spec == Init /\ [][Next]_vars

Fairness ==
    /\ WF_vars(PollReader)
    /\ \A d \in Drive : WF_vars(\E i \in DOMAIN jobs[d] :
                                  ReadCard(d, i) \/ Announced(d, i) \/ Identified(d, i))
    /\ WF_vars(\E i \in DOMAIN importers : CopyEnds(i) \/ ReaderImportDone(i))

FairSpec == Spec /\ Fairness
-----------------------------------------------------------------------------
JobRecord == [kind : {"fresh", "identify", "register"}, read : BOOLEAN,
              mac : Card \cup {NoCard}]
Importer == [drive : Drive, card : Card, mac : Card \cup {NoCard}, whole : BOOLEAN,
             over : BOOLEAN]

TypeOK ==
    /\ reader \in [Drive -> Card \cup {NoCard}]
    /\ form \in [Card -> Form]
    /\ shots \in [Card -> {"none", "new", "kept"}]
    /\ registered \in SUBSET Card
    /\ autoimport \in BOOLEAN /\ folder \in BOOLEAN
    /\ known \in SUBSET Drive
    /\ jobs \in [Drive -> Seq(JobRecord)]
    /\ importing \in BOOLEAN /\ importers \in Seq(Importer)
    /\ passed \in SUBSET Drive
    /\ moves \in 0..MaxMoves /\ clicks \in 0..MaxClicks

\* At most one import is under way, and the flag says whether there is one, from
\* before its thread starts until its callback has run.
OneImport == importing = (importers # <<>>) /\ Len(importers) <= 1

\* The types of the drives, the threads and the settings, and a single import.
ImportSound == TypeOK /\ OneImport

\* An import that was not asked for by hand reads a card that is registered by then,
\* unless the card was changed after its MAC was read.
AutoImportsRegistered ==
    [][ \A i \in DOMAIN importers' :
          (i \notin DOMAIN importers /\ importers'[i].mac = importers'[i].card)
          => importers'[i].card \in registered' ]_vars

\* A registered card with new photos that is put into a drive seen empty is
\* imported, unless it is unreadable, or identified during another import, or the user
\* takes it out or changes the settings.
Waiting(d, c) ==
    /\ d \notin known /\ reader[d] = c
    /\ form[c] = "set" /\ shots[c] = "new"
    /\ c \in registered /\ autoimport /\ folder

InsertedIsImported ==
    \A d \in Drive, c \in Card :
        Waiting(d, c) ~> \/ shots[c] = "kept"
                         \/ reader[d] # c \/ d \in passed
                         \/ c \notin registered \/ ~autoimport
=============================================================================
