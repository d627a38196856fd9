----------------------------- MODULE MediaLibrary -----------------------------
(***************************************************************************)
(* The photo folders and the ledger of received photos: save_media of      *)
(* eyefi_server.py, run by the upload handlers, and import_photos of       *)
(* reader_import.py, run by the GUI's import thread.  Both look for a      *)
(* duplicate, choose a free name, write the file and record it.            *)
(*                                                                         *)
(* Photos are told apart as the code does, by name and size.  A file is    *)
(* absent, partly written, the photo it holds, or damaged: of the size of  *)
(* one photo, with bytes of a smaller one.  Folders of dates are on (the   *)
(* default of date_subfolders), and the card has no folder of its own, so  *)
(* that both write below the same folder.                                  *)
(***************************************************************************)
EXTENDS Integers, FiniteSets

CONSTANTS
    Photo,
    NameOf,         \* NameOf[p]: file name of the photo
    SizeOf,         \* SizeOf[p]: its size
    TakenOf,        \* TakenOf[p]: day it was taken, as its file time says
    Handler,        \* upload handlers
    Importer,       \* the import thread
    NoPhoto, NoPath, Absent, Partial,
    MaxPast,        \* 365: older or future file times are not trusted
    DupDays,        \* 30: days whose folders are searched for a duplicate
    KeepDays,       \* LEDGER_KEEP_DAYS
    MaxDay,         \* bound on days
    MaxSuffix,      \* bound on the numbers appended to a name
    MaxFaults,      \* bound on failed writes and restarts
    Exclusive       \* TRUE: no two of the threads run at once

ASSUME WriterAssumption ==
    /\ Importer \notin Handler
    /\ NoPhoto \notin Photo
    /\ Absent # Partial /\ {Absent, Partial} \cap Photo = {}
    /\ \A p \in Photo : <<p>> \notin Photo \cup {Absent, Partial}

ASSUME DayAssumption ==
    /\ MaxPast \in Nat /\ DupDays \in Nat /\ KeepDays \in Nat
    /\ MaxDay \in Nat /\ MaxSuffix \in Nat /\ MaxFaults \in Nat
    /\ TakenOf \in [Photo -> Nat]
    /\ DOMAIN NameOf = Photo
    /\ SizeOf \in [Photo -> Nat]
    /\ \A p, r \in Photo : NameOf[p] = NameOf[r] /\ SizeOf[p] = SizeOf[r] => p = r
    /\ Exclusive \in BOOLEAN

VARIABLES
    files,          \* files[path]: what the file holds
    ledger,         \* ledger[p]: day of the entry, Never if there is none
    today,
    pc,             \* pc[w]: where thread w is
    cur,            \* cur[w]: the photo it deals with
    dest,           \* dest[w]: the path it writes to
    todo,           \* photos of the card the import has still to look at
    got,            \* got[p]: day p was last received, Never if it was not
    whole,          \* photos that were whole in some file (history)
    gone,           \* photos the user moved out of the folders (history)
    faults

threads == <<pc, cur, dest, todo>>
vars == <<files, ledger, today, pc, cur, dest, todo, got, whole, gone, faults>>

Never == -1
Writer == Handler \cup {Importer}
Labels == {"idle", "reading", "check", "name", "open", "write", "record", "next"}

\* What is appended to a name: nothing, _1 .. by save_media, _r1 .. by the import.
Plain == <<"", 0>>
Suffix == {Plain} \cup ({"_", "_r"} \X (1..MaxSuffix))

Days == (0..MaxDay) \cup {TakenOf[p] : p \in Photo}
Path == [day : Days, name : {NameOf[p] : p \in Photo}, suffix : Suffix]

\* A file of the size of p that holds bytes of another photo.
Damaged(p) == <<p>>
DamagedPhoto == {Damaged(p) : p \in Photo}

\* What getsize says: the file has the size of p.
LooksLike(file, p) == file \in {p, Damaged(p)}

Init ==
    /\ files = [q \in Path |-> Absent]
    /\ ledger = [p \in Photo |-> Never]
    /\ today = 0
    /\ pc = [w \in Writer |-> "idle"]
    /\ cur = [w \in Writer |-> NoPhoto]
    /\ dest = [w \in Writer |-> NoPath]
    /\ todo = {}
    /\ got = [p \in Photo |-> Never]
    /\ whole = {}
    /\ gone = {}
    /\ faults = 0

Goto(w, label) == pc' = [pc EXCEPT ![w] = label]

\* The import goes on with the next photo; a handler is done.
Leave(w) ==
    /\ Goto(w, IF w = Importer THEN "next" ELSE "idle")
    /\ cur' = [cur EXCEPT ![w] = NoPhoto]
    /\ dest' = [dest EXCEPT ![w] = NoPath]

MayStart(w) == pc[w] = "idle" /\ (Exclusive => \A v \in Writer : pc[v] = "idle")

(***************************************************************************)
(* The start of a save or of an import.                                    *)
(***************************************************************************)
\* A whole tar was assembled (again): save_media.
Receive(h) ==
    /\ MayStart(h)
    /\ \E p \in Photo : cur' = [cur EXCEPT ![h] = p]
    /\ Goto(h, "check")
    /\ UNCHANGED <<files, ledger, today, dest, todo, got, whole, gone, faults>>

\* The card is in the reader: it holds every photo.
StartImport ==
    /\ MayStart(Importer)
    /\ todo' = Photo
    /\ Goto(Importer, "next")
    /\ UNCHANGED <<files, ledger, today, cur, dest, got, whole, gone, faults>>

TakeNext ==
    /\ pc[Importer] = "next"
    /\ \E p \in todo :
          /\ cur' = [cur EXCEPT ![Importer] = p]
          /\ todo' = todo \ {p}
    /\ Goto(Importer, "reading")
    /\ UNCHANGED <<files, ledger, today, dest, got, whole, gone, faults>>

EndImport ==
    /\ pc[Importer] = "next" /\ todo = {}
    /\ Goto(Importer, "idle")
    /\ UNCHANGED <<files, ledger, today, cur, dest, todo, got, whole, gone, faults>>

\* ledger_has, without the lock; the file is open while pc is "reading".
ReadLedger ==
    /\ pc[Importer] = "reading"
    /\ IF ledger[cur[Importer]] # Never
       THEN Leave(Importer)
       ELSE Goto(Importer, "check") /\ UNCHANGED <<cur, dest>>
    /\ UNCHANGED <<files, ledger, today, todo, got, whole, gone, faults>>

(***************************************************************************)
(* find_duplicate: the plain name in the folders of the recent days.       *)
(***************************************************************************)
\* Mutant: only the folder of today is searched.
MutantDuplicate(p) ==
    \E q \in Path : q.day = today /\ q.name = NameOf[p] /\ q.suffix = Plain /\ LooksLike(files[q], p)

Duplicate(p) ==
    \E q \in Path :
        /\ q.day \in (today - DupDays)..today
        /\ q.name = NameOf[p] /\ q.suffix = Plain
        /\ LooksLike(files[q], p)

\* save_media records a duplicate, import_photos does not.
CheckDuplicate(w) ==
    /\ pc[w] = "check"
    /\ IF ~Duplicate(cur[w]) THEN Goto(w, "name") /\ UNCHANGED <<cur, dest>>
       ELSE IF w \in Handler THEN Goto(w, "record") /\ UNCHANGED <<cur, dest>>
       ELSE Leave(w)
    /\ UNCHANGED <<files, ledger, today, todo, got, whole, gone, faults>>

\* The folder: the day the photo was taken; save_media falls back to today when
\* that day is in the future or too long ago.
FolderDay(w, p) ==
    IF w \in Handler /\ TakenOf[p] \notin (today - MaxPast)..today
    THEN today ELSE TakenOf[p]

Candidates(w, p) ==
    {q \in Path : /\ q.day = FolderDay(w, p)
                  /\ q.name = NameOf[p]
                  /\ q.suffix = Plain \/ q.suffix[1] = (IF w \in Handler THEN "_" ELSE "_r")}

\* Mutant: an existing file of another size is replaced.
MutantChooseName(w) ==
    /\ pc[w] = "name"
    /\ \E q \in Candidates(w, cur[w]) : q.suffix = Plain /\ dest' = [dest EXCEPT ![w] = q]
    /\ Goto(w, "open")
    /\ UNCHANGED <<files, ledger, today, cur, todo, got, whole, gone, faults>>

\* The first name that does not exist.
ChooseName(w) ==
    /\ pc[w] = "name"
    /\ \E q \in Candidates(w, cur[w]) :
          /\ files[q] = Absent
          /\ \A r \in Candidates(w, cur[w]) : r.suffix[2] < q.suffix[2] => files[r] # Absent
          /\ dest' = [dest EXCEPT ![w] = q]
    /\ Goto(w, "open")
    /\ UNCHANGED <<files, ledger, today, cur, todo, got, whole, gone, faults>>

\* Opening for writing creates or empties the file.
OpenDest(w) ==
    /\ pc[w] = "open"
    /\ files' = [files EXCEPT ![dest[w]] = Partial]
    /\ Goto(w, "write")
    /\ UNCHANGED <<ledger, today, cur, dest, todo, got, whole, gone, faults>>

\* Photos larger than p that another thread wrote to the same path meanwhile.
Larger(p, file) == {r \in Photo : SizeOf[r] > SizeOf[p] /\ LooksLike(file, r)}

\* The bytes go over what the file holds by now; the end of a larger one stays.
WriteDest(w) ==
    /\ pc[w] = "write"
    /\ LET p == cur[w]
           larger == Larger(p, files[dest[w]])
       IN  \/ /\ larger = {}
              /\ files' = [files EXCEPT ![dest[w]] = p]
              /\ whole' = whole \cup {p}
           \/ /\ \E r \in larger : files' = [files EXCEPT ![dest[w]] = Damaged(r)]
              /\ UNCHANGED whole
    /\ Goto(w, "record")
    /\ UNCHANGED <<ledger, today, cur, dest, todo, got, gone, faults>>

\* Mutant: a photo that could not be written is recorded all the same.
MutantWriteFails(w) ==
    /\ pc[w] = "write" /\ faults < MaxFaults
    /\ faults' = faults + 1
    /\ Goto(w, "record")
    /\ UNCHANGED <<files, ledger, today, cur, dest, todo, got, whole, gone>>

\* The disk is full or the card was pulled out: what was written stays, over
\* what another thread may have written.
WriteFails(w) ==
    /\ pc[w] = "write" /\ faults < MaxFaults
    /\ faults' = faults + 1
    /\ \/ UNCHANGED files
       \/ \E r \in Photo : /\ files[dest[w]] = r /\ r # cur[w]
                           /\ files' = [files EXCEPT ![dest[w]] = Damaged(r)]
    /\ Leave(w)
    /\ UNCHANGED <<ledger, today, todo, got, whole, gone>>

\* Mutant: entries are dropped a day too early.
MutantPruned(l) == [p \in Photo |-> IF l[p] > today - KeepDays THEN l[p] ELSE Never]

Pruned(l) == [p \in Photo |-> IF l[p] >= today - KeepDays THEN l[p] ELSE Never]

\* ledger_record, under its lock.  The replacement fails, unnoticed, while the
\* file is open in ledger_has.
Record(w) ==
    /\ pc[w] = "record"
    /\ ledger' = IF pc[Importer] = "reading" THEN ledger
                 ELSE Pruned([ledger EXCEPT ![cur[w]] = today])
    /\ got' = [got EXCEPT ![cur[w]] = today]
    /\ Leave(w)
    /\ UNCHANGED <<files, today, todo, whole, gone, faults>>

(***************************************************************************)
(* The surroundings.                                                       *)
(***************************************************************************)
NextDay ==
    /\ today < MaxDay
    /\ today' = today + 1
    /\ UNCHANGED <<files, ledger, threads, got, whole, gone, faults>>

\* The user moves a photo out of the folders (once, to bound the model).
Move(q) ==
    /\ files[q] \in Photo \ gone
    /\ \A w \in Writer : dest[w] # q
    /\ gone' = gone \cup {files[q]}
    /\ files' = [files EXCEPT ![q] = Absent]
    /\ UNCHANGED <<ledger, today, threads, got, whole, faults>>

Restart ==
    /\ faults < MaxFaults
    /\ \E w \in Writer : pc[w] # "idle"
    /\ faults' = faults + 1
    /\ pc' = [w \in Writer |-> "idle"]
    /\ cur' = [w \in Writer |-> NoPhoto]
    /\ dest' = [w \in Writer |-> NoPath]
    /\ todo' = {}
    /\ UNCHANGED <<files, ledger, today, got, whole, gone>>

Saving(w) ==
    \/ CheckDuplicate(w) \/ ChooseName(w) \/ OpenDest(w) \/ WriteDest(w)
    \/ WriteFails(w) \/ Record(w)

Importing == TakeNext \/ EndImport \/ ReadLedger \/ Saving(Importer)

Next ==
    \/ \E h \in Handler : Receive(h) \/ Saving(h)
    \/ StartImport \/ Importing
    \/ NextDay \/ Restart
    \/ \E q \in Path : Move(q)

Spec == Init /\ [][Next]_vars

\* Threads run; the card is put into the reader again and again.
FairSpec ==
    /\ Spec
    /\ WF_vars(StartImport) /\ WF_vars(Importing)
    /\ \A h \in Handler : WF_vars(Saving(h))
-----------------------------------------------------------------------------
TypeOK ==
    /\ files \in [Path -> Photo \cup DamagedPhoto \cup {Absent, Partial}]
    /\ ledger \in [Photo -> Never..MaxDay]
    /\ today \in 0..MaxDay
    /\ pc \in [Writer -> Labels]
    /\ cur \in [Writer -> Photo \cup {NoPhoto}]
    /\ dest \in [Writer -> Path \cup {NoPath}]
    /\ todo \in SUBSET Photo
    /\ got \in [Photo -> Never..MaxDay]
    /\ whole \in SUBSET Photo
    /\ gone \in SUBSET Photo
    /\ faults \in 0..MaxFaults

\* A photo that was received is in the folders, unless the user moved it: no
\* later save of another photo, and no restart, takes it away.
ReceivedKept ==
    \A p \in Photo : got[p] # Never => p \in gone \/ \E q \in Path : files[q] = p

\* p lies under its own name in the folder of one of the last DupDays days.
LiesRecent(p) ==
    \E q \in Path : files[q] = p /\ q.suffix = Plain /\ q.day <= today /\ today - q.day <= DupDays

\* No thread stores a photo another time while it lies under its own name in the
\* folder of a recent day.
StoredOnce ==
    [][ \A p \in Photo : LiesRecent(p) =>
          \A q \in Path : files'[q] = p => files[q] = p ]_vars

\* The ledger names only photos that were once whole on the disk, so that the
\* import never skips a photo that was not saved.
LedgerSound == \A p \in Photo : ledger[p] # Never => p \in whole

\* The types of the writers, the folders and the ledger, and a ledger that can
\* be relied on.
LibrarySound == TypeOK /\ LedgerSound

\* The import does not go on to copy a photo that was received within KeepDays,
\* also when the user has moved it out of the folders.
NotImportedAgain ==
    [][ pc[Importer] = "reading" /\ pc'[Importer] = "check" =>
          LET p == cur[Importer]
          IN  got[p] # Never => today - got[p] > KeepDays ]_vars

\* Every photo of a card that is put into the reader is saved in the end.
EventuallySaved == \A p \in Photo : <>(p \in whole)
=============================================================================
