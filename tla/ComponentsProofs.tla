-------------------------- MODULE ComponentsProofs --------------------------
(***************************************************************************)
(* Theorems about the components of MCComponents, for all values of the    *)
(* constants.  MediaLibrary comes first.  Without a condition: its types.  *)
(* If the names of the photos differ, or no two threads run at once: the   *)
(* ledger names only photos that were saved.  If no two threads run at     *)
(* once: a received photo is kept, the import does not copy again what was *)
(* received lately, and nothing is stored twice on a camera whose clock is *)
(* not ahead.  Then the configuration file, the upload handlers, the       *)
(* checksum, what is read of a body and a tar, the search for an upload    *)
(* key and the captures.                                                   *)
(***************************************************************************)
EXTENDS MCComponents, TLAPS, FiniteSetTheorems, SequenceTheorems, WellFoundedInduction

-----------------------------------------------------------------------------
(***************************************************************************)
(* The types.                                                              *)
(***************************************************************************)
\* A thread that deals with a photo has one, and a path of its name.
ThreadInv ==
    \A w \in Writer :
        /\ pc[w] \in {"reading", "check", "name", "open", "write", "record"} => cur[w] \in Photo
        /\ pc[w] \in {"open", "write"} => dest[w] \in Path /\ dest[w].name = NameOf[cur[w]]

TypesInv == TypeOK /\ ThreadInv

LEMMA TypesInit == Init => TypesInv
<1> SUFFICES ASSUME Init PROVE TypesInv
  OBVIOUS
<1> USE WriterAssumption, DayAssumption
<1>1. TypeOK
  BY DEF Init, TypeOK, Labels, Never
<1>2. ThreadInv
  BY DEF Init, ThreadInv
<1> QED
  BY <1>1, <1>2 DEF TypesInv

\* A thread that leaves works on nothing.
LEMMA LeaveType ==
    ASSUME TypeOK, NEW w \in Writer, Leave(w)
    PROVE  /\ pc' \in [Writer -> Labels]
           /\ cur' \in [Writer -> Photo \cup {NoPhoto}]
           /\ dest' \in [Writer -> Path \cup {NoPath}]
           /\ pc'[w] \in {"idle", "next"}
           /\ w \in Handler => pc'[w] = "idle"
           /\ \A v \in Writer \ {w} : pc'[v] = pc[v] /\ cur'[v] = cur[v] /\ dest'[v] = dest[v]
BY WriterAssumption DEF TypeOK, Leave, Goto, Labels

\* What Record makes of the ledger: the photo is entered, if at all, under today.
LEMMA RecordLedger ==
    ASSUME TypeOK, NEW w \in Writer, cur[w] \in Photo, Record(w)
    PROVE  /\ ledger' \in [Photo -> Never..MaxDay]
           /\ \A p \in Photo : ledger'[p] # Never => p = cur[w] \/ ledger[p] # Never
           /\ got' \in [Photo -> Never..MaxDay]
<1> USE DayAssumption
<1>1. ASSUME ledger' = Pruned([ledger EXCEPT ![cur[w]] = today])
      PROVE  /\ ledger' \in [Photo -> Never..MaxDay]
             /\ \A p \in Photo : ledger'[p] # Never => p = cur[w] \/ ledger[p] # Never
  BY <1>1 DEF TypeOK, Pruned, Never
<1>2. got' \in [Photo -> Never..MaxDay]
  BY DEF TypeOK, Record, Never
<1> QED
  BY <1>1, <1>2 DEF Record, TypeOK

\* The clock, the user and the start of a save or an import.
LEMMA OutsideTypes ==
    ASSUME TypesInv,
           \/ NextDay \/ Restart \/ StartImport
           \/ \E q \in Path : Move(q)
           \/ \E h \in Handler : Receive(h)
    PROVE  TypesInv'
<1>1. TypeOK /\ ThreadInv
  BY DEF TypesInv
<1> USE WriterAssumption, DayAssumption
<1>2. CASE NextDay
  BY <1>1, <1>2 DEF TypesInv, TypeOK, ThreadInv, NextDay, threads
<1>3. CASE Restart
  BY <1>1, <1>3 DEF TypesInv, TypeOK, ThreadInv, Restart, Labels
<1>4. CASE StartImport
  <2>1. TypeOK'
    BY <1>1, <1>4 DEF TypeOK, StartImport, Goto, Labels, Writer
  <2> QED
    BY <1>1, <1>4, <2>1 DEF TypesInv, TypeOK, ThreadInv, StartImport, Goto
<1>5. ASSUME NEW q \in Path, Move(q) PROVE TypesInv'
  <2>1. TypeOK'
    BY <1>1, <1>5 DEF TypeOK, Move, threads
  <2> QED
    BY <1>1, <1>5, <2>1 DEF TypesInv, ThreadInv, Move, threads
<1>6. ASSUME NEW h \in Handler, Receive(h) PROVE TypesInv'
  <2>1. PICK p \in Photo : cur' = [cur EXCEPT ![h] = p]
    BY <1>6 DEF Receive
  <2>2. TypeOK'
    BY <1>1, <1>6, <2>1 DEF TypeOK, Receive, Goto, Labels, Writer
  <2>3. ThreadInv'
    BY <1>1, <1>6, <2>1 DEF TypeOK, ThreadInv, Receive, Goto, Writer
  <2> QED
    BY <2>2, <2>3 DEF TypesInv
<1> QED
  BY <1>2, <1>3, <1>4, <1>5, <1>6

\* The import's own steps.
LEMMA ImportTypes ==
    ASSUME TypesInv, TakeNext \/ EndImport \/ ReadLedger
    PROVE  TypesInv'
<1>1. TypeOK /\ ThreadInv
  BY DEF TypesInv
<1> USE WriterAssumption, DayAssumption
<1>0. Importer \in Writer
  BY DEF Writer
<1>2. CASE TakeNext
  <2>1. PICK p \in todo : cur' = [cur EXCEPT ![Importer] = p] /\ todo' = todo \ {p}
    BY <1>2 DEF TakeNext
  <2>2. TypeOK'
    BY <1>0, <1>1, <1>2, <2>1 DEF TypeOK, TakeNext, Goto, Labels
  <2>3. ThreadInv'
    BY <1>0, <1>1, <1>2, <2>1 DEF TypeOK, ThreadInv, TakeNext, Goto
  <2> QED
    BY <2>2, <2>3 DEF TypesInv
<1>3. CASE EndImport
  BY <1>0, <1>1, <1>3 DEF TypesInv, TypeOK, ThreadInv, EndImport, Goto, Labels
<1>4. CASE ReadLedger
  <2>1. CASE Leave(Importer)
    BY <1>0, <1>1, <1>4, <2>1, LeaveType DEF TypesInv, TypeOK, ThreadInv, ReadLedger
  <2>2. CASE Goto(Importer, "check") /\ UNCHANGED <<cur, dest>>
    BY <1>0, <1>1, <1>4, <2>2 DEF TypesInv, TypeOK, ThreadInv, ReadLedger, Goto, Labels
  <2> QED
    BY <1>4, <2>1, <2>2 DEF ReadLedger
<1> QED
  BY <1>2, <1>3, <1>4

\* The steps of a save.
LEMMA SavingTypes ==
    ASSUME TypesInv, NEW w \in Writer, Saving(w)
    PROVE  TypesInv'
<1>1. TypeOK /\ ThreadInv
  BY DEF TypesInv
<1> USE WriterAssumption, DayAssumption
<1>2. CASE CheckDuplicate(w)
  <2>1. CASE Leave(w)
    BY <1>1, <1>2, <2>1, LeaveType DEF TypesInv, TypeOK, ThreadInv, CheckDuplicate
  <2>2. CASE (Goto(w, "name") \/ Goto(w, "record")) /\ UNCHANGED <<cur, dest>>
    BY <1>1, <1>2, <2>2 DEF TypesInv, TypeOK, ThreadInv, CheckDuplicate, Goto, Labels
  <2> QED
    BY <1>2, <2>1, <2>2 DEF CheckDuplicate
<1>3. CASE ChooseName(w)
  <2>1. PICK q \in Candidates(w, cur[w]) : dest' = [dest EXCEPT ![w] = q]
    BY <1>3 DEF ChooseName
  <2>2. q \in Path /\ q.name = NameOf[cur[w]] /\ cur[w] \in Photo
    BY <1>1, <1>3, <2>1 DEF Candidates, ThreadInv, ChooseName
  <2> QED
    BY <1>1, <1>3, <2>1, <2>2 DEF TypesInv, TypeOK, ThreadInv, ChooseName, Goto, Labels
<1>4. CASE OpenDest(w)
  BY <1>1, <1>4 DEF TypesInv, TypeOK, ThreadInv, OpenDest, Goto, Labels
<1>5. CASE WriteDest(w)
  <2>1. cur[w] \in Photo /\ dest[w] \in Path
    BY <1>1, <1>5 DEF ThreadInv, WriteDest
  <2>2. files' \in [Path -> Photo \cup DamagedPhoto \cup {Absent, Partial}]
    <3>1. PICK f \in Photo \cup DamagedPhoto : files' = [files EXCEPT ![dest[w]] = f]
      BY <1>5, <2>1 DEF WriteDest, Larger, DamagedPhoto
    <3> QED
      BY <1>1, <3>1 DEF TypeOK
  <2>3. whole' \in SUBSET Photo
    BY <1>1, <1>5, <2>1 DEF TypeOK, WriteDest
  <2> QED
    BY <1>1, <1>5, <2>2, <2>3 DEF TypesInv, TypeOK, ThreadInv, WriteDest, Goto, Labels
<1>6. CASE WriteFails(w)
  <2>1. files' \in [Path -> Photo \cup DamagedPhoto \cup {Absent, Partial}]
    <3>1. CASE UNCHANGED files
      BY <1>1, <3>1 DEF TypeOK
    <3>2. ASSUME NEW r \in Photo, files' = [files EXCEPT ![dest[w]] = Damaged(r)]
          PROVE  files' \in [Path -> Photo \cup DamagedPhoto \cup {Absent, Partial}]
      BY <1>1, <3>2 DEF TypeOK, DamagedPhoto
    <3> QED
      BY <1>6, <3>1, <3>2 DEF WriteFails
  <2>2. faults' \in 0..MaxFaults
    BY <1>1, <1>6 DEF TypeOK, WriteFails
  <2> QED
    BY <1>1, <1>6, <2>1, <2>2, LeaveType DEF TypesInv, TypeOK, ThreadInv, WriteFails
<1>7. CASE Record(w)
  <2>1. cur[w] \in Photo
    BY <1>1, <1>7 DEF ThreadInv, Record
  <2>2. Leave(w) /\ UNCHANGED <<files, today, todo, whole, gone, faults>>
    BY <1>7 DEF Record
  <2>3. ledger' \in [Photo -> Never..MaxDay] /\ got' \in [Photo -> Never..MaxDay]
    BY <1>1, <1>7, <2>1, RecordLedger
  <2> HIDE DEF Leave, Path, DamagedPhoto, Labels
  <2>6. /\ pc' \in [Writer -> Labels] /\ cur' \in [Writer -> Photo \cup {NoPhoto}]
        /\ dest' \in [Writer -> Path \cup {NoPath}]
    BY <1>1, <2>2, LeaveType
  <2>4. TypeOK'
    BY <1>1, <2>2, <2>3, <2>6 DEF TypeOK
  <2>5. ThreadInv'
    BY <1>1, <2>2, LeaveType DEF ThreadInv
  <2> QED
    BY <2>4, <2>5 DEF TypesInv
<1> QED
  BY <1>2, <1>3, <1>4, <1>5, <1>6, <1>7 DEF Saving

LEMMA TypesStep == TypesInv /\ [Next]_vars => TypesInv'
<1> SUFFICES ASSUME TypesInv, [Next]_vars PROVE TypesInv'
  OBVIOUS
<1>1. CASE UNCHANGED vars
  BY <1>1 DEF vars, threads, TypesInv, TypeOK, ThreadInv
<1>2. CASE Next
  BY <1>2, OutsideTypes, ImportTypes, SavingTypes DEF Next, Importing, Writer
<1> QED
  BY <1>1, <1>2

\* Types of the threads, the files and the ledger.
THEOREM TypeCorrect == Spec => []TypeOK
<1>1. TypesInv => TypeOK
  BY DEF TypesInv
<1> QED
  BY TypesInit, TypesStep, <1>1, PTL DEF Spec

-----------------------------------------------------------------------------
(***************************************************************************)
(* What a thread writes over.                                              *)
(***************************************************************************)
\* No two threads run at once, the file that is about to be written is new, and
\* none is damaged.
OneAtATime == \A v, w \in Writer : pc[v] # "idle" /\ pc[w] # "idle" => v = w

Fresh ==
    \A w \in Writer :
        /\ pc[w] = "open" => files[dest[w]] = Absent
        /\ pc[w] = "write" => files[dest[w]] = Partial

Undamaged == \A q \in Path : files[q] \notin DamagedPhoto

AloneInv == OneAtATime /\ Fresh /\ Undamaged

\* The file that is written holds nothing of another photo.
NoStranger ==
    \A w \in Writer : pc[w] = "write" =>
        \A r \in Photo : LooksLike(files[dest[w]], r) => r = cur[w]

LEMMA FreshNoStranger == Fresh => NoStranger
BY WriterAssumption DEF Fresh, NoStranger, LooksLike, Damaged

\* Over its own file, a photo is written whole or not at all.
LEMMA OwnWrite ==
    ASSUME TypesInv, NoStranger, NEW w \in Writer
    PROVE  /\ WriteDest(w) => /\ files' = [files EXCEPT ![dest[w]] = cur[w]]
                              /\ whole' = whole \cup {cur[w]}
           /\ WriteFails(w) => UNCHANGED files
<1> USE DayAssumption
<1>1. ASSUME WriteDest(w) PROVE Larger(cur[w], files[dest[w]]) = {}
  BY <1>1 DEF TypesInv, ThreadInv, NoStranger, WriteDest, Larger
<1>2. ASSUME WriteFails(w) PROVE UNCHANGED files
  BY <1>2 DEF NoStranger, WriteFails, LooksLike
<1> QED
  BY <1>1, <1>2 DEF WriteDest

\* The thread that makes a step of a save is the only one, and stays so.
LEMMA OneThread ==
    ASSUME TypeOK, OneAtATime, NEW w \in Writer, pc[w] # "idle",
           \A v \in Writer \ {w} : pc'[v] = pc[v]
    PROVE  OneAtATime' /\ \A v \in Writer \ {w} : pc[v] = "idle" /\ pc'[v] = "idle"
BY DEF OneAtATime

LEMMA AloneInit == Init => AloneInv
BY WriterAssumption DEF Init, AloneInv, OneAtATime, Fresh, Undamaged, DamagedPhoto, Damaged

LEMMA AloneOutside ==
    ASSUME Exclusive, TypesInv, AloneInv,
           \/ NextDay \/ Restart \/ StartImport
           \/ \E q \in Path : Move(q)
           \/ \E h \in Handler : Receive(h)
    PROVE  AloneInv'
<1>1. TypeOK /\ OneAtATime /\ Fresh /\ Undamaged
  BY DEF TypesInv, AloneInv
<1> USE WriterAssumption
<1>2. CASE NextDay
  BY <1>1, <1>2 DEF AloneInv, OneAtATime, Fresh, Undamaged, NextDay, threads
<1>3. CASE Restart
  BY <1>1, <1>3 DEF AloneInv, OneAtATime, Fresh, Undamaged, Restart
<1>4. ASSUME NEW w \in Writer, MayStart(w), UNCHANGED <<files, dest>>,
             pc' = [pc EXCEPT ![w] = IF w = Importer THEN "next" ELSE "check"]
      PROVE  AloneInv'
  <2>1. \A v \in Writer : pc[v] = "idle"
    BY <1>4 DEF MayStart
  <2>2. \A v \in Writer : pc'[v] # "idle" => v = w /\ pc'[v] \in {"next", "check"}
    BY <1>1, <1>4, <2>1 DEF TypeOK
  <2> QED
    BY <1>1, <1>4, <2>2 DEF AloneInv, OneAtATime, Fresh, Undamaged
<1>5. CASE StartImport
  BY <1>4, <1>5 DEF StartImport, Goto, Writer
<1>6. ASSUME NEW h \in Handler, Receive(h) PROVE AloneInv'
  BY <1>4, <1>6 DEF Receive, Goto, Writer
<1>7. ASSUME NEW q \in Path, Move(q) PROVE AloneInv'
  <2>1. Fresh'
    BY <1>1, <1>7 DEF TypeOK, Fresh, Move, threads
  <2>2. Undamaged'
    BY <1>1, <1>7 DEF TypeOK, Undamaged, DamagedPhoto, Damaged, Move
  <2> QED
    BY <1>1, <1>7, <2>1, <2>2 DEF AloneInv, OneAtATime, Move, threads
<1> QED
  BY <1>2, <1>3, <1>5, <1>6, <1>7

\* A thread's step that leaves the files alone and does not come to "write".
LEMMA AloneQuiet ==
    ASSUME TypesInv, TypesInv', AloneInv, NEW w \in Writer, pc[w] # "idle",
           UNCHANGED files, \A v \in Writer \ {w} : pc'[v] = pc[v] /\ dest'[v] = dest[v],
           pc'[w] # "write", pc'[w] = "open" => files[dest'[w]] = Absent
    PROVE  AloneInv'
<1>1. TypeOK /\ OneAtATime /\ Fresh /\ Undamaged
  BY DEF TypesInv, AloneInv
<1>2. OneAtATime'
  BY <1>1, OneThread
<1>3. Fresh'
  BY <1>1 DEF Fresh
<1>4. Undamaged'
  BY <1>1 DEF Undamaged
<1> QED
  BY <1>2, <1>3, <1>4 DEF AloneInv

LEMMA AloneSaving ==
    ASSUME TypesInv, TypesInv', AloneInv, NEW w \in Writer, Saving(w)
    PROVE  AloneInv'
<1>1. TypeOK /\ ThreadInv /\ OneAtATime /\ Fresh /\ Undamaged /\ NoStranger
  BY FreshNoStranger DEF TypesInv, AloneInv
<1> USE WriterAssumption
<1>2. CASE CheckDuplicate(w)
  <2>1. pc'[w] \notin {"open", "write"} /\ \A v \in Writer \ {w} : pc'[v] = pc[v] /\ dest'[v] = dest[v]
    BY <1>1, <1>2, LeaveType DEF TypeOK, CheckDuplicate, Goto
  <2> QED
    BY <1>2, <2>1, AloneQuiet DEF CheckDuplicate
<1>3. CASE ChooseName(w)
  <2>1. PICK q \in Candidates(w, cur[w]) : files[q] = Absent /\ dest' = [dest EXCEPT ![w] = q]
    BY <1>3 DEF ChooseName
  <2>2. /\ pc'[w] = "open" /\ dest'[w] = q
        /\ \A v \in Writer \ {w} : pc'[v] = pc[v] /\ dest'[v] = dest[v]
    BY <1>1, <1>3, <2>1 DEF TypeOK, ChooseName, Goto
  <2> QED
    BY <1>3, <2>1, <2>2, AloneQuiet DEF ChooseName
<1>4. CASE OpenDest(w)
  <2>1. dest[w] \in Path /\ pc'[w] = "write" /\ \A v \in Writer \ {w} : pc'[v] = pc[v]
    BY <1>1, <1>4 DEF TypeOK, ThreadInv, OpenDest, Goto
  <2>2. OneAtATime' /\ \A v \in Writer \ {w} : pc'[v] = "idle"
    BY <1>1, <1>4, <2>1, OneThread DEF OpenDest
  <2>3. Fresh'
    BY <1>1, <1>4, <2>1, <2>2 DEF TypeOK, Fresh, OpenDest
  <2>4. Undamaged'
    BY <1>1, <1>4, <2>1 DEF TypeOK, Undamaged, DamagedPhoto, Damaged, OpenDest
  <2> QED
    BY <2>2, <2>3, <2>4 DEF AloneInv
<1>5. CASE WriteDest(w)
  <2>1. /\ dest[w] \in Path /\ cur[w] \in Photo
        /\ pc'[w] = "record" /\ \A v \in Writer \ {w} : pc'[v] = pc[v]
    BY <1>1, <1>5 DEF TypeOK, ThreadInv, WriteDest, Goto
  <2>2. OneAtATime' /\ \A v \in Writer \ {w} : pc'[v] = "idle"
    BY <1>1, <1>5, <2>1, OneThread DEF WriteDest
  <2>3. Fresh'
    BY <2>1, <2>2 DEF Fresh
  <2>4. files' = [files EXCEPT ![dest[w]] = cur[w]]
    BY <1>1, <1>5, OwnWrite
  <2>5. Undamaged'
    BY <1>1, <2>1, <2>4 DEF TypeOK, Undamaged, DamagedPhoto, Damaged
  <2> QED
    BY <2>2, <2>3, <2>5 DEF AloneInv
<1>6. CASE WriteFails(w)
  <2>1. UNCHANGED files
    BY <1>1, <1>6, OwnWrite
  <2>2. pc'[w] \notin {"open", "write"} /\ \A v \in Writer \ {w} : pc'[v] = pc[v] /\ dest'[v] = dest[v]
    BY <1>1, <1>6, LeaveType DEF WriteFails
  <2> QED
    BY <1>6, <2>1, <2>2, AloneQuiet DEF WriteFails
<1>7. CASE Record(w)
  <2>1. pc'[w] \notin {"open", "write"} /\ \A v \in Writer \ {w} : pc'[v] = pc[v] /\ dest'[v] = dest[v]
    BY <1>1, <1>7, LeaveType DEF Record
  <2> QED
    BY <1>7, <2>1, AloneQuiet DEF Record
<1> QED
  BY <1>2, <1>3, <1>4, <1>5, <1>6, <1>7 DEF Saving

LEMMA AloneStep == Exclusive /\ TypesInv /\ AloneInv /\ [Next]_vars => AloneInv'
<1> SUFFICES ASSUME Exclusive, TypesInv, AloneInv, [Next]_vars PROVE AloneInv'
  OBVIOUS
<1>1. TypesInv'
  BY TypesStep
<1>2. TypeOK
  BY DEF TypesInv
<1>3. CASE UNCHANGED vars
  BY <1>3 DEF vars, threads, AloneInv, OneAtATime, Fresh, Undamaged
<1>4. CASE TakeNext \/ EndImport \/ ReadLedger
  <2>1. /\ pc[Importer] # "idle" /\ pc'[Importer] \notin {"open", "write"}
        /\ \A v \in Writer \ {Importer} : pc'[v] = pc[v] /\ dest'[v] = dest[v]
    BY <1>2, <1>4, LeaveType DEF TypeOK, TakeNext, EndImport, ReadLedger, Goto, Writer
  <2> QED
    BY <1>1, <1>4, <2>1, AloneQuiet DEF TakeNext, EndImport, ReadLedger, Writer
<1>5. ASSUME NEW w \in Writer, Saving(w) PROVE AloneInv'
  BY <1>1, <1>5, AloneSaving
<1> QED
  BY <1>3, <1>4, <1>5, AloneOutside DEF Next, Importing, Writer

-----------------------------------------------------------------------------
(***************************************************************************)
(* The ledger names only photos that were saved.                           *)
(***************************************************************************)
\* Different photos have different names.
NamesDiffer == \A p, r \in Photo : NameOf[p] = NameOf[r] => p = r

\* A file that looks like a photo has its name, and the photo was whole.
FilesInv ==
    \A q \in Path, p \in Photo :
        LooksLike(files[q], p) => q.name = NameOf[p] /\ p \in whole

\* A thread records only what was whole.
RecordsWhole == \A w \in Writer : pc[w] = "record" => cur[w] \in whole

SavedInv == FilesInv /\ RecordsWhole /\ LedgerSound

LEMMA SavedInit == Init => SavedInv
BY WriterAssumption DEF Init, SavedInv, FilesInv, RecordsWhole, LedgerSound, LooksLike, Damaged

\* A step that changes neither the files nor the ledger, after which no thread
\* has come to "record" with a photo that was never whole.
LEMMA SavedQuiet ==
    ASSUME SavedInv, UNCHANGED <<files, ledger, whole>>,
           \A w \in Writer : pc'[w] = "record" => cur'[w] \in whole
    PROVE  SavedInv'
BY DEF SavedInv, FilesInv, RecordsWhole, LedgerSound

LEMMA SavedSaving ==
    ASSUME TypesInv, NoStranger, SavedInv, NEW w \in Writer, Saving(w)
    PROVE  SavedInv'
<1>1. TypeOK /\ ThreadInv /\ FilesInv /\ RecordsWhole /\ LedgerSound
  BY DEF TypesInv, SavedInv
<1> USE WriterAssumption
<1>2. CASE CheckDuplicate(w)
  <2>1. Duplicate(cur[w]) => cur[w] \in whole
    BY <1>1, <1>2 DEF ThreadInv, CheckDuplicate, Duplicate, FilesInv
  <2>2. \A v \in Writer : pc'[v] = "record" => cur'[v] \in whole
    BY <1>1, <1>2, <2>1, LeaveType DEF TypeOK, RecordsWhole, CheckDuplicate, Goto
  <2> QED
    BY <1>2, <2>2, SavedQuiet DEF CheckDuplicate
<1>3. CASE ChooseName(w)
  <2>1. \A v \in Writer : pc'[v] = "record" => cur'[v] \in whole
    BY <1>1, <1>3 DEF TypeOK, RecordsWhole, ChooseName, Goto
  <2> QED
    BY <1>3, <2>1, SavedQuiet DEF ChooseName
<1>4. CASE OpenDest(w)
  <2>1. FilesInv'
    BY <1>1, <1>4 DEF TypeOK, FilesInv, OpenDest, LooksLike, Damaged
  <2>2. RecordsWhole'
    BY <1>1, <1>4 DEF TypeOK, RecordsWhole, OpenDest, Goto
  <2> QED
    BY <1>1, <1>4, <2>1, <2>2 DEF SavedInv, LedgerSound, OpenDest
<1>5. CASE WriteDest(w)
  <2>1. cur[w] \in Photo /\ dest[w] \in Path /\ dest[w].name = NameOf[cur[w]]
    BY <1>1, <1>5 DEF ThreadInv, WriteDest
  <2>2. files' = [files EXCEPT ![dest[w]] = cur[w]] /\ whole' = whole \cup {cur[w]}
    BY <1>5, OwnWrite
  <2>3. FilesInv'
    <3> SUFFICES ASSUME NEW q \in Path, NEW p \in Photo, LooksLike(files'[q], p)
                 PROVE  q.name = NameOf[p] /\ p \in whole'
      BY DEF FilesInv, LooksLike
    <3>1. CASE q = dest[w]
      <4>1. files'[q] = cur[w]
        BY <1>1, <2>1, <2>2, <3>1 DEF TypeOK
      <4>2. p = cur[w]
        BY <2>1, <4>1 DEF LooksLike, Damaged
      <4> QED
        BY <2>1, <2>2, <3>1, <4>2
    <3>2. CASE q # dest[w]
      BY <1>1, <2>2, <3>2 DEF TypeOK, FilesInv
    <3> QED
      BY <3>1, <3>2
  <2>4. RecordsWhole'
    BY <1>1, <1>5, <2>2 DEF TypeOK, RecordsWhole, WriteDest, Goto
  <2> QED
    BY <1>1, <1>5, <2>2, <2>3, <2>4 DEF SavedInv, LedgerSound, WriteDest
<1>6. CASE WriteFails(w)
  <2>1. UNCHANGED files
    BY <1>6, OwnWrite
  <2>2. \A v \in Writer : pc'[v] = "record" => cur'[v] \in whole
    BY <1>1, <1>6, LeaveType DEF RecordsWhole, WriteFails
  <2> QED
    BY <1>6, <2>1, <2>2, SavedQuiet DEF WriteFails
<1>7. CASE Record(w)
  <2>1. cur[w] \in Photo /\ cur[w] \in whole
    BY <1>1, <1>7 DEF ThreadInv, RecordsWhole, Record
  <2>2. LedgerSound'
    BY <1>1, <1>7, <2>1, RecordLedger DEF LedgerSound, Record
  <2>3. RecordsWhole'
    BY <1>1, <1>7, LeaveType DEF RecordsWhole, Record
  <2> QED
    BY <1>1, <1>7, <2>2, <2>3 DEF SavedInv, FilesInv, Record
<1> QED
  BY <1>2, <1>3, <1>4, <1>5, <1>6, <1>7 DEF Saving

LEMMA SavedStep == TypesInv /\ NoStranger /\ SavedInv /\ [Next]_vars => SavedInv'
<1> SUFFICES ASSUME TypesInv, NoStranger, SavedInv, [Next]_vars PROVE SavedInv'
  OBVIOUS
<1>1. TypeOK /\ ThreadInv /\ FilesInv /\ RecordsWhole /\ LedgerSound
  BY DEF TypesInv, SavedInv
<1> USE WriterAssumption
<1>2. CASE UNCHANGED vars
  BY <1>1, <1>2, SavedQuiet DEF vars, threads, RecordsWhole
<1>3. CASE NextDay
  BY <1>1, <1>3, SavedQuiet DEF NextDay, threads, RecordsWhole
<1>4. CASE Restart \/ StartImport \/ TakeNext \/ EndImport
  <2>1. \A w \in Writer : pc'[w] = "record" => cur'[w] \in whole
    BY <1>1, <1>4 DEF TypeOK, RecordsWhole, Restart, StartImport, TakeNext, EndImport, Goto, Writer
  <2> QED
    BY <1>4, <2>1, SavedQuiet DEF Restart, StartImport, TakeNext, EndImport
<1>5. CASE ReadLedger
  <2>1. \A w \in Writer : pc'[w] = "record" => cur'[w] \in whole
    BY <1>1, <1>5, LeaveType DEF TypeOK, RecordsWhole, ReadLedger, Goto, Writer
  <2> QED
    BY <1>5, <2>1, SavedQuiet DEF ReadLedger
<1>6. ASSUME NEW h \in Handler, Receive(h) PROVE SavedInv'
  <2>1. \A w \in Writer : pc'[w] = "record" => cur'[w] \in whole
    BY <1>1, <1>6 DEF TypeOK, RecordsWhole, Receive, Goto, Writer
  <2> QED
    BY <1>6, <2>1, SavedQuiet DEF Receive
<1>7. ASSUME NEW q \in Path, Move(q) PROVE SavedInv'
  <2>1. FilesInv'
    BY <1>1, <1>7 DEF TypeOK, FilesInv, Move, LooksLike, Damaged
  <2> QED
    BY <1>1, <1>7, <2>1 DEF SavedInv, RecordsWhole, LedgerSound, Move, threads
<1> QED
  BY <1>2, <1>3, <1>4, <1>5, <1>6, <1>7, SavedSaving DEF Next, Importing, Writer

\* The ledger names only photos that were saved: the import never leaves out a
\* photo that was not, if the names of the photos differ or no two threads save
\* at once.
THEOREM LedgerNamesSaved ==
    ASSUME NamesDiffer \/ Exclusive
    PROVE  Spec => []LibrarySound
<1> DEFINE Inv == TypesInv /\ SavedInv /\ (Exclusive => AloneInv)
<1>1. Init => Inv
  BY TypesInit, SavedInit, AloneInit
<1>2. Inv => NoStranger
  BY FreshNoStranger DEF AloneInv, SavedInv, FilesInv, NamesDiffer, TypesInv, ThreadInv, NoStranger
<1>3. Inv /\ [Next]_vars => Inv'
  <2> SUFFICES ASSUME Inv, [Next]_vars PROVE Inv'
    OBVIOUS
  <2>1. TypesInv' /\ SavedInv'
    BY <1>2, TypesStep, SavedStep
  <2>2. Exclusive => AloneInv'
    BY AloneStep
  <2> QED
    BY <2>1, <2>2
<1>4. Inv => LibrarySound
  BY DEF TypesInv, SavedInv, LibrarySound
<1> QED
  BY <1>1, <1>3, <1>4, PTL DEF Spec

-----------------------------------------------------------------------------
(***************************************************************************)
(* One thread at a time: what was received is kept.                        *)
(***************************************************************************)
Kept(p) == p \in gone \/ \E q \in Path : files[q] = p
KeptThen(p) == p \in gone' \/ \E q \in Path : files'[q] = p      \* after the step

\* What is recorded next is kept as well.
KeptInv == ReceivedKept /\ \A w \in Writer : pc[w] = "record" => Kept(cur[w])

LEMMA KeptInit == Init => KeptInv
BY DEF Init, KeptInv, ReceivedKept

\* A step that takes no photo out of the folders but to "gone".
LEMMA KeptStays ==
    ASSUME gone \subseteq gone',
           \A q \in Path : files[q] \in Photo => files'[q] = files[q] \/ files[q] \in gone'
    PROVE  \A p \in Photo : Kept(p) => KeptThen(p)
BY DEF Kept, KeptThen

LEMMA KeptQuiet ==
    ASSUME TypesInv, TypesInv', KeptInv, UNCHANGED got, gone \subseteq gone',
           \A q \in Path : files[q] \in Photo => files'[q] = files[q] \/ files[q] \in gone',
           \A w \in Writer : pc'[w] = "record" => KeptThen(cur'[w]) \/ (pc[w] = "record" /\ cur'[w] = cur[w])
    PROVE  KeptInv'
<1>1. \A p \in Photo : Kept(p) => KeptThen(p)
  BY KeptStays
<1>2. ReceivedKept'
  BY <1>1 DEF KeptInv, ReceivedKept, Kept, KeptThen
<1>3. \A w \in Writer : pc'[w] = "record" => KeptThen(cur'[w])
  BY <1>1 DEF KeptInv, TypesInv, ThreadInv
<1> QED
  BY <1>2, <1>3 DEF KeptInv, Kept, KeptThen

LEMMA KeptSaving ==
    ASSUME TypesInv, TypesInv', AloneInv, KeptInv, NEW w \in Writer, Saving(w)
    PROVE  KeptInv'
<1>1. TypeOK /\ ThreadInv /\ Fresh /\ Undamaged /\ NoStranger
  BY FreshNoStranger DEF TypesInv, AloneInv
<1> USE WriterAssumption
<1>2. CASE CheckDuplicate(w)
  <2>1. cur[w] \in Photo
    BY <1>1, <1>2 DEF ThreadInv, CheckDuplicate
  <2>2. Duplicate(cur[w]) => Kept(cur[w])
    BY <1>1, <2>1 DEF Duplicate, LooksLike, Undamaged, DamagedPhoto, Kept
  <2>3. \A v \in Writer : pc'[v] = "record" => KeptThen(cur'[v]) \/ (pc[v] = "record" /\ cur'[v] = cur[v])
    BY <1>1, <1>2, <2>2, LeaveType DEF TypeOK, CheckDuplicate, Goto, Kept, KeptThen
  <2> QED
    BY <1>2, <2>3, KeptQuiet DEF CheckDuplicate
<1>3. CASE ChooseName(w)
  <2>1. \A v \in Writer : pc'[v] = "record" => pc[v] = "record" /\ cur'[v] = cur[v]
    BY <1>1, <1>3 DEF TypeOK, ChooseName, Goto
  <2> QED
    BY <1>3, <2>1, KeptQuiet DEF ChooseName
<1>4. CASE OpenDest(w)
  <2>1. \A v \in Writer : pc'[v] = "record" => pc[v] = "record" /\ cur'[v] = cur[v]
    BY <1>1, <1>4 DEF TypeOK, OpenDest, Goto
  <2>2. \A q \in Path : files[q] \in Photo => files'[q] = files[q]
    BY <1>1, <1>4 DEF TypeOK, Fresh, OpenDest
  <2> QED
    BY <1>4, <2>1, <2>2, KeptQuiet DEF OpenDest
<1>5. CASE WriteDest(w)
  <2>1. dest[w] \in Path /\ files' = [files EXCEPT ![dest[w]] = cur[w]]
    BY <1>1, <1>5, OwnWrite DEF ThreadInv, WriteDest
  <2>2. \A q \in Path : files[q] \in Photo => files'[q] = files[q]
    BY <1>1, <1>5, <2>1 DEF TypeOK, Fresh, WriteDest
  <2>3. files'[dest[w]] = cur[w] /\ cur' = cur
    BY <1>1, <1>5, <2>1 DEF TypeOK, WriteDest
  <2>4. \A v \in Writer : pc'[v] = "record" => KeptThen(cur'[v]) \/ (pc[v] = "record" /\ cur'[v] = cur[v])
    BY <1>1, <1>5, <2>1, <2>3 DEF TypeOK, WriteDest, Goto, Kept, KeptThen
  <2> QED
    BY <1>5, <2>2, <2>4, KeptQuiet DEF WriteDest
<1>6. CASE WriteFails(w)
  <2>1. UNCHANGED files
    BY <1>1, <1>6, OwnWrite
  <2>2. \A v \in Writer : pc'[v] = "record" => pc[v] = "record" /\ cur'[v] = cur[v]
    BY <1>1, <1>6, LeaveType DEF WriteFails
  <2> QED
    BY <1>6, <2>1, <2>2, KeptQuiet DEF WriteFails
<1>7. CASE Record(w)
  <2>1. cur[w] \in Photo /\ Kept(cur[w])
    BY <1>1, <1>7 DEF ThreadInv, KeptInv, Record
  <2>2. ReceivedKept'
    BY <1>1, <1>7, <2>1 DEF TypeOK, KeptInv, ReceivedKept, Kept, Record
  <2>3. \A v \in Writer : pc'[v] = "record" => KeptThen(cur'[v])
    BY <1>1, <1>7, LeaveType DEF KeptInv, Kept, KeptThen, Record
  <2> QED
    BY <2>2, <2>3 DEF KeptInv, Kept, KeptThen
<1> QED
  BY <1>2, <1>3, <1>4, <1>5, <1>6, <1>7 DEF Saving

LEMMA KeptStep == TypesInv /\ AloneInv /\ KeptInv /\ [Next]_vars => KeptInv'
<1> SUFFICES ASSUME TypesInv, AloneInv, KeptInv, [Next]_vars PROVE KeptInv'
  OBVIOUS
<1>1. TypesInv' /\ TypeOK
  BY TypesStep DEF TypesInv
<1> USE WriterAssumption
<1>2. CASE UNCHANGED vars
  BY <1>1, <1>2, KeptQuiet DEF vars, threads
<1>3. CASE NextDay
  BY <1>1, <1>3, KeptQuiet DEF NextDay, threads
<1>4. CASE Restart \/ StartImport \/ TakeNext \/ EndImport
  <2>1. \A v \in Writer : pc'[v] = "record" => pc[v] = "record" /\ cur'[v] = cur[v]
    BY <1>1, <1>4 DEF TypeOK, Restart, StartImport, TakeNext, EndImport, Goto, Writer
  <2> QED
    BY <1>1, <1>4, <2>1, KeptQuiet DEF Restart, StartImport, TakeNext, EndImport
<1>5. CASE ReadLedger
  <2>1. \A v \in Writer : pc'[v] = "record" => pc[v] = "record" /\ cur'[v] = cur[v]
    BY <1>1, <1>5, LeaveType DEF TypeOK, ReadLedger, Goto, Writer
  <2> QED
    BY <1>1, <1>5, <2>1, KeptQuiet DEF ReadLedger
<1>6. ASSUME NEW h \in Handler, Receive(h) PROVE KeptInv'
  <2>1. \A v \in Writer : pc'[v] = "record" => pc[v] = "record" /\ cur'[v] = cur[v]
    BY <1>1, <1>6 DEF TypeOK, Receive, Goto, Writer
  <2> QED
    BY <1>1, <1>6, <2>1, KeptQuiet DEF Receive
<1>7. ASSUME NEW q \in Path, Move(q) PROVE KeptInv'
  <2>1. gone \subseteq gone' /\ files[q] \in gone'
    BY <1>7 DEF Move
  <2>2. \A r \in Path : files[r] \in Photo => files'[r] = files[r] \/ files[r] \in gone'
    BY <1>1, <1>7, <2>1 DEF TypeOK, Move
  <2> QED
    BY <1>1, <1>7, <2>1, <2>2, KeptQuiet DEF Move, threads
<1> QED
  BY <1>1, <1>2, <1>3, <1>4, <1>5, <1>6, <1>7, KeptSaving DEF Next, Importing, Writer

\* A photo that was received stays in the folders until the user moves it, as long
\* as no two threads save at once: no later save, failure or restart takes it away.
THEOREM ReceivedStays ==
    ASSUME Exclusive
    PROVE  Spec => []ReceivedKept
<1> DEFINE Inv == TypesInv /\ AloneInv /\ KeptInv
<1>1. Init => Inv
  BY TypesInit, AloneInit, KeptInit
<1>2. Inv /\ [Next]_vars => Inv'
  BY TypesStep, AloneStep, KeptStep
<1>3. Inv => ReceivedKept
  BY DEF KeptInv
<1> QED
  BY <1>1, <1>2, <1>3, PTL DEF Spec

-----------------------------------------------------------------------------
(***************************************************************************)
(* One thread at a time: the import and the ledger.                        *)
(***************************************************************************)
\* The ledger has the day of the last reception, or the entry was dropped because
\* more than KeepDays have passed.
LedgerDays ==
    \A p \in Photo :
        /\ ledger[p] # Never => got[p] = ledger[p]
        /\ ledger[p] = Never /\ got[p] # Never => today - got[p] > KeepDays

LEMMA LedgerDaysInit == Init => LedgerDays
BY DEF Init, LedgerDays, Never

LEMMA LedgerDaysStep == TypesInv /\ AloneInv /\ LedgerDays /\ [Next]_vars => LedgerDays'
<1> SUFFICES ASSUME TypesInv, AloneInv, LedgerDays, [Next]_vars PROVE LedgerDays'
  OBVIOUS
<1>1. TypeOK /\ ThreadInv /\ OneAtATime
  BY DEF TypesInv, AloneInv
<1> USE WriterAssumption, DayAssumption
<1>2. CASE UNCHANGED <<ledger, got, today>>
  BY <1>2 DEF LedgerDays
<1>3. CASE NextDay
  BY <1>1, <1>3 DEF TypeOK, LedgerDays, NextDay, Never
<1>4. ASSUME NEW w \in Writer, Record(w) PROVE LedgerDays'
  <2>1. cur[w] \in Photo /\ pc[Importer] # "reading"
    BY <1>1, <1>4 DEF ThreadInv, OneAtATime, Record, Writer
  <2>2. /\ ledger' = Pruned([ledger EXCEPT ![cur[w]] = today])
        /\ got' = [got EXCEPT ![cur[w]] = today] /\ today' = today
    BY <1>4, <2>1 DEF Record
  <2> QED
    BY <1>1, <2>1, <2>2 DEF TypeOK, LedgerDays, Pruned, Never
<1>5. ASSUME NEW w \in Writer, Saving(w) PROVE LedgerDays'
  BY <1>2, <1>4, <1>5 DEF Saving, CheckDuplicate, ChooseName, OpenDest, WriteDest, WriteFails
<1>6. CASE TakeNext \/ EndImport \/ ReadLedger \/ StartImport \/ Restart
  BY <1>2, <1>6 DEF TakeNext, EndImport, ReadLedger, StartImport, Restart
<1>7. ASSUME NEW h \in Handler, Receive(h) PROVE LedgerDays'
  BY <1>2, <1>7 DEF Receive
<1>8. ASSUME NEW q \in Path, Move(q) PROVE LedgerDays'
  BY <1>2, <1>8 DEF Move
<1>9. CASE UNCHANGED vars
  BY <1>2, <1>9 DEF vars
<1> QED
  BY <1>3, <1>5, <1>6, <1>7, <1>8, <1>9 DEF Next, Importing, Writer

\* Only ledger_has leads from "reading" to "check".
LEMMA ReadingStep ==
    ASSUME TypesInv, [Next]_vars, pc[Importer] = "reading", pc'[Importer] = "check"
    PROVE  ledger[cur[Importer]] = Never
<1>1. TypeOK /\ Importer \in Writer
  BY DEF TypesInv, Writer
<1> USE WriterAssumption
<1>2. CASE ReadLedger
  BY <1>1, <1>2, LeaveType DEF ReadLedger
<1>3. ASSUME NEW h \in Handler, Receive(h) \/ Saving(h) PROVE FALSE
  <2>1. h \in Writer /\ h # Importer
    BY DEF Writer
  <2>2. pc'[Importer] = pc[Importer]
    BY <1>1, <1>3, <2>1, LeaveType DEF TypeOK, Receive, Saving, CheckDuplicate, ChooseName,
       OpenDest, WriteDest, WriteFails, Record, Goto
  <2> QED
    BY <2>2
<1>4. CASE StartImport \/ TakeNext \/ EndImport \/ Saving(Importer)
  BY <1>4 DEF StartImport, MayStart, TakeNext, EndImport, Saving, CheckDuplicate, ChooseName,
     OpenDest, WriteDest, WriteFails, Record
<1>5. CASE NextDay \/ Restart
  BY <1>1, <1>5 DEF NextDay, Restart, threads
<1>6. ASSUME NEW q \in Path, Move(q) PROVE FALSE
  BY <1>6 DEF Move, threads
<1>7. CASE UNCHANGED vars
  BY <1>7 DEF vars, threads
<1> QED
  BY <1>2, <1>3, <1>4, <1>5, <1>6, <1>7 DEF Next, Importing

\* The import does not copy again what was received within KeepDays, wherever the
\* user has put it, as long as no two threads run at once.
THEOREM ImportedOnce ==
    ASSUME Exclusive
    PROVE  Spec => NotImportedAgain
<1> DEFINE Inv == TypesInv /\ AloneInv /\ LedgerDays
<1>1. Init => Inv
  BY TypesInit, AloneInit, LedgerDaysInit
<1>2. Inv /\ [Next]_vars => Inv'
  BY TypesStep, AloneStep, LedgerDaysStep
<1>3. Inv /\ [Next]_vars =>
        [pc[Importer] = "reading" /\ pc'[Importer] = "check" =>
            LET p == cur[Importer]
            IN  got[p] # Never => today - got[p] > KeepDays]_vars
  BY ReadingStep DEF LedgerDays, TypesInv, ThreadInv, Writer
<1> QED
  BY <1>1, <1>2, <1>3, PTL DEF Spec, NotImportedAgain

-----------------------------------------------------------------------------
(***************************************************************************)
(* One thread at a time: nothing is stored twice.                          *)
(***************************************************************************)
\* The import copies no photo that is dated in the future.
ClocksRight == cur[Importer] \in Photo => TakenOf[cur[Importer]] <= today

\* There are no folders of days to come.
FoldersPast ==
    /\ \A q \in Path : files[q] # Absent => q.day <= today
    /\ \A w \in Writer : pc[w] \in {"open", "write"} => dest[w].day <= today

\* What is about to be written does not lie in a recent folder.
Unseen == \A w \in Writer : pc[w] \in {"name", "open", "write"} => ~LiesRecent(cur[w])

OnceInv == FoldersPast /\ Unseen

LEMMA OnceInit == Init => OnceInv
BY DEF Init, OnceInv, FoldersPast, Unseen

\* The days are numbers.
LEMMA PathDay == ASSUME NEW q \in Path PROVE q.day \in Nat
BY DayAssumption DEF Path, Days

\* After a step that adds no photo, what lies in a recent folder did so before.
LEMMA RecentBefore ==
    ASSUME TypeOK, TypeOK', FoldersPast, today <= today', NEW p \in Photo,
           \A q \in Path : files'[q] = p => files[q] = p,
           \E q \in Path : files'[q] = p /\ q.suffix = Plain /\ q.day <= today' /\ today' - q.day <= DupDays
    PROVE  LiesRecent(p)
<1> USE WriterAssumption, DayAssumption
<1>1. PICK q \in Path : files'[q] = p /\ q.suffix = Plain /\ today' - q.day <= DupDays
  OBVIOUS
<1>2. files[q] = p /\ q.day <= today
  BY <1>1 DEF FoldersPast
<1>3. today - q.day <= DupDays
  BY <1>1, PathDay DEF TypeOK
<1> QED
  BY <1>1, <1>2, <1>3 DEF LiesRecent

\* A step that adds no photo, opens no file and comes to "name" with nothing that
\* lies in a recent folder.
LEMMA OnceQuiet ==
    ASSUME TypesInv, TypesInv', OnceInv, today <= today',
           \A q \in Path : files'[q] \in {files[q], Absent},
           \A w \in Writer : pc'[w] \in {"name", "open", "write"} =>
               /\ cur'[w] \in Photo
               /\ \/ pc[w] \in {"name", "open", "write"} /\ cur'[w] = cur[w]
                  \/ ~LiesRecent(cur'[w]),
           \A w \in Writer : pc'[w] \in {"open", "write"} =>
               \/ dest'[w].day <= today
               \/ pc[w] \in {"open", "write"} /\ dest'[w] = dest[w],
           \A w \in Writer : pc'[w] \in {"open", "write"} => dest'[w] \in Path
    PROVE  OnceInv'
<1>1. TypeOK /\ TypeOK' /\ FoldersPast /\ Unseen
  BY DEF TypesInv, OnceInv
<1>2. today \in Nat /\ today' \in Nat
  BY <1>1, DayAssumption DEF TypeOK
<1>3. FoldersPast'
  BY <1>1, <1>2, PathDay DEF FoldersPast
<1>4. Unseen'
  <2> SUFFICES ASSUME NEW w \in Writer, pc'[w] \in {"name", "open", "write"},
                      \E q \in Path : /\ files'[q] = cur'[w] /\ q.suffix = Plain
                                      /\ q.day <= today' /\ today' - q.day <= DupDays
               PROVE  FALSE
    BY DEF Unseen, LiesRecent
  <2>1. cur'[w] \in Photo /\ ~LiesRecent(cur'[w])
    BY <1>1 DEF Unseen
  <2>2. \A q \in Path : files'[q] = cur'[w] => files[q] = cur'[w]
    BY <2>1, WriterAssumption
  <2> QED
    BY <1>1, <2>1, <2>2, RecentBefore
<1> QED
  BY <1>3, <1>4 DEF OnceInv

LEMMA OnceSaving ==
    ASSUME TypesInv, TypesInv', AloneInv, FilesInv, OnceInv, ClocksRight,
           NEW w \in Writer, Saving(w)
    PROVE  OnceInv'
<1>1. /\ TypeOK /\ ThreadInv /\ OneAtATime /\ Fresh /\ Undamaged /\ NoStranger
      /\ FoldersPast /\ Unseen /\ ThreadInv'
  BY FreshNoStranger DEF TypesInv, AloneInv, OnceInv
<1> USE WriterAssumption
<1>0. today \in Nat
  BY <1>1, DayAssumption DEF TypeOK
<1>2. CASE CheckDuplicate(w)
  <2>1. cur[w] \in Photo
    BY <1>1, <1>2 DEF ThreadInv, CheckDuplicate
  <2>2. LiesRecent(cur[w]) => Duplicate(cur[w])
    <3> SUFFICES ASSUME NEW q \in Path, files[q] = cur[w], q.suffix = Plain,
                        q.day <= today, today - q.day <= DupDays
                 PROVE  Duplicate(cur[w])
      BY DEF LiesRecent
    <3>1. q.day \in (today - DupDays)..today
      BY <1>0, PathDay, DayAssumption
    <3>2. LooksLike(files[q], cur[w]) /\ q.name = NameOf[cur[w]]
      BY <2>1 DEF FilesInv, LooksLike
    <3> QED
      BY <3>1, <3>2 DEF Duplicate
  <2>3. \A v \in Writer : pc'[v] \in {"name", "open", "write"} =>
            /\ cur'[v] \in Photo /\ cur'[v] = cur[v]
            /\ pc[v] \in {"name", "open", "write"} \/ ~LiesRecent(cur'[v])
    BY <1>1, <1>2, <2>1, <2>2, LeaveType DEF TypeOK, ThreadInv, CheckDuplicate, Goto
  <2>4. \A v \in Writer : pc'[v] \in {"open", "write"} =>
            dest'[v] \in Path /\ pc[v] \in {"open", "write"} /\ dest'[v] = dest[v]
    BY <1>1, <1>2, LeaveType DEF TypeOK, ThreadInv, CheckDuplicate, Goto
  <2> QED
    BY <1>0, <1>2, <2>3, <2>4, OnceQuiet DEF CheckDuplicate
<1>3. CASE ChooseName(w)
  <2>1. PICK q \in Candidates(w, cur[w]) : dest' = [dest EXCEPT ![w] = q]
    BY <1>3 DEF ChooseName
  <2>2. cur[w] \in Photo /\ q \in Path /\ q.day = FolderDay(w, cur[w])
    BY <1>1, <1>3, <2>1 DEF ThreadInv, Candidates, ChooseName
  <2>3. q.day <= today
    <3>1. CASE w \in Handler
      BY <1>0, <2>2, <3>1, PathDay, DayAssumption DEF FolderDay
    <3>2. CASE w = Importer
      BY <1>0, <2>2, <3>2 DEF FolderDay, ClocksRight
    <3> QED
      BY <3>1, <3>2 DEF Writer
  <2>4. \A v \in Writer : pc'[v] \in {"name", "open", "write"} =>
            /\ cur'[v] \in Photo /\ cur'[v] = cur[v] /\ pc[v] \in {"name", "open", "write"}
    BY <1>1, <1>3, <2>2 DEF TypeOK, ThreadInv, ChooseName, Goto
  <2>5. \A v \in Writer : pc'[v] \in {"open", "write"} =>
            /\ dest'[v] \in Path
            /\ \/ dest'[v].day <= today
               \/ pc[v] \in {"open", "write"} /\ dest'[v] = dest[v]
    BY <1>1, <1>3, <2>1, <2>2, <2>3 DEF TypeOK, ThreadInv, ChooseName, Goto
  <2> QED
    BY <1>0, <1>3, <2>4, <2>5, OnceQuiet DEF ChooseName
<1>4. CASE OpenDest(w)
  <2>1. dest[w] \in Path /\ cur[w] \in Photo /\ dest[w].day <= today
    BY <1>1, <1>4 DEF ThreadInv, FoldersPast, OpenDest
  <2>2. pc'[w] = "write" /\ \A v \in Writer \ {w} : pc'[v] = "idle"
    BY <1>1, <1>4, OneThread DEF TypeOK, OpenDest, Goto
  <2>3. \A q \in Path : files'[q] # Absent => q = dest[w] \/ files[q] # Absent
    BY <1>1, <1>4 DEF TypeOK, OpenDest
  <2>4. FoldersPast'
    BY <1>1, <1>4, <2>1, <2>2, <2>3 DEF FoldersPast, OpenDest
  <2>5. ~LiesRecent(cur[w])
    BY <1>1, <1>4 DEF Unseen, OpenDest
  <2>6. \A q \in Path : files'[q] = cur[w] => files[q] = cur[w]
    BY <1>1, <1>4, <2>1 DEF TypeOK, OpenDest
  <2>7. Unseen'
    BY <1>4, <2>2, <2>5, <2>6 DEF Unseen, LiesRecent, OpenDest
  <2> QED
    BY <2>4, <2>7 DEF OnceInv
<1>5. CASE WriteDest(w)
  <2>1. dest[w] \in Path /\ dest[w].day <= today
    BY <1>1, <1>5 DEF ThreadInv, FoldersPast, WriteDest
  <2>2. pc'[w] = "record" /\ \A v \in Writer \ {w} : pc'[v] = "idle"
    BY <1>1, <1>5, OneThread DEF TypeOK, WriteDest, Goto
  <2>3. \A q \in Path : files'[q] # Absent => q = dest[w] \/ files[q] # Absent
    BY <1>1, <1>5, OwnWrite DEF TypeOK
  <2>4. FoldersPast'
    BY <1>1, <1>5, <2>1, <2>2, <2>3 DEF FoldersPast, WriteDest
  <2>5. Unseen'
    BY <2>2 DEF Unseen
  <2> QED
    BY <2>4, <2>5 DEF OnceInv
<1>6. CASE WriteFails(w) \/ Record(w)
  <2>1. UNCHANGED <<files, today>>
    BY <1>1, <1>6, OwnWrite DEF WriteFails, Record
  <2>2. \A v \in Writer : /\ pc'[v] \in {"name", "open", "write"} =>
                                cur'[v] \in Photo /\ cur'[v] = cur[v] /\ pc[v] \in {"name", "open", "write"}
                          /\ pc'[v] \in {"open", "write"} =>
                                dest'[v] \in Path /\ dest'[v] = dest[v] /\ pc[v] \in {"open", "write"}
    BY <1>1, <1>6, LeaveType DEF ThreadInv, WriteFails, Record
  <2> QED
    BY <1>0, <2>1, <2>2, OnceQuiet
<1> QED
  BY <1>2, <1>3, <1>4, <1>5, <1>6 DEF Saving

LEMMA OnceStep ==
    TypesInv /\ AloneInv /\ FilesInv /\ OnceInv /\ ClocksRight /\ [Next]_vars => OnceInv'
<1> SUFFICES ASSUME TypesInv, AloneInv, FilesInv, OnceInv, ClocksRight, [Next]_vars
             PROVE  OnceInv'
  OBVIOUS
<1>1. TypesInv' /\ TypeOK /\ ThreadInv
  BY TypesStep DEF TypesInv
<1>0. today \in Nat
  BY <1>1, DayAssumption DEF TypeOK
<1> DEFINE Still == \A v \in Writer :
                       /\ pc'[v] \in {"name", "open", "write"} =>
                             cur'[v] \in Photo /\ cur'[v] = cur[v] /\ pc[v] \in {"name", "open", "write"}
                       /\ pc'[v] \in {"open", "write"} =>
                             dest'[v] \in Path /\ dest'[v] = dest[v] /\ pc[v] \in {"open", "write"}
<1>2. ASSUME Still, today <= today', \A q \in Path : files'[q] \in {files[q], Absent}
      PROVE  OnceInv'
  BY <1>1, <1>2, OnceQuiet
<1> USE WriterAssumption
<1>3. CASE UNCHANGED vars
  <2>1. Still
    BY <1>1, <1>3 DEF ThreadInv, vars, threads
  <2> QED
    BY <1>0, <1>2, <1>3, <2>1 DEF vars
<1>4. CASE NextDay
  <2>1. Still
    BY <1>1, <1>4 DEF ThreadInv, NextDay, threads
  <2> QED
    BY <1>0, <1>2, <1>4, <2>1 DEF NextDay
<1>5. CASE Restart \/ StartImport \/ TakeNext \/ EndImport
  <2>1. Still
    BY <1>1, <1>5 DEF TypeOK, ThreadInv, Restart, StartImport, TakeNext, EndImport, Goto, Writer
  <2>2. UNCHANGED <<files, today>>
    BY <1>5 DEF Restart, StartImport, TakeNext, EndImport
  <2> QED
    BY <1>0, <1>2, <2>1, <2>2
<1>6. CASE ReadLedger
  <2>1. Still
    BY <1>1, <1>6, LeaveType DEF TypeOK, ThreadInv, ReadLedger, Goto, Writer
  <2> QED
    BY <1>0, <1>2, <1>6, <2>1 DEF ReadLedger
<1>7. ASSUME NEW h \in Handler, Receive(h) PROVE OnceInv'
  <2>1. Still
    BY <1>1, <1>7 DEF TypeOK, ThreadInv, Receive, Goto, Writer
  <2> QED
    BY <1>0, <1>2, <1>7, <2>1 DEF Receive
<1>8. ASSUME NEW q \in Path, Move(q) PROVE OnceInv'
  <2>1. Still
    BY <1>1, <1>8 DEF ThreadInv, Move, threads
  <2>2. \A r \in Path : files'[r] \in {files[r], Absent}
    BY <1>1, <1>8 DEF TypeOK, Move
  <2> QED
    BY <1>0, <1>2, <1>8, <2>1, <2>2 DEF Move
<1> QED
  BY <1>1, <1>3, <1>4, <1>5, <1>6, <1>7, <1>8, OnceSaving DEF Next, Importing, Writer

\* A photo appears only where a thread writes it.
LEMMA OnlyWriting ==
    ASSUME TypesInv, AloneInv, [Next]_vars, NEW p \in Photo, NEW q \in Path,
           files'[q] = p, files[q] # p
    PROVE  \E w \in Writer : pc[w] = "write" /\ cur[w] = p
<1>1. TypeOK /\ NoStranger
  BY FreshNoStranger DEF TypesInv, AloneInv
<1> USE WriterAssumption
<1>2. ASSUME NEW w \in Writer, WriteDest(w) PROVE pc[w] = "write" /\ cur[w] = p
  BY <1>1, <1>2, OwnWrite DEF TypeOK, WriteDest
<1>3. ASSUME NEW w \in Writer, WriteFails(w) PROVE FALSE
  BY <1>1, <1>3, OwnWrite
<1>4. ASSUME NEW w \in Writer, OpenDest(w) PROVE FALSE
  BY <1>1, <1>4 DEF TypeOK, OpenDest
<1>5. ASSUME NEW r \in Path, Move(r) PROVE FALSE
  BY <1>1, <1>5 DEF TypeOK, Move
<1>6. files' # files
  OBVIOUS
<1> QED
  BY <1>2, <1>3, <1>4, <1>5, <1>6 DEF Next, Importing, Saving, Writer, vars, NextDay, Restart,
     StartImport, TakeNext, EndImport, ReadLedger, Receive, CheckDuplicate, ChooseName, Record

\* As long as no two threads run at once and the import copies nothing dated in the
\* future, no photo is stored while it lies under its own name in a recent folder.
THEOREM NothingStoredTwice ==
    ASSUME Exclusive
    PROVE  Spec /\ []ClocksRight => StoredOnce
<1> DEFINE Inv == TypesInv /\ AloneInv /\ SavedInv /\ OnceInv
<1>1. Init => Inv
  BY TypesInit, AloneInit, SavedInit, OnceInit
<1>2. Inv /\ ClocksRight /\ [Next]_vars => Inv'
  <2> SUFFICES ASSUME Inv, ClocksRight, [Next]_vars PROVE Inv'
    OBVIOUS
  <2>1. TypesInv' /\ AloneInv'
    BY TypesStep, AloneStep
  <2>2. SavedInv'
    BY FreshNoStranger, SavedStep DEF AloneInv
  <2>3. OnceInv'
    BY OnceStep DEF SavedInv
  <2> QED
    BY <2>1, <2>2, <2>3
<1>3. Inv /\ [Next]_vars =>
        [\A p \in Photo : LiesRecent(p) =>
            \A q \in Path : files'[q] = p => files[q] = p]_vars
  BY OnlyWriting DEF OnceInv, Unseen
<1> QED
  BY <1>1, <1>2, <1>3, PTL DEF Spec, StoredOnce
-----------------------------------------------------------------------------
(***************************************************************************)
(* The configuration file, for any number of programs, cards, keys and     *)
(* folders.  While no two programs save at once, the temporary file is cut *)
(* or holds what the one that saves has in memory; and so for a program    *)
(* that runs alone, whatever the others did before.                        *)
(***************************************************************************)
ConfigSpec == Config!Spec

InSave(p) == fPc[p] \in {"open", "written"}

TempIsOwn(p) ==
    /\ fPc[p] = "open" => fTemp = Cut
    /\ fPc[p] = "written" => fTemp = fMem[p]

ConfigFunctions ==
    /\ fMem = [p \in Programs |-> fMem[p]] /\ fDialogs = [p \in Programs |-> fDialogs[p]]
    /\ fGrab = [p \in Programs |-> fGrab[p]] /\ fPc = [p \in Programs |-> fPc[p]]
    /\ fAlone = [p \in Programs |-> fAlone[p]] /\ fFailed = [p \in Programs |-> fFailed[p]]

OneSaves ==
    ~fOverlap =>
        /\ fDisk \notin {Cut, Mixed}
        /\ \A p \in Programs : InSave(p) => TempIsOwn(p) /\ \A q \in Programs : InSave(q) => p = q

LoneProgram ==
    \A p \in Programs : fAlone[p] /\ Config!Running(p) =>
        /\ Config!Others(p) = {}
        /\ TempIsOwn(p)
        /\ fPc[p] = "loop" /\ ~fFailed[p] => Config!Loaded = fMem[p]

ConfigInv == ConfigFunctions /\ Config!TypeOK /\ OneSaves /\ LoneProgram

LEMMA ConfigStart == Config!Init => ConfigInv
<1> SUFFICES ASSUME Config!Init PROVE ConfigInv
  OBVIOUS
<1> USE StatesApart DEF Config!Init, Config!Apart
<1>1. ConfigFunctions
  BY DEF ConfigFunctions
<1>2. Config!TypeOK
  BY DEF Config!TypeOK
<1>3. OneSaves
  BY DEF OneSaves, InSave
<1>4. LoneProgram
  BY DEF LoneProgram, Config!Running
<1> QED
  BY <1>1, <1>2, <1>3, <1>4 DEF ConfigInv

\* What a start reads, and what the dialogs make of the cards, are cards.
LEMMA NoCards == [m \in {} |-> Empty] \in Config!Cards
<1>1. [m \in {} |-> Empty] \in [{} -> Config!Entry]
  OBVIOUS
<1> QED
  BY <1>1 DEF Config!Cards

LEMMA CardsWithout ==
    ASSUME NEW cards \in Config!Cards, NEW mac
    PROVE  Config!Without(cards, mac) \in Config!Cards
<1>1. PICK C \in SUBSET Macs : cards \in [C -> Config!Entry]
  BY DEF Config!Cards
<1>2. Config!Without(cards, mac) \in [C \ {mac} -> Config!Entry]
  BY <1>1 DEF Config!Without, Config!Restrict
<1> QED
  BY <1>2 DEF Config!Cards

LEMMA CardsWith ==
    ASSUME NEW cards \in Config!Cards, NEW mac \in Macs,
           NEW key \in Keys \cup {Empty}, NEW folder \in Folders \cup {Empty}
    PROVE  Config!WithCard(cards, mac, key, folder) \in Config!Cards
<1>1. PICK C \in SUBSET Macs : cards \in [C -> Config!Entry]
  BY DEF Config!Cards
<1>2. Config!FolderFor(cards, mac) \in Folders \cup {Empty}
  BY <1>1 DEF Config!FolderFor, Config!Entry
<1>3. Config!WithCard(cards, mac, key, folder) \in [C \cup {mac} -> Config!Entry]
  BY <1>1, <1>2 DEF Config!WithCard, Config!Entry
<1> QED
  BY <1>3 DEF Config!Cards

\* What stays as it is while only the dialogs change.
LEMMA DialogStep ==
    ASSUME ConfigInv, NEW p \in Programs,
           Config!OpenEdit(p) \/ Config!OpenRegister(p) \/ Config!Cancel(p)
    PROVE  ConfigInv'
<1> USE DEF ConfigInv
<1>1. UNCHANGED <<fDisk, fTemp, fMem, fPc, fAlone, fFailed, fOverlap>>
  BY DEF Config!OpenEdit, Config!OpenRegister, Config!Cancel, Config!Open
<1>2. \E d \in Config!Dialog :
         \/ /\ fDialogs' = [fDialogs EXCEPT ![p] = @ \cup {d}]
            /\ fGrab' = [fGrab EXCEPT ![p] = d]
         \/ /\ fDialogs' = [fDialogs EXCEPT ![p] = @ \ {d}]
            /\ fGrab' = [fGrab EXCEPT ![p] = NoDialog]
  <2>1. CASE Config!OpenEdit(p)
    <3>1. PICK mac \in DOMAIN fMem[p] : Config!Open(p, [edit |-> TRUE, mac |-> mac])
      BY <2>1 DEF Config!OpenEdit
    <3>2. mac \in Macs
      BY <2>1, <3>1 DEF Config!OpenEdit, Config!InLoop, Config!Running, Config!TypeOK, Config!Cards
    <3>3. [edit |-> TRUE, mac |-> mac] \in Config!Dialog
      BY <3>2 DEF Config!Dialog
    <3> QED
      BY <3>1, <3>3 DEF Config!Open
  <2>2. CASE Config!OpenRegister(p)
    <3>1. PICK mac \in Macs : Config!Open(p, [edit |-> FALSE, mac |-> mac])
      BY <2>2 DEF Config!OpenRegister
    <3>2. [edit |-> FALSE, mac |-> mac] \in Config!Dialog
      BY DEF Config!Dialog
    <3> QED
      BY <3>1, <3>2 DEF Config!Open
  <2>3. CASE Config!Cancel(p)
    BY <2>3 DEF Config!Cancel, Config!Closes, Config!TypeOK
  <2> QED
    BY <2>1, <2>2, <2>3
<1>3. Config!InLoop(p)
  BY DEF Config!OpenEdit, Config!OpenRegister, Config!Cancel, Config!Closes
<1>4. ConfigFunctions'
  BY <1>1, <1>2 DEF ConfigFunctions
<1>5. Config!TypeOK'
  BY <1>1, <1>2, <1>3 DEF Config!TypeOK, ConfigFunctions, Config!InLoop, Config!Running
<1>6. OneSaves'
  BY <1>1 DEF OneSaves, InSave, TempIsOwn
<1>7. LoneProgram'
  BY <1>1 DEF LoneProgram, TempIsOwn, Config!Others, Config!Running, Config!Loaded
<1> QED
  BY <1>4, <1>5, <1>6, <1>7

\* Cards that changed are to be saved.
LEMMA ChangeStep ==
    ASSUME ConfigInv, NEW p \in Programs,
           Config!Confirms(p) \/ Config!DelCard(p) \/ Config!SaveSettings(p)
    PROVE  ConfigInv'
<1> USE DEF ConfigInv
<1>1. UNCHANGED <<fDisk, fTemp, fAlone, fFailed, fOverlap>>
  BY DEF Config!Confirms, Config!Confirm, Config!DelCard, Config!SaveSettings
<1>2. fPc' = [fPc EXCEPT ![p] = "save"] /\ Config!InLoop(p)
  BY DEF Config!Confirms, Config!Confirm, Config!Closes, Config!DelCard, Config!SaveSettings,
         Config!Changed
<1>3. \E cards \in Config!Cards : fMem' = [fMem EXCEPT ![p] = cards]
  <2>1. fMem[p] \in Config!Cards
    BY <1>2 DEF Config!InLoop, Config!Running, Config!TypeOK
  <2>2. CASE Config!Confirms(p)
    <3>1. PICK d \in fDialogs[p], mac \in Macs, key \in Keys \cup {Empty},
               folder \in Folders \cup {Empty} : Config!Confirm(p, d, mac, key, folder)
      BY <2>2 DEF Config!Confirms
    <3>2. \E cards \in Config!Cards :
             fMem' = [fMem EXCEPT ![p] = Config!WithCard(cards, mac, key, folder)]
      BY <2>1, <3>1, CardsWithout DEF Config!Confirm, Config!Changed
    <3> QED
      BY <3>2, CardsWith
  <2>3. CASE Config!DelCard(p)
    BY <2>1, <2>3, CardsWithout DEF Config!DelCard, Config!Changed
  <2>4. CASE Config!SaveSettings(p)
    BY <2>1, <2>4 DEF Config!SaveSettings, Config!Changed
  <2> QED
    BY <2>2, <2>3, <2>4
<1>4. \/ UNCHANGED <<fDialogs, fGrab>>
      \/ \E d \in fDialogs[p] : /\ fDialogs' = [fDialogs EXCEPT ![p] = @ \ {d}]
                                /\ fGrab' = [fGrab EXCEPT ![p] = NoDialog]
  BY DEF Config!Confirms, Config!Confirm, Config!Closes, Config!DelCard, Config!SaveSettings
<1>5. ConfigFunctions'
  BY <1>1, <1>2, <1>3, <1>4 DEF ConfigFunctions
<1>6. fMem'[p] \in Config!Cards /\ \A q \in Programs \ {p} : fMem'[q] = fMem[q]
  BY <1>3 DEF ConfigFunctions
<1>7. fPc'[p] = "save" /\ \A q \in Programs \ {p} : fPc'[q] = fPc[q]
  BY <1>2 DEF ConfigFunctions
<1>8. fMem'[p] # Off
  BY <1>6, StatesApart DEF Config!Apart
<1>9. Config!TypeOK'
  <2>1. \A q \in Programs :
           fDialogs'[q] \subseteq Config!Dialog /\ fGrab'[q] \in fDialogs'[q] \cup {NoDialog}
    BY <1>4 DEF Config!TypeOK, ConfigFunctions
  <2>2. \A q \in Programs \ {p} : fDialogs'[q] = fDialogs[q]
    BY <1>4 DEF ConfigFunctions
  <2> QED
    BY <1>1, <1>6, <1>7, <1>8, <2>1, <2>2 DEF Config!TypeOK
<1>10. OneSaves'
  BY <1>1, <1>6, <1>7 DEF OneSaves, InSave, TempIsOwn
<1>11. LoneProgram'
  <2>1. \A q \in Programs : Config!Running(q)' <=> Config!Running(q)
    BY <1>2, <1>6, <1>8 DEF Config!Running, Config!InLoop
  <2>2. \A q \in Programs : Config!Others(q)' = Config!Others(q)
    BY <2>1 DEF Config!Others
  <2> QED
    BY <1>1, <1>6, <1>7, <2>1, <2>2 DEF LoneProgram, TempIsOwn, Config!Loaded
<1> QED
  BY <1>5, <1>9, <1>10, <1>11

\* A program that starts or ends.
LEMMA LaunchStep ==
    ASSUME ConfigInv, NEW p \in Programs, Config!Launch(p)
    PROVE  ConfigInv'
<1> USE DEF ConfigInv, Config!Launch
<1>1. ConfigFunctions'
  BY DEF ConfigFunctions
<1>2. Config!Loaded \in Config!Cards /\ fPc[p] = "loop"
  BY NoCards DEF Config!TypeOK, Config!Loaded, Config!Running
<1>3. fMem'[p] = Config!Loaded /\ \A q \in Programs \ {p} : fMem'[q] = fMem[q]
  BY DEF ConfigFunctions
<1>4. fMem'[p] # Off
  BY <1>2, <1>3, StatesApart DEF Config!Apart
<1>5. Config!TypeOK'
  BY <1>2, <1>3, <1>4 DEF Config!TypeOK
<1>6. OneSaves'
  BY <1>2, <1>3 DEF OneSaves, InSave, TempIsOwn
<1>7. LoneProgram'
  <2> SUFFICES ASSUME NEW q \in Programs, fAlone'[q], fMem'[q] # Off
               PROVE  /\ Config!Others(q)' = {}
                      /\ TempIsOwn(q)'
                      /\ fPc'[q] = "loop" /\ ~fFailed'[q] => Config!Loaded' = fMem'[q]
    BY DEF LoneProgram, Config!Running
  <2>1. q = p
    BY <1>3 DEF Config!Running
  <2>2. \A r \in Programs \ {p} : fMem'[r] = Off
    BY <1>3, <2>1 DEF Config!Others, Config!Running
  <2> QED
    BY <1>2, <1>3, <2>1, <2>2 DEF Config!Others, Config!Running, TempIsOwn, Config!Loaded
<1> QED
  BY <1>1, <1>5, <1>6, <1>7

LEMMA EndStep ==
    ASSUME ConfigInv, NEW p \in Programs, Config!Ends(p)
    PROVE  ConfigInv'
<1> USE DEF ConfigInv, Config!Ends
<1>1. ConfigFunctions'
  BY DEF ConfigFunctions
<1>2. /\ fMem'[p] = Off /\ fPc'[p] = "loop" /\ fDialogs'[p] = {} /\ fGrab'[p] = NoDialog
      /\ \A q \in Programs \ {p} : /\ fMem'[q] = fMem[q] /\ fPc'[q] = fPc[q]
                                   /\ fDialogs'[q] = fDialogs[q] /\ fGrab'[q] = fGrab[q]
  BY DEF ConfigFunctions
<1>3. Config!TypeOK'
  BY <1>2 DEF Config!TypeOK
<1>4. OneSaves'
  BY <1>2 DEF OneSaves, InSave, TempIsOwn
<1>5. LoneProgram'
  BY <1>2 DEF LoneProgram, TempIsOwn, Config!Others, Config!Running, Config!Loaded
<1> QED
  BY <1>1, <1>3, <1>4, <1>5
\* The steps of Config.save.
LEMMA OpenTempStep ==
    ASSUME ConfigInv, NEW p \in Programs, Config!OpenTemp(p)
    PROVE  ConfigInv'
<1> USE DEF ConfigInv, Config!OpenTemp, Config!Quiet
<1>1. ConfigFunctions'
  BY DEF ConfigFunctions
<1>2. fPc'[p] = "open" /\ \A q \in Programs \ {p} : fPc'[q] = fPc[q]
  BY DEF ConfigFunctions
<1>3. Config!TypeOK'
  BY <1>2 DEF Config!TypeOK
<1>4. OneSaves'
  <2> SUFFICES ASSUME ~fOverlap' PROVE OneSaves'
    BY DEF OneSaves
  <2>1. ~fOverlap /\ \A q \in Programs : ~InSave(q)
    BY DEF InSave
  <2> QED
    BY <1>2, <2>1 DEF OneSaves, InSave, TempIsOwn
<1>5. LoneProgram'
  <2> SUFFICES ASSUME NEW q \in Programs, fAlone'[q], Config!Running(q)'
               PROVE  /\ Config!Others(q)' = {}
                      /\ TempIsOwn(q)'
                      /\ fPc'[q] = "loop" /\ ~fFailed'[q] => Config!Loaded' = fMem'[q]
    BY DEF LoneProgram
  <2>1. fAlone[q] /\ Config!Running(q) /\ Config!Others(q) = {}
    BY DEF LoneProgram, Config!Running
  <2>2. p = q
    BY <2>1 DEF Config!Others, Config!Running, Config!TypeOK
  <2> QED
    BY <1>2, <2>1, <2>2 DEF TempIsOwn, Config!Others, Config!Running
<1> QED
  BY <1>1, <1>3, <1>4, <1>5

LEMMA DumpStep ==
    ASSUME ConfigInv, NEW p \in Programs, Config!Dump(p)
    PROVE  ConfigInv'
<1> USE DEF ConfigInv, Config!Dump, Config!Quiet
<1>1. ConfigFunctions'
  BY DEF ConfigFunctions
<1>2. fPc'[p] = "written" /\ \A q \in Programs \ {p} : fPc'[q] = fPc[q]
  BY DEF ConfigFunctions
<1>3. fMem[p] # Off
  BY DEF Config!TypeOK
<1>4. Config!TypeOK'
  BY <1>2, <1>3 DEF Config!TypeOK
<1>5. OneSaves'
  <2> SUFFICES ASSUME ~fOverlap' PROVE OneSaves'
    BY DEF OneSaves
  <2>1. /\ ~fOverlap /\ InSave(p) /\ fTemp = Cut
        /\ \A q \in Programs : InSave(q) => p = q
    BY DEF OneSaves, InSave, TempIsOwn
  <2> QED
    BY <1>2, <2>1 DEF OneSaves, InSave, TempIsOwn
<1>6. LoneProgram'
  <2> SUFFICES ASSUME NEW q \in Programs, fAlone'[q], Config!Running(q)'
               PROVE  /\ Config!Others(q)' = {}
                      /\ TempIsOwn(q)'
                      /\ fPc'[q] = "loop" /\ ~fFailed'[q] => Config!Loaded' = fMem'[q]
    BY DEF LoneProgram
  <2>1. fAlone[q] /\ Config!Running(q) /\ Config!Others(q) = {} /\ TempIsOwn(q)
    BY DEF LoneProgram, Config!Running
  <2>2. p = q
    BY <1>3, <2>1 DEF Config!Others, Config!Running
  <2>3. fTemp' = fMem[q]
    BY <2>1, <2>2 DEF TempIsOwn
  <2> QED
    BY <1>2, <2>1, <2>2, <2>3 DEF TempIsOwn, Config!Others, Config!Running
<1> QED
  BY <1>1, <1>4, <1>5, <1>6

\* A save that fails leaves the file and the temporary file as they are.
LEMMA GiveUpStep ==
    ASSUME ConfigInv, NEW p \in Programs, InSave(p), Config!GivesUp(p)
    PROVE  ConfigInv'
<1> USE DEF ConfigInv, Config!GivesUp, Config!Quiet
<1>1. ConfigFunctions'
  BY DEF ConfigFunctions
<1>2. /\ fPc'[p] = "loop" /\ fFailed'[p]
      /\ \A q \in Programs \ {p} : fPc'[q] = fPc[q] /\ fFailed'[q] = fFailed[q]
  BY DEF ConfigFunctions
<1>3. Config!TypeOK'
  BY <1>2 DEF Config!TypeOK
<1>4. OneSaves'
  BY <1>2 DEF OneSaves, InSave, TempIsOwn
<1>5. LoneProgram'
  BY <1>2 DEF LoneProgram, TempIsOwn, Config!Others, Config!Running, Config!Loaded
<1> QED
  BY <1>1, <1>3, <1>4, <1>5

LEMMA ReplaceStep ==
    ASSUME ConfigInv, NEW p \in Programs, Config!Replace(p)
    PROVE  ConfigInv'
<1> USE DEF ConfigInv
<1> SUFFICES ASSUME ~Config!Busy(p) PROVE ConfigInv'
  BY GiveUpStep DEF Config!Replace, InSave
<1>1. /\ fPc[p] = "written" /\ fPc' = [fPc EXCEPT ![p] = "loop"]
      /\ fDisk' = fTemp /\ fTemp' = Missing /\ fFailed' = [fFailed EXCEPT ![p] = FALSE]
      /\ UNCHANGED <<fMem, fDialogs, fGrab, fAlone, fOverlap>>
  BY DEF Config!Replace, Config!Quiet
<1>2. ConfigFunctions'
  BY <1>1 DEF ConfigFunctions
<1>3. fPc'[p] = "loop" /\ \A q \in Programs \ {p} : fPc'[q] = fPc[q] /\ fFailed'[q] = fFailed[q]
  BY <1>1 DEF ConfigFunctions
<1>4. fMem[p] \in Config!Cards
  BY <1>1 DEF Config!TypeOK
<1>5. Config!TypeOK'
  BY <1>1, <1>3 DEF Config!TypeOK
<1>6. OneSaves'
  <2> SUFFICES ASSUME ~fOverlap' PROVE OneSaves'
    BY DEF OneSaves
  <2>1. /\ ~fOverlap /\ InSave(p) /\ fTemp = fMem[p]
        /\ \A q \in Programs : InSave(q) => p = q
    BY <1>1 DEF OneSaves, InSave, TempIsOwn
  <2>2. fDisk' \notin {Cut, Mixed}
    BY <1>1, <1>4, <2>1, StatesApart DEF Config!Apart
  <2> QED
    BY <1>3, <2>1, <2>2 DEF OneSaves, InSave
<1>7. LoneProgram'
  <2> SUFFICES ASSUME NEW q \in Programs, fAlone'[q], Config!Running(q)'
               PROVE  /\ Config!Others(q)' = {}
                      /\ TempIsOwn(q)'
                      /\ fPc'[q] = "loop" /\ ~fFailed'[q] => Config!Loaded' = fMem'[q]
    BY DEF LoneProgram
  <2>1. fAlone[q] /\ Config!Running(q) /\ Config!Others(q) = {} /\ TempIsOwn(q)
    BY <1>1 DEF LoneProgram, Config!Running
  <2>2. p = q
    BY <1>1, <2>1 DEF Config!Others, Config!Running, Config!TypeOK
  <2>3. fDisk' = fMem[q] /\ fMem[q] # Missing
    BY <1>1, <1>4, <2>1, <2>2, StatesApart DEF TempIsOwn, Config!Apart
  <2> QED
    BY <1>1, <1>3, <2>1, <2>2, <2>3 DEF TempIsOwn, Config!Others, Config!Running, Config!Loaded
<1> QED
  BY <1>2, <1>5, <1>6, <1>7

LEMMA ConfigStep == ConfigInv /\ [Config!Next]_(Config!vars) => ConfigInv'
<1> SUFFICES ASSUME ConfigInv, [Config!Next]_(Config!vars) PROVE ConfigInv'
  OBVIOUS
<1>1. CASE UNCHANGED Config!vars
  BY <1>1 DEF ConfigInv, ConfigFunctions, Config!TypeOK, OneSaves, LoneProgram, Config!vars, InSave,
              TempIsOwn, Config!Others, Config!Running, Config!Loaded
<1>2. ASSUME NEW p \in Programs, Config!WriteFails(p) PROVE ConfigInv'
  BY <1>2, GiveUpStep DEF Config!WriteFails, InSave
<1> QED
  BY <1>1, <1>2, LaunchStep, EndStep, DialogStep, ChangeStep, OpenTempStep, DumpStep, ReplaceStep
     DEF Config!Next

LEMMA ConfigAlways == ConfigSpec => []ConfigInv
  BY ConfigStart, ConfigStep, PTL DEF ConfigSpec, Config!Spec

(***************************************************************************)
(* Config.save with any number of programs: unless two save at once,       *)
(* cards.json can be read after every failed write and every crash, and a  *)
(* program that ran alone finds at its next start what it had in memory.   *)
(***************************************************************************)
THEOREM ConfigurationSafe == ConfigSpec => []ConfigSound
<1>1. ConfigInv => ConfigSound
  BY DEF ConfigInv, ConfigSound, OneSaves, LoneProgram, Config!Loadable, Config!SavedIsRead,
         Config!InLoop
<1> QED
  BY <1>1, ConfigAlways, PTL

\* The dialog that closes is the one of the card that is registered.
LEMMA OneRegisters ==
    ASSUME ConfigInv, [Config!Next]_(Config!vars),
           NEW p \in Programs, NEW d \in fDialogs[p] \ fDialogs'[p],
           ~d.edit, Config!Running(p), fMem'[p] # Off,
           NEW mac \in DOMAIN fMem[p], Config!FolderFor(fMem[p], mac) # Empty
    PROVE  Config!FolderFor(fMem'[p], mac) # Empty
<1> USE DEF ConfigInv
<1>1. fDialogs'[p] # fDialogs[p]
  OBVIOUS
<1>2. PICK q \in Programs :
         \/ Config!Launch(q) \/ Config!Ends(q)
         \/ Config!OpenEdit(q) \/ Config!OpenRegister(q) \/ Config!Cancel(q) \/ Config!Confirms(q)
         \/ Config!DelCard(q) \/ Config!SaveSettings(q)
         \/ Config!OpenTemp(q) \/ Config!Dump(q) \/ Config!WriteFails(q) \/ Config!Replace(q)
  <2>1. ~UNCHANGED Config!vars
    BY <1>1 DEF Config!vars
  <2> QED
    BY <2>1 DEF Config!Next
<1>3. ~Config!Launch(q) /\ ~Config!DelCard(q) /\ ~Config!SaveSettings(q)
  BY <1>1 DEF Config!Launch, Config!DelCard, Config!SaveSettings, Config!Changed
<1>4. ~Config!OpenTemp(q) /\ ~Config!Dump(q) /\ ~Config!WriteFails(q) /\ ~Config!Replace(q)
  BY <1>1 DEF Config!OpenTemp, Config!Dump, Config!WriteFails, Config!Replace, Config!GivesUp,
              Config!Quiet
<1>5. ~Config!Ends(q)
  BY DEF Config!Ends, ConfigFunctions, Config!TypeOK
<1>6. ~Config!OpenEdit(q) /\ ~Config!OpenRegister(q)
  <2>1. \A e : ~Config!Open(q, e)
    BY DEF Config!Open, ConfigFunctions
  <2> QED
    BY <2>1 DEF Config!OpenEdit, Config!OpenRegister
<1>7. CASE Config!Cancel(q)
  BY <1>7 DEF Config!Cancel, Config!FolderFor
<1>8. CASE Config!Confirms(q)
  <2>1. PICK e \in fDialogs[q], m \in Macs, key \in Keys \cup {Empty},
             folder \in Folders \cup {Empty} : Config!Confirm(q, e, m, key, folder)
    BY <1>8 DEF Config!Confirms
  <2>2. q = p /\ e = d
    BY <2>1 DEF Config!Confirm, Config!Closes, ConfigFunctions
  <2>3. fMem'[p] = Config!WithCard(fMem[p], m, key, folder)
    BY <2>1, <2>2 DEF Config!Confirm, Config!Changed, ConfigFunctions
  <2> QED
    BY <2>3 DEF Config!WithCard, Config!FolderFor
<1> QED
  BY <1>2, <1>3, <1>4, <1>5, <1>6, <1>7, <1>8

(***************************************************************************)
(* add_or_update_card: whichever dialogs are open, the one that registers  *)
(* a card takes no card of the list its folder.                            *)
(***************************************************************************)
THEOREM FoldersStay == ConfigSpec => RegistrationKeepsFolder
<1>1. ASSUME ConfigInv, [Config!Next]_(Config!vars),
             NEW p \in Programs, NEW d \in fDialogs[p] \ fDialogs'[p],
             ~d.edit, Config!Running(p), fMem'[p] # Off,
             NEW mac \in DOMAIN fMem[p], Config!FolderFor(fMem[p], mac) # Empty
      PROVE  Config!FolderFor(fMem'[p], mac) # Empty
  BY <1>1, OneRegisters
<1>2. ConfigInv /\ [Config!Next]_(Config!vars) =>
        [\A p \in Programs : \A d \in fDialogs[p] \ fDialogs'[p] :
            ~d.edit /\ Config!Running(p) /\ fMem'[p] # Off =>
                \A mac \in DOMAIN fMem[p] : Config!FolderFor(fMem[p], mac) # Empty =>
                                               Config!FolderFor(fMem'[p], mac) # Empty]_(Config!vars)
  BY <1>1
<1> QED
  BY <1>2, ConfigAlways, PTL DEF ConfigSpec, Config!Spec, RegistrationKeepsFolder,
     Config!RegistrationKeepsFolder
-----------------------------------------------------------------------------
(***************************************************************************)
(* The upload handlers.  SpoolTransferProofs has the invariant for every   *)
(* value of the constants of SpoolTransfer; what is left is that Upload is *)
(* SpoolTransfer with these values.                                        *)
(***************************************************************************)
UploadProofs == INSTANCE SpoolTransferProofs WITH
    CrossConn <- TRUE, IgnoreOffset <- TRUE, ShortBodies <- TRUE, CanCrash <- TRUE,
    MaxFaults <- Failures, pc <- uPc, faults <- uFaults

LEMMA UploadAssumptions ==
    /\ UploadProofs!ConnAssumption
    /\ UploadProofs!SizeAssumption
    /\ UploadProofs!CardAssumption
BY UploadConstants DEF Upload!ConnAssumption, Upload!SizeAssumption, Upload!CardAssumption,
    UploadProofs!ConnAssumption, UploadProofs!SizeAssumption, UploadProofs!CardAssumption

LEMMA SameStart == Upload!Init <=> UploadProofs!Init
BY DEF Upload!Init, UploadProofs!Init, Upload!Unset, UploadProofs!Unset, Upload!NoUpload,
        UploadProofs!NoUpload

LEMMA SameCard ==
    ASSUME NEW c PROVE Upload!Card(c) <=> UploadProofs!Card(c)
BY DEF Upload!Card, UploadProofs!Card, Upload!Connect, UploadProofs!Connect, Upload!Goto,
        UploadProofs!Goto, Upload!serverVars, UploadProofs!serverVars, Upload!SendStatus,
        UploadProofs!SendStatus, Upload!cardVars, UploadProofs!cardVars, Upload!SendUpload,
        UploadProofs!SendUpload, Upload!Unset, UploadProofs!Unset, Upload!NoUpload,
        UploadProofs!NoUpload

LEMMA SameNetwork ==
    ASSUME NEW c PROVE Upload!Network(c) <=> UploadProofs!Network(c)
BY DEF Upload!Network, UploadProofs!Network, Upload!IdleClose, UploadProofs!IdleClose, Upload!Goto,
        UploadProofs!Goto, Upload!Unset, UploadProofs!Unset, Upload!serverVars,
        UploadProofs!serverVars, Upload!cardVars, UploadProofs!cardVars, Upload!HeadLost,
        UploadProofs!HeadLost, Upload!Reply, UploadProofs!Reply, Upload!Leave,
        UploadProofs!Leave, Upload!NoUpload, UploadProofs!NoUpload, Upload!Stall,
        UploadProofs!Stall, Upload!BodyDone, UploadProofs!BodyDone, Upload!BodyLen,
        UploadProofs!BodyLen, Upload!PayloadLen, UploadProofs!PayloadLen, Upload!Recv,
        UploadProofs!Recv, Upload!Least, UploadProofs!Least, Upload!AfterChunk,
        UploadProofs!AfterChunk

LEMMA SameStatusHandler ==
    ASSUME NEW c PROVE Upload!StatusHandler(c) <=> UploadProofs!StatusHandler(c)
BY DEF Upload!StatusHandler, UploadProofs!StatusHandler, Upload!ReadOffset,
        UploadProofs!ReadOffset, Upload!Goto, UploadProofs!Goto, Upload!serverVars,
        UploadProofs!serverVars, Upload!cardVars, UploadProofs!cardVars, Upload!Advertise,
        UploadProofs!Advertise

LEMMA SameStreamHandler ==
    ASSUME NEW c PROVE Upload!StreamHandler(c) <=> UploadProofs!StreamHandler(c)
BY DEF Upload!StreamHandler, UploadProofs!StreamHandler, Upload!ReadHead, UploadProofs!ReadHead,
        Upload!Meta, UploadProofs!Meta, Upload!KnownOffset, UploadProofs!KnownOffset,
        Upload!Unset, UploadProofs!Unset, Upload!Slack, UploadProofs!Slack, Upload!BodyLen,
        UploadProofs!BodyLen, Upload!PayloadLen, UploadProofs!PayloadLen, Upload!Goto,
        UploadProofs!Goto, Upload!serverVars, UploadProofs!serverVars, Upload!cardVars,
        UploadProofs!cardVars, Upload!ClaimWriter, UploadProofs!ClaimWriter,
        Upload!StreamBegin, UploadProofs!StreamBegin, Upload!CheckWriter,
        UploadProofs!CheckWriter, Upload!HangUp, UploadProofs!HangUp, Upload!Reply,
        UploadProofs!Reply, Upload!Leave, UploadProofs!Leave, Upload!NoUpload,
        UploadProofs!NoUpload, Upload!AppendChunk, UploadProofs!AppendChunk,
        Upload!BodySlice, UploadProofs!BodySlice, Upload!BodyUnit, UploadProofs!BodyUnit,
        Upload!Junk, UploadProofs!Junk, Upload!Appendable, UploadProofs!Appendable,
        Upload!Least, UploadProofs!Least, Upload!AppendAt, UploadProofs!AppendAt,
        Upload!CanAppend, UploadProofs!CanAppend, Upload!AfterChunk, UploadProofs!AfterChunk

LEMMA SameFinishHandler ==
    ASSUME NEW c PROVE Upload!FinishHandler(c) <=> UploadProofs!FinishHandler(c)
BY DEF Upload!FinishHandler, UploadProofs!FinishHandler, Upload!FinishEmpty,
        UploadProofs!FinishEmpty, Upload!TarLen, UploadProofs!TarLen, Upload!Least,
        UploadProofs!Least, Upload!BodyDone, UploadProofs!BodyDone, Upload!BodyLen,
        UploadProofs!BodyLen, Upload!PayloadLen, UploadProofs!PayloadLen, Upload!Reply,
        UploadProofs!Reply, Upload!Leave, UploadProofs!Leave, Upload!Goto,
        UploadProofs!Goto, Upload!Unset, UploadProofs!Unset, Upload!NoUpload,
        UploadProofs!NoUpload, Upload!serverVars, UploadProofs!serverVars,
        Upload!FinishSuperseded, UploadProofs!FinishSuperseded, Upload!FinishApply,
        UploadProofs!FinishApply, Upload!ApplyStep, UploadProofs!ApplyStep, Upload!cardVars,
        UploadProofs!cardVars, Upload!AppendRest, UploadProofs!AppendRest, Upload!AppendAt,
        UploadProofs!AppendAt, Upload!CanAppend, UploadProofs!CanAppend, Upload!BodySlice,
        UploadProofs!BodySlice, Upload!BodyUnit, UploadProofs!BodyUnit, Upload!Junk,
        UploadProofs!Junk, Upload!ResetSpool, UploadProofs!ResetSpool, Upload!Rewrite,
        UploadProofs!Rewrite, Upload!AppendSlice, UploadProofs!AppendSlice,
        Upload!TryComplete, UploadProofs!TryComplete, Upload!Complete,
        UploadProofs!Complete, Upload!HoldsMedia, UploadProofs!HoldsMedia,
        Upload!Incomplete, UploadProofs!Incomplete, Upload!Save, UploadProofs!Save,
        Upload!SaveFails, UploadProofs!SaveFails, Upload!Cleanup, UploadProofs!Cleanup,
        Upload!Discard, UploadProofs!Discard

LEMMA SameNext == Upload!Next <=> UploadProofs!Next
BY SameCard, SameNetwork, SameStatusHandler, SameStreamHandler, SameFinishHandler
DEF Upload!Next, UploadProofs!Next, Upload!HandlerStep, UploadProofs!HandlerStep,
        Upload!Abandon, UploadProofs!Abandon, Upload!serverVars, UploadProofs!serverVars,
        Upload!Crash, UploadProofs!Crash, Upload!Unset, UploadProofs!Unset, Upload!NoUpload,
        UploadProofs!NoUpload

LEMMA SameSpec == Upload!Spec <=> UploadProofs!Spec
<1>1. [Upload!Next]_(Upload!vars) <=> [UploadProofs!Next]_(UploadProofs!vars)
  BY SameNext DEF Upload!vars, UploadProofs!vars
<1> QED
  BY SameStart, <1>1, PTL DEF Upload!Spec, UploadProofs!Spec

(***************************************************************************)
(* _finish_upload: whatever the card sends, on whichever connection, and   *)
(* wherever the program dies, it is not told success while nothing is      *)
(* stored.                                                                 *)
(***************************************************************************)
THEOREM StoredBeforeSuccess == Upload!Spec => []AckedHasFile
<1>1. UploadProofs!AckedHasFile => AckedHasFile
  BY DEF AckedHasFile, Upload!AckedHasFile, UploadProofs!AckedHasFile
<1> QED
  BY <1>1, SameSpec, UploadAssumptions, UploadProofs!SuccessNeedsFile, PTL
-----------------------------------------------------------------------------
(***************************************************************************)
(* The checksum, for any block of bytes and any size of a byte.  What the  *)
(* recursive sums and the folding give is shown by taking the least number *)
(* for which they gave something else.                                     *)
(***************************************************************************)
\* Some number of a set of naturals is the least.
LEMMA FirstIndex ==
    ASSUME NEW I \in SUBSET Nat, I # {}
    PROVE  \E i \in I : \A j \in I : i <= j
<1>1. IsWellFoundedOn(OpToRel(<, Nat), Nat)
  BY NatLessThanWellFounded
<1>2. PICK i \in I : \A j \in I : ~(<<j, i>> \in OpToRel(<, Nat))
  BY <1>1, WFMin
<1>3. \A j \in I : ~(j < i)
  BY <1>2 DEF OpToRel
<1> QED
  BY <1>3

\* Arithmetic: quotients and remainders, products, and that a quotient and a
\* remainder are the only ones.
LEMMA DivMod ==
    ASSUME NEW n \in Nat, NEW d \in Nat, d > 0
    PROVE  /\ n \div d \in Nat /\ n % d \in 0..(d - 1)
           /\ n = (n \div d) * d + (n % d)
OBVIOUS

LEMMA Times ==
    ASSUME NEW a \in Int, NEW b \in Int, NEW c \in Int
    PROVE  /\ (a + b) * c = a * c + b * c
           /\ (a - b) * c = a * c - b * c
           /\ c * (a + b) = c * a + c * b
           /\ a * b \in Int
OBVIOUS

LEMMA Mono ==
    ASSUME NEW a \in Int, NEW b \in Int, NEW c \in Nat, a <= b
    PROVE  a * c <= b * c
OBVIOUS

LEMMA Unique ==
    ASSUME NEW d \in Nat, d > 0, NEW q \in Int, NEW p \in Int,
           NEW r \in 0..(d - 1), NEW s \in 0..(d - 1),
           q * d + r = p * d + s
    PROVE  q = p /\ r = s
<1>1. CASE q < p
  <2>1. (q + 1) * d <= p * d
    BY <1>1, Mono
  <2>2. (q + 1) * d = q * d + d /\ q * d \in Int /\ p * d \in Int
    BY Times
  <2> QED
    BY <2>1, <2>2
<1>2. CASE p < q
  <2>1. (p + 1) * d <= q * d
    BY <1>2, Mono
  <2>2. (p + 1) * d = p * d + d /\ q * d \in Int /\ p * d \in Int
    BY Times
  <2> QED
    BY <2>1, <2>2
<1> QED
  BY <1>1, <1>2, Times

\* The one's complement sum, to any modulus.
Ones(n, m) == IF n = 0 THEN 0 ELSE ((n - 1) % m) + 1

\* The number from 1 to m that differs from n > 0 by a multiple of m.
LEMMA OnesUnique ==
    ASSUME NEW n \in Nat, NEW m \in Nat, m > 0, NEW v \in 1..m, NEW k \in Int, n > 0, n = v + k * m
    PROVE  Ones(n, m) = v
<1>1. (n - 1) % m \in 0..(m - 1) /\ n - 1 = ((n - 1) \div m) * m + ((n - 1) % m) /\ (n - 1) \div m \in Nat
  BY DivMod
<1>2. k * m + (v - 1) = ((n - 1) \div m) * m + ((n - 1) % m)
  <2>1. k * m \in Int
    BY Times
  <2> QED
    BY <1>1, <2>1
<1>3. v - 1 = (n - 1) % m
  BY <1>1, <1>2, Unique
<1> QED
  BY <1>3 DEF Ones

LEMMA OnesIs ==
    ASSUME NEW n \in Nat, NEW m \in Nat, m > 0, n > 0
    PROVE  Ones(n, m) \in 1..m /\ \E k \in Nat : n = Ones(n, m) + k * m
<1>1. (n - 1) % m \in 0..(m - 1) /\ n - 1 = ((n - 1) \div m) * m + ((n - 1) % m) /\ (n - 1) \div m \in Nat
  BY DivMod
<1>2. ((n - 1) \div m) * m \in Int
  BY <1>1, Times
<1>3. n = Ones(n, m) + ((n - 1) \div m) * m /\ Ones(n, m) \in 1..m
  BY <1>1, <1>2 DEF Ones
<1> QED
  BY <1>1, <1>3

\* One folding of a total takes away a multiple of m, and not all of it.
LEMMA OneFold ==
    ASSUME NEW n \in Nat, NEW m \in Nat, m > 0, n >= m + 1
    PROVE  LET f == (n % (m + 1)) + (n \div (m + 1))
           IN  f \in Nat /\ 0 < f /\ f < n /\ Ones(f, m) = Ones(n, m)
<1> DEFINE w == m + 1
           q == n \div w
           r == n % w
           f == r + q
<1>1. q \in Nat /\ r \in 0..(w - 1) /\ n = q * w + r
  BY DivMod
<1> HIDE DEF q, r
<1>2. q * w = q * m + q /\ q * m \in Int
  BY <1>1, Times
<1>3. q >= 1
  <2>1. q = 0 => q * w = 0
    BY <1>1
  <2> QED
    BY <1>1, <2>1
<1>4. q * m >= 1
  <2>1. 1 * m <= q * m
    BY <1>1, <1>3, Mono
  <2> QED
    BY <1>2, <2>1
<1>5. n = f + q * m /\ f \in Nat /\ 0 < f /\ f < n
  BY <1>1, <1>2, <1>3, <1>4
<1>6. PICK k \in Nat : f = Ones(f, m) + k * m
  BY <1>5, OnesIs
<1>7. Ones(f, m) \in 1..m
  BY <1>5, OnesIs
<1>8. n = Ones(f, m) + (k + q) * m
  <2>1. (k + q) * m = k * m + q * m /\ k * m \in Int
    BY <1>1, Times
  <2> QED
    BY <1>1, <1>2, <1>5, <1>6, <1>7, <2>1
<1>9. k + q \in Int /\ n > 0
  BY <1>1
<1> HIDE DEF f
<1>10. Ones(n, m) = Ones(f, m)
  BY <1>7, <1>8, <1>9, OnesUnique
<1> QED
  BY <1>5, <1>10 DEF f, q, r

\* A recursive function is a solution of its equation if there is one.
LEMMA SumsEquation ==
    ASSUME NEW ns, NEW g, g = [i \in 0..Len(ns) |-> IF i = 0 THEN 0 ELSE g[i - 1] + ns[i]]
    PROVE  Algorithms!Sums(ns) =
               [i \in 0..Len(ns) |-> IF i = 0 THEN 0 ELSE Algorithms!Sums(ns)[i - 1] + ns[i]]
BY DEF Algorithms!Sums

LEMMA FoldEquation ==
    ASSUME NEW g, g = [n \in Nat |-> IF n < Algorithms!Word THEN n
                                  ELSE g[(n % Algorithms!Word) + (n \div Algorithms!Word)]]
    PROVE  Algorithms!Fold = [n \in Nat |-> IF n < Algorithms!Word THEN n
                                  ELSE Algorithms!Fold[(n % Algorithms!Word) + (n \div Algorithms!Word)]]
BY DEF Algorithms!Fold

\* A word has Byte * Byte values.
LEMMA WordIs ==
    /\ Algorithms!Word \in Nat /\ Algorithms!Word = Byte * Byte
    /\ Algorithms!Word - 1 \in Nat /\ Algorithms!Word >= 4
<1>1. 2 * 2 <= Byte * 2 /\ Byte * 2 <= Byte * Byte
  BY ByteSize, Mono DEF Algorithms!ByteIsByte
<1> QED
  BY <1>1, ByteSize DEF Algorithms!Word, Algorithms!ByteIsByte

\* OnesSum is the sum modulo Word - 1, and a word is its own.
LEMMA SameOnes ==
    ASSUME NEW n \in Nat
    PROVE  Algorithms!OnesSum(n) = Ones(n, Algorithms!Word - 1)
BY DEF Algorithms!OnesSum, Ones

LEMMA OnesOfWord ==
    ASSUME NEW n \in Nat, n < Algorithms!Word
    PROVE  Algorithms!OnesSum(n) = n
<1> DEFINE m == Algorithms!Word - 1
<1>1. CASE n = 0
  BY <1>1 DEF Algorithms!OnesSum
<1>2. CASE n > 0
  <2>1. m \in Nat /\ m > 0 /\ n \in 1..m
    BY <1>2, WordIs
  <2>2. 0 * m = 0
    BY <2>1
  <2> HIDE DEF m
  <2>3. n = n + 0 * m
    BY <2>2
  <2>4. Ones(n, m) = n
    BY <1>2, <2>1, <2>3, OnesUnique
  <2> QED
    BY <2>4, SameOnes DEF m
<1> QED
  BY <1>1, <1>2

\* The folding ends: OnesSum solves its equation.
LEMMA FoldDefined ==
    \A n \in Nat : Algorithms!Fold[n] =
        IF n < Algorithms!Word THEN n
        ELSE Algorithms!Fold[(n % Algorithms!Word) + (n \div Algorithms!Word)]
<1> DEFINE g == [n \in Nat |-> Algorithms!OnesSum(n)]
<1>1. ASSUME NEW n \in Nat
      PROVE  g[n] = IF n < Algorithms!Word THEN n
                    ELSE g[(n % Algorithms!Word) + (n \div Algorithms!Word)]
  <2>1. CASE n < Algorithms!Word
    BY <2>1, OnesOfWord
  <2>2. CASE ~(n < Algorithms!Word)
    <3> DEFINE m == Algorithms!Word - 1
               f == (n % Algorithms!Word) + (n \div Algorithms!Word)
    <3>1. m \in Nat /\ m > 0 /\ n >= m + 1 /\ m + 1 = Algorithms!Word
      BY <2>2, WordIs
    <3>2. f \in Nat /\ Ones(f, m) = Ones(n, m)
      BY <3>1, OneFold
    <3>3. Algorithms!OnesSum(f) = Algorithms!OnesSum(n)
      BY <3>2, SameOnes
    <3> QED
      BY <2>2, <3>2, <3>3
  <2> QED
    BY <2>1, <2>2
<1> HIDE DEF g
<1>2. g = [n \in Nat |-> IF n < Algorithms!Word THEN n
                         ELSE g[(n % Algorithms!Word) + (n \div Algorithms!Word)]]
  <2>1. g = [n \in Nat |-> g[n]]
    BY DEF g
  <2> QED
    BY <1>1, <2>1
<1>3. Algorithms!Fold = [n \in Nat |-> IF n < Algorithms!Word THEN n
                            ELSE Algorithms!Fold[(n % Algorithms!Word) + (n \div Algorithms!Word)]]
  BY <1>2, FoldEquation
<1> HIDE DEF Algorithms!Fold
<1> QED
  BY <1>3

\* What the loop of carries computes, for every total.
LEMMA FoldIsOnes == \A n \in Nat : Algorithms!Fold[n] = Algorithms!OnesSum(n)
<1> DEFINE I == {n \in Nat : Algorithms!Fold[n] # Algorithms!OnesSum(n)}
<1> SUFFICES ASSUME I # {} PROVE FALSE
  OBVIOUS
<1>1. PICK n \in I : \A j \in I : n <= j
  BY FirstIndex
<1>2. CASE n < Algorithms!Word
  BY <1>1, <1>2, FoldDefined, OnesOfWord
<1>3. CASE ~(n < Algorithms!Word)
  <2> DEFINE m == Algorithms!Word - 1
             f == (n % Algorithms!Word) + (n \div Algorithms!Word)
  <2>1. m \in Nat /\ m > 0 /\ n >= m + 1 /\ m + 1 = Algorithms!Word /\ n \in Nat
    BY <1>3, WordIs
  <2>2. f \in Nat /\ f < n /\ Ones(f, m) = Ones(n, m)
    BY <2>1, OneFold
  <2>3. Algorithms!Fold[f] = Algorithms!OnesSum(f)
    BY <1>1, <2>1, <2>2
  <2>4. Algorithms!OnesSum(f) = Algorithms!OnesSum(n)
    BY <2>1, <2>2, SameOnes
  <2>5. Algorithms!Fold[n] = Algorithms!Fold[f]
    BY <1>3, <2>1, FoldDefined
  <2> QED
    BY <1>1, <2>3, <2>4, <2>5
<1> QED
  BY <1>2, <1>3

\* The sums of the first numbers of a sequence exist.
IsSums(s, ns, n) ==
    s = [i \in 0..n |-> IF i = 0 THEN 0 ELSE s[i - 1] + ns[i]]

LEMMA SumsExist ==
    ASSUME NEW ns
    PROVE  \A n \in Nat : \E s : IsSums(s, ns, n)
<1> DEFINE I == {n \in Nat : ~ \E s : IsSums(s, ns, n)}
<1> SUFFICES ASSUME I # {} PROVE FALSE
  OBVIOUS
<1>1. PICK n \in I : \A j \in I : n <= j
  BY FirstIndex
<1>2. CASE n = 0
  <2>1. IsSums([i \in 0..0 |-> 0], ns, 0)
    BY DEF IsSums
  <2> QED
    BY <1>1, <1>2, <2>1
<1>3. CASE n > 0
  <2>1. PICK s : IsSums(s, ns, n - 1)
    BY <1>1, <1>3
  <2> DEFINE t == [i \in 0..n |-> IF i = n THEN s[n - 1] + ns[n] ELSE s[i]]
  <2>2. \A i \in 0..(n - 1) : s[i] = IF i = 0 THEN 0 ELSE s[i - 1] + ns[i]
    BY <2>1 DEF IsSums
  <2>3. \A i \in 0..n : t[i] = IF i = 0 THEN 0 ELSE t[i - 1] + ns[i]
    <3> SUFFICES ASSUME NEW i \in 0..n PROVE t[i] = IF i = 0 THEN 0 ELSE t[i - 1] + ns[i]
      OBVIOUS
    <3>1. n \in Nat
      OBVIOUS
    <3>2. CASE i = n
      BY <1>3, <3>1, <3>2
    <3>3. CASE i < n
      <4>1. i \in 0..(n - 1) /\ i # n /\ (i # 0 => i - 1 \in 0..n /\ i - 1 # n)
        BY <3>1, <3>3
      <4>2. t[i] = s[i] /\ (i # 0 => t[i - 1] = s[i - 1])
        BY <4>1
      <4> QED
        BY <2>2, <4>1, <4>2
    <3> QED
      BY <3>1, <3>2, <3>3
  <2>4. t = [i \in 0..n |-> t[i]]
    OBVIOUS
  <2> HIDE DEF t
  <2>5. IsSums(t, ns, n)
    BY <2>3, <2>4 DEF IsSums
  <2> QED
    BY <1>1, <2>5
<1> QED
  BY <1>1, <1>2, <1>3

LEMMA SumsDefined ==
    ASSUME NEW S, NEW ns \in Seq(S)
    PROVE  \A i \in 0..Len(ns) :
              Algorithms!Sums(ns)[i] = IF i = 0 THEN 0 ELSE Algorithms!Sums(ns)[i - 1] + ns[i]
<1>1. PICK s : IsSums(s, ns, Len(ns))
  BY SumsExist, LenProperties
<1>2. Algorithms!Sums(ns) = [i \in 0..Len(ns) |-> IF i = 0 THEN 0
                                                  ELSE Algorithms!Sums(ns)[i - 1] + ns[i]]
  BY <1>1, SumsEquation DEF IsSums
<1> HIDE DEF Algorithms!Sums
<1> QED
  BY <1>2

LEMMA SumsType ==
    ASSUME NEW ns \in Seq(Nat)
    PROVE  \A i \in 0..Len(ns) : Algorithms!Sums(ns)[i] \in Nat
<1> DEFINE I == {i \in 0..Len(ns) : Algorithms!Sums(ns)[i] \notin Nat}
<1> SUFFICES ASSUME I # {} PROVE FALSE
  OBVIOUS
<1>1. Len(ns) \in Nat
  BY LenProperties
<1>2. PICK n \in I : \A j \in I : n <= j
  <2>1. I \in SUBSET Nat
    BY <1>1
  <2> QED
    BY <2>1, FirstIndex
<1>3. Algorithms!Sums(ns)[n] = IF n = 0 THEN 0 ELSE Algorithms!Sums(ns)[n - 1] + ns[n]
  BY SumsDefined
<1>4. n > 0 => n - 1 \in 0..Len(ns) /\ n \in 1..Len(ns)
  BY <1>1
<1>5. n > 0 => Algorithms!Sums(ns)[n - 1] \in Nat /\ ns[n] \in Nat
  BY <1>1, <1>2, <1>4, ElementOfSeq
<1> QED
  BY <1>1, <1>3, <1>5

LEMMA SumIsNatural ==
    ASSUME NEW ns \in Seq(Nat)
    PROVE  Algorithms!Sum(ns) \in Nat
<1>1. Len(ns) \in 0..Len(ns)
  BY LenProperties
<1> QED
  BY <1>1, SumsType DEF Algorithms!Sum

\* m * x is y up to a multiple of d, and zero if y is.
Like(m, d, x, y) ==
    /\ \E k \in Nat : m * x = y + k * d
    /\ x = 0 <=> y = 0

LEMMA LikeSum ==
    ASSUME NEW m \in Nat, NEW d \in Nat, NEW x \in Nat, NEW y \in Nat, NEW u \in Nat, NEW v \in Nat,
           Like(m, d, x, y), Like(m, d, u, v)
    PROVE  Like(m, d, x + u, y + v)
<1>1. PICK k \in Nat : m * x = y + k * d
  BY DEF Like
<1>2. PICK l \in Nat : m * u = v + l * d
  BY DEF Like
<1>3. m * (x + u) = m * x + m * u
  BY Times
<1>4. (k + l) * d = k * d + l * d /\ k * d \in Int /\ l * d \in Int /\ k + l \in Nat
  BY Times
<1>5. m * (x + u) = (y + v) + (k + l) * d
  BY <1>1, <1>2, <1>3, <1>4
<1>6. x + u = 0 <=> y + v = 0
  BY DEF Like
<1> QED
  BY <1>4, <1>5, <1>6 DEF Like

\* Sums of numbers that are alike are alike.
LEMMA SumsAlike ==
    ASSUME NEW a \in Seq(Nat), NEW b \in Seq(Nat), Len(a) = Len(b), NEW m \in Nat, NEW d \in Nat,
           \A i \in 1..Len(a) : Like(m, d, a[i], b[i])
    PROVE  Like(m, d, Algorithms!Sum(a), Algorithms!Sum(b))
<1> DEFINE A == Algorithms!Sums(a)
           B == Algorithms!Sums(b)
           I == {i \in 0..Len(a) : ~Like(m, d, A[i], B[i])}
<1>1. Len(a) \in Nat
  BY LenProperties
<1>2. \A i \in 0..Len(a) : A[i] \in Nat /\ B[i] \in Nat
  BY SumsType
<1>3. \A i \in 0..Len(a) : /\ A[i] = IF i = 0 THEN 0 ELSE A[i - 1] + a[i]
                           /\ B[i] = IF i = 0 THEN 0 ELSE B[i - 1] + b[i]
  BY SumsDefined
<1> HIDE DEF A, B
<1>4. I = {}
  <2> SUFFICES ASSUME I # {} PROVE FALSE
    OBVIOUS
  <2>1. PICK n \in I : \A j \in I : n <= j
    <3>1. I \in SUBSET Nat
      BY <1>1
    <3> QED
      BY <3>1, FirstIndex
  <2>2. CASE n = 0
    <3>1. A[0] = 0 /\ B[0] = 0
      BY <1>1, <1>3
    <3>2. m * 0 = 0 /\ 0 + 0 * d = 0 /\ 0 \in Nat
      OBVIOUS
    <3>3. Like(m, d, 0, 0)
      BY <3>2 DEF Like
    <3> QED
      BY <2>1, <2>2, <3>1, <3>3
  <2>3. CASE n > 0
    <3>1. n \in 1..Len(a) /\ n - 1 \in 0..Len(a) /\ n \in 0..Len(a)
      BY <1>1, <2>3
    <3>2. Like(m, d, A[n - 1], B[n - 1])
      BY <1>1, <2>1, <3>1
    <3>3. /\ A[n] = A[n - 1] + a[n] /\ B[n] = B[n - 1] + b[n]
          /\ A[n - 1] \in Nat /\ B[n - 1] \in Nat
      BY <1>2, <1>3, <2>3, <3>1
    <3>4. a[n] \in Nat /\ b[n] \in Nat /\ Like(m, d, a[n], b[n])
      BY <3>1, ElementOfSeq
    <3>5. Like(m, d, A[n], B[n])
      <4>1. Like(m, d, A[n - 1] + a[n], B[n - 1] + b[n])
        BY <3>2, <3>3, <3>4, LikeSum
      <4> QED
        BY <3>3, <4>1
    <3> QED
      BY <2>1, <3>5
  <2> QED
    BY <1>1, <2>2, <2>3
<1>5. Like(m, d, A[Len(a)], B[Len(a)])
  BY <1>1, <1>4
<1> QED
  BY <1>5 DEF Algorithms!Sum, A, B

\* The two ways to pack two bytes into a word.
LEMMA TwoWords ==
    ASSUME NEW x \in 0..(Byte - 1), NEW y \in 0..(Byte - 1)
    PROVE  /\ x * 1 + y * Byte \in Nat /\ x * Byte + y * 1 \in Nat
           /\ Byte * (x * 1 + y * Byte) = (x * Byte + y * 1) + y * (Byte * Byte - 1)
           /\ x * 1 + y * Byte = 0 <=> x * Byte + y * 1 = 0
<1>1. Byte \in Nat /\ Byte >= 2 /\ x \in Nat /\ y \in Nat
  BY ByteSize DEF Algorithms!ByteIsByte
<1>2. x * Byte \in Nat /\ y * Byte \in Nat /\ x <= x * Byte /\ y <= y * Byte
  BY <1>1
<1>3. Byte * (x + y * Byte) = Byte * x + Byte * (y * Byte)
  BY <1>1, <1>2
<1>4. Byte * (y * Byte) = y * (Byte * Byte) /\ Byte * x = x * Byte
  BY <1>1
<1>5. y * (Byte * Byte - 1) = y * (Byte * Byte) - y
  BY <1>1
<1>6. x = 0 <=> x * Byte = 0
  BY <1>1, <1>2
<1>7. y = 0 <=> y * Byte = 0
  BY <1>1, <1>2
<1> QED
  BY <1>1, <1>2, <1>3, <1>4, <1>5, <1>6, <1>7

\* What is padded is bytes, and the words are what two bytes each make.
LEMMA PaddedType ==
    ASSUME NEW b \in Seq(0..(Byte - 1))
    PROVE  Algorithms!Padded(b) \in Seq(0..(Byte - 1))
<1>1. 0 \in 0..(Byte - 1)
  BY ByteSize DEF Algorithms!ByteIsByte
<1> DEFINE B == 0..(Byte - 1)
<1>2. b \in Seq(B) /\ 0 \in B
  BY <1>1
<1> HIDE DEF B
<1>3. <<0>> \in Seq(B)
  BY <1>2
<1>4. b \o <<0>> \in Seq(B)
  BY <1>2, <1>3, ConcatProperties
<1>5. Algorithms!Padded(b) \in Seq(B)
  BY <1>2, <1>4 DEF Algorithms!Padded
<1> QED
  BY <1>5 DEF B

LEMMA WordsAre ==
    ASSUME NEW b \in Seq(0..(Byte - 1)), NEW low \in Nat, NEW high \in Nat
    PROVE  /\ Algorithms!Words(b, low, high) \in Seq(Nat)
           /\ Len(Algorithms!Words(b, low, high)) = Len(b) \div 2
           /\ \A i \in 1..(Len(b) \div 2) :
                 /\ b[2 * i - 1] \in 0..(Byte - 1) /\ b[2 * i] \in 0..(Byte - 1)
                 /\ Algorithms!Words(b, low, high)[i] = b[2 * i - 1] * low + b[2 * i] * high
<1> DEFINE n == Len(b) \div 2
           w == Algorithms!Words(b, low, high)
<1>1. Len(b) \in Nat /\ n \in Nat /\ 2 * n <= Len(b)
  BY LenProperties
<1>2. ASSUME NEW i \in 1..n
      PROVE  /\ b[2 * i - 1] \in 0..(Byte - 1) /\ b[2 * i] \in 0..(Byte - 1)
  <2>1. 2 * i - 1 \in 1..Len(b) /\ 2 * i \in 1..Len(b)
    BY <1>1
  <2> QED
    BY <2>1, ElementOfSeq
<1>3. ASSUME NEW i \in 1..n PROVE b[2 * i - 1] * low + b[2 * i] * high \in Nat
  <2>1. b[2 * i - 1] \in Nat /\ b[2 * i] \in Nat
    BY <1>2
  <2>2. b[2 * i - 1] * low \in Nat /\ b[2 * i] * high \in Nat
    BY <2>1
  <2> QED
    BY <2>2
<1>4. w = [i \in 1..n |-> b[2 * i - 1] * low + b[2 * i] * high]
  BY DEF Algorithms!Words
<1> HIDE DEF w, n
<1>5. w \in [1..n -> Nat]
  BY <1>3, <1>4
<1>6. w \in Seq(Nat)
  BY <1>1, <1>5, SeqDef
<1>7. Len(w) \in Nat /\ 1..Len(w) = 1..n
  BY <1>5, <1>6, LenProperties
<1>8. Len(w) = n
  BY <1>1, <1>7
<1> QED
  BY <1>2, <1>4, <1>6, <1>8 DEF w, n

\* The carries commute with the exchange of the two bytes.
LEMMA SwapOnes ==
    ASSUME NEW x \in Nat, NEW y \in Nat, NEW k \in Nat, x = 0 <=> y = 0,
           Byte * x = y + k * (Byte * Byte - 1)
    PROVE  Algorithms!OnesSum(y) = Algorithms!Swapped(Algorithms!OnesSum(x))
<1> DEFINE m == Byte * Byte - 1
<1>1. /\ m \in Nat /\ m > 0 /\ Byte \in Nat /\ Byte >= 2 /\ m = Algorithms!Word - 1
      /\ Byte * Byte = m + 1
  BY WordIs, ByteSize DEF Algorithms!ByteIsByte
<1>2. CASE x = 0
  <2>1. 0 % Byte = 0 /\ 0 \div Byte = 0
    BY <1>1
  <2> QED
    BY <1>1, <1>2, <2>1 DEF Algorithms!OnesSum, Algorithms!Swapped
<1>3. CASE x > 0
  <2> DEFINE v == Ones(x, m)
             q == v \div Byte
             r == v % Byte
             s == r * Byte + q
  <2>0. Byte * x = y + k * m
    OBVIOUS
  <2> HIDE DEF m
  <2>1. v \in 1..m
    BY <1>1, <1>3, OnesIs
  <2>2. PICK l \in Nat : x = v + l * m
    BY <1>1, <1>3, OnesIs
  <2> HIDE DEF v
  <2>3. q \in Nat /\ r \in 0..(Byte - 1) /\ v = q * Byte + r
    BY <1>1, <2>1, DivMod
  <2> HIDE DEF q, r
  <2>4. q \in 0..(Byte - 1)
    <3> SUFFICES ASSUME q >= Byte PROVE FALSE
      BY <1>1, <2>3
    <3>1. Byte * Byte <= q * Byte /\ q * Byte \in Nat
      BY <1>1, <2>3, Mono
    <3> QED
      BY <1>1, <2>1, <2>3, <3>1
  <2>5. s \in 1..m
    <3>1. r * Byte \in Nat /\ r * Byte <= (Byte - 1) * Byte
      BY <1>1, <2>3, Mono
    <3>2. (Byte - 1) * Byte = Byte * Byte - Byte
      BY <1>1
    <3>3. s <= m
      BY <1>1, <2>4, <3>1, <3>2
    <3>4. r * Byte = 0 => r = 0
      BY <1>1, <2>3
    <3>5. q = 0 /\ r = 0 => v = 0
      BY <1>1, <2>3
    <3> QED
      BY <1>1, <2>1, <2>3, <2>4, <3>1, <3>3, <3>4, <3>5
  <2>6. Byte * v = s + q * m
    <3>1. Byte * v = Byte * (q * Byte) + Byte * r
      BY <1>1, <2>3
    <3>2. Byte * (q * Byte) = q * (Byte * Byte)
      BY <1>1, <2>3
    <3>3. q * (m + 1) = q * m + q
      BY <1>1, <2>3
    <3>4. Byte * r = r * Byte /\ r * Byte \in Int /\ q * m \in Int
      BY <1>1, <2>3
    <3>5. Byte * v = (q * m + q) + r * Byte
      BY <1>1, <3>1, <3>2, <3>3, <3>4
    <3> QED
      BY <2>3, <3>4, <3>5
  <2>7. y = s + (q + Byte * l - k) * m
    <3>1. Byte * x = Byte * v + (Byte * l) * m
      BY <1>1, <2>1, <2>2
    <3>2. (q + Byte * l - k) * m = q * m + (Byte * l) * m - k * m
      BY <1>1, <2>2, <2>3
    <3>3. y = Byte * x - k * m
      BY <1>1, <2>0
    <3>4. /\ q * m \in Int /\ (Byte * l) * m \in Int /\ k * m \in Int /\ s \in Int
          /\ (q + Byte * l - k) * m \in Int /\ Byte * x \in Int /\ Byte * v \in Int
      BY <1>1, <2>1, <2>2, <2>3, <2>5
    <3> QED
      BY <2>6, <3>1, <3>2, <3>3, <3>4
  <2>8. q + Byte * l - k \in Int /\ y > 0
    BY <1>1, <1>3, <2>2, <2>3
  <2> HIDE DEF s
  <2>9. Ones(y, m) = s
    BY <1>1, <2>5, <2>7, <2>8, OnesUnique
  <2> QED
    BY <1>1, <2>9, SameOnes DEF s, q, r, v, Algorithms!Swapped
<1> QED
  BY <1>2, <1>3

\* The checksum of any bytes is the complement of the one's complement sum.
LEMMA ChecksumIs ==
    ASSUME NEW b \in Seq(0..(Byte - 1))
    PROVE  Algorithms!Checksum(b) = Algorithms!Word - 1 -
               Algorithms!OnesSum(Algorithms!Sum(Algorithms!Words(Algorithms!Padded(b), 1, Byte)))
<1> DEFINE w == Algorithms!Words(Algorithms!Padded(b), 1, Byte)
<1>1. w \in Seq(Nat)
  BY PaddedType, WordsAre, ByteSize DEF Algorithms!ByteIsByte
<1> HIDE DEF w
<1>2. Algorithms!Sum(w) \in Nat
  BY <1>1, SumIsNatural
<1>3. Algorithms!Fold[Algorithms!Sum(w)] = Algorithms!OnesSum(Algorithms!Sum(w))
  BY <1>2, FoldIsOnes
<1> QED
  BY <1>3 DEF w, Algorithms!Checksum, Algorithms!Folded

\* Words summed the other way round give the sum with its bytes exchanged.
LEMMA OrderFree ==
    ASSUME NEW b \in Seq(0..(Byte - 1))
    PROVE  Algorithms!Folded(Algorithms!Sum(Algorithms!Words(b, Byte, 1))) =
               Algorithms!Swapped(Algorithms!Folded(Algorithms!Sum(Algorithms!Words(b, 1, Byte))))
<1> DEFINE v == Algorithms!Words(b, 1, Byte)
           w == Algorithms!Words(b, Byte, 1)
           d == Byte * Byte - 1
<1>1. Byte \in Nat /\ d \in Nat
  <2>1. Byte \in Nat
    BY ByteSize DEF Algorithms!ByteIsByte
  <2> QED
    BY <2>1, WordIs
<1>2. v \in Seq(Nat) /\ w \in Seq(Nat) /\ Len(v) = Len(b) \div 2 /\ Len(w) = Len(b) \div 2
  BY <1>1, WordsAre
<1>3. ASSUME NEW i \in 1..(Len(b) \div 2)
      PROVE  Like(Byte, d, v[i], w[i])
  <2>1. b[2 * i - 1] \in 0..(Byte - 1) /\ b[2 * i] \in 0..(Byte - 1)
    BY <1>1, WordsAre
  <2>2. v[i] = b[2 * i - 1] * 1 + b[2 * i] * Byte
    BY <1>1, WordsAre
  <2>3. w[i] = b[2 * i - 1] * Byte + b[2 * i] * 1
    BY <1>1, WordsAre
  <2> HIDE DEF v, w
  <2>4. ASSUME NEW x \in 0..(Byte - 1), NEW y \in 0..(Byte - 1)
        PROVE  Like(Byte, d, x * 1 + y * Byte, x * Byte + y * 1)
    <3>1. y \in Nat
      OBVIOUS
    <3> QED
      BY <3>1, TwoWords DEF Like
  <2> QED
    BY <2>1, <2>2, <2>3, <2>4
<1> HIDE DEF v, w, d
<1>4. Like(Byte, d, Algorithms!Sum(v), Algorithms!Sum(w))
  <2>1. Len(v) = Len(w) /\ \A i \in 1..Len(v) : Like(Byte, d, v[i], w[i])
    BY <1>2, <1>3
  <2> QED
    BY <1>1, <1>2, <2>1, SumsAlike
<1>5. Algorithms!Sum(v) \in Nat /\ Algorithms!Sum(w) \in Nat
  BY <1>2, SumIsNatural
<1>6. Algorithms!OnesSum(Algorithms!Sum(w)) = Algorithms!Swapped(Algorithms!OnesSum(Algorithms!Sum(v)))
  <2>1. PICK k \in Nat : Byte * Algorithms!Sum(v) = Algorithms!Sum(w) + k * d
    BY <1>4 DEF Like
  <2>2. Algorithms!Sum(v) = 0 <=> Algorithms!Sum(w) = 0
    BY <1>4 DEF Like
  <2> QED
    BY <1>5, <2>1, <2>2, SwapOnes DEF d
<1>7. /\ Algorithms!Fold[Algorithms!Sum(w)] = Algorithms!OnesSum(Algorithms!Sum(w))
      /\ Algorithms!Fold[Algorithms!Sum(v)] = Algorithms!OnesSum(Algorithms!Sum(v))
  BY <1>5, FoldIsOnes
<1> QED
  BY <1>6, <1>7 DEF v, w, Algorithms!Folded

\* The bytes of a block are bytes.
BytesArrive == aKind = "block" => aInput \in Seq(0..(Byte - 1))

AlgorithmsSpec == Algorithms!Spec

(***************************************************************************)
(* tcp_checksum is the one's complement checksum of any block, however many*)
(* carries there are; and _checksum_stream misses nothing by summing the   *)
(* words in one byte order.                                                *)
(***************************************************************************)
THEOREM ChecksumIsInternet == AlgorithmsSpec => []ChecksumRight
<1>1. Algorithms!Init => BytesArrive
  <2>1. << >> \in Seq(0..(Byte - 1))
    BY EmptySeq
  <2> QED
    BY <2>1 DEF Algorithms!Init, BytesArrive
<1>2. BytesArrive /\ [Algorithms!Next]_(Algorithms!vars) => BytesArrive'
  <2> SUFFICES ASSUME BytesArrive, [Algorithms!Next]_(Algorithms!vars)
               PROVE  BytesArrive'
    OBVIOUS
  <2>1. CASE Algorithms!NextByte
    <3>1. PICK x \in 0..(Byte - 1) : aInput' = Append(aInput, x)
      BY <2>1 DEF Algorithms!NextByte
    <3>2. aInput \in Seq(0..(Byte - 1))
      BY <2>1 DEF Algorithms!NextByte, BytesArrive
    <3> QED
      BY <3>1, <3>2, AppendProperties DEF BytesArrive
  <2>2. CASE Algorithms!Receive
    BY <2>2 DEF Algorithms!Receive, BytesArrive
  <2>3. CASE UNCHANGED Algorithms!vars
    BY <2>3 DEF BytesArrive, Algorithms!vars
  <2> QED
    BY <2>1, <2>2, <2>3 DEF Algorithms!Next
<1>3. BytesArrive => ChecksumRight
  <2> SUFFICES ASSUME BytesArrive, aKind = "block" PROVE ChecksumRight
    BY DEF ChecksumRight, Algorithms!ChecksumCorrect, Algorithms!ByteOrderFree
  <2>1. aInput \in Seq(0..(Byte - 1))
    BY DEF BytesArrive
  <2>2. Algorithms!Padded(aInput) \in Seq(0..(Byte - 1))
    BY <2>1, PaddedType
  <2> QED
    BY <2>1, <2>2, ChecksumIs, OrderFree
       DEF ChecksumRight, Algorithms!ChecksumCorrect, Algorithms!ByteOrderFree
<1> QED
  BY <1>1, <1>2, <1>3, PTL DEF AlgorithmsSpec, Algorithms!Spec, Algorithms!vars

-----------------------------------------------------------------------------
(***************************************************************************)
(* What a tar and a body give, for any number and size of members and any  *)
(* payload.                                                                *)
(***************************************************************************)
\* A member of a tar.
Member == [size : 0..MaxMember, file : BOOLEAN]

\* What a member takes is at least its size.
LEMMA BlocksHold ==
    ASSUME NEW size \in Nat
    PROVE  Algorithms!Blocks(size) \in Nat /\ Algorithms!Blocks(size) >= size
<1> DEFINE d == BlockSize
           q == (size + d - 1) \div d
           r == (size + d - 1) % d
<1>1. d \in Nat /\ d > 0 /\ size + d - 1 \in Nat
  BY BlockSizes DEF Algorithms!BlockIsBlock
<1>2. q \in Nat /\ r \in 0..(d - 1) /\ size + d - 1 = q * d + r
  BY <1>1, DivMod
<1>3. q * d \in Nat /\ q * d >= size
  <2> HIDE DEF q, r
  <2>1. q * d \in Int
    BY <1>1, <1>2
  <2> QED
    BY <1>1, <1>2, <2>1
<1> QED
  BY <1>3 DEF Algorithms!Blocks

\* The sums of two sequences agree as far as the sequences do.
LEMMA SumsOfPrefix ==
    ASSUME NEW S, NEW a \in Seq(S), NEW b \in Seq(S), Len(b) <= Len(a),
           \A i \in 1..Len(b) : a[i] = b[i]
    PROVE  \A i \in 0..Len(b) : Algorithms!Sums(a)[i] = Algorithms!Sums(b)[i]
<1> DEFINE I == {i \in 0..Len(b) : Algorithms!Sums(a)[i] # Algorithms!Sums(b)[i]}
<1> SUFFICES ASSUME I # {} PROVE FALSE
  OBVIOUS
<1>1. Len(a) \in Nat /\ Len(b) \in Nat
  BY LenProperties
<1>2. PICK n \in I : \A j \in I : n <= j
  <2>1. I \in SUBSET Nat
    BY <1>1
  <2> QED
    BY <2>1, FirstIndex
<1>3. /\ Algorithms!Sums(a)[n] = IF n = 0 THEN 0 ELSE Algorithms!Sums(a)[n - 1] + a[n]
      /\ Algorithms!Sums(b)[n] = IF n = 0 THEN 0 ELSE Algorithms!Sums(b)[n - 1] + b[n]
  <2>1. n \in 0..Len(a) /\ n \in 0..Len(b)
    BY <1>1
  <2> QED
    BY <2>1, SumsDefined
<1>4. n > 0 => n - 1 \in 0..Len(b) /\ n \in 1..Len(b)
  BY <1>1
<1>5. n > 0 => Algorithms!Sums(a)[n - 1] = Algorithms!Sums(b)[n - 1] /\ a[n] = b[n]
  BY <1>1, <1>2, <1>4
<1> QED
  BY <1>1, <1>3, <1>5

\* A member of a tar has a size and is a file or not.
LEMMA MemberSize ==
    ASSUME NEW tar \in Seq(Member), NEW m \in 1..Len(tar)
    PROVE  tar[m] \in Member /\ tar[m].size \in Nat /\ tar[m].file \in BOOLEAN
<1>1. tar[m] \in Member
  BY ElementOfSeq
<1> QED
  BY <1>1, BlockSizes DEF Member, Algorithms!BlockIsBlock

\* What the data of the first k members takes.
Spans(tar, k) == [i \in 1..k |-> Algorithms!Blocks(tar[i].size)]

LEMMA SpansType ==
    ASSUME NEW tar \in Seq(Member), NEW k \in 0..Len(tar)
    PROVE  Spans(tar, k) \in Seq(Nat) /\ Len(Spans(tar, k)) = k
<1>1. Len(tar) \in Nat /\ k \in Nat
  BY LenProperties
<1>2. \A i \in 1..k : Algorithms!Blocks(tar[i].size) \in Nat
  <2> TAKE i \in 1..k
  <2>1. i \in 1..Len(tar)
    BY <1>1
  <2>2. tar[i].size \in Nat
    BY <2>1, MemberSize
  <2> QED
    BY <2>2, BlocksHold
<1>3. Spans(tar, k) \in [1..k -> Nat]
  BY <1>2 DEF Spans
<1> QED
  BY <1>1, <1>3

\* The first header is at the start of the tar.
LEMMA HeaderFirst ==
    ASSUME NEW tar PROVE Algorithms!HeaderAt(tar, 1) = 0
<1>1. Algorithms!HeaderAt(tar, 1) = 0 * BlockSize + Algorithms!Sum(Spans(tar, 0))
  BY DEF Algorithms!HeaderAt, Spans
<1>2. Spans(tar, 0) \in Seq(Nat) /\ Len(Spans(tar, 0)) = 0
  BY DEF Spans
<1>3. Algorithms!Sums(Spans(tar, 0))[0] = 0
  BY <1>2, SumsDefined
<1> QED
  BY <1>1, <1>2, <1>3, BlockSizes DEF Algorithms!Sum, Algorithms!BlockIsBlock

\* A member takes a header and its blocks.
LEMMA HeaderNext ==
    ASSUME NEW tar \in Seq(Member), NEW m \in 1..Len(tar)
    PROVE  /\ tar[m] \in Member /\ Algorithms!HeaderAt(tar, m) \in Nat
           /\ Algorithms!HeaderAt(tar, m + 1) =
                  Algorithms!HeaderAt(tar, m) + BlockSize + Algorithms!Blocks(tar[m].size)
<1> DEFINE a == Spans(tar, m)
           b == Spans(tar, m - 1)
<1>1. Len(tar) \in Nat /\ m \in Nat /\ m > 0 /\ m - 1 \in 0..Len(tar) /\ m \in 0..Len(tar)
  BY LenProperties
<1>2. a \in Seq(Nat) /\ Len(a) = m /\ b \in Seq(Nat) /\ Len(b) = m - 1
  BY <1>1, SpansType
<1>3. \A i \in 1..(m - 1) : a[i] = b[i]
  BY <1>1 DEF Spans
<1>4. a[m] = Algorithms!Blocks(tar[m].size)
  BY <1>1 DEF Spans
<1>5. /\ Algorithms!HeaderAt(tar, m) = (m - 1) * BlockSize + Algorithms!Sum(b)
      /\ Algorithms!HeaderAt(tar, m + 1) = m * BlockSize + Algorithms!Sum(a)
  <2>1. (m + 1) - 1 = m
    BY <1>1
  <2> QED
    BY <2>1 DEF Algorithms!HeaderAt, Spans
<1> HIDE DEF a, b
<1>6. Algorithms!Sum(a) = Algorithms!Sum(b) + Algorithms!Blocks(tar[m].size)
  <2>1. Algorithms!Sums(a)[m] = Algorithms!Sums(a)[m - 1] + a[m]
    <3>1. \A i \in 0..Len(a) :
             Algorithms!Sums(a)[i] = IF i = 0 THEN 0 ELSE Algorithms!Sums(a)[i - 1] + a[i]
      BY <1>2, SumsDefined
    <3> QED
      BY <1>1, <1>2, <3>1
  <2>2. Algorithms!Sums(a)[m - 1] = Algorithms!Sums(b)[m - 1]
    <3>1. Len(b) <= Len(a) /\ \A i \in 1..Len(b) : a[i] = b[i]
      BY <1>1, <1>2, <1>3
    <3>2. \A i \in 0..Len(b) : Algorithms!Sums(a)[i] = Algorithms!Sums(b)[i]
      BY <1>2, <3>1, SumsOfPrefix
    <3> QED
      BY <1>1, <1>2, <3>2
  <2> QED
    BY <1>2, <1>4, <2>1, <2>2 DEF Algorithms!Sum
<1>7. Algorithms!Sum(b) \in Nat
  BY <1>2, SumIsNatural
<1>8. tar[m] \in Member
  BY MemberSize
<1>9. Algorithms!Blocks(tar[m].size) \in Nat
  <2>1. tar[m].size \in Nat
    BY MemberSize
  <2> QED
    BY <2>1, BlocksHold
<1>10. /\ BlockSize \in Nat /\ m * BlockSize = (m - 1) * BlockSize + BlockSize
       /\ (m - 1) * BlockSize \in Nat
  <2>1. BlockSize \in Nat
    BY BlockSizes DEF Algorithms!BlockIsBlock
  <2> QED
    BY <1>1, <2>1
<1> QED
  BY <1>1, <1>5, <1>6, <1>7, <1>8, <1>9, <1>10

\* The data of a member ends before the header of every later one.
LEMMA HeadersGrow ==
    ASSUME NEW tar \in Seq(Member), NEW m \in 1..Len(tar)
    PROVE  \A k \in (m + 1)..(Len(tar) + 1) :
              /\ Algorithms!HeaderAt(tar, k) \in Nat
              /\ Algorithms!HeaderAt(tar, k) >= Algorithms!HeaderAt(tar, m + 1)
              /\ Algorithms!HeaderAt(tar, k) >= Algorithms!DataEnd(tar, m)
              /\ Algorithms!HeaderAt(tar, k) > Algorithms!HeaderAt(tar, m)
<1> DEFINE I == {k \in (m + 1)..(Len(tar) + 1) :
                   ~ (/\ Algorithms!HeaderAt(tar, k) \in Nat
                      /\ Algorithms!HeaderAt(tar, k) >= Algorithms!HeaderAt(tar, m + 1))}
<1>1. Len(tar) \in Nat /\ m \in Nat /\ m > 0 /\ BlockSize \in Nat /\ BlockSize > 0
  BY LenProperties, BlockSizes DEF Algorithms!BlockIsBlock
<1>2. /\ tar[m].size \in Nat
      /\ Algorithms!HeaderAt(tar, m) \in Nat
      /\ Algorithms!HeaderAt(tar, m + 1) =
             Algorithms!HeaderAt(tar, m) + BlockSize + Algorithms!Blocks(tar[m].size)
      /\ Algorithms!Blocks(tar[m].size) \in Nat /\ Algorithms!Blocks(tar[m].size) >= tar[m].size
  <2>1. tar[m].size \in Nat
    BY MemberSize
  <2> QED
    BY <2>1, HeaderNext, BlocksHold
<1>3. I = {}
  <2> SUFFICES ASSUME I # {} PROVE FALSE
    OBVIOUS
  <2>1. PICK k \in I : \A j \in I : k <= j
    <3>1. I \in SUBSET Nat
      BY <1>1
    <3> QED
      BY <3>1, FirstIndex
  <2>2. k \in Nat /\ k > m + 1 /\ k <= Len(tar) + 1
    BY <1>1, <1>2, <2>1
  <2> DEFINE j == k - 1
  <2>3. j \in (m + 1)..(Len(tar) + 1) /\ j \notin I /\ j \in 1..Len(tar) /\ j + 1 = k
    BY <1>1, <2>1, <2>2
  <2> HIDE DEF j
  <2>4. tar[j].size \in Nat
    BY <2>3, MemberSize
  <2>5. /\ Algorithms!HeaderAt(tar, j) \in Nat
        /\ Algorithms!HeaderAt(tar, k) =
              Algorithms!HeaderAt(tar, j) + BlockSize + Algorithms!Blocks(tar[j].size)
        /\ Algorithms!Blocks(tar[j].size) \in Nat
    BY <2>3, <2>4, HeaderNext, BlocksHold
  <2>6. Algorithms!HeaderAt(tar, j) >= Algorithms!HeaderAt(tar, m + 1)
    BY <2>3
  <2>7. /\ Algorithms!HeaderAt(tar, k) \in Nat
        /\ Algorithms!HeaderAt(tar, k) >= Algorithms!HeaderAt(tar, m + 1)
    <3> HIDE DEF I
    <3> QED
      BY <1>1, <1>2, <2>5, <2>6
  <2>8. k \notin I
    BY <2>7
  <2> QED
    BY <2>1, <2>8
<1>4. ASSUME NEW k \in (m + 1)..(Len(tar) + 1)
      PROVE  /\ Algorithms!HeaderAt(tar, k) \in Nat
             /\ Algorithms!HeaderAt(tar, k) >= Algorithms!HeaderAt(tar, m + 1)
  BY <1>3
<1> HIDE DEF I
<1> QED
  BY <1>1, <1>2, <1>4 DEF Algorithms!DataEnd

\* Headers are apart: one member, or none, begins at an offset.
LEMMA OneHeader ==
    ASSUME NEW tar \in Seq(Member), NEW m \in 1..Len(tar)
    PROVE  Algorithms!At(tar, Algorithms!HeaderAt(tar, m)) = {m}
<1>1. Len(tar) \in Nat
  BY LenProperties
<1>2. ASSUME NEW k \in 1..Len(tar), NEW j \in 1..Len(tar), j < k
      PROVE  Algorithms!HeaderAt(tar, k) # Algorithms!HeaderAt(tar, j)
  <2>1. Algorithms!HeaderAt(tar, k) > Algorithms!HeaderAt(tar, j)
    <3>1. k \in (j + 1)..(Len(tar) + 1)
      BY <1>1, <1>2
    <3> QED
      BY <3>1, HeadersGrow
  <2>2. Algorithms!HeaderAt(tar, k) \in Nat /\ Algorithms!HeaderAt(tar, j) \in Nat
    BY HeaderNext
  <2> QED
    BY <2>1, <2>2
<1>3. ASSUME NEW k \in 1..Len(tar), Algorithms!HeaderAt(tar, k) = Algorithms!HeaderAt(tar, m)
      PROVE  k = m
  <2>1. k < m \/ m < k \/ k = m
    BY <1>1
  <2> QED
    BY <1>2, <1>3, <2>1
<1> QED
  BY <1>3 DEF Algorithms!At

\* Whatever a member takes is in the tar.
LEMMA HeadersEnd ==
    ASSUME NEW tar \in Seq(Member), NEW m \in 1..Len(tar)
    PROVE  /\ Algorithms!HeaderAt(tar, m + 1) \in Nat
           /\ Algorithms!HeaderAt(tar, m) < Algorithms!HeaderAt(tar, m + 1)
           /\ Algorithms!HeaderAt(tar, m + 1) <= Algorithms!HeaderAt(tar, Len(tar) + 1)
           /\ Algorithms!HeaderAt(tar, Len(tar) + 1) <= Algorithms!TarLen(tar)
           /\ Algorithms!HeaderAt(tar, Len(tar) + 1) \in Nat
           /\ Algorithms!TarLen(tar) \in Nat
           /\ Algorithms!DataEnd(tar, m) <= Algorithms!HeaderAt(tar, Len(tar) + 1)
<1>1. Len(tar) \in Nat /\ BlockSize \in Nat
  BY LenProperties, BlockSizes DEF Algorithms!BlockIsBlock
<1>2. m + 1 \in (m + 1)..(Len(tar) + 1) /\ Len(tar) + 1 \in (m + 1)..(Len(tar) + 1)
  BY <1>1
<1>3. /\ Algorithms!HeaderAt(tar, m + 1) \in Nat
      /\ Algorithms!HeaderAt(tar, m + 1) > Algorithms!HeaderAt(tar, m)
      /\ Algorithms!HeaderAt(tar, Len(tar) + 1) \in Nat
      /\ Algorithms!HeaderAt(tar, Len(tar) + 1) >= Algorithms!HeaderAt(tar, m + 1)
      /\ Algorithms!HeaderAt(tar, Len(tar) + 1) >= Algorithms!DataEnd(tar, m)
  BY <1>2, HeadersGrow
<1>4. tar[m].size \in Nat /\ Algorithms!HeaderAt(tar, m) \in Nat
  BY MemberSize, HeaderNext
<1>5. 2 * BlockSize \in Nat
  BY <1>1
<1>6. Algorithms!DataEnd(tar, m) \in Nat
  BY <1>1, <1>4 DEF Algorithms!DataEnd
<1> QED
  BY <1>3, <1>4, <1>5, <1>6 DEF Algorithms!TarLen

\* The closing blocks are in the tar, and are no header.
LEMMA LastHeader ==
    ASSUME NEW tar \in Seq(Member)
    PROVE  /\ Algorithms!HeaderAt(tar, Len(tar) + 1) \in 0..Algorithms!TarLen(tar)
           /\ Algorithms!TarLen(tar) \in Nat
<1> DEFINE pos == Algorithms!HeaderAt(tar, Len(tar) + 1)
<1>1. Len(tar) \in Nat /\ 2 * BlockSize \in Nat
  BY LenProperties, BlockSizes DEF Algorithms!BlockIsBlock
<1>2. pos \in Nat
  <2>1. CASE Len(tar) = 0
    BY <2>1, HeaderFirst
  <2>2. CASE Len(tar) # 0
    <3>1. Len(tar) \in 1..Len(tar)
      BY <1>1, <2>2
    <3> QED
      BY <3>1, HeadersEnd
  <2> QED
    BY <2>1, <2>2
<1>3. Algorithms!TarLen(tar) = pos + 2 * BlockSize
  BY DEF Algorithms!TarLen
<1> HIDE DEF pos
<1> QED
  BY <1>1, <1>2, <1>3 DEF pos

LEMMA NoHeaderAtEnd ==
    ASSUME NEW tar \in Seq(Member)
    PROVE  Algorithms!At(tar, Algorithms!HeaderAt(tar, Len(tar) + 1)) = {}
<1>1. ASSUME NEW m \in 1..Len(tar)
      PROVE  Algorithms!HeaderAt(tar, m) # Algorithms!HeaderAt(tar, Len(tar) + 1)
  <2>1. Algorithms!HeaderAt(tar, m) \in Nat
    BY HeaderNext
  <2> QED
    BY <2>1, HeadersEnd
<1> QED
  BY <1>1 DEF Algorithms!At

\* The members from pos on whose header has arrived.
Reached(tar, n, pos) ==
    {m \in 1..Len(tar) : /\ Algorithms!HeaderAt(tar, m) >= pos
                         /\ Algorithms!HeaderAt(tar, m) + BlockSize <= n}

\* Those from a header on: none, or its member and those from the next header on.
LEMMA ReachedNext ==
    ASSUME NEW tar \in Seq(Member), NEW m \in 1..Len(tar), NEW n \in Nat
    PROVE  LET here == Algorithms!HeaderAt(tar, m)
               next == Algorithms!HeaderAt(tar, m + 1)
           IN  /\ here + BlockSize > n => Reached(tar, n, here) = {}
               /\ here + BlockSize <= n => Reached(tar, n, here) = {m} \cup Reached(tar, n, next)
<1> DEFINE here == Algorithms!HeaderAt(tar, m)
           next == Algorithms!HeaderAt(tar, m + 1)
<1>1. Len(tar) \in Nat /\ BlockSize \in Nat /\ here \in Nat /\ next \in Nat /\ here < next
  BY LenProperties, HeaderNext, HeadersEnd, BlockSizes DEF Algorithms!BlockIsBlock
<1>2. \A k \in 1..Len(tar) : Algorithms!HeaderAt(tar, k) \in Nat
  BY HeaderNext
<1>3. ASSUME NEW k \in 1..Len(tar), k # m
      PROVE  Algorithms!HeaderAt(tar, k) >= here <=> Algorithms!HeaderAt(tar, k) >= next
  <2>1. CASE k > m
    <3>1. k \in (m + 1)..(Len(tar) + 1)
      BY <1>1, <2>1
    <3>2. Algorithms!HeaderAt(tar, k) >= next /\ Algorithms!HeaderAt(tar, k) > here
      BY <3>1, HeadersGrow
    <3> QED
      BY <1>1, <1>2, <3>2
  <2>2. CASE k < m
    <3>1. m \in (k + 1)..(Len(tar) + 1)
      BY <1>1, <2>2
    <3>2. here > Algorithms!HeaderAt(tar, k)
      BY <3>1, HeadersGrow
    <3> QED
      BY <1>1, <1>2, <3>2
  <2> QED
    BY <1>1, <1>3, <2>1, <2>2
<1> HIDE DEF here, next
<1>4. CASE here + BlockSize > n
  BY <1>1, <1>2, <1>4 DEF Reached, here, next
<1>5. CASE here + BlockSize <= n
  <2>1. Algorithms!HeaderAt(tar, m) = here
    BY DEF here
  <2>2. Reached(tar, n, here) = {m} \cup Reached(tar, n, next)
    BY <1>1, <1>2, <1>3, <1>5, <2>1 DEF Reached
  <2> QED
    BY <1>1, <1>5, <2>2 DEF here, next
<1> QED
  BY <1>1, <1>4, <1>5

\* None from the closing blocks on.
LEMMA NoneAfterLast ==
    ASSUME NEW n, NEW tar \in Seq(Member)
    PROVE  Reached(tar, n, Algorithms!HeaderAt(tar, Len(tar) + 1)) = {}
<1>1. ASSUME NEW m \in 1..Len(tar)
      PROVE  ~ (Algorithms!HeaderAt(tar, m) >= Algorithms!HeaderAt(tar, Len(tar) + 1))
  <2>1. Algorithms!HeaderAt(tar, m) \in Nat
    BY HeaderNext
  <2> QED
    BY <2>1, HeadersEnd
<1> QED
  BY <1>1 DEF Reached

\* There is a file among the members from pos on, and those that are files are
\* whole: what the walk finds there, or did before.
Whole(tar, n, pos) ==
    \A m \in Reached(tar, n, pos) : tar[m].file => Algorithms!DataEnd(tar, m) <= n

Sought(tar, n, pos, saw) ==
    (saw \/ \E m \in Reached(tar, n, pos) : tar[m].file) /\ Whole(tar, n, pos)

\* The same for what is sought.
LEMMA SoughtNext ==
    ASSUME NEW tar \in Seq(Member), NEW m \in 1..Len(tar), NEW n \in Nat, NEW saw \in BOOLEAN
    PROVE  LET here == Algorithms!HeaderAt(tar, m)
               next == Algorithms!HeaderAt(tar, m + 1)
           IN  Sought(tar, n, here, saw) <=>
                  \/ here + BlockSize > n /\ saw
                  \/ /\ here + BlockSize <= n
                     /\ tar[m].file => Algorithms!EndsWithin(here, tar[m].size, n)
                     /\ saw \/ tar[m].file \/ \E k \in Reached(tar, n, next) : tar[k].file
                     /\ Whole(tar, n, next)
<1> DEFINE here == Algorithms!HeaderAt(tar, m)
           next == Algorithms!HeaderAt(tar, m + 1)
<1>1. BlockSize \in Nat /\ here \in Nat
  BY HeaderNext, BlockSizes DEF Algorithms!BlockIsBlock
<1>2. Algorithms!EndsWithin(here, tar[m].size, n) <=> Algorithms!DataEnd(tar, m) <= n
  BY DEF Algorithms!EndsWithin, Algorithms!DataEnd
<1>3. here + BlockSize > n => Reached(tar, n, here) = {}
  BY ReachedNext
<1>4. here + BlockSize <= n => Reached(tar, n, here) = {m} \cup Reached(tar, n, next)
  BY ReachedNext
<1> HIDE DEF here, next
<1>5. CASE here + BlockSize > n
  <2>1. Sought(tar, n, here, saw) <=> saw
    BY <1>3, <1>5 DEF Sought, Whole
  <2>2. ~(here + BlockSize <= n)
    BY <1>1, <1>5
  <2> QED
    BY <1>5, <2>1, <2>2 DEF here, next
<1>6. CASE here + BlockSize <= n
  <2>1. Reached(tar, n, here) = {m} \cup Reached(tar, n, next)
    BY <1>4, <1>6
  <2>2. Whole(tar, n, here) <=>
           (tar[m].file => Algorithms!DataEnd(tar, m) <= n) /\ Whole(tar, n, next)
    BY <2>1, Zenon DEF Whole
  <2>3. (\E k \in Reached(tar, n, here) : tar[k].file) <=>
           tar[m].file \/ \E k \in Reached(tar, n, next) : tar[k].file
    BY <2>1, Zenon
  <2>4. ~(here + BlockSize > n)
    BY <1>1, <1>6
  <2>5. Sought(tar, n, here, saw) <=>
           /\ tar[m].file => Algorithms!EndsWithin(here, tar[m].size, n)
           /\ saw \/ tar[m].file \/ \E k \in Reached(tar, n, next) : tar[k].file
           /\ Whole(tar, n, next)
    BY <1>2, <2>2, <2>3, Zenon DEF Sought
  <2> QED
    BY <1>6, <2>4, <2>5, Zenon DEF here, next
<1>7. here + BlockSize > n \/ here + BlockSize <= n
  BY <1>1
<1> QED
  BY <1>5, <1>6, <1>7

\* One turn of the loop of tar_media_complete, w being what the next one gives.
Turn(w, tar, n, pos, saw) ==
    IF pos + BlockSize > n \/ Algorithms!At(tar, pos) = {} THEN saw
    ELSE LET member == tar[CHOOSE m \in Algorithms!At(tar, pos) : TRUE]
             next == w[pos + BlockSize + Algorithms!Blocks(member.size)]
         IN  IF member.file
             THEN Algorithms!EndsWithin(pos, member.size, n) /\ next[TRUE]
             ELSE next[saw]

Turns(w, tar, n) ==
    [pos \in 0..Algorithms!TarLen(tar) |-> [saw \in BOOLEAN |-> Turn(w, tar, n, pos, saw)]]

\* The walk is a solution of its equation if there is one.
LEMMA WalkTurns ==
    ASSUME NEW tar, NEW n, NEW g, g = Turns(g, tar, n)
    PROVE  Algorithms!Walk(tar, n) = Turns(Algorithms!Walk(tar, n), tar, n)
BY DEF Algorithms!Walk, Turns, Turn

\* A turn gives what is sought if the next one does.
LEMMA TurnFinds ==
    ASSUME NEW w, NEW tar \in Seq(Member), NEW m \in 1..Len(tar), NEW n \in Nat,
           NEW saw \in BOOLEAN,
           \A b \in BOOLEAN : w[Algorithms!HeaderAt(tar, m + 1)][b] =
                                 Sought(tar, n, Algorithms!HeaderAt(tar, m + 1), b)
    PROVE  Turn(w, tar, n, Algorithms!HeaderAt(tar, m), saw) =
               Sought(tar, n, Algorithms!HeaderAt(tar, m), saw)
<1> DEFINE here == Algorithms!HeaderAt(tar, m)
           next == Algorithms!HeaderAt(tar, m + 1)
           k == CHOOSE j \in Algorithms!At(tar, here) : TRUE
           some == \E j \in Reached(tar, n, next) : tar[j].file
           ends == Algorithms!EndsWithin(here, tar[m].size, n)
<1>1. Algorithms!At(tar, here) = {m}
  BY OneHeader
<1>2. k = m
  BY <1>1
<1>3. next = here + BlockSize + Algorithms!Blocks(tar[m].size)
  BY HeaderNext
<1>4. Turn(w, tar, n, here, saw) =
         IF here + BlockSize > n THEN saw
         ELSE IF tar[m].file THEN ends /\ w[next][TRUE] ELSE w[next][saw]
  <2>1. Turn(w, tar, n, here, saw) =
           IF here + BlockSize > n \/ Algorithms!At(tar, here) = {} THEN saw
           ELSE IF tar[k].file
           THEN /\ Algorithms!EndsWithin(here, tar[k].size, n)
                /\ w[here + BlockSize + Algorithms!Blocks(tar[k].size)][TRUE]
           ELSE w[here + BlockSize + Algorithms!Blocks(tar[k].size)][saw]
    BY DEF Turn
  <2> HIDE DEF k
  <2> QED
    BY <1>1, <1>2, <1>3, <2>1
<1>5. /\ w[next][TRUE] <=> Whole(tar, n, next)
      /\ w[next][saw] = ((saw \/ some) /\ Whole(tar, n, next))
  <2>1. w[next][saw] = Sought(tar, n, next, saw)
    OBVIOUS
  <2>2. w[next][TRUE] = Sought(tar, n, next, TRUE)
    OBVIOUS
  <2>3. Sought(tar, n, next, saw) = ((saw \/ some) /\ Whole(tar, n, next))
    BY DEF Sought
  <2>4. Sought(tar, n, next, TRUE) <=> Whole(tar, n, next)
    BY Zenon DEF Sought
  <2>5. w[next][TRUE] <=> Whole(tar, n, next)
    BY <2>2, <2>4, Zenon
  <2> QED
    BY <2>1, <2>3, <2>5
<1>6. BlockSize \in Nat /\ here \in Nat
  BY HeaderNext, BlockSizes DEF Algorithms!BlockIsBlock
<1>7. Sought(tar, n, here, saw) <=>
          \/ here + BlockSize > n /\ saw
          \/ /\ here + BlockSize <= n
             /\ tar[m].file => ends
             /\ saw \/ tar[m].file \/ some
             /\ Whole(tar, n, next)
  BY SoughtNext
<1>8. here + BlockSize <= n <=> ~(here + BlockSize > n)
  BY <1>6
<1>9. /\ Sought(tar, n, here, saw) \in BOOLEAN /\ Whole(tar, n, next) \in BOOLEAN
      /\ ends \in BOOLEAN /\ some \in BOOLEAN
  BY DEF Sought, Whole, Algorithms!EndsWithin
<1> HIDE DEF here, next, some, ends
<1>10. CASE here + BlockSize > n
  BY <1>4, <1>7, <1>8, <1>9, <1>10 DEF here
<1>11. CASE ~(here + BlockSize > n) /\ tar[m].file
  <2>1. Turn(w, tar, n, here, saw) = (ends /\ Whole(tar, n, next))
    BY <1>4, <1>5, <1>11
  <2>2. Sought(tar, n, here, saw) <=> (ends /\ Whole(tar, n, next))
    BY <1>7, <1>8, <1>11
  <2> QED
    BY <1>9, <2>1, <2>2 DEF here
<1>12. CASE ~(here + BlockSize > n) /\ ~tar[m].file
  <2>1. Turn(w, tar, n, here, saw) = ((saw \/ some) /\ Whole(tar, n, next))
    BY <1>4, <1>5, <1>12
  <2>2. Sought(tar, n, here, saw) <=> ((saw \/ some) /\ Whole(tar, n, next))
    BY <1>7, <1>8, <1>12
  <2> QED
    BY <1>9, <2>1, <2>2 DEF here
<1> QED
  BY <1>10, <1>11, <1>12

\* Where no header is, the walk has found what it did before.
LEMMA NothingAfter ==
    ASSUME NEW tar \in Seq(Member), NEW n \in Nat, NEW m \in 1..(Len(tar) + 1), NEW saw \in BOOLEAN,
           Algorithms!At(tar, Algorithms!HeaderAt(tar, m)) = {}
    PROVE  Sought(tar, n, Algorithms!HeaderAt(tar, m), saw) = saw
<1>1. Len(tar) \in Nat
  BY LenProperties
<1>2. m = Len(tar) + 1
  <2>1. m \notin 1..Len(tar)
    BY OneHeader
  <2> QED
    BY <1>1, <2>1
<1>3. Reached(tar, n, Algorithms!HeaderAt(tar, m)) = {}
  BY <1>2, NoneAfterLast
<1> QED
  BY <1>3 DEF Sought, Whole

\* What is sought is a solution of the equation of the walk.
LEMMA SoughtTurns ==
    ASSUME NEW tar \in Seq(Member), NEW n \in Nat
    PROVE  \E g : g = Turns(g, tar, n)
<1> DEFINE f(pos) == IF Algorithms!At(tar, pos) = {} THEN [saw \in BOOLEAN |-> saw]
                     ELSE [saw \in BOOLEAN |-> Sought(tar, n, pos, saw)]
           g == [pos \in 0..Algorithms!TarLen(tar) |-> f(pos)]
<1>1. Len(tar) \in Nat
  BY LenProperties
<1>2. ASSUME NEW pos \in 0..Algorithms!TarLen(tar), NEW saw \in BOOLEAN
      PROVE  f(pos)[saw] = Turn(g, tar, n, pos, saw)
  <2>1. CASE Algorithms!At(tar, pos) = {}
    BY <2>1 DEF Turn
  <2>2. CASE Algorithms!At(tar, pos) # {}
    <3>1. PICK m \in 1..Len(tar) : Algorithms!HeaderAt(tar, m) = pos
      BY <2>2 DEF Algorithms!At
    <3> DEFINE next == Algorithms!HeaderAt(tar, m + 1)
    <3>2. next \in 0..Algorithms!TarLen(tar) /\ m + 1 \in 1..(Len(tar) + 1)
      BY <1>1, HeadersEnd
    <3>3. ASSUME NEW b \in BOOLEAN
          PROVE  g[next][b] = Sought(tar, n, next, b)
      <4>1. CASE Algorithms!At(tar, next) = {}
        <5>1. g[next][b] = b
          BY <3>2, <4>1
        <5> QED
          BY <3>2, <4>1, <5>1, NothingAfter
      <4>2. CASE Algorithms!At(tar, next) # {}
        BY <3>2, <4>2
      <4> QED
        BY <4>1, <4>2
    <3>4. f(pos)[saw] = Sought(tar, n, pos, saw)
      BY <2>2
    <3> HIDE DEF g, f
    <3>5. Turn(g, tar, n, Algorithms!HeaderAt(tar, m), saw) =
              Sought(tar, n, Algorithms!HeaderAt(tar, m), saw)
      BY <3>3, TurnFinds
    <3> QED
      BY <3>1, <3>4, <3>5
  <2> QED
    BY <2>1, <2>2
<1>3. g = Turns(g, tar, n)
  <2> DEFINE t == Turns(g, tar, n)
  <2>1. ASSUME NEW pos \in 0..Algorithms!TarLen(tar)
        PROVE  g[pos] = t[pos]
    <3>1. t[pos] = [saw \in BOOLEAN |-> Turn(g, tar, n, pos, saw)]
      BY DEF Turns
    <3>2. g[pos] = [saw \in BOOLEAN |-> f(pos)[saw]]
      OBVIOUS
    <3> HIDE DEF g, t, f
    <3> QED
      BY <1>2, <3>1, <3>2
  <2>2. g = [pos \in 0..Algorithms!TarLen(tar) |-> g[pos]]
    OBVIOUS
  <2>3. t = [pos \in 0..Algorithms!TarLen(tar) |-> t[pos]]
    BY DEF Turns
  <2> HIDE DEF g, t
  <2>4. g = t
    BY <2>1, <2>2, <2>3
  <2> QED
    BY <2>4 DEF t
<1> QED
  BY <1>3

\* The walk finds it from every header on, and at the closing blocks.
LEMMA WalkFinds ==
    ASSUME NEW tar \in Seq(Member), NEW n \in Nat
    PROVE  \A m \in 1..(Len(tar) + 1) : \A saw \in BOOLEAN :
              Algorithms!Walk(tar, n)[Algorithms!HeaderAt(tar, m)][saw] =
                  Sought(tar, n, Algorithms!HeaderAt(tar, m), saw)
<1> DEFINE w == Algorithms!Walk(tar, n)
           last == Len(tar) + 1
           Good(m) == \A saw \in BOOLEAN : w[Algorithms!HeaderAt(tar, m)][saw] =
                                              Sought(tar, n, Algorithms!HeaderAt(tar, m), saw)
           I == {i \in 0..Len(tar) : ~Good(last - i)}
<1>1. Len(tar) \in Nat
  BY LenProperties
<1>2. w = Turns(w, tar, n)
  BY SoughtTurns, WalkTurns
<1> HIDE DEF w
<1>3. ASSUME NEW pos \in 0..Algorithms!TarLen(tar), NEW saw \in BOOLEAN
      PROVE  w[pos][saw] = Turn(w, tar, n, pos, saw)
  <2>1. w[pos] = [b \in BOOLEAN |-> Turn(w, tar, n, pos, b)]
    BY <1>2 DEF Turns
  <2> QED
    BY <2>1
<1>4. Good(last)
  <2> SUFFICES ASSUME NEW saw \in BOOLEAN
               PROVE  w[Algorithms!HeaderAt(tar, last)][saw] =
                         Sought(tar, n, Algorithms!HeaderAt(tar, last), saw)
    OBVIOUS
  <2>1. Algorithms!At(tar, Algorithms!HeaderAt(tar, last)) = {}
    BY NoHeaderAtEnd
  <2>2. Algorithms!HeaderAt(tar, last) \in 0..Algorithms!TarLen(tar) /\ last \in 1..(Len(tar) + 1)
    BY <1>1, LastHeader
  <2> HIDE DEF last
  <2>3. w[Algorithms!HeaderAt(tar, last)][saw] = saw
    BY <1>3, <2>1, <2>2 DEF Turn
  <2> QED
    BY <2>1, <2>2, <2>3, NothingAfter
<1>5. ASSUME NEW m \in 1..Len(tar), Good(m + 1)
      PROVE  Good(m)
  <2> SUFFICES ASSUME NEW saw \in BOOLEAN
               PROVE  w[Algorithms!HeaderAt(tar, m)][saw] =
                         Sought(tar, n, Algorithms!HeaderAt(tar, m), saw)
    OBVIOUS
  <2>1. Algorithms!HeaderAt(tar, m) \in 0..Algorithms!TarLen(tar)
    BY HeaderNext, HeadersEnd
  <2>2. w[Algorithms!HeaderAt(tar, m)][saw] = Turn(w, tar, n, Algorithms!HeaderAt(tar, m), saw)
    BY <1>3, <2>1
  <2>3. Turn(w, tar, n, Algorithms!HeaderAt(tar, m), saw) =
            Sought(tar, n, Algorithms!HeaderAt(tar, m), saw)
    BY <1>5, TurnFinds
  <2> QED
    BY <2>2, <2>3
<1> HIDE DEF Good
<1>6. I = {}
  <2> SUFFICES ASSUME I # {} PROVE FALSE
    OBVIOUS
  <2>1. PICK i \in I : \A j \in I : i <= j
    <3>1. I \in SUBSET Nat
      BY <1>1
    <3> QED
      BY <3>1, FirstIndex
  <2>2. i \in Nat /\ i <= Len(tar) /\ ~Good(last - i)
    BY <1>1, <2>1
  <2>3. i > 0
    <3>1. CASE i = 0
      <4>1. last - i = last
        BY <1>1, <3>1
      <4> QED
        BY <1>4, <2>2, <4>1
    <3> QED
      BY <2>2, <3>1
  <2>4. /\ i - 1 \in 0..Len(tar) /\ i - 1 \notin I
        /\ last - i \in 1..Len(tar) /\ last - (i - 1) = (last - i) + 1
    BY <1>1, <2>1, <2>2, <2>3
  <2>5. Good((last - i) + 1)
    BY <2>4
  <2> QED
    BY <1>5, <2>2, <2>4, <2>5
<1>7. ASSUME NEW m \in 1..(Len(tar) + 1)
      PROVE  Good(m)
  <2>1. last - m \in 0..Len(tar) /\ last - (last - m) = m
    BY <1>1
  <2> QED
    BY <1>6, <2>1
<1> QED
  BY <1>7 DEF Good, w

\* tar_media_complete: there is a file among the members that are reached, and
\* those that are files are whole.
LEMMA CompleteIs ==
    ASSUME NEW tar \in Seq(Member) \ {<<>>}, NEW n \in Nat
    PROVE  Algorithms!MediaComplete(tar, n) <=>
              /\ \E m \in Reached(tar, n, 0) : tar[m].file
              /\ Whole(tar, n, 0)
<1>1. Len(tar) \in Nat /\ Len(tar) > 0
  BY EmptySeq, LenProperties
<1>2. 1 \in 1..Len(tar) /\ 1 \in 1..(Len(tar) + 1)
  BY <1>1
<1>3. Algorithms!MediaComplete(tar, n) <=> Sought(tar, n, 0, FALSE)
  <2>1. FALSE \in BOOLEAN
    OBVIOUS
  <2>2. Algorithms!Walk(tar, n)[Algorithms!HeaderAt(tar, 1)][FALSE] =
            Sought(tar, n, Algorithms!HeaderAt(tar, 1), FALSE)
    BY <1>2, <2>1, WalkFinds
  <2> QED
    BY <2>2, HeaderFirst DEF Algorithms!MediaComplete
<1> QED
  BY <1>3 DEF Sought

\* So what is complete is extracted, and a whole tar is complete.
LEMMA ExtractsComplete ==
    ASSUME NEW tar \in Seq(Member) \ {<<>>}, NEW n \in Nat
    PROVE  /\ Algorithms!MediaComplete(tar, n) =>
                 ~Algorithms!Raises(tar, n) /\ Algorithms!Extracted(tar, n) # {}
           /\ n = Algorithms!TarLen(tar) =>
                 (Algorithms!MediaComplete(tar, n) <=> \E m \in 1..Len(tar) : tar[m].file)
<1>1. Len(tar) \in Nat /\ BlockSize \in Nat
  BY LenProperties, BlockSizes DEF Algorithms!BlockIsBlock
<1>2. \A m \in 1..Len(tar) : Algorithms!HeaderAt(tar, m) \in Nat
  BY HeaderNext
<1>3. Algorithms!Extracted(tar, n) = {m \in Reached(tar, n, 0) : tar[m].file}
  BY <1>2 DEF Algorithms!Extracted, Reached
<1>4. \A m \in 1..Len(tar) : Algorithms!DataEnd(tar, m) \in Nat
  <2>1. \A m \in 1..Len(tar) : tar[m].size \in Nat
    BY MemberSize
  <2> QED
    BY <1>1, <1>2, <2>1 DEF Algorithms!DataEnd
<1>5. ASSUME Algorithms!MediaComplete(tar, n)
      PROVE  ~Algorithms!Raises(tar, n) /\ Algorithms!Extracted(tar, n) # {}
  <2>1. PICK m \in Reached(tar, n, 0) : tar[m].file
    BY <1>5, CompleteIs
  <2>2. Whole(tar, n, 0)
    BY <1>5, CompleteIs
  <2>3. n >= BlockSize
    BY <1>1, <1>2, <2>1 DEF Reached
  <2>4. \A k \in Algorithms!Extracted(tar, n) : k \in 1..Len(tar) /\ Algorithms!DataEnd(tar, k) <= n
    BY <1>3, <2>2 DEF Whole, Reached
  <2>5. /\ ~ (n < BlockSize)
        /\ \A k \in Algorithms!Extracted(tar, n) : ~(Algorithms!DataEnd(tar, k) > n)
    BY <1>1, <1>4, <2>3, <2>4
  <2> QED
    BY <1>3, <2>1, <2>5 DEF Algorithms!Raises
<1>6. ASSUME n = Algorithms!TarLen(tar)
      PROVE  Algorithms!MediaComplete(tar, n) <=> \E m \in 1..Len(tar) : tar[m].file
  <2>1. \A m \in 1..Len(tar) : Algorithms!DataEnd(tar, m) <= n
    <3> TAKE m \in 1..Len(tar)
    <3>1. /\ Algorithms!DataEnd(tar, m) <= Algorithms!HeaderAt(tar, Len(tar) + 1)
          /\ Algorithms!HeaderAt(tar, Len(tar) + 1) <= n
          /\ Algorithms!HeaderAt(tar, Len(tar) + 1) \in Nat
      BY <1>6, HeadersEnd
    <3> QED
      BY <1>4, <3>1
  <2>2. Reached(tar, n, 0) = 1..Len(tar)
    <3>1. ASSUME NEW m \in 1..Len(tar)
          PROVE  Algorithms!HeaderAt(tar, m) >= 0 /\ Algorithms!HeaderAt(tar, m) + BlockSize <= n
      <4>1. tar[m].size \in Nat /\ Algorithms!HeaderAt(tar, m) \in Nat
        BY <1>2, MemberSize
      <4>2. Algorithms!HeaderAt(tar, m) + BlockSize + tar[m].size <= n
        BY <2>1 DEF Algorithms!DataEnd
      <4> QED
        BY <1>1, <4>1, <4>2
    <3> QED
      BY <3>1 DEF Reached
  <2> QED
    BY <2>1, <2>2, CompleteIs DEF Whole
<1> QED
  BY <1>5, <1>6

\* The symbols of a body.
Symbol == {Algorithms!CR, Algorithms!LF, Algorithms!Dash, Algorithms!Name,
           Algorithms!Header, Algorithms!Data}

LEMMA SymbolsDiffer ==
    /\ Algorithms!CR # Algorithms!LF /\ Algorithms!CR # Algorithms!Dash
    /\ Algorithms!CR # Algorithms!Name /\ Algorithms!CR # Algorithms!Header
    /\ Algorithms!LF # Algorithms!Dash /\ Algorithms!Header # Algorithms!Dash
BY DEF Algorithms!CR, Algorithms!LF, Algorithms!Dash, Algorithms!Name, Algorithms!Header

\* The symbols of a body, one by one.
LEMMA BodyIs ==
    ASSUME NEW p \in Seq(Symbol)
    PROVE  LET body == Algorithms!Body(p) IN
           /\ body \in Seq(Symbol) /\ Len(body) = Len(p) + 16
           /\ body[3] = Algorithms!CR /\ body[4] = Algorithms!LF /\ body[5] = Algorithms!Header
           /\ body[6] = Algorithms!CR /\ body[7] = Algorithms!LF
           /\ body[8] = Algorithms!CR /\ body[9] = Algorithms!LF
           /\ \A i \in 1..Len(p) : body[i + 9] = p[i]
           /\ body[Len(p) + 10] = Algorithms!CR /\ body[Len(p) + 11] = Algorithms!LF
           /\ body[Len(p) + 12] = Algorithms!Dash /\ body[Len(p) + 13] = Algorithms!Name
<1> DEFINE head == <<Algorithms!Dash, Algorithms!Name, Algorithms!CR, Algorithms!LF,
                     Algorithms!Header, Algorithms!CR, Algorithms!LF,
                     Algorithms!CR, Algorithms!LF>>
           tail == <<Algorithms!CR, Algorithms!LF, Algorithms!Dash, Algorithms!Name,
                     Algorithms!Dash, Algorithms!CR, Algorithms!LF>>
           front == head \o p
           body == front \o tail
<1>1. /\ head \in Seq(Symbol) /\ Len(head) = 9
      /\ head[3] = Algorithms!CR /\ head[4] = Algorithms!LF /\ head[5] = Algorithms!Header
      /\ head[6] = Algorithms!CR /\ head[7] = Algorithms!LF
      /\ head[8] = Algorithms!CR /\ head[9] = Algorithms!LF
  BY DEF Symbol
<1>2. /\ tail \in Seq(Symbol) /\ Len(tail) = 7
      /\ tail[1] = Algorithms!CR /\ tail[2] = Algorithms!LF
      /\ tail[3] = Algorithms!Dash /\ tail[4] = Algorithms!Name
  BY DEF Symbol
<1>3. Len(p) \in Nat
  BY LenProperties
<1> HIDE DEF head, tail
<1>4. /\ front \in Seq(Symbol) /\ Len(front) = 9 + Len(p)
      /\ \A i \in 1..(9 + Len(p)) : front[i] = IF i <= 9 THEN head[i] ELSE p[i - 9]
  <2>1. /\ front \in Seq(Symbol) /\ Len(front) = Len(head) + Len(p)
        /\ \A i \in 1..(Len(head) + Len(p)) :
              front[i] = IF i <= Len(head) THEN head[i] ELSE p[i - Len(head)]
    BY <1>1, ConcatProperties
  <2>2. Len(head) = 9
    BY <1>1
  <2> HIDE DEF front
  <2> QED
    BY <2>1, <2>2
<1> HIDE DEF front
<1>5. /\ body \in Seq(Symbol) /\ Len(body) = 9 + Len(p) + 7
      /\ \A i \in 1..(9 + Len(p) + 7) :
            body[i] = IF i <= 9 + Len(p) THEN front[i] ELSE tail[i - (9 + Len(p))]
  <2>1. /\ body \in Seq(Symbol) /\ Len(body) = Len(front) + Len(tail)
        /\ \A i \in 1..(Len(front) + Len(tail)) :
              body[i] = IF i <= Len(front) THEN front[i] ELSE tail[i - Len(front)]
    BY <1>2, <1>4, ConcatProperties
  <2>2. Len(front) = 9 + Len(p) /\ Len(tail) = 7
    BY <1>2, <1>4
  <2> HIDE DEF body
  <2> QED
    BY <2>1, <2>2
<1> HIDE DEF body
<1>6. \A i \in 1..9 : body[i] = head[i]
  <2> TAKE i \in 1..9
  <2>1. i \in 1..(9 + Len(p)) /\ i \in 1..(9 + Len(p) + 7) /\ i <= 9 /\ i <= 9 + Len(p)
    BY <1>3
  <2>2. body[i] = front[i]
    BY <1>5, <2>1
  <2>3. front[i] = head[i]
    BY <1>4, <2>1
  <2> QED
    BY <2>2, <2>3
<1>7. \A i \in 1..Len(p) : body[i + 9] = p[i]
  <2> TAKE i \in 1..Len(p)
  <2>1. /\ i + 9 \in 1..(9 + Len(p)) /\ i + 9 \in 1..(9 + Len(p) + 7)
        /\ ~(i + 9 <= 9) /\ (i + 9) - 9 = i
    BY <1>3
  <2> QED
    BY <1>4, <1>5, <2>1
<1>8. /\ body[Len(p) + 10] = tail[1] /\ body[Len(p) + 11] = tail[2]
      /\ body[Len(p) + 12] = tail[3] /\ body[Len(p) + 13] = tail[4]
  <2>1. \A k \in 1..7 : body[9 + Len(p) + k] = tail[k]
    <3> TAKE k \in 1..7
    <3>1. /\ 9 + Len(p) + k \in 1..(9 + Len(p) + 7) /\ ~(9 + Len(p) + k <= 9 + Len(p))
          /\ (9 + Len(p) + k) - (9 + Len(p)) = k
      BY <1>3
    <3> QED
      BY <1>5, <3>1
  <2>2. /\ 9 + Len(p) + 1 = Len(p) + 10 /\ 9 + Len(p) + 2 = Len(p) + 11
        /\ 9 + Len(p) + 3 = Len(p) + 12 /\ 9 + Len(p) + 4 = Len(p) + 13
        /\ 1 \in 1..7 /\ 2 \in 1..7 /\ 3 \in 1..7 /\ 4 \in 1..7
    BY <1>3
  <2> HIDE DEF body, tail
  <2> QED
    BY <2>1, <2>2
<1>9. Algorithms!Body(p) = body
  BY DEF Algorithms!Body, body, front, head, tail
<1>10. /\ body \in Seq(Symbol) /\ Len(body) = Len(p) + 16
  BY <1>3, <1>5
<1>11. /\ body[3] = Algorithms!CR /\ body[4] = Algorithms!LF /\ body[5] = Algorithms!Header
       /\ body[6] = Algorithms!CR /\ body[7] = Algorithms!LF
       /\ body[8] = Algorithms!CR /\ body[9] = Algorithms!LF
  BY <1>1, <1>6
<1> QED
  BY <1>2, <1>7, <1>8, <1>9, <1>10, <1>11

\* After the first delimiter of a body comes the one behind its payload.
LEMMA NoDelim ==
    ASSUME NEW p \in Seq(Symbol), Algorithms!Clean(p), NEW j \in 3..(Len(p) + 11)
    PROVE  ~(Algorithms!Body(p)[j] = Algorithms!Dash /\ Algorithms!Body(p)[j + 1] = Algorithms!Name)
<1>1. Len(p) \in Nat /\ j \in Nat
  BY LenProperties
<1>2. CASE j <= 9
  <2>1. j = 3 \/ j = 4 \/ j = 5 \/ j = 6 \/ j = 7 \/ j = 8 \/ j = 9
    BY <1>1, <1>2
  <2> QED
    BY <2>1, BodyIs, SymbolsDiffer
<1>3. CASE j > 9 /\ j <= Len(p) + 8
  <2>1. j - 9 \in 1..Len(p) /\ (j - 9) + 1 \in 1..Len(p) /\ (j - 9) + 9 = j
        /\ ((j - 9) + 1) + 9 = j + 1 /\ j - 9 \in 1..(Len(p) - 1)
    BY <1>1, <1>3
  <2>2. Algorithms!Body(p)[(j - 9) + 9] = p[j - 9]
        /\ Algorithms!Body(p)[((j - 9) + 1) + 9] = p[(j - 9) + 1]
    BY <2>1, BodyIs
  <2>3. ~(p[j - 9] = Algorithms!Dash /\ p[(j - 9) + 1] = Algorithms!Name)
    BY <2>1 DEF Algorithms!Clean, Algorithms!Delims
  <2> QED
    BY <2>1, <2>2, <2>3
<1>4. CASE j = Len(p) + 9
  <2>1. j + 1 = Len(p) + 10
    BY <1>1, <1>4
  <2> QED
    BY <2>1, BodyIs, SymbolsDiffer
<1>5. CASE j = Len(p) + 10 \/ j = Len(p) + 11
  BY <1>5, BodyIs, SymbolsDiffer
<1> QED
  BY <1>1, <1>2, <1>3, <1>4, <1>5

\* len symbols of the body after the first from.
Piece(p, from, len) == [i \in 1..len |-> Algorithms!Body(p)[i + from]]

\* Pieces are sequences, told apart by length and symbols.
LEMMA PieceIs ==
    ASSUME NEW p \in Seq(Symbol), NEW from \in Nat, NEW len \in Nat, from + len <= Len(p) + 16
    PROVE  /\ Piece(p, from, len) \in Seq(Symbol) /\ Len(Piece(p, from, len)) = len
           /\ \A i \in 1..len : Piece(p, from, len)[i] = Algorithms!Body(p)[i + from]
<1>1. Algorithms!Body(p) \in Seq(Symbol) /\ Len(Algorithms!Body(p)) = Len(p) + 16 /\ Len(p) \in Nat
  BY BodyIs, LenProperties
<1>2. ASSUME NEW i \in 1..len
      PROVE  Algorithms!Body(p)[i + from] \in Symbol
  <2>1. i + from \in 1..Len(Algorithms!Body(p))
    BY <1>1
  <2> QED
    BY <1>1, <2>1, ElementOfSeq
<1>3. Piece(p, from, len) \in [1..len -> Symbol]
  BY <1>2 DEF Piece
<1> QED
  BY <1>3 DEF Piece

LEMMA PiecesEqual ==
    ASSUME NEW p \in Seq(Symbol), NEW from \in Nat, NEW len \in Nat, NEW s \in Seq(Symbol),
           from + len <= Len(p) + 16, Len(s) = len,
           \A i \in 1..len : s[i] = Algorithms!Body(p)[i + from]
    PROVE  s = Piece(p, from, len)
<1> DEFINE t == Piece(p, from, len)
<1>1. t \in Seq(Symbol) /\ Len(t) = len /\ \A i \in 1..len : t[i] = Algorithms!Body(p)[i + from]
  BY PieceIs
<1> HIDE DEF t
<1>2. s = t
  BY <1>1, SeqEqual
<1> QED
  BY <1>2 DEF t

\* A piece of a piece.
FromTo(s, a, b) == SubSeq(s, a, b)

LEMMA SubPiece ==
    ASSUME NEW p \in Seq(Symbol), NEW from \in Nat, NEW len \in Nat,
           NEW a \in Nat, NEW b \in Nat, NEW f \in Nat, NEW k \in Nat,
           from + len <= Len(p) + 16, 1 <= a, a <= b + 1, b <= len, f + 1 = from + a, k + a = b + 1
    PROVE  FromTo(Piece(p, from, len), a, b) = Piece(p, f, k)
<1> DEFINE t == Piece(p, from, len)
           s == SubSeq(t, a, b)
<1>1. Len(p) \in Nat /\ k = b - a + 1 /\ f + k <= Len(p) + 16
  BY LenProperties
<1>2. t \in Seq(Symbol) /\ Len(t) = len /\ \A i \in 1..len : t[i] = Algorithms!Body(p)[i + from]
  BY PieceIs
<1> HIDE DEF t
<1>3. \A i \in a..b : t[i] \in Symbol
  <2> TAKE i \in a..b
  <2>1. i \in 1..Len(t)
    BY <1>2
  <2> QED
    BY <1>2, <2>1, ElementOfSeq
<1>4. s \in Seq(Symbol) /\ Len(s) = k /\ \A i \in 1..k : s[i] = t[a + i - 1]
  <2>1. /\ s \in Seq(Symbol) /\ Len(s) = IF a <= b THEN b - a + 1 ELSE 0
        /\ \A i \in 1..(b - a + 1) : s[i] = t[a + i - 1]
    BY <1>3, SubSeqProperties
  <2> QED
    BY <1>1, <2>1
<1> HIDE DEF s
<1>5. \A i \in 1..k : s[i] = Algorithms!Body(p)[i + f]
  <2> TAKE i \in 1..k
  <2>1. a + i - 1 \in 1..len /\ (a + i - 1) + from = i + f
    BY <1>1
  <2> QED
    BY <1>2, <1>4, <2>1
<1>6. s \in Seq(Symbol) /\ Len(s) = k
  BY <1>4
<1>7. f + k <= Len(p) + 16
  BY <1>1
<1>8. s = Piece(p, f, k)
  BY <1>5, <1>6, <1>7, PiecesEqual
<1> QED
  BY <1>8 DEF s, t, FromTo

\* Where a piece has a line end.
LEMMA LineEndIs ==
    ASSUME NEW p \in Seq(Symbol), NEW from \in Nat, NEW len \in Nat, from + len <= Len(p) + 16,
           NEW i \in Int, NEW k \in Int, k = i + from
    PROVE  Algorithms!LineEnd(Piece(p, from, len), i) <=>
              /\ 1 <= i /\ i + 1 <= len
              /\ Algorithms!Body(p)[k] = Algorithms!CR /\ Algorithms!Body(p)[k + 1] = Algorithms!LF
<1> DEFINE s == Piece(p, from, len)
<1>1. Len(s) = len /\ \A j \in 1..len : s[j] = Algorithms!Body(p)[j + from]
  BY PieceIs
<1> HIDE DEF s
<1>2. ASSUME 1 <= i, i + 1 <= len
      PROVE  s[i] = Algorithms!Body(p)[k] /\ s[i + 1] = Algorithms!Body(p)[k + 1]
  <2>1. i \in 1..len /\ i + 1 \in 1..len /\ (i + 1) + from = k + 1
    BY <1>2
  <2> QED
    BY <1>1, <2>1
<1>3. i \in 1..(Len(s) - 1) <=> 1 <= i /\ i + 1 <= len
  BY <1>1
<1>4. Algorithms!LineEnd(s, i) <=>
          i \in 1..(Len(s) - 1) /\ s[i] = Algorithms!CR /\ s[i + 1] = Algorithms!LF
  BY DEF Algorithms!LineEnd
<1>5. Algorithms!LineEnd(s, i) <=>
              /\ 1 <= i /\ i + 1 <= len
              /\ Algorithms!Body(p)[k] = Algorithms!CR /\ Algorithms!Body(p)[k + 1] = Algorithms!LF
  BY <1>2, <1>3, <1>4
<1> QED
  BY <1>5 DEF s

\* A lower bound of a set that is in the set is its minimum.
LEMMA MinIs ==
    ASSUME NEW I \in SUBSET Int, NEW x \in I, \A y \in I : x <= y
    PROVE  Algorithms!Min(I) = x
<1> DEFINE z == Algorithms!Min(I)
<1>1. z = CHOOSE y \in I : \A k \in I : y <= k
  BY DEF Algorithms!Min
<1>2. z \in I /\ \A k \in I : z <= k
  BY <1>1
<1> HIDE DEF z
<1>3. z \in Int /\ x \in Int /\ z <= x /\ x <= z
  BY <1>2
<1>4. z = x
  BY <1>3
<1> QED
  BY <1>4 DEF z

\* How much of the body is in its first chunk when n symbols have arrived.
ChunkLen(p, n) == IF n >= Len(p) + 13 THEN Len(p) + 9 ELSE n - 2

\* The first chunk ends where the body does, or before the second delimiter.
LEMMA ChunkIs ==
    ASSUME NEW p \in Seq(Symbol), NEW n \in 4..(Len(p) + 16), Algorithms!Clean(p)
    PROVE  Algorithms!Chunk(FromTo(Algorithms!Body(p), 1, n)) = Piece(p, 2, ChunkLen(p, n))
<1> DEFINE body == FromTo(Algorithms!Body(p), 1, n)
           rest == Algorithms!Beyond(body, 2)
           D == Algorithms!Delims(rest)
<1>1. Len(p) \in Nat /\ n \in Nat /\ n >= 4 /\ n <= Len(p) + 16
  BY LenProperties
<1>2. body = Piece(p, 0, n)
  <2>1. Algorithms!Body(p) = Piece(p, 0, Len(p) + 16)
    <3>1. Algorithms!Body(p) \in Seq(Symbol) /\ Len(Algorithms!Body(p)) = Len(p) + 16
      BY BodyIs
    <3>2. \A i \in 1..(Len(p) + 16) : Algorithms!Body(p)[i] = Algorithms!Body(p)[i + 0]
      BY <1>1
    <3> QED
      BY <1>1, <3>1, <3>2, PiecesEqual
  <2>2. FromTo(Piece(p, 0, Len(p) + 16), 1, n) = Piece(p, 0, n)
    BY <1>1, SubPiece
  <2> QED
    BY <2>1, <2>2
<1>3. rest = Piece(p, 2, n - 2)
  <2>1. Len(Piece(p, 0, n)) = n
    BY <1>1, PieceIs
  <2>2. FromTo(Piece(p, 0, n), 3, n) = Piece(p, 2, n - 2)
    BY <1>1, SubPiece
  <2> HIDE DEF body
  <2>3. rest = FromTo(body, 3, Len(body))
    BY DEF Algorithms!Beyond, FromTo
  <2> HIDE DEF rest
  <2> QED
    BY <1>2, <2>1, <2>2, <2>3
<1>4. Algorithms!Chunk(body) =
         IF D = {} THEN rest ELSE Algorithms!Before(rest, Algorithms!Min(D))
  BY DEF Algorithms!Chunk
<1> HIDE DEF body
<1>5. Len(rest) = n - 2 /\ \A i \in 1..(n - 2) : rest[i] = Algorithms!Body(p)[i + 2]
  <2>1. /\ Len(Piece(p, 2, n - 2)) = n - 2
        /\ \A i \in 1..(n - 2) : Piece(p, 2, n - 2)[i] = Algorithms!Body(p)[i + 2]
    BY <1>1, PieceIs
  <2> QED
    BY <1>3, <2>1
<1> HIDE DEF rest
<1>6. ASSUME NEW i \in D
      PROVE  i \in Nat /\ i >= Len(p) + 10 /\ i <= n - 3
  <2>1. /\ i \in 1..((n - 2) - 1) /\ rest[i] = Algorithms!Dash /\ rest[i + 1] = Algorithms!Name
    BY <1>5, <1>6 DEF Algorithms!Delims
  <2>2. i \in Nat /\ i >= 1 /\ i <= n - 3 /\ i \in 1..(n - 2) /\ i + 1 \in 1..(n - 2)
        /\ (i + 1) + 2 = (i + 2) + 1
    BY <1>1, <2>1
  <2>3. Algorithms!Body(p)[i + 2] = Algorithms!Dash /\ Algorithms!Body(p)[(i + 2) + 1] = Algorithms!Name
    BY <1>5, <2>1, <2>2
  <2>4. i + 2 \notin 3..(Len(p) + 11)
    BY <2>3, NoDelim
  <2> QED
    BY <1>1, <2>2, <2>4
<1>7. CASE n >= Len(p) + 13
  <2> DEFINE k == Len(p) + 10
  <2>1. k \in 1..((n - 2) - 1) /\ k \in 1..(n - 2) /\ k + 1 \in 1..(n - 2)
        /\ k + 2 = Len(p) + 12 /\ (k + 1) + 2 = Len(p) + 13
    BY <1>1, <1>7
  <2>2. rest[k] = Algorithms!Dash /\ rest[k + 1] = Algorithms!Name
    <3>1. rest[k] = Algorithms!Body(p)[k + 2] /\ rest[k + 1] = Algorithms!Body(p)[(k + 1) + 2]
      BY <1>5, <2>1
    <3> QED
      BY <2>1, <3>1, BodyIs
  <2>3. k \in D
    BY <1>5, <2>1, <2>2 DEF Algorithms!Delims
  <2>4. D \in SUBSET Int /\ \A i \in D : k <= i
    BY <1>1, <1>6
  <2> HIDE DEF D
  <2>5. Algorithms!Min(D) = k
    BY <2>3, <2>4, MinIs
  <2>6. Algorithms!Chunk(body) = FromTo(rest, 1, Len(p) + 9)
    <3>1. k - 1 = Len(p) + 9
      BY <1>1
    <3> QED
      BY <1>4, <2>3, <2>5, <3>1 DEF Algorithms!Before, FromTo
  <2>7. FromTo(Piece(p, 2, n - 2), 1, Len(p) + 9) = Piece(p, 2, Len(p) + 9)
    BY <1>1, <1>7, SubPiece
  <2> QED
    BY <1>3, <1>7, <2>6, <2>7 DEF ChunkLen, body
<1>8. CASE ~(n >= Len(p) + 13)
  <2>1. D = {}
    BY <1>1, <1>6, <1>8
  <2> QED
    BY <1>3, <1>4, <1>8, <2>1 DEF ChunkLen, body
<1> QED
  BY <1>7, <1>8

\* The line end after the delimiter is removed.
LEMMA TrimStartIs ==
    ASSUME NEW p \in Seq(Symbol), NEW m \in 2..(Len(p) + 14)
    PROVE  Algorithms!TrimStart(Piece(p, 2, m)) = Piece(p, 4, m - 2)
<1>1. Len(p) \in Nat /\ m \in Nat /\ m >= 2 /\ m <= Len(p) + 14
  BY LenProperties
<1>2. Algorithms!LineEnd(Piece(p, 2, m), 1)
  <2>1. Algorithms!Body(p)[3] = Algorithms!CR /\ Algorithms!Body(p)[3 + 1] = Algorithms!LF
    BY BodyIs
  <2>2. 2 + m <= Len(p) + 16 /\ 3 = 1 + 2 /\ 1 + 1 <= m
    BY <1>1
  <2> QED
    BY <1>1, <2>1, <2>2, LineEndIs
<1>3. Len(Piece(p, 2, m)) = m
  BY <1>1, PieceIs
<1>4. FromTo(Piece(p, 2, m), 3, m) = Piece(p, 4, m - 2)
  BY <1>1, SubPiece
<1>5. Algorithms!TrimStart(Piece(p, 2, m)) = FromTo(Piece(p, 2, m), 3, Len(Piece(p, 2, m)))
  BY <1>2 DEF Algorithms!TrimStart, Algorithms!Beyond, FromTo
<1> QED
  BY <1>3, <1>4, <1>5

\* A line end at the end is removed, whether or not it is in the payload.
LEMMA TrimEndIs ==
    ASSUME NEW p \in Seq(Symbol), NEW from \in Nat, NEW q \in Nat, from + q <= Len(p) + 16
    PROVE  Algorithms!TrimEnd(Piece(p, from, q)) =
              IF Algorithms!LineEnd(Piece(p, from, q), q - 1) THEN Piece(p, from, q - 2)
              ELSE Piece(p, from, q)
<1> DEFINE s == Piece(p, from, q)
<1>1. Len(s) = q
  BY PieceIs
<1>2. ASSUME Algorithms!LineEnd(s, q - 1)
      PROVE  FromTo(s, 1, q - 2) = Piece(p, from, q - 2)
  <2>1. 1 <= q - 1
    <3>1. q - 1 \in 1..(Len(s) - 1)
      BY <1>2 DEF Algorithms!LineEnd
    <3> HIDE DEF s
    <3> QED
      BY <1>1, <3>1
  <2>2. q - 2 \in Nat
    BY <2>1
  <2> QED
    BY <2>1, <2>2, SubPiece
<1>3. Algorithms!TrimEnd(s) = IF Algorithms!LineEnd(s, Len(s) - 1)
                              THEN FromTo(s, 1, (Len(s) - 1) - 1) ELSE s
  BY DEF Algorithms!TrimEnd, Algorithms!Before, FromTo
<1> HIDE DEF s
<1>4. (Len(s) - 1) - 1 = q - 2
  BY <1>1
<1>5. Algorithms!TrimEnd(s) = IF Algorithms!LineEnd(s, q - 1) THEN Piece(p, from, q - 2) ELSE s
  BY <1>1, <1>2, <1>3, <1>4
<1> QED
  BY <1>5 DEF s

\* The payload of a trimmed chunk, if it has the empty line.
Gaps(chunk) == {i \in 1..Len(chunk) : Algorithms!LineEnd(chunk, i) /\ Algorithms!LineEnd(chunk, i + 2)}
Payload(chunk) ==
    IF Gaps(chunk) = {} THEN {} ELSE {Algorithms!Beyond(chunk, Algorithms!Min(Gaps(chunk)) + 3)}

\* The payload begins after the ninth symbol of the body.
LEMMA PayloadIs ==
    ASSUME NEW p \in Seq(Symbol), NEW q \in 0..(Len(p) + 12)
    PROVE  Payload(Piece(p, 4, q)) = IF q < 5 THEN {} ELSE {Piece(p, 9, q - 5)}
<1> DEFINE s == Piece(p, 4, q)
<1>1. Len(p) \in Nat /\ q \in Nat /\ 4 + q <= Len(p) + 16
  BY LenProperties
<1>2. Len(s) = q
  BY <1>1, PieceIs
<1>3. ASSUME NEW i \in Int
      PROVE  Algorithms!LineEnd(s, i) <=>
                /\ 1 <= i /\ i + 1 <= q
                /\ Algorithms!Body(p)[i + 4] = Algorithms!CR
                /\ Algorithms!Body(p)[(i + 4) + 1] = Algorithms!LF
  <2>1. i + 4 \in Int
    OBVIOUS
  <2> QED
    BY <1>1, <2>1, LineEndIs
<1> HIDE DEF s
<1>4. ASSUME NEW i \in Gaps(s)
      PROVE  i \in Int /\ 2 <= i /\ i + 3 <= q
  <2>1. i \in 1..q /\ Algorithms!LineEnd(s, i) /\ Algorithms!LineEnd(s, i + 2)
    BY <1>2 DEF Gaps
  <2>2. i \in Int /\ 1 <= i /\ i + 2 \in Int
    BY <1>1, <2>1
  <2>3. (i + 2) + 1 <= q
    BY <1>3, <2>1, <2>2
  <2>4. i # 1
    <3>1. ASSUME i = 1 PROVE FALSE
      <4>1. Algorithms!Body(p)[i + 4] = Algorithms!CR
        BY <1>3, <2>1, <2>2
      <4>2. i + 4 = 5
        BY <3>1
      <4> QED
        BY <4>1, <4>2, BodyIs, SymbolsDiffer
    <3> QED
      BY <3>1
  <2> QED
    BY <1>1, <2>2, <2>3, <2>4
<1>5. CASE q < 5
  <2>1. Gaps(s) = {}
    BY <1>1, <1>4, <1>5
  <2> QED
    BY <1>5, <2>1 DEF Payload, s
<1>6. CASE q >= 5
  <2>1. Algorithms!LineEnd(s, 2) /\ Algorithms!LineEnd(s, 2 + 2)
    <3>1. 2 + 4 = 6 /\ 6 + 1 = 7 /\ 4 + 4 = 8 /\ 8 + 1 = 9 /\ 2 + 2 = 4
      OBVIOUS
    <3>2. /\ Algorithms!Body(p)[2 + 4] = Algorithms!CR
          /\ Algorithms!Body(p)[(2 + 4) + 1] = Algorithms!LF
          /\ Algorithms!Body(p)[4 + 4] = Algorithms!CR
          /\ Algorithms!Body(p)[(4 + 4) + 1] = Algorithms!LF
      BY <3>1, BodyIs
    <3>3. 1 <= 2 /\ 2 + 1 <= q /\ 1 <= 4 /\ 4 + 1 <= q
      BY <1>1, <1>6
    <3>4. Algorithms!LineEnd(s, 2)
      BY <1>3, <3>2, <3>3
    <3>5. Algorithms!LineEnd(s, 4)
      BY <1>3, <3>2, <3>3
    <3> QED
      BY <3>1, <3>4, <3>5
  <2>2. 2 \in Gaps(s)
    <3>1. 2 \in 1..Len(s)
      BY <1>1, <1>2, <1>6
    <3> QED
      BY <2>1, <3>1 DEF Gaps
  <2>3. Gaps(s) \in SUBSET Int /\ \A i \in Gaps(s) : 2 <= i
    BY <1>4
  <2>4. Algorithms!Min(Gaps(s)) = 2
    BY <2>2, <2>3, MinIs
  <2>5. Payload(s) = {FromTo(s, 6, q)}
    <3>1. (2 + 3) + 1 = 6
      OBVIOUS
    <3>2. Algorithms!Beyond(s, 2 + 3) = FromTo(s, 6, q)
      BY <1>2, <3>1 DEF Algorithms!Beyond, FromTo
    <3> QED
      BY <2>2, <2>4, <3>2 DEF Payload
  <2>6. FromTo(Piece(p, 4, q), 6, q) = Piece(p, 9, q - 5)
    BY <1>1, <1>6, SubPiece
  <2> QED
    BY <1>1, <1>6, <2>5, <2>6 DEF s
<1> QED
  BY <1>1, <1>5, <1>6

\* How much of the body is in the chunk without the line end that follows the
\* delimiter, and whether it ends with another one.
Trimmed(p, n) == ChunkLen(p, n) - 2
EndsLine(p, k) ==
    Algorithms!Body(p)[k] = Algorithms!CR /\ Algorithms!Body(p)[k + 1] = Algorithms!LF

\* The part, in terms of the length of what is left of the chunk.
LEMMA PartIs ==
    ASSUME NEW p \in Seq(Symbol), NEW n \in 4..(Len(p) + 16), Algorithms!Clean(p),
           NEW q \in Nat, q = Trimmed(p, n)
    PROVE  Algorithms!Part(FromTo(Algorithms!Body(p), 1, n)) =
              IF q >= 2 /\ EndsLine(p, q + 3)
              THEN IF q < 7 THEN {} ELSE {Piece(p, 9, q - 7)}
              ELSE IF q < 5 THEN {} ELSE {Piece(p, 9, q - 5)}
<1> DEFINE body == FromTo(Algorithms!Body(p), 1, n)
           m == ChunkLen(p, n)
           chunk == Algorithms!TrimEnd(Algorithms!TrimStart(Algorithms!Chunk(body)))
<1>1. Len(p) \in Nat /\ n \in Nat /\ n >= 4 /\ n <= Len(p) + 16
  BY LenProperties
<1>2. m \in 2..(Len(p) + 14) /\ q = m - 2 /\ q <= Len(p) + 12
  BY <1>1 DEF ChunkLen, Trimmed
<1>3. Algorithms!Part(body) = Payload(chunk)
  <2> HIDE DEF body
  <2> QED
    BY DEF Algorithms!Part, Payload, Gaps
<1>4. Algorithms!Chunk(body) = Piece(p, 2, m)
  BY ChunkIs
<1>5. Algorithms!TrimStart(Piece(p, 2, m)) = Piece(p, 4, q)
  <2> HIDE DEF m
  <2> QED
    BY <1>2, TrimStartIs
<1> HIDE DEF body, m
<1>6. 4 + q <= Len(p) + 16
  BY <1>1, <1>2
<1>7. Algorithms!LineEnd(Piece(p, 4, q), q - 1) <=> q >= 2 /\ EndsLine(p, q + 3)
  <2>1. Algorithms!LineEnd(Piece(p, 4, q), q - 1) <=>
           /\ 1 <= q - 1 /\ (q - 1) + 1 <= q
           /\ Algorithms!Body(p)[q + 3] = Algorithms!CR
           /\ Algorithms!Body(p)[(q + 3) + 1] = Algorithms!LF
    <3>1. q - 1 \in Int /\ q + 3 \in Int /\ q + 3 = (q - 1) + 4
      OBVIOUS
    <3> QED
      BY <1>6, <3>1, LineEndIs
  <2>2. 1 <= q - 1 /\ (q - 1) + 1 <= q <=> q >= 2
    OBVIOUS
  <2> QED
    BY <2>1, <2>2 DEF EndsLine
<1>8. Algorithms!TrimEnd(Piece(p, 4, q)) =
         IF Algorithms!LineEnd(Piece(p, 4, q), q - 1) THEN Piece(p, 4, q - 2) ELSE Piece(p, 4, q)
  BY <1>6, TrimEndIs
<1>9. CASE q >= 2 /\ EndsLine(p, q + 3)
  <2>1. chunk = Piece(p, 4, q - 2)
    BY <1>4, <1>5, <1>7, <1>8, <1>9
  <2>2. q - 2 \in 0..(Len(p) + 12) /\ (q - 2 < 5 <=> q < 7) /\ (q - 2) - 5 = q - 7
    BY <1>1, <1>2, <1>9
  <2> HIDE DEF chunk
  <2>3. Payload(chunk) = IF q - 2 < 5 THEN {} ELSE {Piece(p, 9, (q - 2) - 5)}
    BY <2>1, <2>2, PayloadIs
  <2> QED
    BY <1>3, <1>9, <2>2, <2>3 DEF body
<1>10. CASE ~(q >= 2 /\ EndsLine(p, q + 3))
  <2>1. chunk = Piece(p, 4, q)
    BY <1>4, <1>5, <1>7, <1>8, <1>10
  <2>2. q \in 0..(Len(p) + 12)
    BY <1>1, <1>2
  <2> HIDE DEF chunk
  <2>3. Payload(chunk) = IF q < 5 THEN {} ELSE {Piece(p, 9, q - 5)}
    BY <2>1, <2>2, PayloadIs
  <2> QED
    BY <1>3, <1>10, <2>3 DEF body
<1> QED
  BY <1>9, <1>10

\* At most one symbol of three is left behind the first two.
LEMMA TailOfThree ==
    \A n \in Nat : n <= 3 => (IF 3 <= n THEN n - 3 + 1 ELSE 0) \in 0..1
  OBVIOUS

\* A body that ends with its first line, or before, has no part.
LEMMA ShortBody ==
    ASSUME NEW b \in Seq(Symbol), Len(b) <= 3
    PROVE  Algorithms!Part(b) = {}
<1>0. Len(b) \in Nat /\ Len(b) <= 3
  BY LenProperties
<1> DEFINE rest == Algorithms!Beyond(b, 2)
           chunk == Algorithms!TrimEnd(Algorithms!TrimStart(Algorithms!Chunk(b)))
<1>1. rest \in Seq(Symbol) /\ Len(rest) \in 0..1
  <2>1. Len(b) \in Nat
    BY LenProperties
  <2>2. \A i \in 3..Len(b) : b[i] \in Symbol
    <3> TAKE i \in 3..Len(b)
    <3>1. i \in 1..Len(b)
      BY <2>1
    <3> QED
      BY <3>1, ElementOfSeq
  <2>3. /\ SubSeq(b, 3, Len(b)) \in Seq(Symbol)
        /\ Len(SubSeq(b, 3, Len(b))) = IF 3 <= Len(b) THEN Len(b) - 3 + 1 ELSE 0
    BY <2>1, <2>2, SubSeqProperties
  <2>4. rest = SubSeq(b, 3, Len(b))
    BY DEF Algorithms!Beyond
  <2>5. (IF 3 <= Len(b) THEN Len(b) - 3 + 1 ELSE 0) \in 0..1
    BY <1>0, TailOfThree
  <2> HIDE DEF rest
  <2> QED
    BY <2>3, <2>4, <2>5
<1>2. Algorithms!Chunk(b) = rest
  <2> HIDE DEF rest
  <2>1. Algorithms!Delims(rest) = {}
    BY <1>1 DEF Algorithms!Delims
  <2> QED
    BY <2>1 DEF Algorithms!Chunk, rest
<1> HIDE DEF rest
<1>3. \A i : ~Algorithms!LineEnd(rest, i)
  BY <1>1 DEF Algorithms!LineEnd
<1>4. chunk = rest
  BY <1>2, <1>3 DEF Algorithms!TrimStart, Algorithms!TrimEnd
<1>5. {i \in 1..Len(chunk) : Algorithms!LineEnd(chunk, i) /\ Algorithms!LineEnd(chunk, i + 2)} = {}
  <2> HIDE DEF chunk
  <2> QED
    BY <1>3, <1>4
<1> QED
  BY <1>5 DEF Algorithms!Part

\* What follows the ninth symbol of the body is the payload, then what closes it.
LEMMA PayloadPiece ==
    ASSUME NEW p \in Seq(Symbol), NEW k \in 0..(Len(p) + 3)
    PROVE  FromTo(p \o Algorithms!Closing, 1, k) = Piece(p, 9, k)
<1> DEFINE c == Algorithms!Closing
           t == p \o c
           s == SubSeq(t, 1, k)
<1>1. Len(p) \in Nat /\ k \in Nat /\ k <= Len(p) + 3
  BY LenProperties
<1>2. /\ c \in Seq(Symbol) /\ Len(c) = 3
      /\ c[1] = Algorithms!CR /\ c[2] = Algorithms!LF /\ c[3] = Algorithms!Dash
  BY DEF Algorithms!Closing, Symbol
<1> HIDE DEF c
<1>3. /\ t \in Seq(Symbol) /\ Len(t) = Len(p) + 3
      /\ \A i \in 1..(Len(p) + 3) : t[i] = IF i <= Len(p) THEN p[i] ELSE c[i - Len(p)]
  <2>1. /\ t \in Seq(Symbol) /\ Len(t) = Len(p) + Len(c)
        /\ \A i \in 1..(Len(p) + Len(c)) : t[i] = IF i <= Len(p) THEN p[i] ELSE c[i - Len(p)]
    BY <1>2, ConcatProperties
  <2> HIDE DEF t
  <2> QED
    BY <1>2, <2>1
<1> HIDE DEF t
<1>4. \A i \in 1..(Len(p) + 3) : t[i] = Algorithms!Body(p)[i + 9]
  <2> TAKE i \in 1..(Len(p) + 3)
  <2>1. CASE i <= Len(p)
    <3>1. i \in 1..Len(p)
      BY <1>1, <2>1
    <3>2. Algorithms!Body(p)[i + 9] = p[i]
      BY <3>1, BodyIs
    <3> QED
      BY <1>3, <2>1, <3>2
  <2>2. CASE i > Len(p)
    <3>1. \/ i = Len(p) + 1 /\ i - Len(p) = 1 /\ i + 9 = Len(p) + 10
          \/ i = Len(p) + 2 /\ i - Len(p) = 2 /\ i + 9 = Len(p) + 11
          \/ i = Len(p) + 3 /\ i - Len(p) = 3 /\ i + 9 = Len(p) + 12
      BY <1>1, <2>2
    <3>2. t[i] = c[i - Len(p)]
      BY <1>1, <1>3, <2>2
    <3>3. /\ Algorithms!Body(p)[Len(p) + 10] = c[1] /\ Algorithms!Body(p)[Len(p) + 11] = c[2]
          /\ Algorithms!Body(p)[Len(p) + 12] = c[3]
      BY <1>2, BodyIs
    <3>4. c[i - Len(p)] = Algorithms!Body(p)[i + 9]
      BY <3>1, <3>3
    <3> QED
      BY <3>2, <3>4
  <2> QED
    BY <1>1, <2>1, <2>2
<1>5. s \in Seq(Symbol) /\ Len(s) = k /\ \A i \in 1..k : s[i] = t[i]
  <2>1. \A i \in 1..k : t[i] \in Symbol
    <3> TAKE i \in 1..k
    <3>1. i \in 1..Len(t)
      BY <1>1, <1>3
    <3> QED
      BY <1>3, <3>1, ElementOfSeq
  <2>2. /\ s \in Seq(Symbol) /\ Len(s) = IF 1 <= k THEN k - 1 + 1 ELSE 0
        /\ \A i \in 1..(k - 1 + 1) : s[i] = t[1 + i - 1]
    BY <1>1, <2>1, SubSeqProperties
  <2> HIDE DEF s
  <2> QED
    BY <1>1, <2>2
<1> HIDE DEF s
<1>6. \A i \in 1..k : s[i] = Algorithms!Body(p)[i + 9]
  <2> TAKE i \in 1..k
  <2>1. i \in 1..(Len(p) + 3)
    BY <1>1
  <2> QED
    BY <1>4, <1>5, <2>1
<1>7. 9 + k <= Len(p) + 16
  BY <1>1
<1>8. s = Piece(p, 9, k)
  BY <1>1, <1>5, <1>6, <1>7, PiecesEqual
<1> QED
  BY <1>8 DEF s, t, c, FromTo

\* The whole payload.
LEMMA WholePayload ==
    ASSUME NEW p \in Seq(Symbol)
    PROVE  p = Piece(p, 9, Len(p))
<1>1. Len(p) \in Nat /\ 9 + Len(p) <= Len(p) + 16
  BY LenProperties
<1>2. \A i \in 1..Len(p) : p[i] = Algorithms!Body(p)[i + 9]
  BY BodyIs
<1> QED
  BY <1>1, <1>2, PiecesEqual

\* The part is what PartExact says.
LEMMA PartIsExact ==
    ASSUME NEW p \in Seq(Symbol), NEW n \in 0..(Len(p) + 16), Algorithms!Clean(p)
    PROVE  LET reached == Algorithms!Part(SubSeq(Algorithms!Body(p), 1, n))
               came == Algorithms!Came(p, n)
               closed == n >= 9 + Len(p) + Len(Algorithms!Closing) + 1
           IN  /\ n <= 9 => reached = {}
               /\ closed => reached = {p}
               /\ n > 9 /\ ~closed =>
                     reached = {IF Algorithms!LineEnd(came, Len(came) - 1)
                            THEN Algorithms!Before(came, Len(came) - 1) ELSE came}
<1> DEFINE reached == Algorithms!Part(FromTo(Algorithms!Body(p), 1, n))
           came == Algorithms!Came(p, n)
           closed == n >= 9 + Len(p) + Len(Algorithms!Closing) + 1
<1>1. Len(p) \in Nat /\ n \in Nat /\ n <= Len(p) + 16
  BY LenProperties
<1>2. closed <=> n >= Len(p) + 13
  <2>1. Len(Algorithms!Closing) = 3
    BY DEF Algorithms!Closing
  <2> QED
    BY <1>1, <2>1
<1> HIDE DEF closed, reached, came
<1>3. ASSUME n < 4 PROVE reached = {}
  <2> DEFINE b == FromTo(Algorithms!Body(p), 1, n)
  <2>1. \A i \in 1..n : Algorithms!Body(p)[i] \in Symbol
    <3> TAKE i \in 1..n
    <3>1. i \in 1..Len(Algorithms!Body(p)) /\ Algorithms!Body(p) \in Seq(Symbol)
      BY <1>1, BodyIs
    <3> QED
      BY <3>1, ElementOfSeq
  <2>2. /\ SubSeq(Algorithms!Body(p), 1, n) \in Seq(Symbol)
        /\ Len(SubSeq(Algorithms!Body(p), 1, n)) = IF 1 <= n THEN n - 1 + 1 ELSE 0
    BY <1>1, <2>1, SubSeqProperties
  <2>3. b \in Seq(Symbol) /\ Len(b) = IF 1 <= n THEN n - 1 + 1 ELSE 0
    BY <2>2 DEF FromTo
  <2> HIDE DEF b
  <2>4. Len(b) <= 3
    BY <1>1, <1>3, <2>3
  <2> QED
    BY <2>3, <2>4, ShortBody DEF reached, b
<1>4. ASSUME n >= 4
      PROVE  LET q == Trimmed(p, n)
             IN  reached = IF q >= 2 /\ EndsLine(p, q + 3)
                       THEN IF q < 7 THEN {} ELSE {Piece(p, 9, q - 7)}
                       ELSE IF q < 5 THEN {} ELSE {Piece(p, 9, q - 5)}
  <2>1. Trimmed(p, n) \in Nat /\ n \in 4..(Len(p) + 16)
    BY <1>1, <1>4 DEF Trimmed, ChunkLen
  <2> QED
    BY <2>1, PartIs DEF reached
<1>5. ASSUME n >= Len(p) + 13 PROVE reached = {p}
  <2>1. /\ Trimmed(p, n) = Len(p) + 7 /\ n >= 4 /\ Len(p) + 7 >= 2 /\ ~(Len(p) + 7 < 7)
        /\ (Len(p) + 7) + 3 = Len(p) + 10 /\ (Len(p) + 10) + 1 = Len(p) + 11
        /\ (Len(p) + 7) - 7 = Len(p)
    BY <1>1, <1>5 DEF Trimmed, ChunkLen
  <2>2. EndsLine(p, Len(p) + 10)
    BY <2>1, BodyIs DEF EndsLine
  <2>3. reached = {Piece(p, 9, Len(p))}
    BY <1>4, <2>1, <2>2
  <2> QED
    BY <2>3, WholePayload
<1>6. ASSUME n <= 9 PROVE reached = {}
  <2>1. CASE n = 9
    <3>1. /\ Trimmed(p, n) = 5 /\ n >= 4 /\ 5 >= 2 /\ 5 < 7 /\ 5 + 3 = 8 /\ 8 + 1 = 9
      BY <1>1, <2>1 DEF Trimmed, ChunkLen
    <3>2. EndsLine(p, 8)
      BY <3>1, BodyIs DEF EndsLine
    <3> QED
      BY <1>4, <3>1, <3>2
  <2>2. CASE n >= 4 /\ n # 9
    <3>1. Trimmed(p, n) < 5 /\ Trimmed(p, n) < 7
      BY <1>1, <1>6, <2>2 DEF Trimmed, ChunkLen
    <3> QED
      BY <1>4, <2>2, <3>1
  <2> QED
    BY <1>1, <1>3, <2>1, <2>2
<1>7. ASSUME n > 9, ~(n >= Len(p) + 13)
      PROVE  reached = {IF Algorithms!LineEnd(came, Len(came) - 1)
                    THEN Algorithms!Before(came, Len(came) - 1) ELSE came}
  <2> DEFINE k == n - 9
  <2>1. /\ k \in Nat /\ k >= 1 /\ k \in 0..(Len(p) + 3) /\ 9 + k <= Len(p) + 16
        /\ Trimmed(p, n) = n - 4 /\ n >= 4 /\ n - 4 >= 2 /\ ~(n - 4 < 5)
        /\ (n - 4) + 3 = n - 1 /\ (n - 4) - 5 = k /\ (n - 4) - 7 = k - 2
    BY <1>1, <1>7 DEF Trimmed, ChunkLen
  <2>2. came = Piece(p, 9, k)
    <3>1. FromTo(p \o Algorithms!Closing, 1, k) = Piece(p, 9, k)
      BY <2>1, PayloadPiece
    <3> QED
      BY <3>1 DEF came, Algorithms!Came, FromTo
  <2>3. Len(came) = k
    BY <2>1, <2>2, PieceIs
  <2>4. Algorithms!LineEnd(came, k - 1) <=> k >= 2 /\ EndsLine(p, n - 1)
    <3>1. k - 1 \in Int /\ n - 1 \in Int /\ n - 1 = (k - 1) + 9 /\ (k - 1) + 1 <= k
          /\ (1 <= k - 1 <=> k >= 2)
      BY <2>1
    <3>2. Algorithms!LineEnd(Piece(p, 9, k), k - 1) <=>
             /\ 1 <= k - 1 /\ (k - 1) + 1 <= k
             /\ Algorithms!Body(p)[n - 1] = Algorithms!CR
             /\ Algorithms!Body(p)[(n - 1) + 1] = Algorithms!LF
      <4> HIDE DEF k
      <4> QED
        BY <2>1, <3>1, LineEndIs
    <3> QED
      BY <2>2, <3>1, <3>2 DEF EndsLine
  <2>5. k = 1 => ~EndsLine(p, n - 1)
    <3>1. k = 1 => n - 1 = 9
      BY <1>1
    <3> QED
      BY <3>1, BodyIs, SymbolsDiffer DEF EndsLine
  <2>6. CASE EndsLine(p, n - 1)
    <3>1. k >= 2 /\ k # 1 /\ ~(n - 4 < 7) /\ k - 2 \in Nat
      BY <1>1, <2>1, <2>5, <2>6
    <3>2. reached = {Piece(p, 9, k - 2)}
      BY <1>4, <2>1, <2>6, <3>1
    <3>3. FromTo(Piece(p, 9, k), 1, k - 2) = Piece(p, 9, k - 2)
      <4> HIDE DEF k
      <4> QED
        BY <2>1, <3>1, SubPiece
    <3>4. Algorithms!Before(came, k - 1) = FromTo(came, 1, k - 2)
      <4>1. (k - 1) - 1 = k - 2
        BY <2>1
      <4> QED
        BY <4>1 DEF Algorithms!Before, FromTo
    <3> HIDE DEF k
    <3> QED
      BY <2>2, <2>3, <2>4, <2>6, <3>1, <3>2, <3>3, <3>4
  <2>7. CASE ~EndsLine(p, n - 1)
    <3>1. reached = {Piece(p, 9, k)}
      BY <1>4, <2>1, <2>7
    <3> HIDE DEF k
    <3> QED
      BY <2>2, <2>3, <2>4, <2>7, <3>1
  <2> QED
    BY <2>6, <2>7
<1>8. reached = Algorithms!Part(SubSeq(Algorithms!Body(p), 1, n))
  BY DEF reached, FromTo
<1> QED
  BY <1>2, <1>5, <1>6, <1>7, <1>8 DEF closed, came

\* A body and a tar have arrived up to a point of them.
InputsArrive ==
    /\ aKind = "body" =>
          /\ aInput.payload \in Seq(Symbol)
          /\ aInput.n \in 0..(Len(aInput.payload) + 16)
          /\ aInput = [payload |-> aInput.payload, n |-> aInput.n]
    /\ aKind = "tar" =>
          /\ aInput.tar \in Seq(Member) \ {<<>>}
          /\ aInput.n \in 0..Algorithms!TarLen(aInput.tar)
          /\ aInput = [tar |-> aInput.tar, n |-> aInput.n]

(***************************************************************************)
(* For payloads and members of any number and size: split_multipart gives  *)
(* the payload once the next delimiter is there, and before that what came *)
(* of it and of what closes it, and extract_media_from_tar extracts what   *)
(* tar_media_complete accepts, which is every whole tar with a file in it, *)
(* of the tars of the model.  The invariant says that an input             *)
(* is cut off somewhere in it.  A header of the tar is found at one offset *)
(* only, so the loop has one solution.                                     *)
(***************************************************************************)
THEOREM PayloadIsExact == AlgorithmsSpec => []PayloadExact
<1>1. Algorithms!Init => InputsArrive
  <2> SUFFICES ASSUME Algorithms!Init PROVE InputsArrive
    OBVIOUS
  <2>1. ASSUME aKind = "body"
        PROVE  /\ aInput.payload \in Seq(Symbol)
               /\ aInput.n \in 0..(Len(aInput.payload) + 16)
               /\ aInput = [payload |-> aInput.payload, n |-> aInput.n]
    <3> DEFINE S == {Algorithms!Data, Algorithms!CR, Algorithms!LF, Algorithms!Dash, Algorithms!Name}
    <3>1. aInput \in [payload : Algorithms!SeqsUpto(MaxPayload, S), n : {0}]
      BY <2>1 DEF Algorithms!Init
    <3>2. PICK k \in 0..MaxPayload : aInput.payload \in [1..k -> S]
      BY <3>1 DEF Algorithms!SeqsUpto
    <3>3. S \subseteq Symbol
      BY DEF Symbol
    <3> HIDE DEF S
    <3>4. k \in Nat /\ aInput.payload \in [1..k -> Symbol]
      BY <3>2, <3>3
    <3>5. /\ aInput.payload \in Seq(Symbol) /\ aInput.n = 0
          /\ aInput = [payload |-> aInput.payload, n |-> aInput.n]
      BY <3>1, <3>4
    <3> QED
      BY <3>5, LenProperties
  <2>2. ASSUME aKind = "tar"
        PROVE  /\ aInput.tar \in Seq(Member) \ {<<>>}
               /\ aInput.n \in 0..Algorithms!TarLen(aInput.tar)
               /\ aInput = [tar |-> aInput.tar, n |-> aInput.n]
    <3>1. aInput \in [tar : Algorithms!SeqsUpto(MaxMembers, Member) \ {<<>>}, n : {0}]
      BY <2>2 DEF Algorithms!Init, Member
    <3>2. PICK k \in 0..MaxMembers : aInput.tar \in [1..k -> Member]
      BY <3>1 DEF Algorithms!SeqsUpto
    <3>3. /\ aInput.tar \in Seq(Member) \ {<<>>} /\ aInput.n = 0
          /\ aInput = [tar |-> aInput.tar, n |-> aInput.n]
      BY <3>1, <3>2
    <3>4. Algorithms!TarLen(aInput.tar) \in Nat
      BY <3>3, LastHeader
    <3> QED
      BY <3>3, <3>4
  <2> QED
    BY <2>1, <2>2 DEF InputsArrive
<1>2. InputsArrive /\ [Algorithms!Next]_(Algorithms!vars) => InputsArrive'
  <2> SUFFICES ASSUME InputsArrive, [Algorithms!Next]_(Algorithms!vars)
               PROVE  InputsArrive'
    OBVIOUS
  <2>1. CASE Algorithms!NextByte
    BY <2>1 DEF Algorithms!NextByte, InputsArrive
  <2>2. CASE Algorithms!Receive
    <3>1. aInput' = [aInput EXCEPT !.n = aInput.n + 1] /\ aKind' = aKind
      BY <2>2 DEF Algorithms!Receive
    <3>2. CASE aKind = "body"
      <4>1. Len(Algorithms!Body(aInput.payload)) = Len(aInput.payload) + 16
        BY <3>2, BodyIs DEF InputsArrive
      <4>2. aInput.n < Len(aInput.payload) + 16
        BY <2>2, <3>2, <4>1 DEF Algorithms!Receive
      <4>3. /\ aInput'.payload = aInput.payload /\ aInput'.n = aInput.n + 1
            /\ aInput' = [payload |-> aInput'.payload, n |-> aInput'.n]
        BY <3>1, <3>2 DEF InputsArrive
      <4>4. aInput.n + 1 \in 0..(Len(aInput.payload) + 16)
        BY <3>2, <4>2, LenProperties DEF InputsArrive
      <4> QED
        BY <3>1, <3>2, <4>3, <4>4 DEF InputsArrive
    <3>3. CASE aKind = "tar"
      <4>1. aInput.n < Algorithms!TarLen(aInput.tar)
        BY <2>2, <3>3 DEF Algorithms!Receive
      <4>2. /\ aInput'.tar = aInput.tar /\ aInput'.n = aInput.n + 1
            /\ aInput' = [tar |-> aInput'.tar, n |-> aInput'.n]
        BY <3>1, <3>3 DEF InputsArrive
      <4>3. aInput.n + 1 \in 0..Algorithms!TarLen(aInput.tar)
        <5>1. aInput.tar \in Seq(Member) /\ aInput.n \in 0..Algorithms!TarLen(aInput.tar)
          BY <3>3 DEF InputsArrive
        <5>2. Algorithms!TarLen(aInput.tar) \in Nat
          BY <5>1, LastHeader
        <5> QED
          BY <4>1, <5>1, <5>2
      <4> QED
        BY <3>1, <3>3, <4>2, <4>3 DEF InputsArrive
    <3> QED
      BY <2>2, <3>2, <3>3 DEF Algorithms!Receive
  <2>3. CASE UNCHANGED Algorithms!vars
    BY <2>3 DEF InputsArrive, Algorithms!vars
  <2> QED
    BY <2>1, <2>2, <2>3 DEF Algorithms!Next
<1>3. InputsArrive => PayloadExact
  <2> SUFFICES ASSUME InputsArrive PROVE PayloadExact
    OBVIOUS
  <2>1. Algorithms!PartExact
    <3> SUFFICES ASSUME aKind = "body", Algorithms!Clean(aInput.payload) PROVE Algorithms!PartExact
      BY DEF Algorithms!PartExact
    <3>1. aInput.payload \in Seq(Symbol) /\ aInput.n \in 0..(Len(aInput.payload) + 16)
      BY DEF InputsArrive
    <3> QED
      BY <3>1, PartIsExact DEF Algorithms!PartExact, Algorithms!Arrived
  <2>2. Algorithms!CompleteExtracts
    <3> SUFFICES ASSUME aKind = "tar" PROVE Algorithms!CompleteExtracts
      BY DEF Algorithms!CompleteExtracts
    <3>1. aInput.tar \in Seq(Member) \ {<<>>} /\ aInput.n \in Nat
      <4>1. aInput.tar \in Seq(Member) \ {<<>>} /\ aInput.n \in 0..Algorithms!TarLen(aInput.tar)
        BY DEF InputsArrive
      <4> QED
        BY <4>1, LastHeader
    <3> QED
      BY <3>1, ExtractsComplete DEF Algorithms!CompleteExtracts
  <2> QED
    BY <2>1, <2>2 DEF PayloadExact
<1> QED
  BY <1>1, <1>2, <1>3, PTL DEF AlgorithmsSpec, Algorithms!Spec, Algorithms!vars

-----------------------------------------------------------------------------
(***************************************************************************)
(* The search for an upload key, for any number of files, of blocks and    *)
(* of rows.                                                                *)
(***************************************************************************)
RecoverySpec == Recovery!Spec

LEMMA FirstIsOne ==
    ASSUME NEW s, NEW I \in SUBSET Nat, I # {}
    PROVE  \E i \in I : Recovery!First(s, I) = s[i]
BY FirstIndex DEF Recovery!First

LEMMA FirstOfNone == ASSUME NEW s PROVE Recovery!First(s, {}) = [upload |-> Empty, rest |-> Empty]
BY DEF Recovery!First

\* The rows and blocks of a file that are the card's own have its key or none.
LEMMA OwnRow ==
    ASSUME NEW n \in Nat, NEW f \in Recovery!File(n), f.kind = "db", NEW i \in Recovery!OwnRows(f)
    PROVE  f.rows[i].upload \in {Own, Empty} /\ f.rows[i].rest \in {Empty, Token}
<1>1. PICK k \in 0..n : f.rows \in [1..k -> Recovery!Rows]
  BY DEF Recovery!File, Recovery!Upto
<1>2. f.rows \in Seq(Recovery!Rows)
  BY <1>1, SeqDef
<1>3. f.rows[i] \in Recovery!Rows /\ f.rows[i].mac = Own
  BY <1>2, ElementOfSeq DEF Recovery!OwnRows
<1> QED
  BY <1>3 DEF Recovery!Rows, Recovery!Card
LEMMA OwnBlock ==
    ASSUME NEW n \in Nat, NEW f \in Recovery!File(n), f.kind = "xml", NEW i \in Recovery!OwnBlocks(f)
    PROVE  f.blocks[i].upload \in {Own, Empty, Zeros}
<1>1. PICK k \in 0..n : f.blocks \in [1..k -> Recovery!Blocks]
  BY DEF Recovery!File, Recovery!Upto
<1>2. f.blocks \in Seq(Recovery!Blocks)
  BY <1>1, SeqDef
<1>3. f.blocks[i] \in Recovery!Blocks /\ f.blocks[i].mac = Own
  BY <1>2, ElementOfSeq DEF Recovery!OwnBlocks
<1> QED
  BY <1>3 DEF Recovery!Blocks, Recovery!Card

\* A key that is found is the card's own, unless it was guessed; and the own key
\* of a file is found.
LEMMA FileKey ==
    ASSUME NEW n \in Nat, NEW f \in Recovery!File(n)
    PROVE  /\ Recovery!FromFile(f) \in {Own, Zeros, Empty} \/ Recovery!Guessed(f)
           /\ Recovery!Holds(f) => Recovery!FromFile(f) \notin {Empty, Zeros}
<1> USE KeysApart DEF Recovery!KeysDiffer
<1>1. CASE f.kind = "xml"
  <2>1. Recovery!FromFile(f) = IF Recovery!HasBlock(f) THEN Recovery!FromBlocks(f)
                               ELSE Recovery!FromLabels(f)
    BY <1>1 DEF Recovery!FromFile
  <2>2. ASSUME Recovery!HasBlock(f) PROVE Recovery!FromBlocks(f) \in {Own, Zeros, Empty}
    <3>1. Recovery!OwnBlocks(f) # {} /\ Recovery!OwnBlocks(f) \in SUBSET Nat
      BY <2>2 DEF Recovery!HasBlock, Recovery!OwnBlocks
    <3>2. PICK i \in Recovery!OwnBlocks(f) :
             Recovery!First(f.blocks, Recovery!OwnBlocks(f)) = f.blocks[i]
      BY <3>1, FirstIsOne
    <3> QED
      BY <1>1, <3>2, OwnBlock DEF Recovery!FromBlocks
  <2> QED
    BY <1>1, <2>1, <2>2 DEF Recovery!Guessed, Recovery!Holds
<1>2. CASE f.kind = "db"
  <2> DEFINE keyed == {i \in Recovery!OwnRows(f) : f.rows[i].upload # Empty \/ f.rows[i].rest # Empty}
             r == Recovery!First(f.rows, keyed)
  <2>1. Recovery!FromFile(f) = IF r.upload # Empty THEN r.upload ELSE r.rest
    BY <1>2 DEF Recovery!FromFile, Recovery!FromRows
  <2>2. CASE keyed = {}
    <3>1. r = [upload |-> Empty, rest |-> Empty]
      BY <2>2, FirstOfNone
    <3>2. Recovery!FromFile(f) = Empty
      BY <2>1, <3>1
    <3>3. ~Recovery!Holds(f)
      BY <1>2, <2>2 DEF Recovery!Holds
    <3> QED
      BY <3>2, <3>3
  <2>3. CASE keyed # {}
    <3>1. keyed \in SUBSET Nat
      BY DEF Recovery!OwnRows
    <3>2. PICK i \in keyed : r = f.rows[i]
      BY <2>3, <3>1, FirstIsOne
    <3>3. r.upload \in {Own, Empty} /\ r.rest \in {Empty, Token}
      BY <1>2, <3>2, OwnRow
    <3>4. r.upload # Empty \/ r.rest # Empty
      BY <3>2
    <3>5. r.upload = Empty => Recovery!Guessed(f)
      BY <1>2, <3>2 DEF Recovery!Guessed
    <3> QED
      BY <2>1, <3>3, <3>4, <3>5
  <2> QED
    BY <2>2, <2>3
<1> QED
  BY <1>1, <1>2 DEF Recovery!File
\* What the search has passed over has no key for the card.
RecoveryInv ==
    /\ kFiles \in [1..PcFiles -> Recovery!File(PcBlocks)]
    /\ kNext \in Nat \ {0}
    /\ kPhase \in {"search", "ask"} =>
          /\ kKey = Empty
          /\ \A i \in 1..PcFiles : i < kNext => ~Recovery!Holds(kFiles[i])
    /\ kPhase = "ask" => kNext > PcFiles
    /\ Recovery!OwnKeyOnly

LEMMA RecoveryStart == Recovery!Init => RecoveryInv
BY KeysApart DEF Recovery!KeysDiffer, Recovery!Init, RecoveryInv, Recovery!OwnKeyOnly

LEMMA RecoveryStep == RecoveryInv /\ [Recovery!Next]_(Recovery!vars) => RecoveryInv'
<1> SUFFICES ASSUME RecoveryInv, [Recovery!Next]_(Recovery!vars) PROVE RecoveryInv'
  OBVIOUS
<1> USE KeysApart DEF RecoveryInv, Recovery!KeysDiffer
<1>1. CASE Recovery!Search
  <2> DEFINE f == kFiles[kNext]
             k == Recovery!FromFile(f)
  <2>1. kNext \in 1..PcFiles /\ f \in Recovery!File(PcBlocks) /\ UNCHANGED <<kFiles, kPicked>>
    BY <1>1 DEF Recovery!Search
  <2>2. /\ k \in {Own, Zeros, Empty} \/ Recovery!Guessed(f)
        /\ Recovery!Holds(f) => k \notin {Empty, Zeros}
    BY <2>1, FileKey
  <2>3. CASE k \notin {Empty, Zeros}
    <3>1. kKey' = k /\ kFrom' = f /\ kPhase' = "done" /\ kNext' = kNext
      BY <1>1, <2>3 DEF Recovery!Search, Recovery!Found
    <3>2. kKey' \in {Own, Zeros} \/ Recovery!Guessed(kFrom')
      BY <2>2, <2>3, <3>1
    <3>3. Recovery!OwnKeyOnly'
      BY <2>3, <3>1, <3>2 DEF Recovery!OwnKeyOnly
    <3> QED
      BY <2>1, <3>1, <3>3
  <2>4. CASE k \in {Empty, Zeros}
    <3>1. kNext' = kNext + 1 /\ UNCHANGED <<kPhase, kKey, kFrom>>
      BY <1>1, <2>4 DEF Recovery!Search, Recovery!AfterMiss
    <3>2. kPhase = "search"
      BY <1>1 DEF Recovery!Search
    <3>3. ~Recovery!Holds(f)
      BY <2>2, <2>4
    <3>4. ASSUME NEW i \in 1..PcFiles, i < kNext' PROVE ~Recovery!Holds(kFiles[i])
      BY <2>1, <3>1, <3>2, <3>3, <3>4
    <3> QED
      BY <2>1, <3>1, <3>2, <3>4 DEF Recovery!OwnKeyOnly
  <2> QED
    BY <2>3, <2>4
<1>2. CASE Recovery!Ask
  BY <1>2 DEF Recovery!Ask, Recovery!OwnKeyOnly
<1>3. CASE Recovery!Decline
  BY <1>3 DEF Recovery!Decline, Recovery!OwnKeyOnly
<1>4. CASE Recovery!Pick
  <2>1. PICK f \in Recovery!File(PickedBlocks) :
           kPicked' = f /\ Recovery!Found(Recovery!FromFile(f), f)
    BY <1>4 DEF Recovery!Pick
  <2>2. f # <<>>
    <3>1. "kind" \in DOMAIN f
      BY DEF Recovery!File
    <3>2. DOMAIN << >> = {}
      BY EmptySeq
    <3> QED
      BY <3>1, <3>2
  <2>3. Recovery!FromFile(f) \in {Own, Zeros, Empty} \/ Recovery!Guessed(f)
    BY FileKey
  <2> QED
    BY <1>4, <2>1, <2>2, <2>3 DEF Recovery!Pick, Recovery!Found, Recovery!OwnKeyOnly
<1>5. CASE UNCHANGED Recovery!vars
  BY <1>5 DEF Recovery!vars, Recovery!OwnKeyOnly
<1> QED
  BY <1>1, <1>2, <1>3, <1>4, <1>5 DEF Recovery!Next

(***************************************************************************)
(* recover_upload_key: the key it gives is that of the card's own block or *)
(* row, unless the labels of a file or another column had to do; and the   *)
(* user is asked only after no known file held a key of the card.          *)
(***************************************************************************)
THEOREM RecoveredKeyIsOwn == RecoverySpec => []KeyRight
<1>1. RecoveryInv => KeyRight
  BY KeysApart DEF RecoveryInv, KeyRight, Recovery!AskedLast, Recovery!KeysDiffer
<1> QED
  BY <1>1, RecoveryStart, RecoveryStep, PTL DEF RecoverySpec, Recovery!Spec
-----------------------------------------------------------------------------
(***************************************************************************)
(* The captures, for any number of handlers, photos and captures.  Those   *)
(* that write were counted when a place was free; and while no write       *)
(* fails, the name of a file tells what is in it.                          *)
(***************************************************************************)
CaptureSpec == Capturing!Spec

Writes == {h \in Handlers : cPc[h] \in {"bin", "txt"}}

CaptureTypes ==
    /\ cPc \in [Handlers -> {"idle", "count", "bin", "txt"}]
    /\ cData \in [Handlers -> Capturing!Data \cup {<<>>}]
    /\ cBase = [h \in Handlers |-> cBase[h]]
    /\ \A h \in Handlers : cPc[h] # "idle" => cData[h] \in Capturing!Data
    /\ cFaults \in Nat

PlacesLeft ==
    /\ IsFiniteSet(DOMAIN cTxt)
    /\ Cardinality(DOMAIN cTxt) + Cardinality(Writes) <= Limit + Cardinality(Handlers) - 1

Tells(b, d) == d \in Capturing!Data /\ b[2] = Label[d[1]] /\ b[3] = d[2]

NamesTell ==
    cFaults = 0 =>
        /\ \A h \in Writes : Tells(cBase[h], cData[h])
        /\ \A b \in DOMAIN cBin : Tells(b, cBin[b])
        /\ \A b \in DOMAIN cTxt : Tells(b, cTxt[b])

CaptureInv == CaptureTypes /\ PlacesLeft /\ NamesTell

LEMMA SameFinite ==
    ASSUME NEW S
    PROVE  /\ Capturing!IsFiniteSet(S) <=> IsFiniteSet(S)
           /\ Capturing!Cardinality(S) = Cardinality(S)
BY DEF Capturing!IsFiniteSet, IsFiniteSet, Capturing!Cardinality, Cardinality

LEMMA HandlersFinite ==
    /\ Cardinality(Handlers) \in Nat /\ Limit \in Nat \ {0}
    /\ \A H \in SUBSET Handlers : /\ IsFiniteSet(H) /\ Cardinality(H) \in Nat
                                  /\ Cardinality(H) <= Cardinality(Handlers)
<1>1. IsFiniteSet(Handlers) /\ Limit \in Nat \ {0}
  BY CaptureNumbers, SameFinite DEF Capturing!Numbers
<1> QED
  BY <1>1, FS_Subset, FS_CardinalityType

LEMMA CaptureStart == Capturing!Init => CaptureInv
<1> SUFFICES ASSUME Capturing!Init PROVE CaptureInv
  OBVIOUS
<1> USE DEF Capturing!Init
<1>1. CaptureTypes
  BY DEF CaptureTypes, Capturing!Nothing
<1>2. DOMAIN cTxt = {} /\ DOMAIN cBin = {} /\ Writes = {}
  BY DEF Writes
<1>3. PlacesLeft
  <2>1. Cardinality(Handlers) \in Nat /\ Limit \in Nat \ {0}
    BY HandlersFinite
  <2> QED
    BY <1>2, <2>1, FS_EmptySet DEF PlacesLeft
<1>4. NamesTell
  BY <1>2 DEF NamesTell
<1> QED
  BY <1>1, <1>3, <1>4 DEF CaptureInv

LEMMA ReceiveStep ==
    ASSUME CaptureInv, NEW h \in Handlers, Capturing!Receive(h)
    PROVE  CaptureInv'
<1> USE DEF CaptureInv, Capturing!Receive, Capturing!Step
<1>1. CaptureTypes'
  BY DEF CaptureTypes
<1>2. Writes' = Writes
  BY DEF CaptureTypes, Writes
<1>3. PlacesLeft'
  BY <1>2 DEF PlacesLeft
<1>4. NamesTell'
  BY <1>2 DEF CaptureTypes, NamesTell, Writes, Tells
<1> QED
  BY <1>1, <1>3, <1>4

LEMMA CountStep ==
    ASSUME CaptureInv, NEW h \in Handlers, Capturing!Count(h)
    PROVE  CaptureInv'
<1> USE DEF CaptureInv, Capturing!Count, Capturing!Step
<1>1. CaptureTypes'
  BY DEF CaptureTypes, Capturing!Nothing
<1>2. CASE Capturing!Full
  <2>1. Writes' = Writes /\ h \notin Writes
    BY <1>2 DEF CaptureTypes, Writes
  <2>2. PlacesLeft'
    BY <1>2, <2>1 DEF PlacesLeft
  <2>3. \A g \in Writes : cData'[g] = cData[g] /\ cBase'[g] = cBase[g]
    BY <1>2, <2>1 DEF CaptureTypes, Writes
  <2>4. NamesTell'
    BY <1>2, <2>1, <2>3 DEF NamesTell, Tells
  <2> QED
    BY <1>1, <2>2, <2>4
<1>3. CASE ~Capturing!Full
  <2>1. UNCHANGED cTxt /\ Cardinality(DOMAIN cTxt) \in Nat /\ Cardinality(DOMAIN cTxt) < Limit
    <3>1. IsFiniteSet(DOMAIN cTxt)
      BY DEF PlacesLeft
    <3>2. Limit \in Nat
      BY HandlersFinite
    <3>3. Cardinality(DOMAIN cTxt) \in Nat
      BY <3>1, FS_CardinalityType
    <3> QED
      BY <1>3, <3>2, <3>3, SameFinite DEF Capturing!Full
  <2>2. PlacesLeft'
    <3>1. Writes' \in SUBSET Handlers
      BY DEF Writes
    <3>2. Cardinality(Writes') \in Nat /\ Cardinality(Writes') <= Cardinality(Handlers)
      BY <3>1, HandlersFinite
    <3> QED
      BY <2>1, <3>2, HandlersFinite DEF PlacesLeft
  <2>3. Writes' = Writes \cup {h} /\ h \notin Writes
    BY <1>3 DEF CaptureTypes, Writes
  <2>4. /\ \E n : cBase'[h] = Capturing!Name(n, cData[h])
        /\ \A g \in Handlers \ {h} : cBase'[g] = cBase[g]
        /\ UNCHANGED <<cData, cBin, cTxt, cFaults>>
    BY <1>3 DEF CaptureTypes
  <2>5. cData[h] \in Capturing!Data
    BY DEF CaptureTypes
  <2>6. Tells(cBase'[h], cData[h])
    BY <2>4, <2>5 DEF Tells, Capturing!Name
  <2>7. NamesTell'
    BY <2>3, <2>4, <2>6 DEF NamesTell, Writes, Tells
  <2> QED
    BY <1>1, <2>2, <2>7
<1> QED
  BY <1>2, <1>3
LEMMA WriteBinStep ==
    ASSUME CaptureInv, NEW h \in Handlers, Capturing!WriteBin(h)
    PROVE  CaptureInv'
<1> USE DEF CaptureInv, Capturing!WriteBin, Capturing!Step
<1>1. CaptureTypes'
  BY DEF CaptureTypes
<1>2. h \in Writes /\ Writes' = Writes
  BY DEF CaptureTypes, Writes
<1>3. PlacesLeft'
  BY <1>2 DEF PlacesLeft
<1>4. /\ DOMAIN cBin' = DOMAIN cBin \cup {cBase[h]}
      /\ \A b \in DOMAIN cBin' : cBin'[b] = IF b = cBase[h] THEN cData[h] ELSE cBin[b]
  BY DEF Capturing!Put
<1>5. UNCHANGED <<cData, cBase, cTxt, cFaults>>
  OBVIOUS
<1> HIDE DEF Capturing!WriteBin
<1>6. NamesTell'
  BY <1>2, <1>4, <1>5 DEF NamesTell, Tells
<1> QED
  BY <1>1, <1>3, <1>6

LEMMA WriteTxtStep ==
    ASSUME CaptureInv, NEW h \in Handlers, Capturing!WriteTxt(h)
    PROVE  CaptureInv'
<1> USE DEF CaptureInv, Capturing!WriteTxt, Capturing!Step
<1>1. CaptureTypes'
  BY DEF CaptureTypes, Capturing!Nothing
<1>2. h \in Writes /\ Writes' = Writes \ {h}
  BY DEF CaptureTypes, Writes
<1>3. /\ DOMAIN cTxt' = DOMAIN cTxt \cup {cBase[h]}
      /\ \A b \in DOMAIN cTxt' : cTxt'[b] = IF b = cBase[h] THEN cData[h] ELSE cTxt[b]
  BY DEF Capturing!Put
<1>4. /\ UNCHANGED <<cBin, cFaults>>
      /\ \A g \in Writes' : cData'[g] = cData[g] /\ cBase'[g] = cBase[g]
  BY <1>2 DEF CaptureTypes, Writes
<1> HIDE DEF Capturing!WriteTxt
<1>5. PlacesLeft'
  <2>1. IsFiniteSet(DOMAIN cTxt) /\ Cardinality(DOMAIN cTxt) \in Nat
    BY FS_CardinalityType DEF PlacesLeft
  <2>2. /\ IsFiniteSet(DOMAIN cTxt')
        /\ Cardinality(DOMAIN cTxt') \in Nat
        /\ Cardinality(DOMAIN cTxt') <= Cardinality(DOMAIN cTxt) + 1
    BY <1>3, <2>1, FS_AddElement
  <2>3. Writes \in SUBSET Handlers
    BY DEF Writes
  <2>4. Cardinality(Writes) \in Nat /\ Cardinality(Writes') = Cardinality(Writes) - 1
    BY <1>2, <2>3, HandlersFinite, FS_RemoveElement
  <2> QED
    BY <2>1, <2>2, <2>4, HandlersFinite DEF PlacesLeft
<1>6. NamesTell'
  BY <1>2, <1>3, <1>4 DEF NamesTell, Tells
<1> QED
  BY <1>1, <1>5, <1>6

\* Handlers that are stopped leave no more files than they were.
LEMMA FaultStep ==
    ASSUME CaptureInv, Capturing!Fault
    PROVE  CaptureInv'
<1> USE DEF CaptureInv
<1>1. PICK H \in SUBSET Handlers :
         /\ Capturing!Leaves(H)
         /\ cPc' = [h \in Handlers |-> IF h \in H THEN "idle" ELSE cPc[h]]
         /\ cData' = [h \in Handlers |-> IF h \in H THEN <<>> ELSE cData[h]]
         /\ cBase' = [h \in Handlers |-> IF h \in H THEN <<>> ELSE cBase[h]]
  BY DEF Capturing!Fault, Capturing!Nothing
<1>2. cFaults' = cFaults + 1
  BY DEF Capturing!Fault
<1>3. CaptureTypes'
  BY <1>1, <1>2 DEF CaptureTypes
<1>4. NamesTell'
  BY <1>2 DEF NamesTell, CaptureTypes
<1>5. PlacesLeft'
  <2>1. PICK cut \in SUBSET {h \in H : cPc[h] \in {"bin", "txt"}} :
           cTxt' = Capturing!Put({cBase[h] : h \in {g \in cut : cPc[g] = "txt"}}, Capturing!Short,
                                 cTxt)
    BY <1>1 DEF Capturing!Leaves
  <2> DEFINE S == {g \in cut : cPc[g] = "txt"}
             T == {cBase[h] : h \in S}
             f == [h \in S |-> cBase[h]]
  <2>2. DOMAIN cTxt' = DOMAIN cTxt \cup T
    BY <2>1 DEF Capturing!Put
  <2>3. S \subseteq Writes \cap H /\ S \subseteq Handlers /\ Writes \subseteq Handlers
    BY DEF Writes
  <2>4. IsFiniteSet(T) /\ Cardinality(T) <= Cardinality(S)
    <3>1. f \in Surjection(S, T)
      BY DEF Surjection
    <3>2. IsFiniteSet(S)
      BY <2>3, HandlersFinite
    <3> QED
      BY <3>1, <3>2, FS_Surjection
  <2> HIDE DEF S, T, f
  <2>5. Writes' = Writes \ H
    BY <1>1 DEF Writes
  <2>6. /\ Cardinality(Writes') = Cardinality(Writes) - Cardinality(Writes \cap H)
        /\ Cardinality(Writes) \in Nat /\ Cardinality(Writes \cap H) \in Nat
        /\ Cardinality(S) \in Nat /\ Cardinality(S) <= Cardinality(Writes \cap H)
    <3>1. IsFiniteSet(Writes) /\ IsFiniteSet(Writes \cap H)
      BY <2>3, HandlersFinite
    <3> QED
      BY <2>3, <2>5, <3>1, FS_Difference, FS_Subset, FS_CardinalityType
  <2>7. IsFiniteSet(DOMAIN cTxt) /\ Cardinality(DOMAIN cTxt) \in Nat /\ Cardinality(T) \in Nat
    BY <2>4, FS_CardinalityType DEF PlacesLeft
  <2>8. /\ IsFiniteSet(DOMAIN cTxt') /\ Cardinality(DOMAIN cTxt') \in Nat
        /\ Cardinality(DOMAIN cTxt') <= Cardinality(DOMAIN cTxt) + Cardinality(T)
    <3>1. IsFiniteSet(DOMAIN cTxt \cap T)
      BY <2>7, FS_Intersection
    <3>2. Cardinality(DOMAIN cTxt \cap T) \in Nat
      BY <3>1, FS_CardinalityType
    <3>3. /\ IsFiniteSet(DOMAIN cTxt')
          /\ Cardinality(DOMAIN cTxt') = Cardinality(DOMAIN cTxt) + Cardinality(T)
                                           - Cardinality(DOMAIN cTxt \cap T)
      BY <2>2, <2>4, <2>7, FS_Union
    <3>4. Cardinality(DOMAIN cTxt') \in Nat
      BY <3>3, FS_CardinalityType
    <3> QED
      BY <2>7, <3>2, <3>3, <3>4
  <2> QED
    BY <2>4, <2>6, <2>7, <2>8, HandlersFinite DEF PlacesLeft
<1> QED
  BY <1>3, <1>4, <1>5

LEMMA CaptureStep == CaptureInv /\ [Capturing!Next]_(Capturing!vars) => CaptureInv'
<1> SUFFICES ASSUME CaptureInv, [Capturing!Next]_(Capturing!vars) PROVE CaptureInv'
  OBVIOUS
<1>1. CASE UNCHANGED Capturing!vars
  BY <1>1 DEF CaptureInv, CaptureTypes, PlacesLeft, NamesTell, Writes, Tells, Capturing!vars
<1> QED
  BY <1>1, ReceiveStep, CountStep, WriteBinStep, WriteTxtStep, FaultStep DEF Capturing!Next

\* What the tool computes from files whose names tell their content.
LEMMA DataPair ==
    ASSUME NEW d \in Capturing!Data
    PROVE  d[1] \in Photo /\ d[2] \in BOOLEAN /\ d = <<d[1], d[2]>>
<1>1. PICK p \in Photo, all \in BOOLEAN : d = <<p, all>>
  BY DEF Capturing!Data
<1> QED
  BY <1>1

LEMMA TwoFilesAgree ==
    ASSUME Capturing!Distinct, NEW b, NEW d, NEW e, Tells(b, d), Tells(b, e)
    PROVE  d = e
<1>1. d[1] \in Photo /\ d = <<d[1], d[2]>> /\ e[1] \in Photo /\ e = <<e[1], e[2]>>
  BY DataPair DEF Tells
<1>2. d[1] = e[1] /\ d[2] = e[2]
  BY <1>1 DEF Tells, Capturing!Distinct
<1> QED
  BY <1>1, <1>2

LEMMA FormulaIsFound == CaptureInv => Capturing!FormulaFound
<1> SUFFICES ASSUME CaptureInv, cFaults = 0, Capturing!Distinct
             PROVE  /\ Capturing!Judged # {} => Capturing!CardFormula \in Capturing!Winners
                    /\ (\E b \in Capturing!Judged : cTxt[b][1] \notin Symmetric) =>
                          Capturing!Confirmed
  BY DEF Capturing!FormulaFound
<1>1. ASSUME NEW b \in Capturing!Judged
      PROVE  /\ cTxt[b] = <<cTxt[b][1], TRUE>> /\ cBin[b] = cTxt[b]
             /\ cBin[b] # Capturing!Short
  <2>1. b \in DOMAIN cTxt /\ b \in DOMAIN cBin /\ cTxt[b][2]
    BY DEF Capturing!Judged, Capturing!Captured
  <2>2. Tells(b, cTxt[b]) /\ Tells(b, cBin[b])
    BY <2>1 DEF CaptureInv, NamesTell
  <2>3. cBin[b] = cTxt[b]
    BY <2>2, TwoFilesAgree
  <2>4. cTxt[b] \in Capturing!Data
    BY <2>2 DEF Tells
  <2>5. cTxt[b] = <<cTxt[b][1], TRUE>>
    BY <2>1, <2>4, DataPair
  <2>6. cTxt[b] # Capturing!Short
    BY DEF Capturing!Judged, Capturing!Captured
  <2> QED
    BY <2>3, <2>5, <2>6
<1>2. ASSUME NEW b \in Capturing!Judged, NEW f
      PROVE  Capturing!Matches(f, b) <=>
                Capturing!Digest(f, cTxt[b]) = Capturing!Digest(Capturing!CardFormula, cTxt[b])
  BY <1>1 DEF Capturing!Matches
<1>3. Capturing!CardFormula \in Capturing!Candidates
  BY DEF Capturing!CardFormula, Capturing!Candidates
<1>4. Capturing!Judged # {} => Capturing!CardFormula \in Capturing!Winners
  BY <1>2, <1>3 DEF Capturing!Winners
<1>5. ASSUME NEW b \in Capturing!Judged, cTxt[b][1] \notin Symmetric
      PROVE  Capturing!Confirmed
  <2>1. ASSUME NEW f \in Capturing!Winners PROVE f = Capturing!CardFormula
    <3>1. Capturing!Digest(f, cTxt[b]) = Capturing!Digest(Capturing!CardFormula, cTxt[b])
      BY <1>2, <2>1 DEF Capturing!Winners
    <3> QED
      BY <1>5, <3>1 DEF Capturing!Digest
  <2>2. Capturing!Winners = {Capturing!CardFormula}
    BY <1>4, <1>5, <2>1
  <2>3. Cardinality(Capturing!Winners) = 1
    BY <2>2, FS_Singleton
  <2> QED
    BY <2>3, SameFinite DEF Capturing!Confirmed
<1> QED
  BY <1>4, <1>5

(***************************************************************************)
(* capture_integrity and verify_integrity: handlers that count at the same *)
(* time exceed the limit by one capture each at most; and if no write      *)
(* fails and no two photos share name and size, the files confirm the      *)
(* formula of the card, in whatever order handlers wrote them.             *)
(***************************************************************************)
THEOREM CapturesConfirm == CaptureSpec => []CapturesTell
<1>1. CaptureInv => Capturing!LimitNearly
  <2> SUFFICES ASSUME CaptureInv PROVE Capturing!LimitNearly
    OBVIOUS
  <2>1. IsFiniteSet(DOMAIN cTxt) /\ Writes \in SUBSET Handlers
    BY DEF CaptureInv, PlacesLeft, Writes
  <2>2. Cardinality(DOMAIN cTxt) \in Nat /\ Cardinality(Writes) \in Nat
    BY <2>1, HandlersFinite, FS_CardinalityType
  <2> QED
    BY <2>2, HandlersFinite, SameFinite DEF CaptureInv, PlacesLeft, Capturing!LimitNearly
<1> QED
  BY <1>1, FormulaIsFound, CaptureStart, CaptureStep, PTL DEF CaptureSpec, Capturing!Spec, CapturesTell
=============================================================================
