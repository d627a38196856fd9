----------------------------- MODULE SpoolFiles -----------------------------
(***************************************************************************)
(* The spool of one file name on the disk: the methods of EyeFiServer that *)
(* work on .part, .size and .part.abandoned, one action per access to a    *)
(* file, with the locks they hold, a program that may die between any two  *)
(* accesses, and writes that fail halfway.                                 *)
(*                                                                         *)
(* The handlers are those of SpoolTransfer reduced to the calls they make: *)
(* an upload sends a slice of the photo from the offset it was told.  One  *)
(* name may be borne by several photos in turn (the card was formatted, the*)
(* camera counts from the start again).  Locks and tokens are kept by the  *)
(* server object, and a stop and start in one process makes a new one while*)
(* the handlers of the old one run on.                                     *)
(***************************************************************************)
EXTENDS Integers, Sequences

CONSTANTS
    Threads,        \* handler threads; NoThread and Dog are none of them
    NoThread,
    Dog,            \* the watchdog of the current server object
    Photos,
    FileSize,       \* FileSize[p]: units of the tar of photo p
    MediaSize,      \* of these, units up to the end of its last file; the first has its header
    Near,           \* the 4096 of the near-complete rescue
    MaxGens,        \* bound on server objects in one process
    MaxRetakes,     \* bound on photos that take over the name
    MaxFaults,      \* bound on crashes and failed writes
    LiveOn          \* do handlers outlive their server object?

ASSUME ThreadAssumption ==
    NoThread \notin Threads /\ Dog \notin Threads /\ NoThread # Dog

ASSUME PhotoAssumption ==
    /\ FileSize \in [Photos -> Nat \ {0}]
    /\ MediaSize \in [Photos -> Nat \ {0}]
    /\ \A p \in Photos : MediaSize[p] <= FileSize[p]
    /\ Near \in Nat
    /\ MaxGens \in Nat \ {0} /\ MaxRetakes \in Nat /\ MaxFaults \in Nat
    /\ LiveOn \in BOOLEAN

Gens == 1..MaxGens
Unknown == 0        \* .size is missing, empty or unreadable

VARIABLES
    part,           \* content of .part; missing = empty
    size,           \* number in .size
    archive,        \* content of .part.abandoned
    photo,          \* the photo the card offers under the name
    gen,            \* server object that takes new connections
    lock,           \* lock[g]: holder of the lock for this name
    writer,         \* writer[g]: thread with the newest token
    pc, th,         \* control and locals of the threads
    dog,            \* _watchdog_tick: "idle", "found" or "moved"
    wrong,          \* history: what was assembled was not the photo
    orphan,         \* history: a spool without its .size met another photo
    retakes, faults

files == <<part, size, archive>>
server == <<gen, lock, writer>>
history == <<wrong, orphan, retakes, faults>>
vars == <<files, photo, server, pc, th, dog, history>>

Unit(p, i) == [photo |-> p, at |-> i]
Slice(p, a, b) == [i \in 1..(b - a) |-> Unit(p, a + i)]

\* gen: its server object; adv: offset it told; cur: size it measured; pos:
\* where it writes next; to: end of the piece it writes; upto: end of the body;
\* ok: stream_ok; last: is the piece the rest of the body?; then: where it goes
\* when the spool is removed; asm: the bytes it has assembled.
Idle == [gen |-> 1, photo |-> photo, adv |-> 0, cur |-> 0, pos |-> 0, to |-> 0,
         upto |-> 0, ok |-> FALSE, last |-> FALSE, then |-> "idle", asm |-> <<>>]

Init ==
    /\ part = <<>> /\ size = Unknown /\ archive = <<>>
    /\ photo \in Photos
    /\ gen = 1
    /\ lock = [g \in Gens |-> NoThread]
    /\ writer = [g \in Gens |-> NoThread]
    /\ pc = [t \in Threads |-> "idle"]
    /\ th = [t \in Threads |-> Idle]
    /\ dog = "idle"
    /\ wrong = FALSE /\ orphan = FALSE
    /\ retakes = 0 /\ faults = 0

Full(t) == FileSize[th[t].photo]
Free(t) == lock[th[t].gen] = NoThread
Lock(t) == lock' = [lock EXCEPT ![th[t].gen] = t] /\ UNCHANGED <<gen, writer>>
Unlock(t) == lock' = [lock EXCEPT ![th[t].gen] = NoThread] /\ UNCHANGED <<gen, writer>>

Goto(t, label) == pc' = [pc EXCEPT ![t] = label] /\ UNCHANGED <<photo, dog>>

\* The thread ends its request; its locals are of no use any more.
Done(t) == Goto(t, "idle") /\ th' = [th EXCEPT ![t] = Idle]

(***************************************************************************)
(* spool_offset, without the lock until it resets the spool.               *)
(***************************************************************************)
Measure(t) ==
    /\ pc[t] = "idle"
    /\ th' = [th EXCEPT ![t] = [Idle EXCEPT !.gen = gen, !.cur = Len(part)]]
    /\ Goto(t, IF part = <<>> THEN "told" ELSE "compare")
    /\ UNCHANGED <<files, server, history>>

\* Mutant: only a spool that is too long is another file's.
MutantOther(t) == th[t].cur > Full(t)

Other(t) == (size # Unknown /\ size # Full(t)) \/ th[t].cur > Full(t)

Compare(t) ==
    /\ pc[t] = "compare"
    /\ IF Other(t)
       THEN /\ Goto(t, "remove")
            /\ th' = [th EXCEPT ![t] = [@ EXCEPT !.cur = 0, !.then = "told"]]
       ELSE /\ Goto(t, "told")
            /\ th' = [th EXCEPT ![t] = [@ EXCEPT !.cur = 0, !.adv = th[t].cur]]
    /\ UNCHANGED <<files, server, history>>

(***************************************************************************)
(* _spool_remove under the lock: for spool_reset, and for                  *)
(* spool_stream_begin with start_offset 0.                                 *)
(***************************************************************************)
RemovePart(t) ==
    /\ pc[t] = "remove" /\ Free(t)
    /\ Lock(t)
    /\ part' = <<>>
    /\ Goto(t, "removeSize")
    /\ UNCHANGED <<size, archive, th, history>>

RemoveSize(t) ==
    /\ pc[t] = "removeSize"
    /\ size' = Unknown
    /\ Unlock(t)
    /\ IF th[t].then = "idle" THEN Done(t) ELSE Goto(t, th[t].then) /\ UNCHANGED th
    /\ UNCHANGED <<part, archive, history>>

(***************************************************************************)
(* An upload from the offset told, with a body that may end early.         *)
(***************************************************************************)
Upload(t) ==
    /\ pc[t] = "told"
    /\ writer' = [writer EXCEPT ![th[t].gen] = t]
    /\ \E upto \in th[t].adv..Full(t) :
          th' = [th EXCEPT ![t] = [@ EXCEPT !.upto = upto, !.pos = th[t].adv,
                                            !.ok = TRUE, !.then = "stream"]]
    /\ Goto(t, IF th[t].adv = 0 THEN "remove" ELSE "begin")
    /\ UNCHANGED <<files, gen, lock, history>>

\* The card has asked and goes away.
GoAway(t) ==
    /\ pc[t] = "told"
    /\ Done(t)
    /\ UNCHANGED <<files, server, history>>

\* spool_stream_begin with another start_offset.
Begin(t) ==
    /\ pc[t] = "begin" /\ Free(t)
    /\ th' = [th EXCEPT ![t].ok = (Len(part) = th[t].adv)]
    /\ Goto(t, "stream")
    /\ UNCHANGED <<files, server, history>>

\* The token is checked, then a piece goes to the spool; a superseded handler
\* hangs up, at the end of the body too.  A body without payload is refused.
\* Some of a body that ends early is held back until its end is known, and is
\* the last piece; of a whole body all may have been written before.
Superseded(t) == writer[th[t].gen] # t

Stream(t) ==
    /\ pc[t] = "stream"
    /\ \/ /\ Superseded(t) \/ th[t].upto = th[t].adv
          /\ Done(t)
       \/ /\ ~Superseded(t) /\ th[t].ok
          /\ \E to \in (th[t].pos + 1)..th[t].upto, last \in BOOLEAN :
                /\ IF last THEN to = th[t].upto ELSE to < th[t].upto \/ to = Full(t)
                /\ th' = [th EXCEPT ![t] = [@ EXCEPT !.to = to, !.last = last]]
          /\ Goto(t, "append")
       \/ /\ ~Superseded(t) /\ th[t].ok /\ th[t].pos = th[t].upto /\ th[t].pos # th[t].adv
          /\ Goto(t, "complete") /\ UNCHANGED th
    /\ UNCHANGED <<files, server, history>>

\* The fallback of a handler that could not stream: a whole file replaces the
\* spool, a whole slice is appended where it belongs.
Fallback(t) ==
    /\ pc[t] = "stream" /\ ~Superseded(t) /\ ~th[t].ok /\ th[t].upto # th[t].adv
    /\ IF th[t].upto = Full(t)
       THEN /\ th' = [th EXCEPT ![t] = [@ EXCEPT !.pos = th[t].adv, !.to = th[t].upto,
                                              !.last = TRUE, !.then = "append"]]
            /\ Goto(t, IF th[t].adv = 0 THEN "remove" ELSE "append")
       ELSE Goto(t, "complete") /\ UNCHANGED th
    /\ UNCHANGED <<files, server, history>>

(***************************************************************************)
(* spool_append_at.                                                        *)
(***************************************************************************)
\* Mutant: the end of the file is not compared with the position.
MutantFits(t) == th[t].to <= Full(t)

Fits(t) == Len(part) = th[t].pos /\ th[t].to <= Full(t)

\* After the rest of the body, and in the fallback, it matters no more whether
\* the piece was taken.
AfterAppend(t) == IF th[t].last THEN "complete" ELSE "stream"

CheckEnd(t) ==
    /\ pc[t] = "append" /\ Free(t)
    /\ IF Fits(t)
       THEN Lock(t) /\ Goto(t, "write") /\ UNCHANGED th
       ELSE /\ th' = [th EXCEPT ![t] = [@ EXCEPT !.ok = FALSE, !.to = 0]]
            /\ Goto(t, AfterAppend(t))
            /\ UNCHANGED server
    /\ UNCHANGED <<files, history>>

WritePart(t) ==
    /\ pc[t] = "write"
    /\ part' = part \o Slice(th[t].photo, th[t].pos, th[t].to)
    /\ Goto(t, "truncate")
    /\ UNCHANGED <<size, archive, server, th, history>>

\* The disk is full: some of the data is written, the handler dies.
WriteFails(t) ==
    /\ pc[t] = "write" /\ faults < MaxFaults
    /\ faults' = faults + 1
    /\ \E n \in th[t].pos..(th[t].to - 1) :
          part' = part \o Slice(th[t].photo, th[t].pos, n)
    /\ Unlock(t) /\ Done(t)
    /\ UNCHANGED <<size, archive, wrong, orphan, retakes>>

TruncateSize(t) ==
    /\ pc[t] = "truncate"
    /\ size' = Unknown
    /\ Goto(t, "size")
    /\ UNCHANGED <<part, archive, server, th, history>>

\* A failure to write .size is ignored.
WriteSize(t) ==
    /\ pc[t] = "size"
    /\ \/ size' = Full(t) /\ UNCHANGED faults
       \/ faults < MaxFaults /\ faults' = faults + 1 /\ UNCHANGED size
    /\ Unlock(t)
    /\ th' = [th EXCEPT ![t] = [@ EXCEPT !.pos = th[t].to, !.to = 0]]
    /\ Goto(t, AfterAppend(t))
    /\ UNCHANGED <<part, archive, wrong, orphan, retakes>>

(***************************************************************************)
(* spool_try_complete, whose spool may lack its last units if the files in *)
(* it are whole; then, without the lock, what was assembled is extracted   *)
(* and saved, and the spool, whatever it holds by now, is removed.         *)
(***************************************************************************)
\* tar_media_complete and extract_media_from_tar: the header at the front says
\* how much has to follow, of whichever photo it is.
HoldsMedia(tar) ==
    /\ Len(tar) > 0
    /\ tar[1].at = 1
    /\ Len(tar) >= MediaSize[tar[1].photo]

\* Mutant: the rescue takes any spool that lacks no more than its last units.
MutantRescued(t) == Full(t) - Len(part) \in 1..Near

Rescued(t) == Full(t) - Len(part) \in 1..Near /\ HoldsMedia(part)

TryComplete(t) ==
    /\ pc[t] = "complete" /\ Free(t)
    /\ IF Len(part) >= Full(t) \/ Rescued(t)
       THEN /\ th' = [th EXCEPT ![t] = [Idle EXCEPT !.gen = th[t].gen,
                          !.asm = IF Rescued(t) THEN part ELSE SubSeq(part, 1, Full(t))]]
            /\ Goto(t, "save")
       ELSE Done(t)
    /\ UNCHANGED <<files, server, history>>

Leaves(t) == Goto(t, "remove") /\ th' = [th EXCEPT ![t].asm = <<>>]

\* The file that is saved is the one the header speaks of.
Filed(t) == SubSeq(th[t].asm, 1, MediaSize[th[t].asm[1].photo])

Save(t) ==
    /\ pc[t] = "save" /\ HoldsMedia(th[t].asm)
    /\ wrong' = (wrong \/ Filed(t) # Slice(th[t].photo, 0, MediaSize[th[t].photo]))
    /\ Leaves(t)
    /\ UNCHANGED <<files, server, orphan, retakes, faults>>

\* It is no tar, or its file is not whole.
ExtractFails(t) ==
    /\ pc[t] = "save" /\ ~HoldsMedia(th[t].asm)
    /\ wrong' = TRUE
    /\ Leaves(t)
    /\ UNCHANGED <<files, server, orphan, retakes, faults>>

\* save_media raises, the handler dies and leaves the spool as it is.
SaveFails(t) ==
    /\ pc[t] = "save" /\ HoldsMedia(th[t].asm)
    /\ faults < MaxFaults /\ faults' = faults + 1
    /\ Done(t)
    /\ UNCHANGED <<files, server, wrong, orphan, retakes>>

(***************************************************************************)
(* _spool_abandon.  The scan found the spool at rest; handlers may have    *)
(* gone on since.                                                          *)
(***************************************************************************)
Scan ==
    /\ dog = "idle" /\ part # <<>>
    /\ \A t \in Threads : pc[t] = "idle"
    /\ dog' = "found"
    /\ UNCHANGED <<files, photo, server, pc, th, history>>

\* Mutant: the lock is not taken.
MutantMove ==
    /\ dog = "found"
    /\ IF part = <<>> THEN dog' = "idle" /\ UNCHANGED <<files, lock>>
       ELSE /\ archive' = part /\ part' = <<>>
            /\ dog' = "moved"
            /\ UNCHANGED <<size, lock>>
    /\ UNCHANGED <<photo, gen, writer, pc, th, history>>

Move ==
    /\ dog = "found" /\ lock[gen] = NoThread
    /\ IF part = <<>> THEN dog' = "idle" /\ UNCHANGED <<files, lock>>
       ELSE /\ archive' = part /\ part' = <<>>
            /\ dog' = "moved"
            /\ lock' = [lock EXCEPT ![gen] = Dog]
            /\ UNCHANGED size
    /\ UNCHANGED <<photo, gen, writer, pc, th, history>>

MoveSize ==
    /\ dog = "moved"
    /\ size' = Unknown
    /\ lock' = [lock EXCEPT ![gen] = NoThread]
    /\ dog' = "idle"
    /\ UNCHANGED <<part, archive, photo, gen, writer, pc, th, history>>

(***************************************************************************)
(* The surroundings.                                                       *)
(***************************************************************************)
\* Another photo of the name: the card was formatted, which takes longer than
\* any handler of the former photo lives (UPLOAD_STALL_TIMEOUT).
Retake ==
    /\ retakes < MaxRetakes
    /\ \A t \in Threads : pc[t] = "idle"
    /\ \E p \in Photos \ {photo} :
          /\ photo' = p
          /\ th' = [t \in Threads |-> [Idle EXCEPT !.photo = p]]
    /\ orphan' = (orphan \/ (part # <<>> /\ size = Unknown))
    /\ retakes' = retakes + 1
    /\ UNCHANGED <<files, server, pc, dog, wrong, faults>>

\* The program dies, in the middle of a write too, and is started again.
Crash ==
    /\ faults < MaxFaults
    /\ faults' = faults + 1
    /\ \/ UNCHANGED part
       \/ \E t \in Threads :
             /\ pc[t] = "write"
             /\ \E n \in th[t].pos..th[t].to :
                   part' = part \o Slice(th[t].photo, th[t].pos, n)
    /\ pc' = [t \in Threads |-> "idle"]
    /\ th' = [t \in Threads |-> Idle]
    /\ lock' = [g \in Gens |-> NoThread]
    /\ writer' = [g \in Gens |-> NoThread]
    /\ gen' = 1
    /\ dog' = "idle"
    /\ UNCHANGED <<size, archive, photo, wrong, orphan, retakes>>

\* Stop and start in one process, while the watchdog sleeps.
NewServer ==
    /\ gen < MaxGens /\ dog = "idle"
    /\ LiveOn \/ \A t \in Threads : pc[t] = "idle"
    /\ gen' = gen + 1
    /\ UNCHANGED <<files, photo, lock, writer, pc, th, dog, history>>

Handler(t) ==
    \/ Measure(t) \/ Compare(t) \/ RemovePart(t) \/ RemoveSize(t)
    \/ Upload(t) \/ GoAway(t) \/ Begin(t) \/ Stream(t) \/ Fallback(t)
    \/ CheckEnd(t) \/ WritePart(t) \/ WriteFails(t) \/ TruncateSize(t) \/ WriteSize(t)
    \/ TryComplete(t) \/ Save(t) \/ ExtractFails(t) \/ SaveFails(t)

Next ==
    \/ \E t \in Threads : Handler(t)
    \/ Scan \/ Move \/ MoveSize
    \/ Retake \/ Crash \/ NewServer

Spec == Init /\ [][Next]_vars
-----------------------------------------------------------------------------
(***************************************************************************)
(* Types.                                                                  *)
(***************************************************************************)
Labels == {"idle", "compare", "remove", "removeSize", "told", "begin", "stream", "append",
           "write", "truncate", "size", "complete", "save"}

Units == [photo : Photos, at : Nat]
Locals == [gen : Gens, photo : Photos, adv : Nat, cur : Nat, pos : Nat, to : Nat,
           upto : Nat, ok : BOOLEAN, last : BOOLEAN,
           then : {"idle", "told", "stream", "append"}, asm : Seq(Units)]

TypeOK ==
    /\ part \in Seq(Units) /\ \E p \in Photos : Len(part) <= FileSize[p]
    /\ archive \in Seq(Units)
    /\ size \in Nat
    /\ photo \in Photos /\ gen \in Gens
    /\ lock \in [Gens -> Threads \cup {NoThread, Dog}]
    /\ writer \in [Gens -> Threads \cup {NoThread}]
    /\ pc \in [Threads -> Labels]
    /\ th \in [Threads -> Locals]
    /\ dog \in {"idle", "found", "moved"}
    /\ wrong \in BOOLEAN /\ orphan \in BOOLEAN
    /\ retakes \in 0..MaxRetakes /\ faults \in 0..MaxFaults

(***************************************************************************)
(* File by file, with crashes and failed writes between the accesses and   *)
(* with the watchdog moving the spool away, the store does what the atomic *)
(* spool of SpoolTransfer does - as long as one server object is in use.   *)
(***************************************************************************)
Store == INSTANCE PhotoSpool WITH spool <- part, archive <- archive,
                                  Photos <- Photos, FileSize <- FileSize

StoreImplemented == Store!Spec

(***************************************************************************)
(* What spool_append_at says of itself: no overlapping or disordered write *)
(* gets into the spool, whichever connection it comes from.  It holds      *)
(* while no handler outlives its server object; with LiveOn it does not.   *)
(***************************************************************************)
NoOverlap == \A i \in 1..Len(part) : part[i].at = i

(***************************************************************************)
(* Unless the .size of a spool was lost before another photo took over its *)
(* name: a readable .size is the size of the photo whose units the spool   *)
(* holds, also when the program died between the removal of the two files; *)
(* and what is assembled has the photo's file, whole, also when the spool  *)
(* was rescued without its last units: it is this that is filed, and no    *)
(* spool is thrown away because the extraction fails.                      *)
(***************************************************************************)
SizeTrue ==
    orphan \/ size = Unknown \/ \A i \in 1..Len(part) : size = FileSize[part[i].photo]

FiledIsPhoto == orphan \/ ~wrong

(***************************************************************************)
(* The types of the files and the threads, and the right photo in them.    *)
(***************************************************************************)
SpoolSound == TypeOK /\ SizeTrue /\ FiledIsPhoto
=============================================================================
