-------------------------- MODULE SpoolFilesProofs --------------------------
(***************************************************************************)
(* The files of the spool implement PhotoSpool and hold the right photo,   *)
(* for any number of threads, photos, crashes, failed writes and restarts, *)
(* as long as no handler outlives its server object and its lock.          *)
(***************************************************************************)
EXTENDS SpoolFiles, SequenceTheorems, TLAPS

OneServer == MaxGens = 1 \/ ~LiveOn

Holding == {"removeSize", "write", "truncate", "size"}

(***************************************************************************)
(* The types of what a step reads, and who has the lock.                   *)
(***************************************************************************)
Types ==
    /\ part \in Seq(Units)
    /\ photo \in Photos /\ gen \in Gens
    /\ lock \in [Gens -> Threads \cup {NoThread, Dog}]
    /\ pc \in [Threads -> Labels]
    /\ th \in [Threads -> Locals]

Held ==
    /\ \A t \in Threads : pc[t] # "idle" => th[t].gen = gen
    /\ \A t \in Threads : pc[t] \in Holding => lock[gen] = t
    /\ dog = "moved" => lock[gen] = Dog

\* What CheckEnd found is so until the piece is written.
AtEnd ==
    \A t \in Threads :
        pc[t] = "write" => Len(part) = th[t].pos /\ th[t].to <= Full(t)

FilesInv == Types /\ Held /\ AtEnd /\ NoOverlap

LEMMA SizesAreNat ==
    \A p \in Photos :
        /\ FileSize[p] \in Nat \ {0} /\ MediaSize[p] \in Nat \ {0}
        /\ MediaSize[p] <= FileSize[p]
  BY PhotoAssumption

LEMMA SliceType ==
    ASSUME NEW p \in Photos, NEW a \in Nat, NEW b \in Nat
    PROVE  /\ Slice(p, a, b) \in Seq(Units)
           /\ Len(Slice(p, a, b)) = IF a < b THEN b - a ELSE 0
           /\ \A i \in 1..(b - a) : Slice(p, a, b)[i] = Unit(p, a + i)
<1> DEFINE n == IF a < b THEN b - a ELSE 0
<1>1. n \in Nat /\ 1..n = 1..(b - a)
  OBVIOUS
<1>2. \A i \in 1..(b - a) : Unit(p, a + i) \in Units
  BY DEF Unit, Units
<1>3. Slice(p, a, b) \in [1..n -> Units]
  BY <1>1, <1>2 DEF Slice
<1>4. Slice(p, a, b) \in Seq(Units)
  BY <1>1, <1>3
<1>5. Len(Slice(p, a, b)) = n
  BY <1>1, <1>3, <1>4, LenProperties
<1>6. \A i \in 1..(b - a) : Slice(p, a, b)[i] = Unit(p, a + i)
  BY DEF Slice
<1> QED
  BY <1>4, <1>5, <1>6

LEMMA Extended ==
    ASSUME part \in Seq(Units), NoOverlap,
           NEW p \in Photos, NEW n \in Nat,
           part' = part \o Slice(p, Len(part), n)
    PROVE  /\ part' \in Seq(Units) /\ NoOverlap'
           /\ Len(part') = IF Len(part) < n THEN n ELSE Len(part)
           /\ \A i \in 1..Len(part') : part'[i].photo = IF i <= Len(part) THEN part[i].photo ELSE p
<1> DEFINE s == Slice(p, Len(part), n)
<1>1. Len(part) \in Nat
  BY LenProperties
<1>2. /\ s \in Seq(Units) /\ Len(s) = IF Len(part) < n THEN n - Len(part) ELSE 0
      /\ \A i \in 1..(n - Len(part)) : s[i].at = Len(part) + i /\ s[i].photo = p
  <2>1. /\ s \in Seq(Units) /\ Len(s) = IF Len(part) < n THEN n - Len(part) ELSE 0
        /\ \A i \in 1..(n - Len(part)) : s[i] = Unit(p, Len(part) + i)
    BY <1>1, SliceType
  <2>2. \A i \in Nat : Unit(p, Len(part) + i).at = Len(part) + i /\ Unit(p, Len(part) + i).photo = p
    BY DEF Unit
  <2>3. \A i \in 1..(n - Len(part)) : i \in Nat
    OBVIOUS
  <2> HIDE DEF s
  <2> QED
    BY <2>1, <2>2, <2>3
<1>3. /\ part' \in Seq(Units) /\ Len(part') = Len(part) + Len(s)
      /\ \A i \in 1..(Len(part) + Len(s)) :
            part'[i] = IF i <= Len(part) THEN part[i] ELSE s[i - Len(part)]
  BY <1>2, ConcatProperties
<1>4. ASSUME NEW i \in 1..Len(part')
      PROVE  part'[i].at = i /\ part'[i].photo = IF i <= Len(part) THEN part[i].photo ELSE p
  <2>1. CASE i <= Len(part)
    BY <1>1, <1>2, <1>3, <2>1 DEF NoOverlap
  <2>2. CASE i > Len(part)
    <3>1. i - Len(part) \in 1..(n - Len(part))
      BY <1>1, <1>2, <1>3, <2>2
    <3> QED
      BY <1>1, <1>2, <1>3, <2>2, <3>1
  <2> QED
    BY <1>1, <2>1, <2>2
<1> QED
  BY <1>1, <1>2, <1>3, <1>4 DEF NoOverlap

LEMMA Emptied ==
    ASSUME part' = <<>> PROVE part' \in Seq(Units) /\ NoOverlap'
  BY DEF NoOverlap

LEMMA FilesInit == Init => FilesInv
<1> SUFFICES ASSUME Init PROVE FilesInv
  OBVIOUS
<1>1. Idle \in Locals
  BY PhotoAssumption DEF Init, Idle, Locals, Gens
<1>2. Types
  BY <1>1, PhotoAssumption DEF Init, Types, Gens, Labels
<1> QED
  BY <1>2 DEF Init, FilesInv, Held, AtEnd, NoOverlap, Holding

(***************************************************************************)
(* A thread that moves between places where it has no lock.                *)
(***************************************************************************)
LEMMA Moves ==
    ASSUME FilesInv, NEW t \in Threads, NEW label \in Labels \ Holding, NEW x \in Locals,
           pc' = [pc EXCEPT ![t] = label], th' = [th EXCEPT ![t] = x],
           pc[t] \notin Holding, label = "idle" \/ x.gen = gen,
           UNCHANGED <<files, photo, gen, lock, dog>>
    PROVE  FilesInv' /\ UNCHANGED files
<1>1. \A u \in Threads : u # t => pc'[u] = pc[u] /\ th'[u] = th[u]
  BY DEF FilesInv, Types
<1>2. pc'[t] \notin Holding /\ (pc'[t] # "idle" => th'[t].gen = gen)
  BY DEF FilesInv, Types
<1>3. Types'
  BY DEF FilesInv, Types, files
<1>4. Held'
  BY <1>1, <1>2 DEF FilesInv, Held
<1>5. AtEnd' /\ NoOverlap'
  BY <1>1, <1>2 DEF FilesInv, AtEnd, NoOverlap, Holding, Full, files
<1> QED
  BY <1>3, <1>4, <1>5 DEF FilesInv

LEMMA IdleType == FilesInv => Idle \in Locals
  BY PhotoAssumption DEF FilesInv, Types, Idle, Locals, Gens

LEMMA StatusStep ==
    ASSUME FilesInv, NEW t \in Threads, Measure(t) \/ Compare(t) \/ GoAway(t)
    PROVE  FilesInv' /\ UNCHANGED files
<1>0. /\ th[t] \in Locals /\ Len(part) \in Nat /\ Idle \in Locals
      /\ pc[t] # "idle" => th[t].gen = gen
  BY IdleType, LenProperties DEF FilesInv, Types, Held
<1>1. CASE Measure(t)
  <2> DEFINE x == [Idle EXCEPT !.gen = gen, !.cur = Len(part)]
             label == IF part = <<>> THEN "told" ELSE "compare"
  <2>1. x \in Locals /\ label \in Labels \ Holding /\ x.gen = gen
    BY <1>0 DEF FilesInv, Types, Locals, Labels, Holding, Idle
  <2> QED
    BY <1>1, <2>1, Moves DEF Measure, Goto, server, Holding
<1>2. CASE Compare(t) /\ Other(t)
  <2> DEFINE x == [th[t] EXCEPT !.cur = 0, !.then = "told"]
  <2>1. x \in Locals /\ "remove" \in Labels \ Holding /\ x.gen = gen
    BY <1>0, <1>2 DEF Compare, Locals, Labels, Holding
  <2> QED
    BY <1>2, <2>1, Moves DEF Compare, Goto, server, Holding
<1>3. CASE Compare(t) /\ ~Other(t)
  <2> DEFINE x == [th[t] EXCEPT !.cur = 0, !.adv = th[t].cur]
  <2>1. x \in Locals /\ "told" \in Labels \ Holding /\ x.gen = gen
    BY <1>0, <1>3 DEF Compare, Locals, Labels, Holding
  <2> QED
    BY <1>3, <2>1, Moves DEF Compare, Goto, server, Holding
<1>4. CASE GoAway(t)
  <2>1. "idle" \in Labels \ Holding
    BY DEF Labels, Holding
  <2> QED
    BY <1>0, <1>4, <2>1, Moves DEF GoAway, Done, Goto, server, Holding
<1> QED
  BY <1>1, <1>2, <1>3, <1>4

LEMMA UploadStep ==
    ASSUME FilesInv, NEW t \in Threads, Upload(t) \/ Begin(t)
    PROVE  FilesInv' /\ UNCHANGED files
<1>0. th[t] \in Locals /\ Full(t) \in Nat /\ th[t].gen = gen
  BY SizesAreNat DEF FilesInv, Types, Full, Locals, Held, Upload, Begin
<1>1. CASE Upload(t)
  <2>1. PICK upto \in th[t].adv..Full(t) :
           th' = [th EXCEPT ![t] = [@ EXCEPT !.upto = upto, !.pos = th[t].adv,
                                             !.ok = TRUE, !.then = "stream"]]
    BY <1>1 DEF Upload
  <2> DEFINE x == [th[t] EXCEPT !.upto = upto, !.pos = th[t].adv, !.ok = TRUE, !.then = "stream"]
             label == IF th[t].adv = 0 THEN "remove" ELSE "begin"
  <2>2. x \in Locals /\ label \in Labels \ Holding /\ x.gen = gen
    <3>1. upto \in Nat /\ th[t].adv \in Nat
      BY <1>0 DEF Locals
    <3>2. x \in Locals /\ x.gen = gen
      BY <1>0, <3>1 DEF Locals
    <3> QED
      BY <3>2 DEF Labels, Holding
  <2>3. /\ th' = [th EXCEPT ![t] = x] /\ pc' = [pc EXCEPT ![t] = label] /\ pc[t] \notin Holding
        /\ UNCHANGED <<files, photo, gen, lock, dog>>
    BY <1>1, <2>1 DEF Upload, Goto, Holding
  <2> QED
    BY <2>2, <2>3, Moves
<1>2. CASE Begin(t)
  <2> DEFINE x == [th[t] EXCEPT !.ok = (Len(part) = th[t].adv)]
  <2>1. x \in Locals /\ "stream" \in Labels \ Holding /\ x.gen = gen
    BY <1>0 DEF Locals, Labels, Holding
  <2> QED
    BY <1>2, <2>1, Moves DEF Begin, Goto, server, Holding
<1> QED
  BY <1>1, <1>2

LEMMA StreamStep ==
    ASSUME FilesInv, NEW t \in Threads, Stream(t) \/ Fallback(t)
    PROVE  FilesInv' /\ UNCHANGED files
<1>0. /\ th[t] \in Locals /\ Idle \in Locals /\ th = [th EXCEPT ![t] = th[t]]
      /\ UNCHANGED <<files, photo, gen, lock, dog>> /\ pc[t] \notin Holding
      /\ th[t].gen = gen
  BY IdleType DEF FilesInv, Types, Held, Stream, Fallback, Goto, Done, server, Holding
<1>1. {"idle", "append", "complete", "remove"} \subseteq Labels \ Holding
  BY DEF Labels, Holding
<1>2. CASE Done(t)
  BY <1>0, <1>1, <1>2, Moves DEF Done, Goto
<1>3. ASSUME NEW to \in (th[t].pos + 1)..th[t].upto, NEW last \in BOOLEAN,
             th' = [th EXCEPT ![t] = [@ EXCEPT !.to = to, !.last = last]],
             Goto(t, "append")
      PROVE  FilesInv' /\ UNCHANGED files
  <2> DEFINE x == [th[t] EXCEPT !.to = to, !.last = last]
  <2>1. x \in Locals /\ x.gen = gen
    <3>1. to \in Nat
      BY <1>0, <1>3 DEF Locals
    <3>2. CASE last
      <4>1. x = [th[t] EXCEPT !.to = to, !.last = TRUE]
        BY <3>2
      <4> QED
        BY <1>0, <3>1, <4>1 DEF Locals
    <3>3. CASE ~last
      <4>1. x = [th[t] EXCEPT !.to = to, !.last = FALSE]
        BY <3>3
      <4> QED
        BY <1>0, <3>1, <4>1 DEF Locals
    <3> QED
      BY <3>2, <3>3
  <2> QED
    BY <1>0, <1>1, <1>3, <2>1, Moves DEF Goto
<1>4. CASE Goto(t, "complete") /\ UNCHANGED th
  BY <1>0, <1>1, <1>4, Moves DEF Goto
<1>5. ASSUME NEW label \in {"remove", "append"}, Goto(t, label),
             th' = [th EXCEPT ![t] = [@ EXCEPT !.pos = th[t].adv, !.to = th[t].upto,
                                               !.last = TRUE, !.then = "append"]]
      PROVE  FilesInv' /\ UNCHANGED files
  <2> DEFINE x == [th[t] EXCEPT !.pos = th[t].adv, !.to = th[t].upto, !.last = TRUE,
                                !.then = "append"]
  <2>1. x \in Locals /\ x.gen = gen
    BY <1>0 DEF Locals
  <2> QED
    BY <1>0, <1>1, <1>5, <2>1, Moves DEF Goto
<1> QED
  BY <1>2, <1>3, <1>4, <1>5 DEF Stream, Fallback

Ending(t) == TryComplete(t) \/ Save(t) \/ ExtractFails(t) \/ SaveFails(t)

\* What spool_try_complete assembles.
Assembles(t) == IF Rescued(t) THEN part ELSE SubSeq(part, 1, Full(t))

LEMMA AssemblesUnits ==
    ASSUME FilesInv, NEW t \in Threads, Len(part) >= Full(t) \/ Rescued(t)
    PROVE  Assembles(t) \in Seq(Units)
<1> DEFINE n == Full(t)
<1>1. n \in Nat \ {0} /\ part \in Seq(Units) /\ Len(part) \in Nat
  BY SizesAreNat, LenProperties DEF FilesInv, Types, Full, Locals
<1>2. CASE Rescued(t)
  BY <1>1, <1>2 DEF Assembles
<1>3. CASE ~Rescued(t)
  <2>1. \A i \in 1..n : part[i] \in Units
    BY <1>1, <1>3, ElementOfSeq
  <2>2. n \in Int
    BY <1>1
  <2> HIDE DEF n
  <2>3. SubSeq(part, 1, n) \in Seq(Units)
    BY <2>1, <2>2, SubSeqProperties
  <2> QED
    BY <1>3, <2>3 DEF Assembles, n
<1> QED
  BY <1>2, <1>3

LEMMA EndingStep ==
    ASSUME FilesInv, NEW t \in Threads, Ending(t)
    PROVE  FilesInv' /\ UNCHANGED files
<1>0. /\ th[t] \in Locals /\ Idle \in Locals
      /\ UNCHANGED <<files, photo, gen, lock, dog>> /\ pc[t] \notin Holding
      /\ th[t].gen = gen
  BY IdleType DEF FilesInv, Types, Held, Ending, TryComplete, Save, ExtractFails, SaveFails,
     Leaves, Goto, Done, server, Holding
<1>1. {"idle", "remove", "save"} \subseteq Labels \ Holding
  BY DEF Labels, Holding
<1>2. CASE Done(t)
  BY <1>0, <1>1, <1>2, Moves DEF Done, Goto
<1>3. CASE Leaves(t)
  <2> DEFINE x == [th[t] EXCEPT !.asm = <<>>]
  <2>1. x \in Locals /\ x.gen = gen
    BY <1>0, EmptySeq DEF Locals
  <2> QED
    BY <1>0, <1>1, <1>3, <2>1, Moves DEF Leaves, Goto
<1>4. CASE TryComplete(t) /\ ~Done(t)
  <2> DEFINE a == Assembles(t)
             x == [Idle EXCEPT !.gen = th[t].gen, !.asm = a]
  <2>1. /\ Len(part) >= Full(t) \/ Rescued(t)
        /\ th' = [th EXCEPT ![t] = x] /\ pc' = [pc EXCEPT ![t] = "save"]
    BY <1>4 DEF TryComplete, Goto, Assembles
  <2>2. a \in Seq(Units)
    BY <2>1, AssemblesUnits
  <2>3. x.gen = gen
    BY <1>0 DEF Idle
  <2> HIDE DEF a
  <2>4. x \in Locals
    BY <1>0, <2>2 DEF Locals
  <2> HIDE DEF x
  <2> QED
    BY <1>0, <1>1, <2>1, <2>3, <2>4, Moves
<1> QED
  BY <1>2, <1>3, <1>4 DEF Ending, TryComplete, Save, ExtractFails, SaveFails

(***************************************************************************)
(* Steps of a thread that takes, has or gives back the lock.               *)
(***************************************************************************)
\* Nobody is at "write" while the lock is free, or beside its holder.
LEMMA OneWriter ==
    ASSUME FilesInv
    PROVE  /\ \A t \in Threads, u \in Threads : pc[t] \in Holding /\ pc[u] \in Holding => t = u
           /\ \A t \in Threads : pc[t] \in Holding => dog # "moved"
           /\ \A t \in Threads : pc[t] # "idle" /\ Free(t) =>
                 /\ \A u \in Threads : pc[u] \notin Holding
                 /\ dog # "moved"
  BY ThreadAssumption DEF FilesInv, Held, Free

LEMMA TakeLock ==
    ASSUME FilesInv, NEW t \in Threads, RemovePart(t) \/ (CheckEnd(t) /\ Fits(t))
    PROVE  FilesInv' /\ [Store!Next]_(Store!vars)
<1>1. /\ \A u \in Threads : pc[u] \notin Holding
      /\ dog # "moved" /\ pc[t] # "idle" /\ th[t].gen = gen
  BY OneWriter DEF RemovePart, CheckEnd, FilesInv, Held
<1>2. CASE RemovePart(t)
  <2>1. /\ part' = <<>> /\ pc' = [pc EXCEPT ![t] = "removeSize"] /\ lock' = [lock EXCEPT ![gen] = t]
        /\ UNCHANGED <<size, archive, photo, gen, th, dog>>
    BY <1>1, <1>2 DEF RemovePart, Lock, Goto
  <2>2. \A u \in Threads : pc'[u] \in Holding => u = t
    BY <1>1, <2>1 DEF FilesInv, Types
  <2>3. Types'
    BY <2>1, Emptied DEF FilesInv, Types, Labels, Gens
  <2>4. Held'
    BY <1>1, <2>1, <2>2 DEF FilesInv, Types, Held, Gens
  <2>5. AtEnd'
    BY <1>1, <2>1 DEF FilesInv, Types, AtEnd, Holding
  <2>6. Store!Reset
    BY <2>1 DEF Store!Reset
  <2> QED
    BY <2>1, <2>3, <2>4, <2>5, <2>6, Emptied DEF FilesInv, Store!Next
<1>3. CASE CheckEnd(t) /\ Fits(t)
  <2>1. /\ pc' = [pc EXCEPT ![t] = "write"] /\ lock' = [lock EXCEPT ![gen] = t]
        /\ UNCHANGED <<files, photo, gen, th, dog>>
    BY <1>1, <1>3 DEF CheckEnd, Lock, Goto
  <2>2. \A u \in Threads : pc'[u] \in Holding => u = t
    BY <1>1, <2>1 DEF FilesInv, Types
  <2>3. Types'
    BY <2>1 DEF FilesInv, Types, Labels, Gens, files
  <2>4. Held'
    BY <1>1, <2>1, <2>2 DEF FilesInv, Types, Held, Gens
  <2>5. AtEnd' /\ NoOverlap'
    BY <1>3, <2>1, <2>2 DEF FilesInv, AtEnd, NoOverlap, Holding, Full, Fits, files
  <2> QED
    BY <2>1, <2>3, <2>4, <2>5 DEF FilesInv, Store!vars, files
<1> QED
  BY <1>2, <1>3

LEMMA CheckFails ==
    ASSUME FilesInv, NEW t \in Threads, CheckEnd(t), ~Fits(t)
    PROVE  FilesInv' /\ UNCHANGED files
<1> DEFINE x == [th[t] EXCEPT !.ok = FALSE, !.to = 0]
           label == AfterAppend(t)
<1>1. x \in Locals /\ x.gen = gen
  BY DEF FilesInv, Types, Held, Locals, CheckEnd
<1>2. label \in Labels \ Holding
  BY DEF AfterAppend, Labels, Holding
<1> QED
  BY <1>1, <1>2, Moves DEF CheckEnd, Goto, server, Holding

\* What a thread writes, in full or in part, follows what is there.
LEMMA Written ==
    ASSUME FilesInv, NEW t \in Threads, pc[t] = "write", NEW n \in Nat, n <= th[t].to,
           part' = part \o Slice(th[t].photo, th[t].pos, n), archive' = archive
    PROVE  /\ part' \in Seq(Units) /\ NoOverlap' /\ [Store!Next]_(Store!vars)
           /\ part' = part \/ Len(part') <= FileSize[th[t].photo]
           /\ \A i \in 1..Len(part') :
                 part'[i].photo = IF i <= Len(part) THEN part[i].photo ELSE th[t].photo
<1>1. /\ Len(part) = th[t].pos /\ th[t].to <= FileSize[th[t].photo] /\ part \in Seq(Units)
      /\ th[t].photo \in Photos /\ th[t].to \in Nat /\ Len(part) \in Nat
      /\ FileSize[th[t].photo] \in Nat
  BY LenProperties, SizesAreNat DEF FilesInv, Types, AtEnd, Locals, Full
<1>2. part' = part \o Slice(th[t].photo, Len(part), n)
  BY <1>1
<1>3. /\ part' \in Seq(Units) /\ NoOverlap'
      /\ Len(part') = IF Len(part) < n THEN n ELSE Len(part)
      /\ \A i \in 1..Len(part') :
            part'[i].photo = IF i <= Len(part) THEN part[i].photo ELSE th[t].photo
  BY <1>1, <1>2, Extended DEF FilesInv
<1>4. CASE n > Len(part)
  <2>1. n \in (Len(part) + 1)..FileSize[th[t].photo]
    BY <1>1, <1>4
  <2>2. Store!Extend(th[t].photo, n)
    BY <1>1, <1>2, <2>1 DEF Store!Extend, Store!Slice, Store!Unit, Slice, Unit
  <2>3. Len(part') <= FileSize[th[t].photo]
    BY <1>1, <1>3, <1>4
  <2> QED
    BY <1>1, <1>3, <2>1, <2>2, <2>3 DEF Store!Next
<1>5. CASE n <= Len(part)
  <2>1. Slice(th[t].photo, Len(part), n) = <<>>
    <3>1. Slice(th[t].photo, Len(part), n) \in Seq(Units)
          /\ Len(Slice(th[t].photo, Len(part), n)) = 0
      <4>1. /\ Slice(th[t].photo, Len(part), n) \in Seq(Units)
            /\ Len(Slice(th[t].photo, Len(part), n))
                 = IF Len(part) < n THEN n - Len(part) ELSE 0
        BY <1>1, SliceType
      <4>2. ~(Len(part) < n)
        BY <1>1, <1>5
      <4> QED
        BY <4>1, <4>2
    <3> QED
      BY <3>1, EmptySeq
  <2>2. part' = part
    BY <1>1, <1>2, <2>1
  <2> QED
    BY <1>3, <2>2 DEF Store!vars
<1> QED
  BY <1>1, <1>3, <1>4, <1>5

LEMMA WriteStep ==
    ASSUME FilesInv, NEW t \in Threads, WritePart(t) \/ WriteFails(t)
    PROVE  FilesInv' /\ [Store!Next]_(Store!vars)
<1>1. /\ pc[t] = "write" /\ lock[gen] = t /\ th[t].gen = gen
      /\ \A u \in Threads : u # t => pc[u] \notin Holding
      /\ th[t] \in Locals /\ Idle \in Locals
      /\ UNCHANGED <<archive, photo, gen, dog>> /\ dog # "moved"
  BY OneWriter, IdleType DEF WritePart, WriteFails, FilesInv, Types, Held, Holding,
     Done, Goto, Unlock, server
<1>2. PICK n \in Nat : n <= th[t].to /\ part' = part \o Slice(th[t].photo, th[t].pos, n)
  <2>1. th[t].pos \in Nat /\ th[t].to \in Nat
    BY <1>1 DEF Locals
  <2>2. CASE WritePart(t)
    <3>1. part' = part \o Slice(th[t].photo, th[t].pos, th[t].to)
      BY <2>2 DEF WritePart
    <3>2. th[t].to <= th[t].to
      BY <2>1
    <3> QED
      BY <2>1, <3>1, <3>2
  <2>3. CASE WriteFails(t)
    <3>1. PICK n \in th[t].pos..(th[t].to - 1) : part' = part \o Slice(th[t].photo, th[t].pos, n)
      BY <2>3 DEF WriteFails
    <3>2. n \in Nat /\ n <= th[t].to
      BY <2>1, <3>1
    <3> QED
      BY <3>1, <3>2
  <2> QED
    BY <2>2, <2>3
<1>3. part' \in Seq(Units) /\ NoOverlap' /\ [Store!Next]_(Store!vars)
  BY <1>1, <1>2, Written
<1>4. CASE WritePart(t)
  <2>1. pc' = [pc EXCEPT ![t] = "truncate"] /\ UNCHANGED <<lock, th>>
    BY <1>4 DEF WritePart, Goto, server
  <2>2. \A u \in Threads : pc'[u] # "write"
    BY <1>1, <2>1 DEF FilesInv, Types, Holding
  <2>3. Types'
    BY <1>1, <1>3, <2>1 DEF FilesInv, Types, Labels
  <2>4. Held' /\ AtEnd'
    BY <1>1, <2>1, <2>2 DEF FilesInv, Types, Held, AtEnd, Holding
  <2> QED
    BY <1>3, <2>3, <2>4 DEF FilesInv
<1>5. CASE WriteFails(t)
  <2>1. pc' = [pc EXCEPT ![t] = "idle"] /\ lock' = [lock EXCEPT ![gen] = NoThread]
        /\ th' = [th EXCEPT ![t] = Idle]
    BY <1>1, <1>5 DEF WriteFails, Unlock, Done, Goto
  <2>2. \A u \in Threads :
           pc'[u] \notin Holding /\ (pc'[u] # "idle" => pc'[u] = pc[u] /\ th'[u] = th[u])
    BY <1>1, <2>1 DEF FilesInv, Types, Holding
  <2>3. Types'
    BY <1>1, <1>3, <2>1 DEF FilesInv, Types, Labels, Gens
  <2>4. Held' /\ AtEnd'
    BY <1>1, <2>2 DEF FilesInv, Held, AtEnd, Holding
  <2> QED
    BY <1>3, <2>3, <2>4 DEF FilesInv
<1> QED
  BY <1>4, <1>5

LEMMA SizeStep ==
    ASSUME FilesInv, NEW t \in Threads,
           TruncateSize(t) \/ WriteSize(t) \/ RemoveSize(t)
    PROVE  FilesInv' /\ UNCHANGED <<part, archive>>
<1>1. /\ pc[t] \in Holding /\ lock[gen] = t /\ th[t].gen = gen
      /\ \A u \in Threads : u # t => pc[u] \notin Holding
      /\ th[t] \in Locals /\ Idle \in Locals
      /\ UNCHANGED <<part, archive, photo, gen, dog>> /\ dog # "moved"
  BY OneWriter, IdleType DEF TruncateSize, WriteSize, RemoveSize, FilesInv, Types, Held,
     Holding, Done, Goto, Lock, Unlock, server
<1>2. CASE TruncateSize(t)
  <2>1. pc' = [pc EXCEPT ![t] = "size"] /\ UNCHANGED <<lock, th>>
    BY <1>2 DEF TruncateSize, Goto, server
  <2>2. Types'
    BY <1>1, <2>1 DEF FilesInv, Types, Labels
  <2>3. \A u \in Threads : pc'[u] # "write" /\ (u # t => pc'[u] = pc[u])
    BY <1>1, <2>1 DEF FilesInv, Types, Holding
  <2>4. Held' /\ AtEnd' /\ NoOverlap'
    BY <1>1, <2>1, <2>3 DEF FilesInv, Held, AtEnd, NoOverlap, Holding
  <2> QED
    BY <1>1, <2>2, <2>4 DEF FilesInv
<1>3. ASSUME NEW label \in Labels \ Holding, NEW x \in Locals,
             pc' = [pc EXCEPT ![t] = label], th' = [th EXCEPT ![t] = x],
             lock' = [lock EXCEPT ![gen] = NoThread], label = "idle" \/ x.gen = gen
      PROVE  FilesInv'
  <2>1. Types'
    BY <1>1, <1>3 DEF FilesInv, Types, Gens
  <2>2. \A u \in Threads :
           /\ pc'[u] \notin Holding
           /\ IF u = t THEN pc'[u] = label /\ th'[u] = x ELSE pc'[u] = pc[u] /\ th'[u] = th[u]
    BY <1>1, <1>3 DEF FilesInv, Types
  <2>3. Held' /\ AtEnd' /\ NoOverlap'
    BY <1>1, <1>3, <2>2 DEF FilesInv, Held, AtEnd, NoOverlap, Holding
  <2> QED
    BY <2>1, <2>3 DEF FilesInv
<1>4. CASE WriteSize(t)
  <2> DEFINE x == [th[t] EXCEPT !.pos = th[t].to, !.to = 0]
  <2>1. x \in Locals /\ x.gen = gen
    BY <1>1 DEF Locals
  <2>2. AfterAppend(t) \in Labels \ Holding
    BY DEF AfterAppend, Labels, Holding
  <2> QED
    BY <1>1, <1>3, <1>4, <2>1, <2>2 DEF WriteSize, Unlock, Goto
<1>5. CASE RemoveSize(t)
  <2>1. th[t].then \in Labels \ Holding /\ "idle" \in Labels \ Holding
    BY <1>1 DEF Locals, Labels, Holding
  <2>2. lock' = [lock EXCEPT ![gen] = NoThread] /\ th = [th EXCEPT ![t] = th[t]]
    BY <1>1, <1>5 DEF RemoveSize, Unlock, FilesInv, Types
  <2>3. CASE Done(t)
    BY <1>1, <1>3, <2>1, <2>2, <2>3 DEF Done, Goto
  <2>4. CASE Goto(t, th[t].then) /\ UNCHANGED th
    BY <1>1, <1>3, <2>1, <2>2, <2>4 DEF Goto
  <2> QED
    BY <1>5, <2>3, <2>4 DEF RemoveSize
<1> QED
  BY <1>1, <1>2, <1>4, <1>5

(***************************************************************************)
(* The watchdog and the surroundings.                                      *)
(***************************************************************************)
LEMMA DogStep ==
    ASSUME FilesInv, Scan \/ Move \/ MoveSize
    PROVE  FilesInv' /\ [Store!Next]_(Store!vars)
<1>1. UNCHANGED <<photo, gen, pc, th>>
  BY DEF Scan, Move, MoveSize, server
<1>2. CASE Scan \/ (Move /\ part = <<>>)
  <2>1. UNCHANGED <<files, lock>> /\ dog' # "moved"
    BY <1>2 DEF Scan, Move, server
  <2> QED
    BY <1>1, <2>1 DEF FilesInv, Types, Held, AtEnd, NoOverlap, Full, files, Store!vars
<1>3. CASE Move /\ part # <<>>
  <2>1. /\ archive' = part /\ part' = <<>> /\ dog' = "moved" /\ lock' = [lock EXCEPT ![gen] = Dog]
        /\ lock[gen] = NoThread
    BY <1>1, <1>3 DEF Move
  <2>2. \A u \in Threads : pc[u] \notin Holding
    BY <1>1, <2>1, ThreadAssumption DEF FilesInv, Held
  <2>3. Types'
    BY <1>1, <2>1, Emptied DEF FilesInv, Types, Gens
  <2>4. Held' /\ AtEnd'
    BY <1>1, <2>1, <2>2 DEF FilesInv, Types, Held, AtEnd, Holding, Gens
  <2>5. Store!Archive
    BY <2>1 DEF Store!Archive
  <2> QED
    BY <2>1, <2>3, <2>4, <2>5, Emptied DEF FilesInv, Store!Next
<1>4. CASE MoveSize
  <2>1. /\ UNCHANGED <<part, archive>> /\ dog' = "idle" /\ lock[gen] = Dog
        /\ lock' = [lock EXCEPT ![gen] = NoThread]
    BY <1>1, <1>4 DEF MoveSize, FilesInv, Held
  <2>2. \A u \in Threads : pc[u] \notin Holding
    BY <1>1, <2>1, ThreadAssumption DEF FilesInv, Held
  <2>3. Types'
    BY <1>1, <2>1 DEF FilesInv, Types, Gens
  <2>4. Held' /\ AtEnd' /\ NoOverlap'
    BY <1>1, <2>1, <2>2 DEF FilesInv, Held, AtEnd, NoOverlap, Holding
  <2> QED
    BY <2>1, <2>3, <2>4 DEF FilesInv, Store!vars
<1> QED
  BY <1>2, <1>3, <1>4

LEMMA OutsideStep ==
    ASSUME FilesInv, Retake \/ Crash
    PROVE  FilesInv' /\ [Store!Next]_(Store!vars)
<1>1. CASE Retake
  <2>1. PICK p \in Photos : photo' = p /\ th' = [t \in Threads |-> [Idle EXCEPT !.photo = p]]
    BY <1>1 DEF Retake
  <2>2. [Idle EXCEPT !.photo = p] \in Locals
    BY <2>1, IdleType DEF Locals
  <2>3. /\ UNCHANGED <<part, archive, gen, lock, pc, dog>>
        /\ \A t \in Threads : pc[t] = "idle"
    BY <1>1 DEF Retake, files, server
  <2>4. Types'
    BY <2>1, <2>2, <2>3 DEF FilesInv, Types
  <2>5. Held' /\ AtEnd' /\ NoOverlap'
    BY <2>3 DEF FilesInv, Held, AtEnd, NoOverlap, Holding
  <2> QED
    BY <2>3, <2>4, <2>5 DEF FilesInv, Store!vars
<1>2. CASE Crash
  <2>1. /\ pc' = [t \in Threads |-> "idle"] /\ th' = [t \in Threads |-> Idle]
        /\ lock' = [g \in Gens |-> NoThread] /\ gen' = 1 /\ dog' = "idle"
        /\ UNCHANGED <<archive, photo>>
    BY <1>2 DEF Crash
  <2>2. part' \in Seq(Units) /\ NoOverlap' /\ [Store!Next]_(Store!vars)
    <3>1. CASE UNCHANGED part
      BY <2>1, <3>1 DEF FilesInv, Types, NoOverlap, Store!vars
    <3>2. ASSUME NEW t \in Threads, pc[t] = "write", NEW n \in th[t].pos..th[t].to,
                 part' = part \o Slice(th[t].photo, th[t].pos, n)
          PROVE  part' \in Seq(Units) /\ NoOverlap' /\ [Store!Next]_(Store!vars)
      <4>1. n \in Nat /\ n <= th[t].to
        <5>1. th[t].pos \in Nat /\ th[t].to \in Nat
          BY DEF FilesInv, Types, Locals
        <5> QED
          BY <3>2, <5>1
      <4> QED
        BY <2>1, <3>2, <4>1, Written
    <3> QED
      BY <1>2, <3>1, <3>2 DEF Crash
  <2>3. Types'
    BY <2>1, <2>2, IdleType, PhotoAssumption DEF FilesInv, Types, Labels, Gens
  <2>4. Held' /\ AtEnd'
    BY <2>1 DEF Held, AtEnd, Holding
  <2> QED
    BY <2>2, <2>3, <2>4 DEF FilesInv
<1> QED
  BY <1>1, <1>2

LEMMA FilesStep ==
    ASSUME OneServer, FilesInv, [Next]_vars
    PROVE  FilesInv' /\ [Store!Next]_(Store!vars)
<1>1. CASE UNCHANGED files /\ FilesInv'
  BY <1>1 DEF files, Store!vars
<1>2. ASSUME NEW t \in Threads, Handler(t)
      PROVE  FilesInv' /\ [Store!Next]_(Store!vars)
  <2>1. CASE Measure(t) \/ Compare(t) \/ GoAway(t)
    BY <1>1, <2>1, StatusStep
  <2>2. CASE Upload(t) \/ Begin(t)
    BY <1>1, <2>2, UploadStep
  <2>3. CASE Stream(t) \/ Fallback(t)
    BY <1>1, <2>3, StreamStep
  <2>4. CASE Ending(t)
    BY <1>1, <2>4, EndingStep
  <2>5. CASE RemovePart(t) \/ CheckEnd(t)
    BY <1>1, <2>5, TakeLock, CheckFails
  <2>6. CASE WritePart(t) \/ WriteFails(t)
    BY <2>6, WriteStep
  <2>7. CASE TruncateSize(t) \/ WriteSize(t) \/ RemoveSize(t)
    BY <2>7, SizeStep DEF Store!vars
  <2> QED
    BY <1>2, <2>1, <2>2, <2>3, <2>4, <2>5, <2>6, <2>7 DEF Handler, Ending
<1>3. CASE Scan \/ Move \/ MoveSize
  BY <1>3, DogStep
<1>4. CASE Retake \/ Crash
  BY <1>4, OutsideStep
<1>5. CASE NewServer
  <2>1. /\ UNCHANGED <<part, archive, photo, lock, pc, th, dog>> /\ dog = "idle"
        /\ gen' = gen + 1 /\ gen < MaxGens
        /\ \A u \in Threads : pc[u] = "idle"
    BY <1>5, PhotoAssumption DEF NewServer, OneServer, files, FilesInv, Types, Gens
  <2>2. Types'
    BY <2>1, PhotoAssumption DEF FilesInv, Types, Gens
  <2>3. Held' /\ AtEnd' /\ NoOverlap'
    BY <2>1 DEF FilesInv, Held, AtEnd, NoOverlap, Holding
  <2> QED
    BY <2>1, <2>2, <2>3 DEF FilesInv, Store!vars
<1>6. CASE UNCHANGED vars
  <2>1. FilesInv'
    BY <1>6 DEF vars, files, server, FilesInv, Types, Held, AtEnd, NoOverlap, Full
  <2> QED
    BY <1>6, <2>1 DEF vars, files, Store!vars
<1> QED
  BY <1>2, <1>3, <1>4, <1>5, <1>6 DEF Next

(***************************************************************************)
(* The photo in the spool.  A thread that has decided that the spool, or   *)
(* what it is about to put there, is of its photo, is past the comparison; *)
(* until one is, the spool may be a former photo's, and then .size says so.*)
(***************************************************************************)
SizesDiffer == \A p, q \in Photos : FileSize[p] = FileSize[q] => p = q

Others ==
    /\ \E p \in Photos : Len(part) <= FileSize[p]
    /\ archive \in Seq(Units) /\ size \in Nat
    /\ writer \in [Gens -> Threads \cup {NoThread}]
    /\ dog \in {"idle", "found", "moved"}
    /\ wrong \in BOOLEAN /\ orphan \in BOOLEAN
    /\ retakes \in 0..MaxRetakes /\ faults \in 0..MaxFaults

Current == \A t \in Threads : th[t].photo = photo

\* While .size is about to be removed there is no .part.
Cleared ==
    /\ \A t \in Threads : pc[t] = "removeSize" => part = <<>>
    /\ dog = "moved" => part = <<>>

Past(t) ==
    \/ pc[t] \in {"begin", "stream", "append", "write", "truncate", "size", "complete", "save"}
    \/ pc[t] # "idle" /\ th[t].adv > 0

Whose(p) == \A i \in 1..Len(part) : part[i].photo = p

Mine == Whose(photo) /\ size \in {Unknown, FileSize[photo]}

SpoolOf(p) ==
    /\ Whose(p)
    /\ part = <<>> \/ size \in {Unknown, FileSize[p]}
    /\ p = photo \/ part = <<>> \/ size # Unknown

Right ==
    /\ ~wrong
    /\ \E p \in Photos : SpoolOf(p)
    /\ \A t \in Threads : Past(t) => Mine

\* What a thread has assembled has the photo's file, whole.
IsPhoto(t) ==
    /\ HoldsMedia(th[t].asm)
    /\ Filed(t) = Slice(photo, 0, MediaSize[photo])

Assembled == \A t \in Threads : pc[t] = "save" => IsPhoto(t)

SoundInv == FilesInv /\ Others /\ Current /\ Cleared /\ (orphan \/ (Right /\ Assembled))

LEMMA SoundInit == Init => SoundInv
<1> SUFFICES ASSUME Init PROVE SoundInv
  OBVIOUS
<1>1. part = <<>> /\ Len(part) = 0 /\ photo \in Photos /\ FileSize[photo] \in Nat
  BY SizesAreNat DEF Init
<1>2. Others
  <2>1. \E p \in Photos : Len(part) <= FileSize[p]
    BY <1>1
  <2>2. 0 \in 0..MaxRetakes /\ 0 \in 0..MaxFaults
    BY PhotoAssumption
  <2>3. archive \in Seq(Units) /\ size \in Nat /\ wrong \in BOOLEAN /\ orphan \in BOOLEAN
    BY EmptySeq DEF Init, Unknown
  <2> QED
    BY <2>1, <2>2, <2>3 DEF Init, Others
<1>3. Current /\ Cleared
  BY DEF Init, Current, Cleared, Idle
<1>4. SpoolOf(photo)
  BY <1>1 DEF SpoolOf, Whose
<1>5. Right /\ Assembled
  BY <1>1, <1>4 DEF Init, Right, Past, Assembled
<1> QED
  BY <1>2, <1>3, <1>5, FilesInit DEF SoundInv

\* The spool is this photo's, before and after.
LEMMA StaysMine ==
    ASSUME photo \in Photos, photo' = photo, ~wrong', Mine'
    PROVE  Right'
<1>1. SpoolOf(photo)'
  BY DEF Mine, SpoolOf
<1> QED
  BY <1>1 DEF Right

\* Nothing happens to the spool and nobody gets past the comparison.
LEMMA StaysPut ==
    ASSUME Right, wrong' = wrong, UNCHANGED <<part, size, photo>>,
           \A t \in Threads : Past(t)' => Past(t)
    PROVE  Right'
<1>1. Mine' <=> Mine
  BY DEF Mine, Whose
<1>2. \A p \in Photos : SpoolOf(p) => SpoolOf(p)'
  BY DEF SpoolOf, Whose
<1> QED
  BY <1>1, <1>2 DEF Right

\* The spool is gone.
LEMMA StaysEmpty ==
    ASSUME FilesInv, Right, wrong' = wrong, photo' = photo, part' = <<>>,
           size' = Unknown \/ (size' = size /\ \A t \in Threads : Past(t)' => Past(t))
    PROVE  Right'
<1>1. photo \in Photos /\ Len(part') = 0
  BY DEF FilesInv, Types
<1>2. SpoolOf(photo)'
  BY <1>1 DEF SpoolOf, Whose
<1>3. \A t \in Threads : Past(t)' => Mine'
  BY <1>1 DEF Right, Mine, Whose
<1> QED
  BY <1>1, <1>2, <1>3 DEF Right

\* A thread of its own photo that is past the comparison has its photo before it.
LEMMA PastIsMine ==
    ASSUME SoundInv, ~orphan, NEW t \in Threads, Past(t)
    PROVE  Mine /\ ~wrong /\ photo \in Photos /\ th[t].photo = photo
  BY DEF SoundInv, Right, Current, FilesInv, Types

\* A writer that is past the comparison adds units of its photo.
LEMMA WritesMine ==
    ASSUME SoundInv, ~orphan, NEW t \in Threads, pc[t] = "write", NEW n \in Nat, n <= th[t].to,
           part' = part \o Slice(th[t].photo, th[t].pos, n),
           UNCHANGED <<archive, size, photo, wrong>>
    PROVE  Right'
<1>1. Mine /\ ~wrong /\ photo \in Photos /\ th[t].photo = photo
  BY PastIsMine DEF Past
<1>2. \A i \in 1..Len(part') :
         part'[i].photo = IF i <= Len(part) THEN part[i].photo ELSE th[t].photo
  BY Written DEF SoundInv
<1>3. part \in Seq(Units) /\ part' \in Seq(Units)
  BY Written DEF SoundInv, FilesInv, Types
<1>4. \A i \in 1..Len(part') : i <= Len(part) => i \in 1..Len(part)
  BY <1>3, LenProperties
<1>5. Whose(photo)'
  BY <1>1, <1>2, <1>4 DEF Mine, Whose
<1> QED
  BY <1>1, <1>5, StaysMine DEF Mine

\* ~Other: what is in the spool, if anything, is of this photo.
LEMMA CompareFinds ==
    ASSUME SizesDiffer, SoundInv, Right, NEW t \in Threads, ~Other(t)
    PROVE  Mine
<1>1. /\ th[t].photo = photo /\ photo \in Photos
      /\ size = Unknown \/ size = FileSize[photo]
  BY DEF SoundInv, Current, FilesInv, Types, Other, Full
<1>2. PICK p \in Photos : SpoolOf(p)
  BY DEF Right
<1>3. CASE part = <<>>
  BY <1>1, <1>3 DEF Mine, Whose
<1>4. CASE part # <<>>
  <2>1. p = photo
    BY <1>1, <1>2, <1>4 DEF SpoolOf, SizesDiffer
  <2> QED
    BY <1>1, <1>2, <2>1 DEF SpoolOf, Mine
<1> QED
  BY <1>3, <1>4

\* The front of a sequence that has the units of a photo in order.
Front(a, n) == SubSeq(a, 1, n)

LEMMA FrontIsSlice ==
    ASSUME NEW p \in Photos, NEW a \in Seq(Units), NEW n \in Nat \ {0}, n <= Len(a),
           \A i \in 1..Len(a) : a[i] = Unit(p, i)
    PROVE  /\ Front(a, n) \in Seq(Units) /\ Len(Front(a, n)) = n
           /\ \A i \in 1..n : Front(a, n)[i] = Unit(p, i)
           /\ Front(a, n) = Slice(p, 0, n)
<1>0. Len(a) \in Nat /\ 1..n \subseteq 1..Len(a)
  BY LenProperties
<1>1. /\ Slice(p, 0, n) \in Seq(Units) /\ Len(Slice(p, 0, n)) = n
      /\ \A i \in 1..n : Slice(p, 0, n)[i] = Unit(p, i)
  <2>1. /\ Slice(p, 0, n) \in Seq(Units) /\ Len(Slice(p, 0, n)) = IF 0 < n THEN n - 0 ELSE 0
        /\ \A i \in 1..(n - 0) : Slice(p, 0, n)[i] = Unit(p, 0 + i)
    BY SliceType
  <2>2. n - 0 = n /\ 0 < n /\ \A i \in 1..n : 0 + i = i
    OBVIOUS
  <2> QED
    BY <2>1, <2>2
<1>2. \A i \in 1..n : a[i] \in Units
  BY <1>0, ElementOfSeq
<1>3. /\ SubSeq(a, 1, n) \in Seq(Units)
      /\ Len(SubSeq(a, 1, n)) = IF 1 <= n THEN n - 1 + 1 ELSE 0
      /\ \A i \in 1..(n - 1 + 1) : SubSeq(a, 1, n)[i] = a[1 + i - 1]
  BY <1>2, SubSeqProperties
<1>4. n - 1 + 1 = n /\ 1 <= n
  OBVIOUS
<1>5. ASSUME NEW i \in 1..n PROVE SubSeq(a, 1, n)[i] = Unit(p, i)
  <2>1. 1 + i - 1 = i /\ a[i] = Unit(p, i)
    BY <1>0
  <2> QED
    BY <1>3, <1>4, <2>1
<1>6. SubSeq(a, 1, n) = Slice(p, 0, n)
  BY <1>1, <1>3, <1>4, <1>5, SeqEqual
<1> QED
  BY <1>3, <1>4, <1>5, <1>6 DEF Front

\* A spool of this photo that is long enough, or rescued, has the photo's file.
LEMMA AssemblesPhoto ==
    ASSUME SoundInv, ~orphan, NEW t \in Threads, pc[t] = "complete",
           Len(part) >= Full(t) \/ Rescued(t),
           NEW a, a = Assembles(t)
    PROVE  /\ HoldsMedia(a)
           /\ SubSeq(a, 1, MediaSize[a[1].photo]) = Slice(photo, 0, MediaSize[photo])
<1> DEFINE n == Full(t)
           m == MediaSize[photo]
<1>1. Mine /\ photo \in Photos /\ th[t].photo = photo
  BY PastIsMine DEF Past
<1>2. /\ n \in Nat \ {0} /\ m \in Nat \ {0} /\ m <= n
      /\ part \in Seq(Units) /\ Len(part) \in Nat /\ NoOverlap
  BY <1>1, SizesAreNat, LenProperties DEF Full, SoundInv, FilesInv, Types
<1>3. \A i \in 1..Len(part) : part[i] = Unit(photo, i)
  <2> SUFFICES ASSUME NEW i \in 1..Len(part) PROVE part[i] = Unit(photo, i)
    OBVIOUS
  <2>1. part[i] \in Units /\ part[i].photo = photo /\ part[i].at = i
    BY <1>1, <1>2, ElementOfSeq DEF Mine, Whose, NoOverlap
  <2> QED
    BY <2>1 DEF Units, Unit
<1>4. a \in Seq(Units) /\ m <= Len(a) /\ \A i \in 1..Len(a) : a[i] = Unit(photo, i)
  <2>1. CASE Rescued(t)
    <3>1. Len(part) > 0 /\ Len(part) >= MediaSize[part[1].photo] /\ a = part
      BY <2>1 DEF Rescued, HoldsMedia, Assembles
    <3>2. part[1].photo = photo
      <4>1. part[1] = Unit(photo, 1)
        BY <1>2, <1>3, <3>1
      <4> QED
        BY <4>1 DEF Unit
    <3> QED
      BY <1>2, <1>3, <3>1, <3>2
  <2>2. CASE ~Rescued(t)
    <3>1. n <= Len(part) /\ a = Front(part, n)
      BY <1>2, <2>2 DEF Assembles, Front
    <3> HIDE DEF n, m
    <3>2. /\ Front(part, n) \in Seq(Units) /\ Len(Front(part, n)) = n
          /\ \A i \in 1..n : Front(part, n)[i] = Unit(photo, i)
      BY <1>1, <1>2, <1>3, <3>1, FrontIsSlice
    <3> QED
      BY <1>2, <3>1, <3>2
  <2> QED
    BY <2>1, <2>2
<1>5. a[1].at = 1 /\ a[1].photo = photo /\ Len(a) > 0
  <2>1. Len(a) \in Nat
    BY <1>4, LenProperties
  <2>2. a[1] = Unit(photo, 1) /\ Len(a) > 0
    BY <1>2, <1>4, <2>1
  <2> QED
    BY <2>2 DEF Unit
<1>6. HoldsMedia(a)
  <2>1. Len(a) >= m
    BY <1>2, <1>4, LenProperties
  <2> QED
    BY <1>5, <2>1 DEF HoldsMedia
<1>7. Front(a, m) = Slice(photo, 0, m)
  <2> HIDE DEF m
  <2> QED
    BY <1>1, <1>2, <1>4, FrontIsSlice
<1> QED
  BY <1>5, <1>6, <1>7 DEF Front

LEMMA RightStep ==
    ASSUME SizesDiffer, SoundInv, ~orphan, [Next]_vars, ~orphan'
    PROVE  Right'
<1>0. Right /\ photo \in Photos /\ (\A t \in Threads : th[t].photo = photo /\ th[t] \in Locals)
  BY DEF SoundInv, Current, FilesInv, Types
<1>1. ASSUME NEW t \in Threads, Past(t), wrong' = wrong, photo' = photo,
             part' = part, size' \in {size, Unknown, Full(t)}
      PROVE  Right'
  <2>1. Mine /\ ~wrong /\ th[t].photo = photo
    BY <1>1, PastIsMine
  <2> QED
    BY <1>0, <1>1, <2>1, StaysMine DEF Mine, Whose, Full
<1>2. ASSUME NEW t \in Threads, Handler(t)
      PROVE  Right'
  <2>0. /\ pc[t] \in Labels /\ \A u \in Threads : u # t => (Past(u)' => Past(u))
        /\ photo' = photo
    <3>1. /\ \A u \in Threads : u # t => pc'[u] = pc[u] /\ th'[u] = th[u]
          /\ photo' = photo
      BY <1>2 DEF Handler, Measure, Compare, RemovePart, RemoveSize, Upload, GoAway, Begin, Stream,
         Fallback, CheckEnd, WritePart, WriteFails, TruncateSize, WriteSize, TryComplete, Save, ExtractFails, SaveFails,
       Leaves,
         Save, ExtractFails, SaveFails, Leaves, Done, Goto, SoundInv, FilesInv, Types
    <3> QED
      BY <3>1 DEF Past, SoundInv, FilesInv, Types
  <2>1. CASE Measure(t) \/ Upload(t) \/ GoAway(t)
    <3>1. wrong' = wrong /\ UNCHANGED <<part, size>>
      BY <2>1 DEF Measure, Upload, GoAway, files, history
    <3>2. Past(t)' => Past(t)
      <4>1. CASE Measure(t)
        <5>1. pc'[t] \in {"told", "compare"} /\ th'[t].adv = 0
          BY <4>1 DEF Measure, Goto, Idle, SoundInv, FilesInv, Types
        <5> QED
          BY <5>1 DEF Past
      <4>2. CASE Upload(t)
        <5>1. /\ pc[t] = "told" /\ pc'[t] = IF th[t].adv = 0 THEN "remove" ELSE "begin"
              /\ th'[t].adv = th[t].adv /\ th[t].adv \in Nat
          BY <1>0, <4>2 DEF Upload, Goto, Locals, SoundInv, FilesInv, Types
        <5> QED
          BY <5>1 DEF Past
      <4>3. CASE GoAway(t)
        BY <4>3 DEF GoAway, Done, Goto, Past, SoundInv, FilesInv, Types
      <4> QED
        BY <2>1, <4>1, <4>2, <4>3
    <3> QED
      BY <1>0, <2>0, <3>1, <3>2, StaysPut
  <2>2. CASE Compare(t)
    <3>1. wrong' = wrong /\ UNCHANGED <<part, size>>
      BY <2>2 DEF Compare, files, history
    <3>2. CASE Other(t)
      <4>1. pc[t] = "compare" /\ pc'[t] = "remove" /\ th'[t].adv = th[t].adv
        <5>1. pc \in [Threads -> Labels] /\ th \in [Threads -> Locals]
          BY <1>0 DEF SoundInv, FilesInv, Types
        <5>2. /\ pc[t] = "compare" /\ pc' = [pc EXCEPT ![t] = "remove"]
              /\ th' = [th EXCEPT ![t] = [th[t] EXCEPT !.cur = 0, !.then = "told"]]
          BY <2>2, <3>2 DEF Compare, Goto
        <5> QED
          BY <5>1, <5>2 DEF Locals
      <4>2. Past(t)' => Past(t)
        BY <4>1 DEF Past
      <4> QED
        BY <1>0, <2>0, <3>1, <4>2, StaysPut
    <3>3. CASE ~Other(t)
      BY <1>0, <2>0, <3>1, <3>3, CompareFinds, StaysMine DEF Mine, Whose, Right
    <3> QED
      BY <3>2, <3>3
  <2>3. CASE RemovePart(t)
    <3>1. wrong' = wrong /\ part' = <<>> /\ size' = size
      BY <2>3 DEF RemovePart, history
    <3>2. Past(t)' => Past(t)
      BY <2>3 DEF RemovePart, Goto, Past, SoundInv, FilesInv, Types
    <3> QED
      BY <1>0, <2>0, <3>1, <3>2, StaysEmpty DEF SoundInv
  <2>4. CASE RemoveSize(t)
    <3>1. wrong' = wrong /\ part' = <<>> /\ size' = Unknown
      BY <2>4 DEF RemoveSize, history, SoundInv, Cleared
    <3> QED
      BY <1>0, <2>0, <3>1, StaysEmpty DEF SoundInv
  <2>5. CASE Begin(t) \/ Stream(t) \/ Fallback(t) \/ CheckEnd(t)
    <3>1. wrong' = wrong /\ UNCHANGED <<part, size>> /\ Past(t)
      BY <2>5 DEF Begin, Stream, Fallback, CheckEnd, files, history, Past
    <3> QED
      BY <1>1, <2>0, <3>1
  <2>6. CASE TruncateSize(t) \/ WriteSize(t)
    <3>1. wrong' = wrong /\ part' = part /\ size' \in {size, Unknown, Full(t)} /\ Past(t)
      BY <2>6 DEF TruncateSize, WriteSize, history, Past
    <3> QED
      BY <1>1, <2>0, <3>1
  <2>7. CASE WritePart(t) \/ WriteFails(t)
    <3>1. /\ pc[t] = "write" /\ UNCHANGED <<archive, size, wrong>>
          /\ th[t].pos \in Nat /\ th[t].to \in Nat
      BY <1>0, <2>7 DEF WritePart, WriteFails, history, Locals
    <3>2. PICK n \in Nat : n <= th[t].to /\ part' = part \o Slice(th[t].photo, th[t].pos, n)
      <4>1. CASE WritePart(t)
        <5>1. th[t].to <= th[t].to
          BY <3>1
        <5> QED
          BY <3>1, <4>1, <5>1 DEF WritePart
      <4>2. CASE WriteFails(t)
        BY <3>1, <4>2 DEF WriteFails
      <4> QED
        BY <2>7, <4>1, <4>2
    <3> QED
      BY <2>0, <3>1, <3>2, WritesMine
  <2>8. CASE Ending(t)
    <3>1. UNCHANGED <<part, size>> /\ Past(t)
      BY <2>8 DEF Ending, TryComplete, Save, ExtractFails, SaveFails, files, Past
    <3>2. wrong' = wrong
      <4>1. CASE TryComplete(t) \/ SaveFails(t)
        BY <4>1 DEF TryComplete, SaveFails, history
      <4>2. CASE Save(t) \/ ExtractFails(t)
        <5>1. pc[t] = "save" /\ HoldsMedia(th[t].asm) /\ ~wrong
              /\ Filed(t) = Slice(th[t].photo, 0, MediaSize[th[t].photo])
          BY <1>0, <4>2 DEF Save, ExtractFails, SoundInv, Assembled, IsPhoto, Right
        <5>2. wrong \in BOOLEAN /\ wrong' = (wrong \/ FALSE)
          BY <4>2, <5>1 DEF Save, ExtractFails, SoundInv, Others
        <5> QED
          BY <5>2
      <4> QED
        BY <2>8, <4>1, <4>2 DEF Ending
    <3> QED
      BY <1>1, <2>0, <3>1, <3>2
  <2> QED
    BY <1>2, <2>1, <2>2, <2>3, <2>4, <2>5, <2>6, <2>7, <2>8 DEF Handler, Ending
<1>3. CASE Scan \/ NewServer \/ UNCHANGED vars
  <2>1. wrong' = wrong /\ UNCHANGED <<part, size, photo, pc, th>>
    BY <1>3 DEF Scan, NewServer, vars, files, history
  <2> QED
    BY <1>0, <2>1, StaysPut DEF Past
<1>4. CASE Move
  <2>1. wrong' = wrong /\ UNCHANGED <<size, photo, pc, th>> /\ (part' = part \/ part' = <<>>)
    BY <1>4 DEF Move, files, history
  <2> QED
    BY <1>0, <2>1, StaysPut, StaysEmpty DEF Past, SoundInv
<1>5. CASE MoveSize
  <2>1. wrong' = wrong /\ photo' = photo /\ part' = <<>> /\ size' = Unknown
    BY <1>5 DEF MoveSize, history, SoundInv, Cleared
  <2> QED
    BY <1>0, <2>1, StaysEmpty DEF SoundInv
<1>6. CASE Retake
  <2>1. /\ wrong' = wrong /\ UNCHANGED <<part, size, pc>> /\ \A t \in Threads : pc[t] = "idle"
        /\ part = <<>> \/ size # Unknown
    BY <1>6 DEF Retake, files
  <2>2. PICK p \in Photos : SpoolOf(p)
    BY <1>0 DEF Right
  <2>3. SpoolOf(p)'
    BY <2>1, <2>2 DEF SpoolOf, Whose
  <2>4. \A t \in Threads : ~Past(t)'
    BY <2>1 DEF Past
  <2> QED
    BY <1>0, <2>1, <2>3, <2>4 DEF Right
<1>7. CASE Crash
  <2>1. /\ wrong' = wrong /\ photo' = photo /\ UNCHANGED <<archive, size>>
        /\ \A t \in Threads : ~Past(t)'
    BY <1>7 DEF Crash, Past
  <2>2. CASE part' = part
    BY <1>0, <2>1, <2>2, StaysPut
  <2>3. ASSUME NEW t \in Threads, pc[t] = "write", NEW n \in th[t].pos..th[t].to,
               part' = part \o Slice(th[t].photo, th[t].pos, n)
        PROVE  Right'
    <3>1. n \in Nat /\ n <= th[t].to
      BY <1>0, <2>3 DEF Locals
    <3> QED
      BY <2>1, <2>3, <3>1, WritesMine
  <2> QED
    BY <1>7, <2>2, <2>3 DEF Crash
<1> QED
  BY <1>2, <1>3, <1>4, <1>5, <1>6, <1>7 DEF Next

LEMMA CurrentStep ==
    ASSUME SoundInv, [Next]_vars
    PROVE  Current'
<1>0. Current /\ photo \in Photos /\ \A t \in Threads : th[t] \in Locals
  BY DEF SoundInv, FilesInv, Types
<1>1. Idle.photo = photo
  BY DEF Idle
<1>2. ASSUME NEW t \in Threads, Handler(t)
      PROVE  Current'
  <2>1. photo' = photo /\ \A u \in Threads : u # t => th'[u] = th[u]
    BY <1>2 DEF Handler, Measure, Compare, RemovePart, RemoveSize, Upload, GoAway, Begin, Stream,
       Fallback, CheckEnd, WritePart, WriteFails, TruncateSize, WriteSize, TryComplete, Save, ExtractFails, SaveFails,
       Leaves,
       Save, ExtractFails, SaveFails, Leaves, Done, Goto, SoundInv, FilesInv, Types
  <2>2. th'[t].photo = photo
    <3>1. th[t] \in Locals /\ th[t].photo = photo /\ t \in DOMAIN th
      BY <1>0 DEF Current, SoundInv, FilesInv, Types
    <3>2. CASE Done(t)
      BY <1>1, <3>1, <3>2 DEF Done
    <3>3. CASE UNCHANGED th
      BY <3>1, <3>3
    <3>4. CASE Measure(t)
      BY <3>1, <3>4 DEF Measure, Idle
    <3>5. CASE Compare(t)
      BY <3>1, <3>5 DEF Compare, Locals
    <3>6. CASE Upload(t) \/ Begin(t)
      BY <3>1, <3>6 DEF Upload, Begin, Locals
    <3>9. CASE Ending(t)
      <4>1. CASE Leaves(t)
        BY <3>1, <4>1 DEF Leaves, Locals
      <4>2. CASE TryComplete(t) /\ ~Done(t)
        <5>1. th' = [th EXCEPT ![t] = [Idle EXCEPT !.gen = th[t].gen, !.asm = Assembles(t)]]
          BY <4>2 DEF TryComplete, Assembles
        <5> QED
          BY <3>1, <5>1 DEF Idle
      <4> QED
        BY <3>2, <3>9, <4>1, <4>2 DEF Ending, TryComplete, Save, ExtractFails, SaveFails
    <3>7. CASE Stream(t) \/ Fallback(t)
      BY <3>1, <3>2, <3>7 DEF Stream, Fallback, Locals
    <3>8. CASE CheckEnd(t) \/ WriteSize(t)
      BY <3>1, <3>8 DEF CheckEnd, WriteSize, Locals
    <3> QED
      BY <1>2, <3>2, <3>3, <3>4, <3>5, <3>6, <3>7, <3>8, <3>9
      DEF Handler, Ending, RemovePart, RemoveSize, GoAway, WritePart, WriteFails, TruncateSize
  <2> QED
    BY <1>0, <2>1, <2>2 DEF Current
<1>3. CASE Scan \/ Move \/ MoveSize \/ NewServer \/ UNCHANGED vars
  BY <1>0, <1>3 DEF Scan, Move, MoveSize, NewServer, vars, Current
<1>4. CASE Retake
  BY <1>4 DEF Retake, Idle, Current
<1>5. CASE Crash
  BY <1>1, <1>5 DEF Crash, Current
<1> QED
  BY <1>2, <1>3, <1>4, <1>5 DEF Next

LEMMA ClearedStep ==
    ASSUME SoundInv, [Next]_vars
    PROVE  Cleared'
<1>0. FilesInv /\ Cleared /\ pc \in [Threads -> Labels]
  BY DEF SoundInv, FilesInv, Types
<1>1. ASSUME NEW t \in Threads, Handler(t)
      PROVE  Cleared'
  <2>1. dog' = dog /\ \A u \in Threads : u # t => pc'[u] = pc[u]
    BY <1>0, <1>1 DEF Handler, Measure, Compare, RemovePart, RemoveSize, Upload, GoAway, Begin,
       Stream, Fallback, CheckEnd, WritePart, WriteFails, TruncateSize, WriteSize, TryComplete, Save, ExtractFails, SaveFails,
       Leaves,
       Done, Goto
  <2>2. CASE part' = part /\ pc'[t] # "removeSize"
    BY <1>0, <2>1, <2>2 DEF Cleared
  <2>3. CASE RemovePart(t)
    BY <2>3 DEF RemovePart, Cleared
  <2>4. CASE WritePart(t) \/ WriteFails(t)
    <3>1. /\ pc[t] = "write" /\ pc'[t] # "removeSize" /\ dog # "moved"
          /\ \A u \in Threads : u # t => pc[u] # "removeSize"
      BY <1>0, <2>4, OneWriter DEF WritePart, WriteFails, Done, Goto, Holding
    <3> QED
      BY <2>1, <3>1 DEF Cleared
  <2>5. CASE Measure(t) \/ Compare(t) \/ Upload(t) \/ GoAway(t) \/ Begin(t)
    BY <1>0, <2>2, <2>5 DEF Measure, Compare, Upload, GoAway, Begin, Done, Goto, files
  <2>6. CASE Stream(t) \/ Fallback(t) \/ CheckEnd(t) \/ Ending(t)
    BY <1>0, <2>2, <2>6
    DEF Stream, Fallback, CheckEnd, Ending, TryComplete, Save, ExtractFails, SaveFails, Leaves,
        AfterAppend, Done, Goto, files
  <2>7. CASE RemoveSize(t) \/ TruncateSize(t) \/ WriteSize(t)
    <3>1. th[t].then # "removeSize"
      BY <1>0 DEF FilesInv, Types, Locals
    <3> QED
      BY <1>0, <2>2, <2>7, <3>1 DEF RemoveSize, TruncateSize, WriteSize, AfterAppend, Done, Goto
  <2> QED
    BY <1>1, <2>3, <2>4, <2>5, <2>6, <2>7 DEF Handler, Ending
<1>2. CASE Move \/ MoveSize
  BY <1>0, <1>2 DEF Move, MoveSize, files, Cleared
<1>3. CASE Scan \/ NewServer \/ Retake \/ UNCHANGED vars
  BY <1>0, <1>3 DEF Scan, NewServer, Retake, vars, files, Cleared
<1>4. CASE Crash
  BY <1>4 DEF Crash, Cleared
<1> QED
  BY <1>1, <1>2, <1>3, <1>4 DEF Next

\* A write leaves .part within the photo of its writer.
LEMMA WritesWithin ==
    ASSUME SoundInv, NEW t \in Threads, pc[t] = "write", NEW n \in Nat, n <= th[t].to,
           part' = part \o Slice(th[t].photo, th[t].pos, n), archive' = archive
    PROVE  \E p \in Photos : Len(part') <= FileSize[p]
<1>1. th[t].photo \in Photos /\ (part' = part \/ Len(part') <= FileSize[th[t].photo])
  BY Written DEF SoundInv, FilesInv, Types, Locals
<1> QED
  BY <1>1 DEF SoundInv, Others

LEMMA OthersStep ==
    ASSUME SoundInv, [Next]_vars
    PROVE  Others'
<1>0. /\ FilesInv /\ Others /\ photo \in Photos /\ part \in Seq(Units)
      /\ \A t \in Threads : th[t] \in Locals /\ Full(t) \in Nat
  BY SizesAreNat DEF SoundInv, FilesInv, Types, Locals, Full
<1>1. \E p \in Photos : Len(part') <= FileSize[p]
  <2>1. CASE part' = part
    BY <1>0, <2>1 DEF Others
  <2>2. CASE part' = <<>>
    <3>1. Len(part') = 0 /\ FileSize[photo] \in Nat
      BY <1>0, <2>2, SizesAreNat
    <3> QED
      BY <1>0, <3>1
  <2>3. ASSUME NEW t \in Threads, pc[t] = "write", NEW n \in th[t].pos..th[t].to,
               part' = part \o Slice(th[t].photo, th[t].pos, n), archive' = archive
        PROVE  \E p \in Photos : Len(part') <= FileSize[p]
    <3>1. n \in Nat /\ n <= th[t].to
      BY <1>0, <2>3 DEF Locals
    <3> QED
      BY <2>3, <3>1, WritesWithin
  <2>4. ASSUME NEW t \in Threads, WritePart(t) \/ WriteFails(t)
        PROVE  \E p \in Photos : Len(part') <= FileSize[p]
    <3>1. /\ pc[t] = "write" /\ archive' = archive
          /\ th[t].pos \in Nat /\ th[t].to \in Nat /\ th[t].to <= th[t].to
      BY <1>0, <2>4 DEF WritePart, WriteFails, Locals
    <3>2. CASE WritePart(t)
      BY <3>1, <3>2, WritesWithin DEF WritePart
    <3>3. CASE WriteFails(t)
      <4>1. PICK n \in th[t].pos..(th[t].to - 1) :
               part' = part \o Slice(th[t].photo, th[t].pos, n)
        BY <3>3 DEF WriteFails
      <4>2. n \in th[t].pos..th[t].to
        BY <3>1, <4>1
      <4> QED
        BY <2>3, <3>1, <4>1, <4>2
    <3> QED
      BY <2>4, <3>2, <3>3
  <2>5. ASSUME NEW t \in Threads, Handler(t)
        PROVE  \E p \in Photos : Len(part') <= FileSize[p]
    BY <2>1, <2>2, <2>4, <2>5 DEF Handler, Measure, Compare, RemovePart, RemoveSize, Upload, GoAway,
       Begin, Stream, Fallback, CheckEnd, TruncateSize, WriteSize, TryComplete, Save, ExtractFails, SaveFails, Leaves, files
  <2>6. CASE Scan \/ Move \/ MoveSize \/ Retake \/ NewServer \/ UNCHANGED vars
    BY <2>1, <2>2, <2>6 DEF Scan, Move, MoveSize, Retake, NewServer, vars, files
  <2>7. CASE Crash
    <3>1. archive' = archive
      BY <2>7 DEF Crash
    <3> QED
      BY <2>1, <2>3, <2>7, <3>1 DEF Crash
  <2> QED
    BY <2>5, <2>6, <2>7 DEF Next
<1>2. archive' \in Seq(Units) /\ size' \in Nat
  <2>1. archive' \in {archive, part}
    BY DEF Next, Handler, Measure, Compare, RemovePart, RemoveSize, Upload, GoAway, Begin, Stream,
       Fallback, CheckEnd, WritePart, WriteFails, TruncateSize, WriteSize, TryComplete, Save, ExtractFails, SaveFails,
       Leaves,
       Scan, Move, MoveSize, Retake, Crash, NewServer, vars, files
  <2>2. size' = size \/ size' = Unknown \/ \E t \in Threads : size' = Full(t)
    BY DEF Next, Handler, Measure, Compare, RemovePart, RemoveSize, Upload, GoAway, Begin, Stream,
       Fallback, CheckEnd, WritePart, WriteFails, TruncateSize, WriteSize, TryComplete, Save, ExtractFails, SaveFails,
       Leaves,
       Scan, Move, MoveSize, Retake, Crash, NewServer, vars, files
  <2> QED
    BY <1>0, <2>1, <2>2 DEF Others, Unknown
<1>3. writer' \in [Gens -> Threads \cup {NoThread}] /\ dog' \in {"idle", "found", "moved"}
  <2>1. ASSUME NEW t \in Threads, Upload(t)
        PROVE  writer' \in [Gens -> Threads \cup {NoThread}]
    BY <1>0, <2>1 DEF Upload, Others
  <2>2. \/ \E t \in Threads : Upload(t)
        \/ writer' = writer \/ writer' = [g \in Gens |-> NoThread]
    BY DEF Next, Handler, Measure, Compare, RemovePart, RemoveSize, GoAway, Begin, Stream,
       Fallback, CheckEnd, WritePart, WriteFails, TruncateSize, WriteSize, TryComplete, Save, ExtractFails, SaveFails,
       Leaves,
       Scan, Move, MoveSize, Retake, Crash, NewServer, vars, server, Lock, Unlock
  <2>3. dog' = dog \/ dog' \in {"idle", "found", "moved"}
    BY DEF Next, Handler, Measure, Compare, RemovePart, RemoveSize, Upload, GoAway, Begin, Stream,
       Fallback, CheckEnd, WritePart, WriteFails, TruncateSize, WriteSize, TryComplete, Save, ExtractFails, SaveFails,
       Leaves,
       Scan, Move, MoveSize, Retake, Crash, NewServer, vars, Done, Goto
  <2> QED
    BY <1>0, <2>1, <2>2, <2>3 DEF Others
<1>4. wrong' \in BOOLEAN /\ orphan' \in BOOLEAN
  <2>1. wrong' = wrong \/ \E t \in Threads : Save(t) \/ ExtractFails(t)
    BY DEF Next, Handler, Measure, Compare, RemovePart, RemoveSize, Upload, GoAway, Begin, Stream,
       Fallback, CheckEnd, WritePart, WriteFails, TruncateSize, WriteSize, TryComplete, SaveFails,
       Scan, Move, MoveSize, Retake, Crash, NewServer, vars, history
  <2>2. orphan' = orphan \/ Retake
    BY DEF Next, Handler, Measure, Compare, RemovePart, RemoveSize, Upload, GoAway, Begin, Stream,
       Fallback, CheckEnd, WritePart, WriteFails, TruncateSize, WriteSize, TryComplete, Save, ExtractFails, SaveFails,
       Leaves,
       Scan, Move, MoveSize, Crash, NewServer, vars, history
  <2>3. ASSUME NEW t \in Threads, Save(t) \/ ExtractFails(t) PROVE wrong' \in BOOLEAN
    BY <1>0, <2>3 DEF Save, ExtractFails, Others
  <2>4. ASSUME Retake PROVE orphan' \in BOOLEAN
    BY <1>0, <2>4 DEF Retake, Others
  <2> QED
    BY <1>0, <2>1, <2>2, <2>3, <2>4 DEF Others
<1>5. retakes' \in 0..MaxRetakes /\ faults' \in 0..MaxFaults
  <2>0. /\ retakes \in 0..MaxRetakes /\ faults \in 0..MaxFaults
        /\ MaxRetakes \in Nat /\ MaxFaults \in Nat
    BY <1>0, PhotoAssumption DEF Others
  <2>1. retakes' = retakes \/ (retakes < MaxRetakes /\ retakes' = retakes + 1)
    BY DEF Next, Handler, Measure, Compare, RemovePart, RemoveSize, Upload, GoAway, Begin, Stream,
       Fallback, CheckEnd, WritePart, WriteFails, TruncateSize, WriteSize, TryComplete, Save, ExtractFails, SaveFails,
       Leaves,
       Scan, Move, MoveSize, Retake, Crash, NewServer, vars, history
  <2>2. faults' = faults \/ (faults < MaxFaults /\ faults' = faults + 1)
    BY DEF Next, Handler, Measure, Compare, RemovePart, RemoveSize, Upload, GoAway, Begin, Stream,
       Fallback, CheckEnd, WritePart, WriteFails, TruncateSize, WriteSize, TryComplete, Save, ExtractFails, SaveFails,
       Leaves,
       Scan, Move, MoveSize, Retake, Crash, NewServer, vars, history
  <2> QED
    BY <2>0, <2>1, <2>2
<1> QED
  BY <1>1, <1>2, <1>3, <1>4, <1>5 DEF Others

LEMMA AssembledStep ==
    ASSUME SoundInv, ~orphan, [Next]_vars
    PROVE  Assembled'
<1>0. Assembled /\ FilesInv /\ Right
  BY DEF SoundInv
<1>1. ASSUME NEW t \in Threads, Handler(t)
      PROVE  Assembled'
  <2>1. photo' = photo /\ \A u \in Threads : u # t => pc'[u] = pc[u] /\ th'[u] = th[u]
    BY <1>0, <1>1 DEF Handler, Measure, Compare, RemovePart, RemoveSize, Upload, GoAway, Begin,
       Stream, Fallback, CheckEnd, WritePart, WriteFails, TruncateSize, WriteSize, TryComplete,
       Save, ExtractFails, SaveFails, Leaves, Done, Goto, FilesInv, Types
  <2>2. CASE pc'[t] # "save"
    BY <1>0, <2>1, <2>2 DEF Assembled, IsPhoto, Filed
  <2>3. CASE TryComplete(t) /\ ~Done(t)
    <3> DEFINE a == Assembles(t)
    <3>1. /\ Len(part) >= Full(t) \/ Rescued(t)
          /\ pc[t] = "complete" /\ th \in [Threads -> Locals]
          /\ th' = [th EXCEPT ![t] = [Idle EXCEPT !.gen = th[t].gen, !.asm = a]]
      BY <1>0, <2>3 DEF TryComplete, Assembles, FilesInv, Types
    <3>2. /\ HoldsMedia(a)
          /\ SubSeq(a, 1, MediaSize[a[1].photo]) = Slice(photo, 0, MediaSize[photo])
      BY <3>1, AssemblesPhoto
    <3> HIDE DEF a
    <3>3. th'[t].asm = a
      BY <3>1 DEF Idle
    <3>4. IsPhoto(t)'
      BY <2>1, <3>2, <3>3 DEF IsPhoto, Filed, HoldsMedia
    <3> QED
      BY <1>0, <2>1, <3>4 DEF Assembled, IsPhoto, Filed
  <2>4. CASE Measure(t) \/ Compare(t) \/ Upload(t) \/ GoAway(t) \/ Begin(t)
    BY <1>0, <2>2, <2>4 DEF Measure, Compare, Upload, GoAway, Begin, Done, Goto, FilesInv, Types
  <2>5. CASE Stream(t) \/ Fallback(t) \/ CheckEnd(t) \/ WriteSize(t)
    BY <1>0, <2>2, <2>5 DEF Stream, Fallback, CheckEnd, WriteSize, AfterAppend, Done, Goto,
       FilesInv, Types
  <2>6. CASE RemovePart(t) \/ WritePart(t) \/ WriteFails(t) \/ TruncateSize(t)
    BY <1>0, <2>2, <2>6 DEF RemovePart, WritePart, WriteFails, TruncateSize, Done, Goto,
       FilesInv, Types
  <2>7. CASE RemoveSize(t)
    <3>1. th[t].then # "save"
      BY <1>0 DEF FilesInv, Types, Locals
    <3> QED
      BY <1>0, <2>2, <2>7, <3>1 DEF RemoveSize, Done, Goto, FilesInv, Types
  <2>8. CASE Done(t) \/ Leaves(t)
    BY <1>0, <2>2, <2>8 DEF Leaves, Done, Goto, FilesInv, Types
  <2> QED
    BY <1>1, <2>3, <2>4, <2>5, <2>6, <2>7, <2>8
    DEF Handler, TryComplete, Save, ExtractFails, SaveFails
<1>2. CASE Scan \/ Move \/ MoveSize \/ NewServer \/ UNCHANGED vars
  BY <1>0, <1>2 DEF Scan, Move, MoveSize, NewServer, vars, Assembled, IsPhoto, Filed
<1>3. CASE Retake \/ Crash
  BY <1>3 DEF Retake, Crash, Assembled
<1> QED
  BY <1>1, <1>2, <1>3 DEF Next

LEMMA SoundStep ==
    ASSUME OneServer, SizesDiffer, SoundInv, [Next]_vars
    PROVE  SoundInv'
<1>1. FilesInv' /\ Others' /\ Current' /\ Cleared'
  BY FilesStep, OthersStep, CurrentStep, ClearedStep DEF SoundInv
<1>2. orphan => orphan'
  BY DEF Next, Handler, Measure, Compare, RemovePart, RemoveSize, Upload, GoAway, Begin, Stream,
     Fallback, CheckEnd, WritePart, WriteFails, TruncateSize, WriteSize, TryComplete, Save, ExtractFails, SaveFails,
       Leaves,
     Scan, Move, MoveSize, Retake, Crash, NewServer, vars, history
<1> QED
  BY <1>1, <1>2, RightStep, AssembledStep DEF SoundInv

LEMMA SoundMeans == SoundInv => SpoolSound
<1> SUFFICES ASSUME SoundInv PROVE SpoolSound
  OBVIOUS
<1>1. TypeOK
  BY DEF SoundInv, FilesInv, Types, Others, TypeOK
<1>2. SizeTrue
  <2> SUFFICES ASSUME ~orphan, size # Unknown, NEW i \in 1..Len(part)
               PROVE  size = FileSize[part[i].photo]
    BY DEF SizeTrue
  <2>1. PICK p \in Photos : SpoolOf(p)
    BY DEF SoundInv, Right
  <2>2. part # <<>>
    OBVIOUS
  <2> QED
    BY <2>1, <2>2 DEF SpoolOf, Whose
<1>3. FiledIsPhoto
  BY DEF FiledIsPhoto, SoundInv, Right
<1> QED
  BY <1>1, <1>2, <1>3 DEF SpoolSound

(***************************************************************************)
(* StoreImplemented: while no handler outlives its server object, file     *)
(* accesses, crashes, failed writes and archivings amount to the steps of  *)
(* the atomic spool that SpoolTransfer takes for granted.                  *)
(***************************************************************************)
THEOREM StoreRefinement ==
    ASSUME MaxGens = 1 \/ ~LiveOn
    PROVE  Spec => StoreImplemented
<1>1. Init => Store!Init
  BY DEF Init, Store!Init
<1> QED
  BY FilesInit, FilesStep, <1>1, PTL DEF Spec, Store!Spec, StoreImplemented, OneServer

(***************************************************************************)
(* NoOverlap: no overlapping or disordered write gets into the spool.      *)
(***************************************************************************)
THEOREM NothingOverlaps ==
    ASSUME MaxGens = 1 \/ ~LiveOn
    PROVE  Spec => []NoOverlap
<1>1. FilesInv => NoOverlap
  BY DEF FilesInv
<1> QED
  BY FilesInit, FilesStep, <1>1, PTL DEF Spec, OneServer

(***************************************************************************)
(* SpoolSound: a readable .size is the size of the photo in the spool and  *)
(* what is assembled, from a rescued spool too, has the whole file of the  *)
(* photo the card sent, unless a spool lost its .size before another photo *)
(* took over the name.  The receiver tells two photos of a name apart by   *)
(* their size alone.                                                       *)
(***************************************************************************)
THEOREM RightPhoto ==
    ASSUME MaxGens = 1 \/ ~LiveOn,
           \A p, q \in Photos : FileSize[p] = FileSize[q] => p = q
    PROVE  Spec => []SpoolSound
<1>1. OneServer /\ SizesDiffer
  BY DEF OneServer, SizesDiffer
<1> QED
  BY SoundInit, SoundStep, SoundMeans, <1>1, PTL DEF Spec
=============================================================================
