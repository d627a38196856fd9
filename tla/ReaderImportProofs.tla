-------------------------- MODULE ReaderImportProofs --------------------------
(***************************************************************************)
(* Theorems about the card in the reader.  ReaderImport: for any cards,    *)
(* drives, threads and clicks there is at most one import, and none of an  *)
(* unregistered card unless by hand.  CardMailbox: for any sessions one    *)
(* after the other and any timeouts, few answers go astray.                *)
(***************************************************************************)
EXTENDS MCReaderImport, SequenceTheorems, TLAPS

\* Removing a member of a sequence leaves a sequence of the others.
LEMMA RemoveAtShorter ==
    ASSUME NEW S, NEW s \in Seq(S), NEW i \in DOMAIN s
    PROVE  /\ RemoveAt(s, i) \in Seq(S)
           /\ Len(RemoveAt(s, i)) = Len(s) - 1
           /\ \A j \in DOMAIN RemoveAt(s, i) : \E k \in DOMAIN s : RemoveAt(s, i)[j] = s[k]
<1> DEFINE n == Len(s)
           a == SubSeq(s, 1, i - 1)
           b == SubSeq(s, i + 1, n)
<1>1. /\ n \in Nat /\ DOMAIN s = 1..n /\ i \in 1..n
      /\ \A j \in 1..n : s[j] \in S
  OBVIOUS
<1>2. a \in Seq(S) /\ Len(a) = i - 1 /\ \A j \in 1..(i - 1) : a[j] = s[j]
  BY <1>1, SubSeqProperties
<1>3. b \in Seq(S) /\ Len(b) = n - i /\ \A j \in 1..(n - i) : b[j] = s[i + j]
  <2>1. \A j \in (i + 1)..n : s[j] \in S
    BY <1>1
  <2>2. /\ b \in Seq(S) /\ Len(b) = IF i + 1 <= n THEN n - (i + 1) + 1 ELSE 0
        /\ \A j \in 1..(n - (i + 1) + 1) : b[j] = s[(i + 1) + j - 1]
    BY <1>1, <2>1, SubSeqProperties
  <2>3. n - (i + 1) + 1 = n - i /\ (~(i + 1 <= n) => n - i = 0)
    BY <1>1
  <2>4. \A j \in 1..(n - i) : (i + 1) + j - 1 = i + j
    BY <1>1
  <2> QED
    BY <2>2, <2>3, <2>4
<1> HIDE DEF a, b
<1>4. /\ a \o b \in Seq(S) /\ Len(a \o b) = n - 1
      /\ \A j \in 1..(n - 1) : (a \o b)[j] = IF j <= i - 1 THEN a[j] ELSE b[j - (i - 1)]
  <2>1. /\ a \o b \in Seq(S) /\ Len(a \o b) = Len(a) + Len(b)
        /\ \A j \in 1..(Len(a) + Len(b)) :
               (a \o b)[j] = IF j <= Len(a) THEN a[j] ELSE b[j - Len(a)]
    BY <1>2, <1>3, ConcatProperties
  <2>2. Len(a) = i - 1 /\ Len(a) + Len(b) = n - 1
    BY <1>1, <1>2, <1>3
  <2> QED
    BY <2>1, <2>2
<1>5. \A j \in 1..(n - 1) : (a \o b)[j] = IF j <= i - 1 THEN s[j] ELSE s[j + 1]
  <2> SUFFICES ASSUME NEW j \in 1..(n - 1)
               PROVE  (a \o b)[j] = IF j <= i - 1 THEN s[j] ELSE s[j + 1]
    OBVIOUS
  <2>1. CASE j <= i - 1
    BY <2>1, <1>1, <1>2, <1>4
  <2>2. CASE ~(j <= i - 1)
    <3>1. j - (i - 1) \in 1..(n - i) /\ i + (j - (i - 1)) = j + 1
      BY <2>2, <1>1
    <3> QED
      BY <3>1, <2>2, <1>3, <1>4
  <2> QED
    BY <2>1, <2>2
<1>6. RemoveAt(s, i) = a \o b
  BY DEF RemoveAt, a, b
<1>7. DOMAIN (a \o b) = 1..(n - 1)
  BY <1>4, <1>1
<1>8. ASSUME NEW j \in 1..(n - 1) PROVE \E k \in 1..n : (a \o b)[j] = s[k]
  <2>1. j \in 1..n /\ j + 1 \in 1..n
    BY <1>1
  <2> QED
    BY <2>1, <1>5
<1> QED
  BY <1>1, <1>4, <1>6, <1>7, <1>8

-----------------------------------------------------------------------------
LEMMA InitInv == Init => ImportSound
<1> SUFFICES ASSUME Init PROVE TypeOK /\ OneImport
  BY DEF ImportSound
<1>1. form \in [Card -> Form] /\ shots \in [Card -> {"none", "new", "kept"}]
  BY CardAssumption DEF Init
<1>2. autoimport \in BOOLEAN /\ folder \in BOOLEAN
  <2>1. PICK s \in InitSettings : autoimport = s[1] /\ folder = s[2]
    BY DEF Init
  <2>2. s \in BOOLEAN \X BOOLEAN
    BY CardAssumption
  <2> QED
    BY <2>1, <2>2
<1>3. jobs \in [Drive -> Seq(JobRecord)] /\ importers \in Seq(Importer) /\ Len(importers) = 0
  BY DEF Init
<1>4. known \in SUBSET Drive
  BY DEF Init, Importable
<1>5. OneImport
  <2>1. importing = FALSE /\ importers = <<>>
    BY DEF Init
  <2>2. importing = (importers # <<>>)
    BY <2>1, Zenon
  <2> QED
    BY <2>2, <1>3 DEF OneImport
<1>6. passed \in SUBSET Drive /\ registered \in SUBSET Card
  BY DEF Init
<1>7. reader \in [Drive -> Card \cup {NoCard}] /\ moves \in 0..MaxMoves /\ clicks \in 0..MaxClicks
  BY CardAssumption DEF Init
<1>8. importing \in BOOLEAN
  BY DEF Init
<1> QED
  BY <1>1, <1>2, <1>3, <1>4, <1>5, <1>6, <1>7, <1>8 DEF TypeOK

\* What starting an import does, when none is running.
LEMMA RunKeeps ==
    ASSUME TypeOK, OneImport, ~importing, NEW d \in Drive, HasDcim(d),
           NEW mac \in Card \cup {NoCard}, RunReaderImport(d, mac)
    PROVE  /\ importing' \in BOOLEAN /\ importers' \in Seq(Importer)
           /\ importing' = (importers' # <<>>) /\ Len(importers') <= 1
<1>1. reader[d] \in Card
  BY DEF HasDcim, Inserted, TypeOK
<1>2. importers = <<>>
  BY DEF OneImport, TypeOK
<1>3. CASE folder
  <2> DEFINE new == [drive |-> d, card |-> reader[d], mac |-> mac, whole |-> TRUE, over |-> FALSE]
  <2>1. new \in Importer
    BY <1>1 DEF Importer
  <2>2. importing' = TRUE /\ importers' = Append(<<>>, new)
    BY <1>2, <1>3 DEF RunReaderImport
  <2> HIDE DEF new
  <2>3. importers' \in Seq(Importer) /\ Len(importers') = 1 /\ importers' # <<>>
    BY <2>1, <2>2
  <2>4. importing' = (importers' # <<>>)
    BY <2>2, <2>3, Zenon
  <2> QED
    BY <2>2, <2>3, <2>4
<1>4. CASE ~folder
  <2>1. importing' = importing /\ importers' = importers
    BY <1>4 DEF RunReaderImport, import
  <2>2. importing' = (importers' # <<>>)
    BY <2>1, Zenon DEF OneImport
  <2> QED
    BY <2>1, <2>2 DEF OneImport, TypeOK
<1> QED
  BY <1>3, <1>4

LEMMA NextInv == ImportSound /\ [Next]_vars => ImportSound'
<1> SUFFICES ASSUME TypeOK, OneImport, [Next]_vars
             PROVE  TypeOK' /\ OneImport'
  BY DEF ImportSound
<1> USE CardAssumption
<1>1. ASSUME PollReader PROVE TypeOK' /\ OneImport'
  <2>1. \A d \in Drive : Thread("fresh") \in JobRecord /\ Thread("identify") \in JobRecord
    BY DEF Thread, JobRecord
  <2>2. jobs' \in [Drive -> Seq(JobRecord)]
    BY <1>1, <2>1 DEF PollReader, TypeOK
  <2>3. known' \in SUBSET Drive
    BY <1>1 DEF PollReader
  <2> QED
    BY <1>1, <2>2, <2>3 DEF PollReader, TypeOK, OneImport, cards, config, import, bounds
<1>2. ASSUME NEW d \in Drive, NEW i \in DOMAIN jobs[d], ReadCard(d, i)
      PROVE  TypeOK' /\ OneImport'
  <2>1. jobs[d] \in Seq(JobRecord) /\ jobs[d][i] \in JobRecord /\ reader[d] \in Card \cup {NoCard}
    BY DEF TypeOK
  <2>2. PICK mac \in {NoCard, reader[d]} :
             /\ jobs' = [jobs EXCEPT ![d][i].read = TRUE, ![d][i].mac = mac]
             /\ form' = IF mac # NoCard \/ IsEyeFi(d)
                        THEN [form EXCEPT ![reader[d]] = "set"] ELSE form
    BY <1>2 DEF ReadCard
  <2>3. [[jobs[d][i] EXCEPT !.read = TRUE] EXCEPT !.mac = mac] \in JobRecord
    BY <2>1, <2>2 DEF JobRecord
  <2>4. jobs' = [jobs EXCEPT ![d] = [@ EXCEPT ![i] =
                    [[jobs[d][i] EXCEPT !.read = TRUE] EXCEPT !.mac = mac]]]
    BY <2>1, <2>2 DEF TypeOK
  <2>5. jobs' \in [Drive -> Seq(JobRecord)]
    BY <2>1, <2>3, <2>4 DEF TypeOK
  <2>6. form' \in [Card -> Form]
    BY <2>2 DEF TypeOK, Form
  <2> QED
    BY <1>2, <2>5, <2>6 DEF ReadCard, TypeOK, OneImport, config, import, bounds
<1>3. ASSUME NEW d \in Drive, NEW i \in DOMAIN jobs[d], NEW kinds, Callback(d, i, kinds)
      PROVE  jobs' \in [Drive -> Seq(JobRecord)] /\ jobs[d][i].mac \in Card \cup {NoCard}
  <2>1. jobs[d] \in Seq(JobRecord) /\ jobs[d][i] \in JobRecord
    BY DEF TypeOK
  <2>2. RemoveAt(jobs[d], i) \in Seq(JobRecord)
    BY <2>1, RemoveAtShorter
  <2> QED
    BY <1>3, <2>1, <2>2 DEF Callback, TypeOK, JobRecord
<1>4. ASSUME NEW d \in Drive, NEW i \in DOMAIN jobs[d], Announced(d, i)
      PROVE  TypeOK' /\ OneImport'
  BY <1>3, <1>4 DEF Announced, TypeOK, OneImport, cards, config, import, bounds
<1>5. ASSUME NEW d \in Drive, NEW i \in DOMAIN jobs[d], Identified(d, i)
      PROVE  TypeOK' /\ OneImport'
  <2>1. jobs' \in [Drive -> Seq(JobRecord)] /\ jobs[d][i].mac \in Card \cup {NoCard}
    BY <1>3, <1>5 DEF Identified
  <2>2. /\ importing' \in BOOLEAN /\ importers' \in Seq(Importer)
        /\ importing' = (importers' # <<>>) /\ Len(importers') <= 1
    <3>1. CASE ImportWanted(d, jobs[d][i].mac)
      BY <1>5, <2>1, <3>1, RunKeeps DEF Identified, ImportWanted
    <3>2. CASE ~ImportWanted(d, jobs[d][i].mac)
      BY <1>5, <3>2 DEF Identified, import, TypeOK, OneImport
    <3> QED
      BY <3>1, <3>2
  <2>3. passed' \in SUBSET Drive
    BY <1>5 DEF Identified, TypeOK
  <2> QED
    BY <1>5, <2>1, <2>2, <2>3 DEF Identified, TypeOK, OneImport, cards, config, bounds
<1>6. ASSUME NEW d \in Drive, NEW i \in DOMAIN jobs[d], Registered(d, i)
      PROVE  TypeOK' /\ OneImport'
  <2>1. jobs' \in [Drive -> Seq(JobRecord)] /\ jobs[d][i].mac \in Card \cup {NoCard}
    BY <1>3, <1>6 DEF Registered
  <2>2. registered' \in SUBSET Card
    BY <1>6, <2>1 DEF Registered, TypeOK
  <2>3. /\ importing' \in BOOLEAN /\ importers' \in Seq(Importer)
        /\ importing' = (importers' # <<>>) /\ Len(importers') <= 1
    <3>1. CASE UNCHANGED import
      BY <3>1 DEF import, TypeOK, OneImport
    <3>2. CASE HasDcim(d) /\ ~importing /\ RunReaderImport(d, jobs[d][i].mac)
      BY <2>1, <3>2, RunKeeps
    <3> QED
      BY <1>6, <3>1, <3>2 DEF Registered, import
  <2> QED
    BY <1>6, <2>1, <2>2, <2>3 DEF Registered, TypeOK, OneImport, cards, bounds
<1>7. ASSUME NEW i \in DOMAIN importers, CopyEnds(i) PROVE TypeOK' /\ OneImport'
  <2>1. importers \in Seq(Importer) /\ importers[i] \in Importer
    BY DEF TypeOK
  <2>2. [importers[i] EXCEPT !.over = TRUE] \in Importer
    BY <2>1 DEF Importer
  <2>3. importers' \in Seq(Importer) /\ Len(importers') = Len(importers)
    BY <1>7, <2>1, <2>2 DEF CopyEnds
  <2>4. shots' \in [Card -> {"none", "new", "kept"}]
    BY <1>7, <2>1 DEF CopyEnds, TypeOK, Importer
  <2>5. importers' # <<>> <=> importers # <<>>
    BY <2>1, <2>3
  <2> QED
    BY <1>7, <2>3, <2>4, <2>5 DEF CopyEnds, TypeOK, OneImport, config, bounds
<1>8. ASSUME NEW i \in DOMAIN importers, ReaderImportDone(i) PROVE TypeOK' /\ OneImport'
  <2>1. importers \in Seq(Importer) /\ Len(importers) <= 1
    BY DEF TypeOK, OneImport
  <2>2. importers' \in Seq(Importer) /\ Len(importers') = Len(importers) - 1
    BY <1>8, <2>1, RemoveAtShorter DEF ReaderImportDone
  <2>3. importers' = <<>> /\ Len(importers') <= 1
    BY <2>1, <2>2
  <2> QED
    BY <1>8, <2>2, <2>3 DEF ReaderImportDone, TypeOK, OneImport, cards, config, bounds
<1>9. ASSUME NEW d \in Drive, ReadButton(d) PROVE TypeOK' /\ OneImport'
  <2>1. Thread("register") \in JobRecord
    BY DEF Thread, JobRecord
  <2>2. jobs' \in [Drive -> Seq(JobRecord)] /\ clicks' \in 0..MaxClicks
    BY <1>9, <2>1 DEF ReadButton, TypeOK
  <2> QED
    BY <1>9, <2>2 DEF ReadButton, TypeOK, OneImport, cards, config, import
<1>10. ASSUME NEW d \in Drive, ManualReaderImport(d) PROVE TypeOK' /\ OneImport'
  <2>1. HasDcim(d) /\ ~importing /\ RunReaderImport(d, NoCard) /\ clicks' \in 0..MaxClicks
    BY <1>10 DEF ManualReaderImport, Importable, TypeOK
  <2> QED
    BY <1>10, <2>1, RunKeeps DEF ManualReaderImport, TypeOK, OneImport, cards, config
<1>11. ASSUME NEW d \in Drive, NEW c \in Card, PutIn(d, c) PROVE TypeOK' /\ OneImport'
  <2>1. reader' \in [Drive -> Card \cup {NoCard}] /\ passed' \in SUBSET Drive
    BY <1>11 DEF PutIn, TypeOK
  <2>2. form' \in [Card -> Form] /\ shots' \in [Card -> {"none", "new", "kept"}]
    BY <1>11 DEF PutIn, TypeOK, Form
  <2>3. moves' \in 0..MaxMoves
    BY <1>11 DEF PutIn, TypeOK
  <2>4. UNCHANGED <<registered, autoimport, folder, known, jobs, importing, importers, clicks>>
    BY <1>11 DEF PutIn, config, import
  <2> QED
    BY <2>1, <2>2, <2>3, <2>4 DEF TypeOK, OneImport
<1>12. ASSUME NEW d \in Drive, TakeOut(d) PROVE TypeOK' /\ OneImport'
  <2>1. importers \in Seq(Importer) /\ DOMAIN importers = 1..Len(importers)
    BY DEF TypeOK
  <2>2. ASSUME NEW i \in DOMAIN importers PROVE importers'[i] \in Importer
    <3>1. importers[i] \in Importer
      BY <2>1
    <3>2. importers'[i] = [importers[i] EXCEPT !.whole = @ /\ importers[i].drive # d]
      BY <1>12 DEF TakeOut
    <3>3. (importers[i].whole /\ importers[i].drive # d) \in BOOLEAN
      OBVIOUS
    <3> QED
      BY <3>1, <3>2, <3>3 DEF Importer
  <2>3. DOMAIN importers' = 1..Len(importers) /\ importers' = [i \in 1..Len(importers) |-> importers'[i]]
    BY <1>12, <2>1 DEF TakeOut
  <2>4. importers' \in Seq(Importer) /\ Len(importers') = Len(importers)
    BY <2>1, <2>2, <2>3
  <2>5. importers' # <<>> <=> importers # <<>>
    BY <2>1, <2>4
  <2> QED
    BY <1>12, <2>4, <2>5 DEF TakeOut, TypeOK, OneImport, config, bounds
<1>13. ASSUME ChangeSettings PROVE TypeOK' /\ OneImport'
  <2>1. registered' \in SUBSET Card
    BY <1>13 DEF ChangeSettings, TypeOK
  <2>2. autoimport' \in BOOLEAN /\ folder' \in BOOLEAN
    BY <1>13 DEF ChangeSettings, TypeOK
  <2>3. clicks' \in 0..MaxClicks
    BY <1>13 DEF ChangeSettings, TypeOK
  <2> QED
    BY <1>13, <2>1, <2>2, <2>3 DEF ChangeSettings, TypeOK, OneImport, cards, import
<1>14. ASSUME UNCHANGED vars PROVE TypeOK' /\ OneImport'
  BY <1>14 DEF vars, TypeOK, OneImport
<1> QED
  BY <1>1, <1>2, <1>4, <1>5, <1>6, <1>7, <1>8, <1>9, <1>10, <1>11, <1>12, <1>13, <1>14
     DEF Next, Progress, User

\* Every variable of the reader stays in its type.
THEOREM TypeCorrect == Spec => []TypeOK
<1>1. Spec => []ImportSound
  BY InitInv, NextInv, PTL DEF Spec
<1>2. ImportSound => TypeOK
  BY DEF ImportSound
<1> QED
  BY <1>1, <1>2, PTL

\* At most one import is under way, and _importing says whether there is one, however
\* callbacks, threads and clicks interleave.
THEOREM AtMostOneImport == Spec => []ImportSound
BY InitInv, NextInv, PTL DEF Spec

\* An import that starts is the only one, of the card in the drive.
LEMMA RunImports ==
    ASSUME TypeOK, OneImport, ~importing, NEW d \in Drive, NEW mac,
           RunReaderImport(d, mac), NEW i \in DOMAIN importers', i \notin DOMAIN importers
    PROVE  importers'[i].mac = mac /\ importers'[i].card = reader[d]
<1>1. importers = <<>>
  BY DEF OneImport, TypeOK
<1>2. importers' # importers
  OBVIOUS
<1>3. folder
  BY <1>2 DEF RunReaderImport, import
<1> DEFINE new == [drive |-> d, card |-> reader[d], mac |-> mac, whole |-> TRUE, over |-> FALSE]
<1>4. importers' = Append(<<>>, new)
  BY <1>1, <1>3 DEF RunReaderImport
<1>5. new.mac = mac /\ new.card = reader[d]
  OBVIOUS
<1> HIDE DEF new
<1>6. importers' = <<new>>
  BY <1>4
<1>7. i = 1 /\ importers'[i] = new
  BY <1>6
<1> QED
  BY <1>5, <1>7

\* An import that was not asked for by hand reads a card that is registered by then,
\* unless the card was changed after its MAC was read.
THEOREM OnlyRegisteredImported == Spec => AutoImportsRegistered
<1> DEFINE Reg == \A i \in DOMAIN importers' :
                    (i \notin DOMAIN importers /\ importers'[i].mac = importers'[i].card)
                    => importers'[i].card \in registered'
<1>1. ImportSound /\ [Next]_vars => [Reg]_vars
  <2> SUFFICES ASSUME TypeOK, OneImport, Next,
                      NEW i \in DOMAIN importers', i \notin DOMAIN importers,
                      importers'[i].mac = importers'[i].card
               PROVE  importers'[i].card \in registered'
    BY DEF ImportSound
  <2> USE CardAssumption
  <2>1. importers' # importers
    OBVIOUS
  <2>2. importers \in Seq(Importer)
    BY DEF TypeOK
  <2>3. ~\E j \in DOMAIN importers : CopyEnds(j)
    BY <2>2 DEF CopyEnds
  <2>4. ASSUME NEW j \in DOMAIN importers, ReaderImportDone(j) PROVE FALSE
    <3>1. importers' = RemoveAt(importers, j)
      BY <2>4 DEF ReaderImportDone
    <3>2. importers' \in Seq(Importer) /\ Len(importers') = Len(importers) - 1
      BY <2>2, <3>1, RemoveAtShorter
    <3> QED
      BY <2>2, <3>2
  <2>5. ASSUME NEW d \in Drive PROVE ~TakeOut(d)
    BY DEF TakeOut
  <2>6. CASE \E d \in Drive : \E j \in DOMAIN jobs[d] : Identified(d, j)
    <3>0. PICK d \in Drive : \E j \in DOMAIN jobs[d] : Identified(d, j)
      BY <2>6
    <3>1. PICK j \in DOMAIN jobs[d] : Identified(d, j)
      BY <3>0
    <3>2. ImportWanted(d, jobs[d][j].mac) /\ RunReaderImport(d, jobs[d][j].mac)
      BY <2>1, <3>1 DEF Identified, import
    <3>3. importers'[i].mac = jobs[d][j].mac
      BY <3>2, RunImports DEF ImportWanted
    <3> QED
      BY <3>1, <3>2, <3>3 DEF Identified, ImportWanted, config
  <2>7. CASE \E d \in Drive : \E j \in DOMAIN jobs[d] : Registered(d, j)
    <3>0. PICK d \in Drive : \E j \in DOMAIN jobs[d] : Registered(d, j)
      BY <2>7
    <3>1. PICK j \in DOMAIN jobs[d] : Registered(d, j)
      BY <3>0
    <3>2. /\ registered' = registered \cup {jobs[d][j].mac}
          /\ ~importing /\ RunReaderImport(d, jobs[d][j].mac)
      BY <2>1, <3>1 DEF Registered, import
    <3>3. importers'[i].mac = jobs[d][j].mac
      BY <3>2, RunImports
    <3> QED
      BY <3>2, <3>3
  <2>8. CASE \E d \in Drive : ManualReaderImport(d)
    <3>1. PICK d \in Drive : ManualReaderImport(d)
      BY <2>8
    <3>2. ~importing /\ RunReaderImport(d, NoCard) /\ HasDcim(d)
      BY <3>1 DEF ManualReaderImport, Importable
    <3>3. importers'[i].mac = NoCard /\ importers'[i].card = reader[d]
      BY <3>2, RunImports
    <3>4. reader[d] # NoCard
      BY <3>2 DEF HasDcim, Inserted
    <3> QED
      BY <3>3, <3>4
  <2>9. ASSUME NEW d \in Drive, NEW j \in DOMAIN jobs[d]
        PROVE  ~ReadCard(d, j) /\ ~Announced(d, j)
    BY <2>1 DEF ReadCard, Announced, import
  <2>10. ~PollReader /\ ~ChangeSettings
    BY <2>1 DEF PollReader, ChangeSettings, import
  <2>11. ASSUME NEW d \in Drive PROVE ~ReadButton(d) /\ \A c \in Card : ~PutIn(d, c)
    BY <2>1 DEF ReadButton, PutIn, import
  <2> QED
    BY <2>3, <2>4, <2>5, <2>6, <2>7, <2>8, <2>9, <2>10, <2>11 DEF Next, Progress, User
<1>2. Spec => []ImportSound
  BY InitInv, NextInv, PTL DEF Spec
<1> QED
  BY <1>1, <1>2, PTL DEF Spec, AutoImportsRegistered

(***************************************************************************)
(* The mailbox: types, and how many commands a session has written.        *)
(***************************************************************************)
Early == {"closed", "clear", "begin"}

Steps ==
    \A s \in Session :
        /\ at[s] <= Len(Mailbox!Script[kind[s]])
        /\ retried[s] => kind[s] = "info"
        /\ step[s] = (IF pc[s] \in Early \cup {"request"} THEN at[s] - 1 ELSE at[s])
                        + (IF retried[s] THEN 1 ELSE 0)
        /\ pc[s] \in Early => step[s] = 0 /\ astray[s] = {}

Asked(s) == [from |-> s, step |-> step[s], cmd |-> Mailbox!Cmd(s)]

\* One session at a time, and no number without a request.
Alone ==
    /\ \A r, s \in Session : Mailbox!Running(r) /\ Mailbox!Running(s) => r = s
    /\ \A s \in Session : pc[s] \in {"number", "poll", "take"} => reqm = Asked(s)
    /\ posted => reqm # Blank

MailTypes == Mailbox!TypeOK /\ Steps /\ Alone

LEMMA ScriptCommands ==
    /\ \A k \in Operations :
          /\ Len(Mailbox!Script[k]) \in 1..Mailbox!MaxStep
          /\ \A i \in 1..Len(Mailbox!Script[k]) : Mailbox!Script[k][i] \in Mailbox!Command
    /\ Len(Mailbox!Script["info"]) = 4
    /\ \A k \in {"add", "delete"} :
          /\ Len(Mailbox!Script[k]) = 3
          /\ Mailbox!Script[k][1] = k /\ Mailbox!Script[k][2] = "list"
          /\ Mailbox!Script[k][3] = "mac"
  BY DEF Operations, Mailbox!Script, Mailbox!Command, Mailbox!MaxStep

LEMMA CmdType ==
    ASSUME MailTypes, NEW s \in Session
    PROVE  /\ Mailbox!Cmd(s) \in Mailbox!Command
           /\ Len(Mailbox!Script[kind[s]]) \in 1..Mailbox!MaxStep
           /\ at[s] \in 1..Len(Mailbox!Script[kind[s]])
           /\ step[s] \in 0..Mailbox!MaxStep
           /\ (pc[s] \in Early \cup {"request"}) => step[s] < Mailbox!MaxStep
<1>1. kind[s] \in Operations /\ at[s] \in 1..Mailbox!MaxStep /\ retried[s] \in BOOLEAN
  BY DEF MailTypes, Mailbox!TypeOK
<1>2. at[s] \in 1..Len(Mailbox!Script[kind[s]])
  BY <1>1, ScriptCommands DEF MailTypes, Steps
<1>3. /\ step[s] \in 0..Mailbox!MaxStep
      /\ (pc[s] \in Early \cup {"request"}) => step[s] < Mailbox!MaxStep
  <2> DEFINE n == Len(Mailbox!Script[kind[s]])
             early == pc[s] \in Early \cup {"request"}
  <2>1. n \in 1..5 /\ (retried[s] => n = 4) /\ Mailbox!MaxStep = 5 /\ at[s] \in 1..n
    BY <1>1, <1>2, ScriptCommands DEF MailTypes, Steps, Mailbox!MaxStep
  <2>2. step[s] = (IF early THEN at[s] - 1 ELSE at[s]) + (IF retried[s] THEN 1 ELSE 0)
    BY DEF MailTypes, Steps
  <2> HIDE DEF n, early
  <2>3. step[s] \in 0..Mailbox!MaxStep /\ (early => step[s] < Mailbox!MaxStep)
    BY <1>1, <2>1, <2>2
  <2> QED
    BY <2>3 DEF early
<1> QED
  BY <1>1, <1>2, <1>3, ScriptCommands DEF Mailbox!Cmd

LEMMA MailInit == Mailbox!Init => MailTypes
<1> SUFFICES ASSUME Mailbox!Init PROVE MailTypes
  OBVIOUS
<1>1. Mailbox!TypeOK
  <2>1. 0 \in Mailbox!Seq32 /\ 1 \in 1..Mailbox!MaxStep /\ 0 \in 0..Mailbox!MaxStep
        /\ 0 \in 0..MaxTimeouts
    BY MailboxAssumption DEF Mailbox!Seq32, Mailbox!MaxStep
  <2>2. rspc \in Mailbox!Seq32 /\ reqc \in Mailbox!Seq32
    BY MailboxAssumption DEF Mailbox!Init
  <2> QED
    BY <2>1, <2>2 DEF Mailbox!Init, Mailbox!TypeOK
<1>2. Steps
  BY ScriptCommands DEF Mailbox!Init, Steps, Early
<1>3. Alone
  BY DEF Mailbox!Init, Alone, Mailbox!Running
<1> QED
  BY <1>1, <1>2, <1>3 DEF MailTypes
(***************************************************************************)
(* A step of session s, and a step of the card or of the clock.            *)
(***************************************************************************)
LEMMA OnlyMine ==
    ASSUME MailTypes, NEW s \in Session,
           Mailbox!Open(s) \/ Mailbox!Program(s) \/ Mailbox!TimeOut(s)
    PROVE  /\ \A r \in Session : r # s =>
                 /\ pc'[r] = pc[r] /\ at'[r] = at[r] /\ step'[r] = step[r]
                 /\ seq'[r] = seq[r] /\ retried'[r] = retried[r]
                 /\ reported'[r] = reported[r] /\ astray'[r] = astray[r]
           /\ \A r \in Session : r # s => ~Mailbox!Running(r)
           /\ kind' = kind /\ pc[s] # "done"
<1>1. CASE Mailbox!Open(s)
  BY <1>1 DEF Mailbox!Open, Mailbox!Goto, Mailbox!Ended, MailTypes, Mailbox!TypeOK
<1>2. ASSUME Mailbox!Program(s) \/ Mailbox!TimeOut(s)
      PROVE  /\ \A r \in Session : r # s =>
                   /\ pc'[r] = pc[r] /\ at'[r] = at[r] /\ step'[r] = step[r]
                   /\ seq'[r] = seq[r] /\ retried'[r] = retried[r]
                   /\ reported'[r] = reported[r] /\ astray'[r] = astray[r]
             /\ kind' = kind
  <2>1. CASE Mailbox!Take(s)
    BY <2>1 DEF Mailbox!Take, Mailbox!Proceed, Mailbox!Goto, MailTypes, Mailbox!TypeOK
  <2>2. CASE Mailbox!TimeOut(s)
    BY <2>2 DEF Mailbox!TimeOut, Mailbox!Proceed, Mailbox!Goto, MailTypes, Mailbox!TypeOK
  <2>3. CASE Mailbox!ClearAnswer(s) \/ Mailbox!ReadSeq(s) \/ Mailbox!WriteRequest(s)
             \/ Mailbox!WriteSeq(s) \/ Mailbox!SeeNumber(s)
    BY <2>3 DEF Mailbox!ClearAnswer, Mailbox!ReadSeq, Mailbox!WriteRequest, Mailbox!WriteSeq,
       Mailbox!SeeNumber, Mailbox!Goto, MailTypes, Mailbox!TypeOK
  <2> QED
    BY <1>2, <2>1, <2>2, <2>3 DEF Mailbox!Program
<1>3. ASSUME Mailbox!Program(s) \/ Mailbox!TimeOut(s)
      PROVE  Mailbox!Running(s) /\ pc[s] # "done"
  BY <1>3 DEF Mailbox!Program, Mailbox!TimeOut, Mailbox!ClearAnswer, Mailbox!ReadSeq,
     Mailbox!WriteRequest, Mailbox!WriteSeq, Mailbox!SeeNumber, Mailbox!Take,
     Mailbox!Running, Mailbox!Ended
<1> QED
  BY <1>1, <1>2, <1>3 DEF MailTypes, Alone

LEMMA FirmwareTypes ==
    ASSUME MailTypes, Mailbox!Firmware
    PROVE  MailTypes' /\ UNCHANGED <<reqm, reqc, Mailbox!locals>>
<1>0. UNCHANGED <<reqm, reqc, pc, kind, at, step, seq, retried, reported, astray, timeouts>>
  BY DEF Mailbox!Firmware, Mailbox!Notice, Mailbox!Answer, Mailbox!Confirm, Mailbox!files,
     Mailbox!locals
<1>1. Steps'
  BY <1>0 DEF MailTypes, Steps
<1>2. rspm' \in Mailbox!Response \cup {Blank} /\ rspc' \in Mailbox!Seq32
      /\ posted' \in BOOLEAN /\ busy' \in Mailbox!Work \cup {Blank} /\ networks' \in BOOLEAN
      /\ (posted' => posted)
  <2>0. Mailbox!TypeOK /\ (posted => reqm # Blank)
    BY DEF MailTypes, Alone
  <2>1. CASE Mailbox!Notice
    BY <2>0, <2>1 DEF Mailbox!Notice, Mailbox!TypeOK, Mailbox!Work, Mailbox!files
  <2>2. CASE Mailbox!Answer
    <3>1. /\ busy \in Mailbox!Work /\ busy' = [busy EXCEPT !.answered = TRUE]
          /\ busy.request \in Mailbox!Request
          /\ networks' = CASE busy.request.cmd = "add" -> TRUE
                           [] busy.request.cmd = "delete" -> FALSE [] OTHER -> networks
          /\ \E yes \in BOOLEAN :
                rspm' = [from |-> busy.request.from, step |-> busy.request.step,
                         cmd |-> busy.request.cmd, yes |-> yes]
          /\ UNCHANGED <<rspc, posted>>
      BY <2>0, <2>2 DEF Mailbox!Answer, Mailbox!TypeOK, Mailbox!Work
    <3>2. PICK yes \in BOOLEAN :
             rspm' = [from |-> busy.request.from, step |-> busy.request.step,
                      cmd |-> busy.request.cmd, yes |-> yes]
      BY <3>1
    <3>3. rspm' \in Mailbox!Response
      BY <3>1, <3>2 DEF Mailbox!Request, Mailbox!Response
    <3>4. busy' \in Mailbox!Work
      BY <3>1 DEF Mailbox!Work
    <3>5. networks' \in BOOLEAN
      BY <2>0, <3>1 DEF Mailbox!TypeOK
    <3> QED
      BY <2>0, <3>1, <3>3, <3>4, <3>5 DEF Mailbox!TypeOK
  <2>3. CASE Mailbox!Confirm
    BY <2>0, <2>3 DEF Mailbox!Confirm, Mailbox!TypeOK, Mailbox!Work
  <2> QED
    BY <2>1, <2>2, <2>3 DEF Mailbox!Firmware
<1>3. Mailbox!TypeOK' /\ Alone'
  BY <1>0, <1>2 DEF MailTypes, Mailbox!TypeOK, Alone, Mailbox!Running, Asked, Mailbox!Cmd
<1> QED
  BY <1>0, <1>1, <1>3 DEF MailTypes, Mailbox!locals

\* What a step of session s does to its own part of the types.
LEMMA SessionTypes ==
    ASSUME MailTypes, NEW s \in Session,
           Mailbox!Open(s) \/ Mailbox!Program(s) \/ Mailbox!TimeOut(s)
    PROVE  MailTypes'
<1>0. /\ Mailbox!TypeOK /\ Steps /\ Alone
      /\ \A r \in Session : r # s =>
            /\ pc'[r] = pc[r] /\ at'[r] = at[r] /\ step'[r] = step[r]
            /\ seq'[r] = seq[r] /\ retried'[r] = retried[r]
            /\ reported'[r] = reported[r] /\ astray'[r] = astray[r]
      /\ \A r \in Session : r # s => ~Mailbox!Running(r)
      /\ kind' = kind
  BY OnlyMine DEF MailTypes
<1> DEFINE n == Len(Mailbox!Script[kind[s]])
<1>1. /\ n \in 1..5 /\ at[s] \in 1..n /\ step[s] \in 0..5 /\ Mailbox!MaxStep = 5
      /\ Mailbox!Cmd(s) \in Mailbox!Command
      /\ pc[s] \in Early \cup {"request"} => step[s] + 1 \in 1..5
      /\ retried[s] \in BOOLEAN /\ astray[s] \in SUBSET (1..5)
      /\ (kind[s] = "info" => n = 4)
      /\ retried[s] => kind[s] = "info"
      /\ step[s] = (IF pc[s] \in Early \cup {"request"} THEN at[s] - 1 ELSE at[s])
                      + (IF retried[s] THEN 1 ELSE 0)
      /\ pc[s] \in Early => step[s] = 0 /\ astray[s] = {}
  <2>1. /\ n \in 1..5 /\ at[s] \in 1..n /\ step[s] \in 0..5 /\ Mailbox!MaxStep = 5
        /\ Mailbox!Cmd(s) \in Mailbox!Command
        /\ pc[s] \in Early \cup {"request"} => step[s] < 5
    BY CmdType DEF Mailbox!MaxStep
  <2>2. kind[s] = "info" => n = 4
    BY ScriptCommands
  <2>3. retried[s] \in BOOLEAN /\ astray[s] \in SUBSET (1..5)
    BY <1>0, <2>1 DEF Mailbox!TypeOK
  <2>4. pc[s] \in Early \cup {"request"} => step[s] + 1 \in 1..5
    BY <2>1
  <2> HIDE DEF n
  <2> QED
    BY <1>0, <2>1, <2>2, <2>3, <2>4 DEF Steps
<1> HIDE DEF n
\* The rest of the files and of the other sessions is as it was.
<1>2. ASSUME pc'[s] \in {"clear", "begin", "request", "number", "poll", "take"} \cup Mailbox!Ended,
             at'[s] \in 1..n, retried'[s] \in BOOLEAN, astray'[s] \in SUBSET (1..5),
             retried'[s] => kind[s] = "info",
             step'[s] = (IF pc'[s] \in Early \cup {"request"} THEN at'[s] - 1 ELSE at'[s])
                            + (IF retried'[s] THEN 1 ELSE 0),
             pc'[s] \in Early => step'[s] = 0 /\ astray'[s] = {}
      PROVE  Steps' /\ step'[s] \in 0..5 /\ at'[s] \in 1..5
  <2>1. step'[s] \in 0..5 /\ at'[s] \in 1..5
    <3> DEFINE early == pc'[s] \in Early \cup {"request"}
    <3>1. step'[s] = (IF early THEN at'[s] - 1 ELSE at'[s]) + (IF retried'[s] THEN 1 ELSE 0)
      BY <1>2
    <3> HIDE DEF early
    <3> QED
      BY <1>1, <1>2, <3>1
  <2>2. ASSUME NEW r \in Session
        PROVE  /\ at'[r] <= Len(Mailbox!Script[kind'[r]])
               /\ retried'[r] => kind'[r] = "info"
               /\ step'[r] = (IF pc'[r] \in Early \cup {"request"} THEN at'[r] - 1 ELSE at'[r])
                                + (IF retried'[r] THEN 1 ELSE 0)
               /\ pc'[r] \in Early => step'[r] = 0 /\ astray'[r] = {}
    <3>1. CASE r = s
      BY <1>0, <1>1, <1>2, <3>1 DEF n
    <3>2. CASE r # s
      BY <1>0, <3>2 DEF Steps
    <3> QED
      BY <3>1, <3>2
  <2> QED
    BY <2>1, <2>2 DEF Steps
<1>3. ASSUME posted' => reqm' # Blank,
             pc'[s] \in {"number", "poll", "take"} => reqm' = Asked(s)'
      PROVE  Alone'
  <2>1. \A r \in Session : r # s => ~Mailbox!Running(r)'
    BY <1>0 DEF Mailbox!Running
  <2> QED
    BY <1>3, <2>1 DEF Alone, Mailbox!Running, Mailbox!Ended
\* The request stays the one that was asked for.
<1>9. ASSUME pc[s] \in {"number", "poll", "take"}, UNCHANGED <<reqm, at, step, kind>>
      PROVE  reqm' = Asked(s)'
  BY <1>0, <1>9 DEF Alone, Asked, Mailbox!Cmd
<1>4. CASE Mailbox!Open(s)
  <2>1. /\ pc[s] = "closed" /\ pc' = [pc EXCEPT ![s] = "clear"]
        /\ UNCHANGED <<reqm, reqc, rspm, rspc, posted, busy, networks, at, step, seq, retried,
                       reported, astray, timeouts>>
    BY <1>4 DEF Mailbox!Open, Mailbox!Goto, Mailbox!files, Mailbox!card
  <2>2. pc'[s] = "clear"
    BY <1>0, <2>1 DEF Mailbox!TypeOK
  <2>3. Steps'
    BY <1>1, <1>2, <2>1, <2>2 DEF Early
  <2>4. Mailbox!TypeOK'
    BY <1>0, <2>1 DEF Mailbox!TypeOK
  <2> QED
    BY <1>0, <1>3, <2>1, <2>3, <2>4 DEF MailTypes, Alone
<1>5. CASE Mailbox!ClearAnswer(s) \/ Mailbox!ReadSeq(s)
  <2>1. /\ UNCHANGED <<reqm, reqc, rspc, posted, busy, networks, at, step, retried,
                       reported, astray, timeouts>>
        /\ rspm' \in {rspm, Blank}
        /\ \/ pc[s] = "clear" /\ pc' = [pc EXCEPT ![s] = "begin"] /\ seq' = seq
           \/ /\ pc[s] = "begin" /\ pc' = [pc EXCEPT ![s] = "request"]
              /\ seq' = [seq EXCEPT ![s] = Mailbox!Start(rspc) + 1]
    BY <1>5 DEF Mailbox!ClearAnswer, Mailbox!ReadSeq, Mailbox!Goto, Mailbox!files, Mailbox!card
  <2>2. Mailbox!Start(rspc) + 1 \in Mailbox!Seq32
    BY <1>0, <1>1, MailboxAssumption DEF Mailbox!Start, Mailbox!TypeOK, Mailbox!Seq32
  <2>3. \/ pc[s] = "clear" /\ pc'[s] = "begin"
        \/ pc[s] = "begin" /\ pc'[s] = "request"
    BY <1>0, <2>1 DEF Mailbox!TypeOK
  <2>4. Steps'
    BY <1>1, <1>2, <2>1, <2>3 DEF Early
  <2>5. Mailbox!TypeOK'
    BY <1>0, <2>1, <2>2 DEF Mailbox!TypeOK
  <2> QED
    BY <1>0, <1>3, <2>1, <2>3, <2>4, <2>5 DEF MailTypes, Alone
<1>6. CASE Mailbox!WriteRequest(s)
  <2>1. /\ pc[s] = "request" /\ pc' = [pc EXCEPT ![s] = "number"]
        /\ step' = [step EXCEPT ![s] = @ + 1]
        /\ reqm' = [from |-> s, step |-> step[s] + 1, cmd |-> Mailbox!Cmd(s)]
        /\ UNCHANGED <<reqc, rspm, rspc, posted, busy, networks, at, seq, retried, reported,
                       astray, timeouts>>
    BY <1>6 DEF Mailbox!WriteRequest, Mailbox!Goto, Mailbox!card
  <2>2. pc'[s] = "number" /\ step'[s] = step[s] + 1
    BY <1>0, <2>1 DEF Mailbox!TypeOK
  <2>3. Steps'
    BY <1>1, <1>2, <2>1, <2>2 DEF Early
  <2>4. reqm' \in Mailbox!Request /\ reqm' # Blank
    BY <1>1, <2>1, MailboxAssumption DEF Mailbox!Request
  <2>5. Mailbox!TypeOK'
    <3>1. pc' \in [Session -> {"closed", "clear", "begin", "request", "number", "poll", "take"}
                               \cup Mailbox!Ended]
      BY <1>0, <2>1 DEF Mailbox!TypeOK
    <3>2. step' \in [Session -> 0..Mailbox!MaxStep]
      BY <1>0, <1>1, <2>1 DEF Mailbox!TypeOK
    <3> QED
      BY <1>0, <2>1, <2>4, <3>1, <3>2 DEF Mailbox!TypeOK
  <2>6. reqm' = Asked(s)'
    BY <1>0, <2>1, <2>2 DEF Asked, Mailbox!Cmd
  <2> QED
    BY <1>3, <2>3, <2>4, <2>5, <2>6 DEF MailTypes
<1>7. CASE Mailbox!WriteSeq(s) \/ Mailbox!SeeNumber(s)
  <2>1. /\ UNCHANGED <<reqm, rspm, rspc, busy, networks, at, step, retried, reported, astray,
                       timeouts>>
        /\ \/ /\ pc[s] = "number" /\ pc' = [pc EXCEPT ![s] = "poll"]
              /\ seq' = [seq EXCEPT ![s] = (@ + 1) % SeqWrap]
              /\ reqc' = seq'[s] /\ posted' = TRUE
           \/ /\ pc[s] = "poll" /\ pc' = [pc EXCEPT ![s] = "take"]
              /\ UNCHANGED <<seq, reqc, posted>>
    BY <1>7 DEF Mailbox!WriteSeq, Mailbox!SeeNumber, Mailbox!Goto, Mailbox!files, Mailbox!card
  <2>2. (seq[s] + 1) % SeqWrap \in Mailbox!Seq32
    BY <1>0, MailboxAssumption DEF Mailbox!TypeOK, Mailbox!Seq32
  <2>3. \/ pc[s] = "number" /\ pc'[s] = "poll" /\ seq'[s] = (seq[s] + 1) % SeqWrap
        \/ pc[s] = "poll" /\ pc'[s] = "take"
    BY <1>0, <2>1 DEF Mailbox!TypeOK
  <2>4. Steps'
    BY <1>1, <1>2, <2>1, <2>3 DEF Early
  <2>5. Mailbox!TypeOK'
    BY <1>0, <2>1, <2>2, <2>3 DEF Mailbox!TypeOK
  <2>6. reqm' = Asked(s)'
    BY <1>0, <1>9, <2>1
  <2>7. step[s] \in 1..5
    BY <1>1, <2>1 DEF Early
  <2>8. Asked(s) \in Mailbox!Request /\ reqm = Asked(s)
    BY <1>0, <1>1, <2>1, <2>7 DEF Alone, Asked, Mailbox!Request
  <2>9. reqm # Blank
    BY <2>8, MailboxAssumption
  <2> QED
    BY <1>3, <2>1, <2>4, <2>5, <2>6, <2>9 DEF MailTypes
<1>8. ASSUME pc[s] \in {"poll", "take"}, Mailbox!Proceed(s), UNCHANGED <<step, retried>>
      PROVE  /\ pc'[s] \in {"request", "done"} /\ at'[s] \in 1..n
             /\ step'[s] = (IF pc'[s] \in Early \cup {"request"} THEN at'[s] - 1 ELSE at'[s])
                               + (IF retried'[s] THEN 1 ELSE 0)
             /\ at' \in [Session -> 1..5] /\ pc' = [pc EXCEPT ![s] = pc'[s]]
  <2>0. /\ at[s] \in 1..n /\ n \in 1..5 /\ at \in [Session -> 1..5]
    BY <1>0, <1>1 DEF Mailbox!TypeOK
  <2>1. CASE at[s] = n
    BY <1>0, <1>1, <1>8, <2>0, <2>1 DEF Mailbox!Proceed, Mailbox!Goto, Mailbox!TypeOK, Early, n
  <2>2. CASE at[s] # n
    <3>1. /\ pc' = [pc EXCEPT ![s] = "request"] /\ at' = [at EXCEPT ![s] = @ + 1]
      BY <1>8, <2>2 DEF Mailbox!Proceed, Mailbox!Goto, n
    <3>2. pc'[s] = "request" /\ at'[s] = at[s] + 1 /\ at[s] + 1 \in 1..n
      BY <1>0, <2>0, <2>2, <3>1 DEF Mailbox!TypeOK
    <3>3. step'[s] = at[s] + (IF retried'[s] THEN 1 ELSE 0)
      BY <1>1, <1>8 DEF Early
    <3>4. at'[s] - 1 = at[s] /\ at' \in [Session -> 1..5]
      BY <2>0, <3>1, <3>2
    <3> QED
      BY <3>1, <3>2, <3>3, <3>4
  <2> QED
    BY <2>1, <2>2
<1>10. CASE Mailbox!TimeOut(s)
  <2>1. /\ pc[s] = "poll" /\ timeouts < MaxTimeouts /\ timeouts' = timeouts + 1
        /\ UNCHANGED <<reqm, reqc, rspm, rspc, posted, busy, networks, step, seq, retried,
                       reported, astray>>
        /\ Mailbox!Proceed(s) \/ (pc' = [pc EXCEPT ![s] = "failed"] /\ at' = at)
    BY <1>10 DEF Mailbox!TimeOut, Mailbox!Goto, Mailbox!files, Mailbox!card
  <2>2. /\ pc'[s] \in {"request", "done", "failed"} /\ at'[s] \in 1..n
        /\ step'[s] = (IF pc'[s] \in Early \cup {"request"} THEN at'[s] - 1 ELSE at'[s])
                          + (IF retried'[s] THEN 1 ELSE 0)
        /\ at' \in [Session -> 1..5] /\ pc' = [pc EXCEPT ![s] = pc'[s]]
    BY <1>0, <1>1, <1>8, <2>1 DEF Mailbox!TypeOK, Early
  <2>3. Steps'
    BY <1>1, <1>2, <2>1, <2>2 DEF Early, Mailbox!Ended
  <2>4. Mailbox!TypeOK'
    <3>1. timeouts' \in 0..MaxTimeouts
      BY <1>0, <2>1, MailboxAssumption DEF Mailbox!TypeOK
    <3>2. pc' \in [Session -> {"closed", "clear", "begin", "request", "number", "poll", "take"}
                               \cup Mailbox!Ended]
      BY <1>0, <2>2 DEF Mailbox!TypeOK, Mailbox!Ended
    <3> QED
      BY <1>0, <1>1, <2>1, <2>2, <3>1, <3>2 DEF Mailbox!TypeOK
  <2> QED
    BY <1>0, <1>3, <2>1, <2>2, <2>3, <2>4 DEF MailTypes, Alone
<1>11. CASE Mailbox!Take(s)
  <2>1. /\ pc[s] = "take"
        /\ UNCHANGED <<reqm, reqc, rspm, rspc, posted, busy, networks, step, seq, timeouts>>
        /\ astray' = [astray EXCEPT ![s] = IF Mailbox!Own(s) THEN @ ELSE @ \cup {step[s]}]
    BY <1>11 DEF Mailbox!Take, Mailbox!files, Mailbox!card
  <2>2. /\ reported' \in [Session -> BOOLEAN]
        /\ \/ pc' = [pc EXCEPT ![s] = "failed"] /\ UNCHANGED <<at, retried>>
           \/ /\ kind[s] = "info" /\ ~retried[s] /\ pc' = [pc EXCEPT ![s] = "request"]
              /\ retried' = [retried EXCEPT ![s] = TRUE] /\ UNCHANGED at
           \/ Mailbox!Proceed(s) /\ UNCHANGED retried
    <3>1. ASSUME NEW yes \in Mailbox!Reading(s) PROVE yes \in BOOLEAN
      BY <1>0 DEF Mailbox!Reading, Mailbox!TypeOK, Mailbox!Response
    <3> QED
      BY <1>0, <1>11, <3>1 DEF Mailbox!Take, Mailbox!Goto, Mailbox!TypeOK
  <2>3. step[s] \in 1..5 /\ astray'[s] \in SUBSET (1..5)
    BY <1>0, <1>1, <2>1 DEF Mailbox!TypeOK, Early
  <2>4. /\ pc'[s] \in {"request", "done", "failed"} /\ at'[s] \in 1..n
        /\ retried'[s] \in BOOLEAN /\ (retried'[s] => kind[s] = "info")
        /\ step'[s] = (IF pc'[s] \in Early \cup {"request"} THEN at'[s] - 1 ELSE at'[s])
                          + (IF retried'[s] THEN 1 ELSE 0)
        /\ at' \in [Session -> 1..5] /\ pc' = [pc EXCEPT ![s] = pc'[s]]
        /\ retried' \in [Session -> BOOLEAN]
    <3>1. /\ pc \in [Session -> {"closed", "clear", "begin", "request", "number", "poll", "take"}
                                  \cup Mailbox!Ended]
          /\ at \in [Session -> 1..5] /\ retried \in [Session -> BOOLEAN]
          /\ step'[s] = at[s] + (IF retried[s] THEN 1 ELSE 0)
      BY <1>0, <1>1, <2>1 DEF Mailbox!TypeOK, Early
    <3>2. CASE pc' = [pc EXCEPT ![s] = "failed"] /\ UNCHANGED <<at, retried>>
      BY <1>1, <3>1, <3>2 DEF Early
    <3>3. CASE /\ kind[s] = "info" /\ ~retried[s] /\ pc' = [pc EXCEPT ![s] = "request"]
               /\ retried' = [retried EXCEPT ![s] = TRUE] /\ UNCHANGED at
      BY <1>1, <3>1, <3>3 DEF Early
    <3>4. CASE Mailbox!Proceed(s) /\ UNCHANGED retried
      BY <1>1, <1>8, <2>1, <3>1, <3>4
    <3> QED
      BY <2>2, <3>2, <3>3, <3>4
  <2>5. Steps'
    BY <1>1, <1>2, <2>3, <2>4 DEF Early, Mailbox!Ended
  <2>6. Mailbox!TypeOK'
    BY <1>0, <1>1, <2>1, <2>2, <2>3, <2>4 DEF Mailbox!TypeOK, Mailbox!Ended
  <2> QED
    BY <1>0, <1>3, <2>1, <2>4, <2>5, <2>6 DEF MailTypes, Alone
<1> QED
  BY <1>4, <1>5, <1>6, <1>7, <1>10, <1>11 DEF Mailbox!Program
(***************************************************************************)
(* Where answers may go astray.  When a session reads its first number, two*)
(* numbers may still be on their way: that of the request the card works on*)
(* and the one in REQC.  N is the set of these; every other number that the*)
(* card confirms is one the session has written, with its own request.     *)
(***************************************************************************)
Numbers(s) == IF pc[s] = "number" THEN step[s] - 1 ELSE step[s]
Base(s) == seq[s] - Numbers(s)
Coming(s) == (seq[s] + 1)..(Base(s) + Mailbox!MaxStep)

\* The answer is there and nothing is on its way to the card.
Settled(s) == Mailbox!Own(s) /\ busy = Blank /\ ~posted

Apart(s, N) ==
    /\ Base(s) \in Nat /\ Base(s) + Mailbox!MaxStep < SeqWrap
    /\ rspc \in N \/ rspc \notin Coming(s)
    /\ busy # Blank => busy.seq \in N \/ busy.seq \notin Coming(s)
    /\ posted => reqc \in N \cup {seq[s]}

Expected(s, N) ==
    /\ (pc[s] \in {"poll", "take"} /\ posted) => reqc = seq[s]
    /\ (pc[s] = "poll" /\ seq[s] \notin N) =>
          /\ rspc = seq[s] => Settled(s)
          /\ (busy # Blank /\ busy.seq = seq[s]) =>
                /\ busy.request = Asked(s) /\ ~posted
                /\ busy.answered => Mailbox!Own(s)
    /\ (pc[s] = "take" /\ seq[s] \notin N) => Settled(s)

Left(s, N) ==
    /\ \A k \in astray[s] : Base(s) + k \in N
    /\ (Mailbox!Running(s) /\ pc[s] \notin Early) => Apart(s, N)
    /\ Expected(s, N)

FewLeft == \A s \in Session : \E n1, n2 \in Int : Left(s, {n1, n2})

LEMMA LeftFirmware ==
    ASSUME MailTypes, Mailbox!Firmware, NEW s \in Session, NEW N, Left(s, N)
    PROVE  Left(s, N)'
<1>0. /\ UNCHANGED <<reqm, reqc, pc, kind, at, step, seq, astray>>
      /\ busy = Blank \/ busy \in Mailbox!Work
      /\ pc[s] \in {"poll", "take"} => reqm = Asked(s) /\ Mailbox!Running(s) /\ pc[s] \notin Early
      /\ Mailbox!Running(s)' <=> Mailbox!Running(s)
      /\ Base(s)' = Base(s) /\ Coming(s)' = Coming(s) /\ Asked(s)' = Asked(s)
  BY FirmwareTypes DEF Mailbox!locals, MailTypes, Mailbox!TypeOK, Alone, Mailbox!Running,
     Mailbox!Ended, Early, Base, Numbers, Coming, Asked, Mailbox!Cmd
<1>1. CASE Mailbox!Notice
  <2>1. /\ busy = Blank /\ posted /\ ~posted' /\ rspc' = rspc /\ rspm' = rspm
        /\ busy' = [request |-> reqm, seq |-> reqc, answered |-> FALSE]
    BY <1>1 DEF Mailbox!Notice, Mailbox!files
  <2>2. ASSUME Apart(s, N) PROVE Apart(s, N)'
    <3>1. reqc \in N \/ reqc \notin Coming(s)
      BY <2>1, <2>2 DEF Apart, Coming, Left, MailTypes, Mailbox!TypeOK, Mailbox!Seq32
    <3> QED
      BY <1>0, <2>1, <2>2, <3>1 DEF Apart
  <2>3. Expected(s, N)'
    BY <1>0, <2>1 DEF Left, Expected, Settled, Mailbox!Own
  <2> QED
    BY <1>0, <2>2, <2>3 DEF Left
<1>2. CASE Mailbox!Answer
  <2>1. /\ busy # Blank /\ ~busy.answered /\ busy' = [busy EXCEPT !.answered = TRUE]
        /\ UNCHANGED <<rspc, posted>> /\ busy \in Mailbox!Work
        /\ \E yes \in BOOLEAN :
              rspm' = [from |-> busy.request.from, step |-> busy.request.step,
                       cmd |-> busy.request.cmd, yes |-> yes]
    BY <1>0, <1>2 DEF Mailbox!Answer, MailTypes, Mailbox!TypeOK
  <2>2. /\ busy'.seq = busy.seq /\ busy'.request = busy.request /\ busy'.answered
        /\ busy' \in Mailbox!Work
    BY <2>1 DEF Mailbox!Work
  <2>3. Apart(s, N) => Apart(s, N)'
    BY <1>0, <2>1, <2>2 DEF Apart
  <2>4. busy.request = Asked(s) => Mailbox!Own(s)'
    <3> SUFFICES ASSUME busy.request = Asked(s) PROVE Mailbox!Own(s)'
      OBVIOUS
    <3>1. PICK yes \in BOOLEAN :
             rspm' = [from |-> busy.request.from, step |-> busy.request.step,
                      cmd |-> busy.request.cmd, yes |-> yes]
      BY <2>1
    <3>2. busy.request \in Mailbox!Request
      BY <2>1 DEF Mailbox!Work
    <3>3. rspm' \in Mailbox!Response /\ rspm'.from = s /\ rspm'.step = step[s]
      BY <3>1, <3>2 DEF Asked, Mailbox!Request, Mailbox!Response
    <3> QED
      BY <1>0, <3>3, MailboxAssumption DEF Mailbox!Own
  <2>5. Expected(s, N)'
    BY <1>0, <2>1, <2>2, <2>4 DEF Left, Expected, Settled
  <2> QED
    BY <1>0, <2>3, <2>5 DEF Left
<1>3. CASE Mailbox!Confirm
  <2>1. /\ busy # Blank /\ busy.answered /\ busy' = Blank /\ rspc' = busy.seq
        /\ UNCHANGED <<rspm, posted>>
    BY <1>3 DEF Mailbox!Confirm
  <2>2. Apart(s, N) => Apart(s, N)'
    BY <1>0, <2>1 DEF Apart
  <2>3. Expected(s, N)'
    BY <1>0, <2>1 DEF Left, Expected, Settled, Mailbox!Own
  <2> QED
    BY <1>0, <2>2, <2>3 DEF Left
<1> QED
  BY <1>1, <1>2, <1>3 DEF Mailbox!Firmware
\* A session that is over, or has not begun, keeps what it has.
LEMMA LeftOthers ==
    ASSUME NEW s \in Session, NEW N, Left(s, N), ~Mailbox!Running(s),
           pc'[s] = pc[s], step'[s] = step[s], seq'[s] = seq[s], astray'[s] = astray[s]
    PROVE  Left(s, N)'
<1>1. pc[s] \notin {"number", "poll", "take"} /\ ~Mailbox!Running(s)'
  BY DEF Mailbox!Running, Mailbox!Ended
<1>2. Expected(s, N)'
  BY <1>1 DEF Expected
<1> QED
  BY <1>1, <1>2 DEF Left, Base, Numbers

\* Every session that is before its first number has no leftovers to fear yet.
LEMMA LeftEarly ==
    ASSUME NEW s \in Session, NEW N, pc'[s] \in Early, astray'[s] = {}
    PROVE  Left(s, N)'
  BY DEF Left, Expected, Early

\* CardMailbox.__init__: the two numbers on their way are the leftovers.
LEMMA LeftBegins ==
    ASSUME MailTypes, NEW s \in Session, Mailbox!ReadSeq(s)
    PROVE  \E n1, n2 \in Int : Left(s, {n1, n2})'
<1> DEFINE first == Mailbox!Start(rspc) + 1
<1>1. /\ pc[s] = "begin" /\ pc' = [pc EXCEPT ![s] = "request"]
      /\ seq' = [seq EXCEPT ![s] = first]
      /\ UNCHANGED <<reqm, reqc, rspm, rspc, posted, busy, step, astray>>
  BY DEF Mailbox!ReadSeq, Mailbox!Goto, Mailbox!files, Mailbox!card
<1>2. /\ pc'[s] = "request" /\ seq'[s] = first /\ step'[s] = 0 /\ astray'[s] = {}
      /\ rspc \in Mailbox!Seq32 /\ reqc \in Mailbox!Seq32
      /\ busy = Blank \/ busy.seq \in Mailbox!Seq32
  BY <1>1 DEF MailTypes, Mailbox!TypeOK, Steps, Early, Mailbox!Work
<1>3. PICK n1 \in Int, n2 \in Int : n2 = reqc /\ (busy = Blank \/ n1 = busy.seq)
  BY <1>2 DEF Mailbox!Seq32
<1>4. /\ first \in Nat /\ first + 5 < SeqWrap
      /\ rspc \notin (first + 1)..(first + 5)
  BY <1>2, MailboxAssumption DEF Mailbox!Start, Mailbox!Seq32, Mailbox!MaxStep
<1> HIDE DEF first
<1>5. Base(s)' = first /\ Coming(s)' = (first + 1)..(first + 5)
  BY <1>2, <1>4 DEF Base, Numbers, Coming, Mailbox!MaxStep
<1>6. Apart(s, {n1, n2})'
  BY <1>1, <1>2, <1>3, <1>4, <1>5 DEF Apart, Mailbox!MaxStep
<1>7. Expected(s, {n1, n2})'
  BY <1>2 DEF Expected
<1>8. Left(s, {n1, n2})'
  BY <1>2, <1>6, <1>7 DEF Left
<1> QED
  BY <1>3, <1>8

LEMMA LeftGoesOn ==
    ASSUME MailTypes, NEW s \in Session, NEW N, Left(s, N), pc[s] \notin Early,
           Mailbox!Program(s) \/ Mailbox!TimeOut(s)
    PROVE  Left(s, N)'
<1>0. /\ pc[s] \in {"request", "number", "poll", "take"} /\ Apart(s, N) /\ Expected(s, N)
      /\ UNCHANGED <<rspc, rspm, busy>>
      /\ step[s] \in 0..5 /\ seq[s] \in Nat /\ Mailbox!MaxStep = 5
      /\ \A k \in astray[s] : Base(s) + k \in N
      /\ \A k \in astray[s] : k \in 1..5
  <2>1. /\ pc[s] \in {"request", "number", "poll", "take"}
        /\ UNCHANGED <<rspc, rspm, busy>>
    BY DEF Mailbox!Program, Mailbox!ClearAnswer, Mailbox!ReadSeq, Mailbox!WriteRequest,
       Mailbox!WriteSeq, Mailbox!SeeNumber, Mailbox!Take, Mailbox!TimeOut, Mailbox!files,
       Mailbox!card, Early
  <2>2. Apart(s, N) /\ Expected(s, N) /\ \A k \in astray[s] : Base(s) + k \in N
    BY <2>1 DEF Left, Mailbox!Running, Mailbox!Ended
  <2>3. step[s] \in 0..5 /\ seq[s] \in Nat /\ Mailbox!MaxStep = 5
        /\ \A k \in astray[s] : k \in 1..5
    BY DEF MailTypes, Mailbox!TypeOK, Mailbox!MaxStep, Mailbox!Seq32
  <2> QED
    BY <2>1, <2>2, <2>3
<1>1. CASE Mailbox!WriteRequest(s)
  <2>1. /\ pc[s] = "request" /\ pc'[s] = "number" /\ step'[s] = step[s] + 1 /\ seq'[s] = seq[s]
        /\ UNCHANGED <<reqc, posted, astray>>
    BY <1>1 DEF Mailbox!WriteRequest, Mailbox!Goto, Mailbox!card, MailTypes, Mailbox!TypeOK
  <2>2. Base(s)' = Base(s) /\ Coming(s)' = Coming(s)
    BY <1>0, <2>1 DEF Base, Numbers, Coming
  <2>3. Apart(s, N)'
    BY <1>0, <2>1, <2>2 DEF Apart
  <2>4. Expected(s, N)'
    BY <2>1 DEF Expected
  <2> QED
    BY <1>0, <2>1, <2>2, <2>3, <2>4 DEF Left
<1>2. CASE Mailbox!WriteSeq(s)
  <2>1. /\ pc[s] = "number" /\ pc'[s] = "poll" /\ step'[s] = step[s]
        /\ seq'[s] = (seq[s] + 1) % SeqWrap
        /\ reqc' = seq'[s] /\ posted' = TRUE /\ UNCHANGED astray
    BY <1>2 DEF Mailbox!WriteSeq, Mailbox!Goto, MailTypes, Mailbox!TypeOK
  <2>2. Base(s) = seq[s] - (step[s] - 1) /\ Base(s) \in Nat /\ Base(s) + 5 < SeqWrap
    BY <1>0, <2>1 DEF Base, Numbers, Apart
  <2>3. step[s] \in 1..5
    <3>1. at[s] \in 1..5
      BY <1>0 DEF MailTypes, Mailbox!TypeOK
    <3>2. step[s] = at[s] + (IF retried[s] THEN 1 ELSE 0)
      BY <2>1 DEF MailTypes, Steps, Early
    <3> QED
      BY <1>0, <3>1, <3>2
  <2>4. seq[s] + 1 \in 0..(SeqWrap - 1)
    BY <1>0, <2>2, <2>3, MailboxAssumption
  <2>5. seq'[s] = seq[s] + 1
    BY <2>1, <2>4, MailboxAssumption
  <2>6. /\ Base(s)' = Base(s)
        /\ Coming(s) = (seq[s] + 1)..(Base(s) + 5)
        /\ Coming(s)' = (seq[s] + 2)..(Base(s) + 5)
    <3>1. Base(s)' = seq'[s] - step'[s]
      BY <2>1 DEF Base, Numbers
    <3>2. Base(s)' = Base(s) /\ seq'[s] + 1 = seq[s] + 2
      BY <1>0, <2>1, <2>2, <2>3, <2>5, <3>1
    <3> QED
      BY <1>0, <3>2 DEF Coming
  <2>7. seq[s] + 1 \in Coming(s) /\ \A x \in Coming(s)' : x \in Coming(s)
    BY <1>0, <2>2, <2>3, <2>6
  <2>8. Apart(s, N)'
    BY <1>0, <2>1, <2>2, <2>6, <2>7 DEF Apart
  <2>9. Expected(s, N)'
    BY <1>0, <2>1, <2>5, <2>7 DEF Expected, Apart
  <2> QED
    BY <1>0, <2>1, <2>6, <2>8, <2>9 DEF Left
<1>3. CASE Mailbox!SeeNumber(s)
  <2>1. /\ pc[s] = "poll" /\ pc'[s] = "take" /\ rspc = seq[s] /\ step'[s] = step[s]
        /\ seq'[s] = seq[s] /\ UNCHANGED <<reqc, posted, astray>>
    BY <1>3 DEF Mailbox!SeeNumber, Mailbox!Goto, Mailbox!files, Mailbox!card,
       MailTypes, Mailbox!TypeOK
  <2>2. Base(s)' = Base(s) /\ Coming(s)' = Coming(s)
    BY <1>0, <2>1 DEF Base, Numbers, Coming
  <2>3. Apart(s, N)'
    BY <1>0, <2>1, <2>2 DEF Apart
  <2>4. Expected(s, N)'
    BY <1>0, <2>1 DEF Expected, Settled, Mailbox!Own
  <2> QED
    BY <1>0, <2>1, <2>2, <2>3, <2>4 DEF Left
<1>4. ASSUME pc[s] \in {"poll", "take"}, pc'[s] \in {"request"} \cup Mailbox!Ended,
             step'[s] = step[s], seq'[s] = seq[s], UNCHANGED <<reqc, posted>>
      PROVE  Base(s)' = Base(s) /\ Apart(s, N)' /\ Expected(s, N)'
  <2>1. Base(s)' = Base(s) /\ Coming(s)' = Coming(s)
    BY <1>0, <1>4 DEF Base, Numbers, Coming, Mailbox!Ended
  <2>2. Apart(s, N)'
    BY <1>0, <1>4, <2>1 DEF Apart
  <2>3. Expected(s, N)'
    BY <1>4 DEF Expected, Mailbox!Ended
  <2> QED
    BY <2>1, <2>2, <2>3
<1>5. CASE Mailbox!TimeOut(s)
  <2>1. /\ pc[s] = "poll" /\ step'[s] = step[s] /\ seq'[s] = seq[s]
        /\ UNCHANGED <<reqc, posted, astray>>
        /\ pc'[s] \in {"request"} \cup Mailbox!Ended
    BY <1>5 DEF Mailbox!TimeOut, Mailbox!Proceed, Mailbox!Goto, Mailbox!Ended, Mailbox!files,
       Mailbox!card, MailTypes, Mailbox!TypeOK
  <2> QED
    BY <1>0, <1>4, <2>1 DEF Left
<1>6. CASE Mailbox!Take(s)
  <2>1. /\ pc[s] = "take" /\ step'[s] = step[s] /\ seq'[s] = seq[s]
        /\ UNCHANGED <<reqc, posted>>
        /\ pc'[s] \in {"request"} \cup Mailbox!Ended
        /\ astray'[s] = IF Mailbox!Own(s) THEN astray[s] ELSE astray[s] \cup {step[s]}
    BY <1>6 DEF Mailbox!Take, Mailbox!Proceed, Mailbox!Goto, Mailbox!Ended, Mailbox!files,
       Mailbox!card, MailTypes, Mailbox!TypeOK
  <2>2. ~Mailbox!Own(s) => Base(s) + step[s] \in N
    BY <1>0, <2>1 DEF Expected, Settled, Base, Numbers
  <2>3. \A k \in astray'[s] : Base(s) + k \in N
    BY <1>0, <2>1, <2>2
  <2> QED
    BY <1>0, <1>4, <2>1, <2>3 DEF Left
<1> QED
  BY <1>0, <1>1, <1>2, <1>3, <1>5, <1>6
  DEF Mailbox!Program, Mailbox!ClearAnswer, Mailbox!ReadSeq
LEMMA FewLeftStep ==
    ASSUME MailTypes, FewLeft, Mailbox!Next
    PROVE  FewLeft'
<1>1. CASE Mailbox!Firmware
  <2> SUFFICES ASSUME NEW s \in Session PROVE \E n1, n2 \in Int : Left(s, {n1, n2})'
    BY DEF FewLeft
  <2>1. PICK n1 \in Int, n2 \in Int : Left(s, {n1, n2})
    BY DEF FewLeft
  <2> QED
    BY <1>1, <2>1, LeftFirmware
<1>2. ASSUME NEW s \in Session, Mailbox!Open(s) \/ Mailbox!Program(s) \/ Mailbox!TimeOut(s)
      PROVE  FewLeft'
  <2>1. ASSUME NEW r \in Session, r # s
        PROVE  \E n1, n2 \in Int : Left(r, {n1, n2})'
    <3>1. PICK n1 \in Int, n2 \in Int : Left(r, {n1, n2})
      BY DEF FewLeft
    <3> QED
      BY <1>2, <2>1, <3>1, OnlyMine, LeftOthers
  <2>2. CASE Mailbox!Open(s) \/ Mailbox!ClearAnswer(s)
    <3>1. pc'[s] \in Early /\ astray'[s] = {}
      BY <2>2 DEF Mailbox!Open, Mailbox!ClearAnswer, Mailbox!Goto, MailTypes, Mailbox!TypeOK,
         Steps, Early
    <3>2. PICK n1 \in Int, n2 \in Int : n1 = 0 /\ n2 = 0
      OBVIOUS
    <3>3. Left(s, {n1, n2})'
      BY <3>1, LeftEarly
    <3> QED
      BY <2>1, <3>3 DEF FewLeft
  <2>3. CASE Mailbox!ReadSeq(s)
    BY <2>1, <2>3, LeftBegins DEF FewLeft
  <2>4. CASE pc[s] \notin Early
    <3>1. PICK n1 \in Int, n2 \in Int : Left(s, {n1, n2})
      BY DEF FewLeft
    <3>2. Mailbox!Program(s) \/ Mailbox!TimeOut(s)
      BY <1>2, <2>4 DEF Mailbox!Open, Early
    <3>3. Left(s, {n1, n2})'
      BY <2>4, <3>1, <3>2, LeftGoesOn
    <3> QED
      BY <2>1, <3>3 DEF FewLeft
  <2>5. pc[s] \in Early => Mailbox!Open(s) \/ Mailbox!ClearAnswer(s) \/ Mailbox!ReadSeq(s)
    BY <1>2 DEF Mailbox!Program, Mailbox!TimeOut, Mailbox!WriteRequest, Mailbox!WriteSeq,
       Mailbox!SeeNumber, Mailbox!Take, Early
  <2> QED
    BY <2>2, <2>3, <2>4, <2>5
<1> QED
  BY <1>1, <1>2 DEF Mailbox!Next

LEMMA FewLeftMeans == MailTypes /\ FewLeft => Mailbox!FewAstray
<1> SUFFICES ASSUME MailTypes, FewLeft, NEW s \in Session,
                    NEW i \in astray[s], NEW j \in astray[s], NEW k \in astray[s]
             PROVE  i = j \/ j = k \/ i = k
  BY DEF Mailbox!FewAstray
<1>1. PICK n1 \in Int, n2 \in Int : Left(s, {n1, n2})
  BY DEF FewLeft
<1> DEFINE b == Base(s)
<1>2. /\ b \in Int /\ i \in Int /\ j \in Int /\ k \in Int
      /\ b + i \in {n1, n2} /\ b + j \in {n1, n2} /\ b + k \in {n1, n2}
  BY <1>1 DEF Left, Base, Numbers, MailTypes, Mailbox!TypeOK, Mailbox!Seq32, Mailbox!MaxStep
<1> HIDE DEF b
<1> QED
  BY <1>2

LEMMA MailStep ==
    ASSUME MailTypes, [Mailbox!Next]_(Mailbox!vars)
    PROVE  MailTypes'
<1>1. CASE UNCHANGED Mailbox!vars
  BY <1>1 DEF Mailbox!vars, MailTypes, Mailbox!TypeOK, Steps, Alone, Mailbox!Running, Asked,
     Mailbox!Cmd
<1>2. ASSUME NEW s \in Session, Mailbox!Open(s) \/ Mailbox!Program(s) \/ Mailbox!TimeOut(s)
      PROVE  MailTypes'
  BY <1>2, SessionTypes
<1> QED
  BY <1>1, <1>2, FirmwareTypes DEF Mailbox!Next

FewInv == MailTypes /\ FewLeft

LEMMA FewInit == MCInit => FewInv
<1> SUFFICES ASSUME Mailbox!Init PROVE FewInv
  BY DEF MCInit, NoSession
<1>1. \A s \in Session : Left(s, {0, 0})
  BY DEF Mailbox!Init, Left, Expected, Early
<1> QED
  BY <1>1, MailInit DEF FewInv, FewLeft

LEMMA FewStep == FewInv /\ [MCNext]_<<vars, runs, mVars>> => FewInv'
<1> SUFFICES ASSUME FewInv, [MCNext]_<<vars, runs, mVars>> PROVE FewInv'
  OBVIOUS
<1>1. CASE Mailbox!Next
  BY <1>1, MailStep, FewLeftStep DEF FewInv
<1>2. CASE UNCHANGED mVars
  <2>1. UNCHANGED Mailbox!vars
    BY <1>2 DEF mVars, Mailbox!vars
  <2>2. FewLeft'
    BY <1>2 DEF mVars, FewInv, FewLeft, Left, Apart, Expected, Settled, Base, Numbers, Coming,
       Asked, Mailbox!Own, Mailbox!Running, Mailbox!Cmd
  <2> QED
    BY <2>1, <2>2, MailStep DEF FewInv
<1> QED
  BY <1>1, <1>2 DEF MCNext

(***************************************************************************)
(* MailboxSound: whatever earlier sessions gave up and however late the    *)
(* card answers, at most two commands of a session take an answer that is  *)
(* not their own, for any number of sessions, one after the other, and any *)
(* number of timeouts.                                                     *)
(***************************************************************************)
THEOREM FewAnswersAstray == MCSpec => []MailboxSound
<1>1. FewInv => MailboxSound
  BY FewLeftMeans DEF FewInv, MailTypes, MailboxSound
<1> QED
  BY FewInit, FewStep, <1>1, PTL DEF MCSpec
(***************************************************************************)
(* What an add or delete reports.  Once the list is its own answer, nothing*)
(* that changes the networks is on its way to the card any more.           *)
(***************************************************************************)
Replies(s) ==
    /\ (reqm # Blank /\ reqm.from = s) => reqm.step <= step[s]
    /\ (busy # Blank /\ busy.request.from = s) => busy.request.step <= step[s]
    /\ (rspm # Blank /\ rspm.from = s) => rspm.step <= step[s]
    /\ pc[s] \in {"number", "poll", "take"} =>
          /\ (busy # Blank /\ busy.request.from = s /\ busy.request.step = step[s])
             => busy.request = Asked(s)
          /\ Mailbox!Own(s) =>
                /\ rspm.cmd = Mailbox!Cmd(s)
                /\ Mailbox!Cmd(s) = "list" => rspm.yes = networks
                /\ busy # Blank => busy.request = reqm

Harmless(request) == request.cmd \notin {"add", "delete"}

Told(s) ==
    (kind[s] \in {"add", "delete"} /\ at[s] = 3 /\ Mailbox!Running(s) /\ 2 \notin astray[s]) =>
        /\ reported[s] = networks
        /\ Harmless(reqm)
        /\ busy # Blank => Harmless(busy.request)

TellInv == \A s \in Session : Replies(s) /\ Told(s)

LEMMA TellFirmware ==
    ASSUME MailTypes, Mailbox!Firmware, NEW s \in Session, Replies(s), Told(s)
    PROVE  Replies(s)' /\ Told(s)'
<1>0. /\ UNCHANGED <<reqm, pc, kind, at, step, reported, astray>>
      /\ busy = Blank \/ busy \in Mailbox!Work
      /\ reqm = Blank \/ reqm \in Mailbox!Request
      /\ pc[s] \in {"number", "poll", "take"} => reqm = Asked(s)
      /\ Mailbox!Running(s)' <=> Mailbox!Running(s)
      /\ Asked(s)' = Asked(s) /\ Mailbox!Cmd(s)' = Mailbox!Cmd(s)
      /\ Asked(s).from = s /\ Asked(s).step = step[s] /\ Asked(s).cmd = Mailbox!Cmd(s)
  BY FirmwareTypes DEF Mailbox!locals, MailTypes, Mailbox!TypeOK, Alone, Mailbox!Running,
     Asked, Mailbox!Cmd
<1>1. CASE Mailbox!Notice
  <2>1. /\ busy = Blank /\ posted /\ rspm' = rspm /\ networks' = networks
        /\ busy' = [request |-> reqm, seq |-> reqc, answered |-> FALSE]
    BY <1>1 DEF Mailbox!Notice, Mailbox!files
  <2>2. busy'.request = reqm /\ reqm # Blank
    BY <2>1 DEF MailTypes, Alone
  <2>3. Replies(s)'
    BY <1>0, <2>1, <2>2 DEF Replies, Mailbox!Own
  <2>4. Told(s)'
    BY <1>0, <2>1, <2>2 DEF Told
  <2> QED
    BY <2>3, <2>4
<1>2. CASE Mailbox!Answer
  <2>1. /\ busy # Blank /\ busy' = [busy EXCEPT !.answered = TRUE] /\ busy \in Mailbox!Work
        /\ networks' = CASE busy.request.cmd = "add" -> TRUE
                         [] busy.request.cmd = "delete" -> FALSE [] OTHER -> networks
    BY <1>0, <1>2 DEF Mailbox!Answer
  <2>2. PICK yes : /\ busy.request.cmd = "list" => yes = networks
                   /\ rspm' = [from |-> busy.request.from, step |-> busy.request.step,
                               cmd |-> busy.request.cmd, yes |-> yes]
    <3>1. CASE busy.request.cmd = "list"
      BY <1>2, <3>1 DEF Mailbox!Answer
    <3>2. CASE busy.request.cmd # "list"
      BY <1>2, <3>2 DEF Mailbox!Answer
    <3> QED
      BY <3>1, <3>2
  <2>3. /\ rspm'.from = busy.request.from /\ rspm'.step = busy.request.step
        /\ rspm'.cmd = busy.request.cmd /\ rspm'.yes = yes
        /\ busy'.request = busy.request
    BY <2>1, <2>2 DEF Mailbox!Work
  <2>4. ASSUME pc[s] \in {"number", "poll", "take"}, Mailbox!Own(s)'
        PROVE  /\ rspm'.cmd = Mailbox!Cmd(s) /\ busy'.request = reqm
               /\ Mailbox!Cmd(s) = "list" => rspm'.yes = networks'
    <3>1. busy.request = Asked(s)
      BY <1>0, <2>1, <2>3, <2>4 DEF Replies, Mailbox!Own
    <3>2. busy.request.cmd = "list" => networks' = networks
      BY <2>1
    <3> QED
      BY <1>0, <2>2, <2>3, <2>4, <3>1, <3>2
  <2>5. Replies(s)'
    BY <1>0, <2>1, <2>3, <2>4 DEF Replies
  <2>6. Harmless(busy.request) => networks' = networks
    BY <2>1 DEF Harmless
  <2>7. Told(s)'
    BY <1>0, <2>1, <2>3, <2>6 DEF Told
  <2> QED
    BY <2>5, <2>7
<1>3. CASE Mailbox!Confirm
  <2>1. busy' = Blank /\ rspm' = rspm /\ networks' = networks
    BY <1>3 DEF Mailbox!Confirm
  <2>2. Replies(s)'
    BY <1>0, <2>1 DEF Replies, Mailbox!Own
  <2>3. Told(s)'
    BY <1>0, <2>1 DEF Told
  <2> QED
    BY <2>2, <2>3
<1> QED
  BY <1>1, <1>2, <1>3 DEF Mailbox!Firmware

\* The sessions that do not run.
LEMMA TellOthers ==
    ASSUME MailTypes, NEW s \in Session, NEW r \in Session, r # s, Replies(r),
           Mailbox!Open(s) \/ Mailbox!Program(s) \/ Mailbox!TimeOut(s)
    PROVE  Replies(r)' /\ Told(r)'
<1>1. ~Mailbox!Running(r) /\ pc'[r] = pc[r] /\ step'[r] = step[r]
  BY OnlyMine
<1>2. /\ busy' = busy /\ (rspm' = rspm \/ rspm' = Blank)
      /\ reqm' = reqm \/ reqm'.from = s
  BY DEF Mailbox!Open, Mailbox!Program, Mailbox!TimeOut, Mailbox!ClearAnswer, Mailbox!ReadSeq,
     Mailbox!WriteRequest, Mailbox!WriteSeq, Mailbox!SeeNumber, Mailbox!Take, Mailbox!files,
     Mailbox!card
<1>3. pc'[r] \notin {"number", "poll", "take"} /\ ~Mailbox!Running(r)'
  BY <1>1 DEF Mailbox!Running, Mailbox!Ended
<1> QED
  BY <1>1, <1>2, <1>3 DEF Replies, Told

LEMMA TellMine ==
    ASSUME MailTypes, NEW s \in Session, Replies(s), Told(s),
           Mailbox!Open(s) \/ Mailbox!Program(s) \/ Mailbox!TimeOut(s)
    PROVE  Replies(s)' /\ Told(s)'
<1>0. /\ kind' = kind /\ at[s] \in 1..5 /\ step[s] \in 0..5
      /\ step[s] = (IF pc[s] \in Early \cup {"request"} THEN at[s] - 1 ELSE at[s])
                      + (IF retried[s] THEN 1 ELSE 0)
      /\ retried[s] => kind[s] = "info"
      /\ \A x \in {"closed", "clear", "begin"} : pc[s] = x => at[s] = 1
      /\ kind[s] \in {"add", "delete"} =>
            Len(Mailbox!Script[kind[s]]) = 3 /\ (at[s] = 2 => Mailbox!Cmd(s) = "list")
                                             /\ (at[s] = 3 => Mailbox!Cmd(s) = "mac")
      /\ busy' = busy /\ networks' = networks
      /\ pc[s] \in {"number", "poll", "take"} => reqm = Asked(s)
  <2>1. kind' = kind
    BY OnlyMine
  <2>2. /\ at[s] \in 1..5 /\ step[s] \in 0..5
        /\ step[s] = (IF pc[s] \in Early \cup {"request"} THEN at[s] - 1 ELSE at[s])
                        + (IF retried[s] THEN 1 ELSE 0)
        /\ retried[s] => kind[s] = "info"
        /\ pc[s] \in {"number", "poll", "take"} => reqm = Asked(s)
    BY DEF MailTypes, Mailbox!TypeOK, Mailbox!MaxStep, Steps, Alone
  <2>3. \A x \in {"closed", "clear", "begin"} : pc[s] = x => at[s] = 1
    <3>1. pc[s] \in Early => step[s] = 0 /\ retried[s] \in BOOLEAN
      BY DEF MailTypes, Mailbox!TypeOK, Steps
    <3> QED
      BY <2>2, <3>1 DEF Early
  <2>4. kind[s] \in {"add", "delete"} =>
            Len(Mailbox!Script[kind[s]]) = 3 /\ (at[s] = 2 => Mailbox!Cmd(s) = "list")
                                             /\ (at[s] = 3 => Mailbox!Cmd(s) = "mac")
    BY ScriptCommands DEF Mailbox!Cmd
  <2>5. busy' = busy /\ networks' = networks
    BY DEF Mailbox!Open, Mailbox!Program, Mailbox!TimeOut, Mailbox!ClearAnswer, Mailbox!ReadSeq,
       Mailbox!WriteRequest, Mailbox!WriteSeq, Mailbox!SeeNumber, Mailbox!Take, Mailbox!card
  <2> QED
    BY <2>1, <2>2, <2>3, <2>4, <2>5
<1>1. ASSUME pc[s] \in Early, pc'[s] \in {"clear", "begin", "request"},
             UNCHANGED <<reqm, at, step>>, rspm' = rspm \/ rspm' = Blank
      PROVE  Replies(s)' /\ Told(s)'
  <2>1. at'[s] # 3
    BY <1>0, <1>1 DEF Early
  <2> QED
    BY <1>0, <1>1, <2>1 DEF Replies, Told
<1>2. CASE Mailbox!Open(s) \/ Mailbox!ClearAnswer(s) \/ Mailbox!ReadSeq(s)
  <2>1. /\ pc[s] \in Early /\ pc'[s] \in {"clear", "begin", "request"}
        /\ UNCHANGED <<reqm, at, step>> /\ (rspm' = rspm \/ rspm' = Blank)
    BY <1>2 DEF Mailbox!Open, Mailbox!ClearAnswer, Mailbox!ReadSeq, Mailbox!Goto, Early,
       Mailbox!files, MailTypes, Mailbox!TypeOK
  <2> QED
    BY <1>1, <2>1
<1>3. CASE Mailbox!WriteRequest(s)
  <2>1. /\ pc[s] = "request" /\ pc'[s] = "number" /\ step'[s] = step[s] + 1
        /\ reqm' = [from |-> s, step |-> step[s] + 1, cmd |-> Mailbox!Cmd(s)]
        /\ UNCHANGED <<rspm, at, reported, astray>>
    BY <1>3 DEF Mailbox!WriteRequest, Mailbox!Goto, MailTypes, Mailbox!TypeOK
  <2>2. reqm'.from = s /\ reqm'.step = step'[s] /\ reqm'.cmd = Mailbox!Cmd(s)
    BY <2>1
  <2>3. ~(busy # Blank /\ busy.request.from = s /\ busy.request.step = step'[s])
    <3>1. busy # Blank => busy.request.step \in Nat
      BY DEF MailTypes, Mailbox!TypeOK, Mailbox!Work, Mailbox!Request
    <3> QED
      BY <1>0, <2>1, <3>1 DEF Replies
  <2>4. ~Mailbox!Own(s)'
    <3>1. rspm # Blank => rspm.step \in Nat
      BY DEF MailTypes, Mailbox!TypeOK, Mailbox!Response
    <3> QED
      BY <1>0, <2>1, <3>1 DEF Replies, Mailbox!Own
  <2>5. /\ (busy # Blank /\ busy.request.from = s) => busy.request.step <= step'[s]
        /\ (rspm # Blank /\ rspm.from = s) => rspm.step <= step'[s]
    <3>1. /\ busy # Blank => busy.request.step \in Nat
          /\ rspm # Blank => rspm.step \in Nat
      BY DEF MailTypes, Mailbox!TypeOK, Mailbox!Work, Mailbox!Request, Mailbox!Response
    <3> QED
      BY <1>0, <2>1, <3>1 DEF Replies
  <2>6. step'[s] <= step'[s]
    BY <1>0, <2>1
  <2>7. Replies(s)'
    BY <1>0, <2>1, <2>2, <2>3, <2>4, <2>5, <2>6 DEF Replies
  <2>8. Told(s)'
    <3>1. Mailbox!Running(s)
      BY <2>1 DEF Mailbox!Running, Mailbox!Ended
    <3> QED
      BY <1>0, <2>1, <2>2, <3>1 DEF Told, Harmless
  <2> QED
    BY <2>7, <2>8
<1>4. CASE Mailbox!WriteSeq(s) \/ Mailbox!SeeNumber(s)
  <2>1. /\ pc[s] \in {"number", "poll"} /\ pc'[s] \in {"poll", "take"}
        /\ UNCHANGED <<reqm, rspm, at, step, reported, astray>>
    BY <1>4 DEF Mailbox!WriteSeq, Mailbox!SeeNumber, Mailbox!Goto, Mailbox!files,
       MailTypes, Mailbox!TypeOK
  <2>2. /\ Asked(s)' = Asked(s) /\ Mailbox!Cmd(s)' = Mailbox!Cmd(s)
        /\ Mailbox!Own(s)' <=> Mailbox!Own(s)
        /\ Mailbox!Running(s)
    BY <1>0, <2>1 DEF Asked, Mailbox!Cmd, Mailbox!Own, Mailbox!Running, Mailbox!Ended
  <2>3. Replies(s)'
    BY <1>0, <2>1, <2>2 DEF Replies
  <2>4. Told(s)'
    BY <1>0, <2>1, <2>2 DEF Told
  <2> QED
    BY <2>3, <2>4
<1>5. ASSUME pc'[s] \in {"request"} \cup Mailbox!Ended, UNCHANGED <<reqm, rspm, step>>
      PROVE  Replies(s)'
  BY <1>0, <1>5 DEF Replies, Mailbox!Ended
<1>6. CASE Mailbox!TimeOut(s)
  <2>1. /\ pc[s] = "poll" /\ UNCHANGED <<reqm, rspm, step>>
        /\ pc'[s] \in {"request"} \cup Mailbox!Ended
        /\ kind[s] \in {"add", "delete"} => pc'[s] = "failed"
    BY <1>6 DEF Mailbox!TimeOut, Mailbox!Optional, Mailbox!Proceed, Mailbox!Goto, Mailbox!Ended,
       Mailbox!files, MailTypes, Mailbox!TypeOK
  <2>2. Told(s)'
    BY <1>0, <2>1 DEF Told, Mailbox!Running, Mailbox!Ended
  <2> QED
    BY <1>5, <2>1, <2>2
<1>7. CASE Mailbox!Take(s)
  <2>1. /\ pc[s] = "take" /\ UNCHANGED <<reqm, rspm, step>>
        /\ pc'[s] \in {"request"} \cup Mailbox!Ended
        /\ astray'[s] = IF Mailbox!Own(s) THEN astray[s] ELSE astray[s] \cup {step[s]}
    BY <1>7 DEF Mailbox!Take, Mailbox!Proceed, Mailbox!Goto, Mailbox!Ended,
       Mailbox!files, MailTypes, Mailbox!TypeOK
  <2>2. ASSUME kind[s] \in {"add", "delete"}, at'[s] = 3, Mailbox!Running(s)'
        PROVE  at[s] = 2
    <3>1. \/ pc'[s] = "failed"
          \/ pc'[s] = "request" /\ at'[s] = at[s] + 1
          \/ pc'[s] = "done"
      BY <1>7, <2>2 DEF Mailbox!Take, Mailbox!Proceed, Mailbox!Goto, MailTypes, Mailbox!TypeOK
    <3> QED
      BY <1>0, <2>2, <3>1 DEF Mailbox!Running, Mailbox!Ended
  <2>3. ASSUME kind[s] \in {"add", "delete"}, at[s] = 2, 2 \notin astray'[s]
        PROVE  /\ reported'[s] = networks /\ Harmless(reqm)
               /\ busy # Blank => Harmless(busy.request)
    <3>1. Mailbox!Cmd(s) = "list" /\ step[s] = 2
      BY <1>0, <2>1, <2>3 DEF Early
    <3>2. Mailbox!Own(s)
      BY <2>1, <2>3, <3>1
    <3>3. /\ rspm.cmd = "list" /\ rspm.yes = networks /\ (busy # Blank => busy.request = reqm)
          /\ rspm # Blank
      BY <2>1, <3>1, <3>2 DEF Replies, Mailbox!Own
    <3>4. Mailbox!Reading(s) = {networks}
      BY <3>1, <3>3 DEF Mailbox!Reading
    <3>5. reported'[s] = networks
      BY <1>7, <3>1, <3>4 DEF Mailbox!Take, MailTypes, Mailbox!TypeOK
    <3>6. Harmless(reqm)
      BY <1>0, <2>1, <3>1 DEF Asked, Harmless
    <3> QED
      BY <3>3, <3>5, <3>6
  <2>4. Told(s)'
    BY <1>0, <2>1, <2>2, <2>3 DEF Told
  <2> QED
    BY <1>5, <2>1, <2>4
<1> QED
  BY <1>2, <1>3, <1>4, <1>6, <1>7 DEF Mailbox!Program
TruthInv == MailTypes /\ TellInv

LEMMA TruthInit == MCInit => TruthInv
<1> SUFFICES ASSUME Mailbox!Init PROVE TruthInv
  BY DEF MCInit, NoSession
<1>1. TellInv
  BY DEF Mailbox!Init, TellInv, Replies, Told
<1> QED
  BY <1>1, MailInit DEF TruthInv

LEMMA TruthStep == TruthInv /\ [MCNext]_<<vars, runs, mVars>> => TruthInv'
<1> SUFFICES ASSUME TruthInv, [MCNext]_<<vars, runs, mVars>> PROVE TruthInv'
  OBVIOUS
<1>1. CASE Mailbox!Firmware
  BY <1>1, FirmwareTypes, TellFirmware DEF TruthInv, TellInv
<1>2. ASSUME NEW s \in Session, Mailbox!Open(s) \/ Mailbox!Program(s) \/ Mailbox!TimeOut(s)
      PROVE  TruthInv'
  <2>1. \A r \in Session : Replies(r)' /\ Told(r)'
    BY <1>2, TellMine, TellOthers DEF TruthInv, TellInv
  <2> QED
    BY <1>2, <2>1, SessionTypes DEF TruthInv, TellInv
<1>3. CASE UNCHANGED mVars
  <2>1. UNCHANGED Mailbox!vars
    BY <1>3 DEF mVars, Mailbox!vars
  <2>2. TellInv'
    BY <1>3 DEF mVars, TruthInv, TellInv, Replies, Told, Harmless, Asked, Mailbox!Own,
       Mailbox!Running, Mailbox!Cmd
  <2> QED
    BY <2>1, <2>2, MailStep DEF TruthInv
<1> QED
  BY <1>1, <1>2, <1>3 DEF MCNext, Mailbox!Next

\* The step with which an add or delete is done.
LEMMA DoneTells ==
    ASSUME TruthInv, [MCNext]_<<vars, runs, mVars>>, NEW s \in Session,
           kind[s] \in {"add", "delete"}, pc[s] # "done", pc'[s] = "done"
    PROVE  reported'[s] = networks' \/ 2 \in astray'[s]
<1>0. MailTypes /\ Told(s)
  BY DEF TruthInv, TellInv
<1>1. Mailbox!Next
  BY DEF MCNext, mVars
<1>2. ~Mailbox!Firmware
  BY <1>0, FirmwareTypes DEF Mailbox!locals
<1>3. PICK r \in Session : Mailbox!Open(r) \/ Mailbox!Program(r) \/ Mailbox!TimeOut(r)
  BY <1>1, <1>2 DEF Mailbox!Next
<1>4. r = s
  BY <1>0, <1>3, OnlyMine
<1>5. /\ Len(Mailbox!Script[kind[s]]) = 3 /\ (at[s] = 3 => Mailbox!Cmd(s) = "mac")
      /\ ~Mailbox!Optional(s)
  BY ScriptCommands DEF Mailbox!Cmd, Mailbox!Optional
<1>6. Mailbox!Take(s)
  BY <1>0, <1>3, <1>4, <1>5 DEF Mailbox!Open, Mailbox!Program, Mailbox!TimeOut,
     Mailbox!ClearAnswer, Mailbox!ReadSeq, Mailbox!WriteRequest, Mailbox!WriteSeq,
     Mailbox!SeeNumber, Mailbox!Goto, MailTypes, Mailbox!TypeOK
<1>7. at[s] = 3 /\ pc[s] = "take" /\ networks' = networks
  BY <1>0, <1>5, <1>6 DEF Mailbox!Take, Mailbox!Proceed, Mailbox!Goto, Mailbox!card,
     MailTypes, Mailbox!TypeOK
<1>8. reported'[s] = reported[s] /\ (2 \in astray[s] => 2 \in astray'[s])
  BY <1>0, <1>5, <1>6, <1>7 DEF Mailbox!Take, MailTypes, Mailbox!TypeOK
<1> QED
  BY <1>0, <1>7, <1>8 DEF Told, Mailbox!Running, Mailbox!Ended

(***************************************************************************)
(* NetworksTruthful: add_network and delete_network end by reading the     *)
(* list, and say truly whether the network is on the card unless another   *)
(* command's answer was taken for the list.                                *)
(***************************************************************************)
THEOREM NetworkReportsTrue == MCSpec => NetworksTruthful
<1>1. TruthInv /\ [MCNext]_<<vars, runs, mVars>>
      => [\A s \in Session :
             (kind[s] \in {"add", "delete"} /\ pc[s] # "done" /\ pc'[s] = "done")
             => (reported'[s] = networks' \/ 2 \in astray'[s])]_(Mailbox!vars)
  BY DoneTells
<1> QED
  BY TruthInit, TruthStep, <1>1, PTL DEF MCSpec, NetworksTruthful, Mailbox!NetworksTruthful
=============================================================================
