------------------------- MODULE SpoolTransferProofs -------------------------
(***************************************************************************)
(* Theorems about SpoolTransfer for every value of its constants.          *)
(***************************************************************************)
EXTENDS SpoolTransfer, TLAPS, SequenceTheorems

\* What TypeOK needs to be inductive: the bounds of the slices that the
\* handlers are about to write.
BodyInv(c) == up[c].from <= up[c].upto

ReadyInv(c) ==
    /\ pc[c] \in {"check", "append"} => up[c].streamed < Appendable(c)
    /\ pc[c] = "rest" => up[c].streamed < TarLen(c)

TypeInv == TypeOK /\ \A c \in Conn : BodyInv(c) /\ ReadyInv(c)

USE DEF Junk, Unset, Unit

LEMMA LeastLemma ==
    ASSUME NEW a \in Int, NEW b \in Int
    PROVE  /\ Least(a, b) \in {a, b}
           /\ Least(a, b) <= a /\ Least(a, b) <= b
BY DEF Least

LEMMA NoUploadLemma == NoUpload \in Upload
BY SizeAssumption, EmptySeq DEF NoUpload, Upload

LEMMA Fields ==
    ASSUME TypeOK, NEW c \in Conn
    PROVE  /\ up[c] \in Upload
           /\ up[c].from \in 0..FileSize /\ up[c].upto \in 0..FileSize
           /\ up[c].start \in 0..FileSize /\ up[c].want \in -1..FileSize
           /\ up[c].rcvd \in Nat /\ up[c].streamed \in 0..FileSize
           /\ up[c].ok \in BOOLEAN /\ up[c].closing \in BOOLEAN
           /\ up[c].asm \in Seq(Unit)
<1>1. up[c] \in Upload
  BY DEF TypeOK
<1> QED
  BY <1>1 DEF Upload

\* The body holds the payload and at least the closing boundary.
LEMMA BodyLengths ==
    ASSUME TypeOK, NEW c \in Conn, BodyInv(c)
    PROVE  /\ PayloadLen(c) \in 0..FileSize
           /\ BodyLen(c) \in Nat
           /\ BodyLen(c) >= PayloadLen(c) + Term
<1>1. PayloadLen(c) \in 0..FileSize
  <2>1. up[c].from \in Int /\ up[c].upto \in Int /\ FileSize \in Int
        /\ up[c].from >= 0 /\ up[c].upto <= FileSize
    BY Fields, SizeAssumption
  <2> QED
    BY <2>1 DEF PayloadLen, BodyInv
<1>2. Trailer \in Nat /\ Term \in Nat /\ Term <= Trailer
  BY SizeAssumption
<1> QED
  BY <1>1, <1>2, SizeAssumption DEF BodyLen

\* A slice of the body is a sequence of units of the expected length.
LEMMA SliceType ==
    ASSUME TypeOK, NEW c \in Conn, BodyInv(c),
           NEW a \in Nat, NEW b \in Nat, a <= b
    PROVE  /\ BodySlice(c, a, b) \in Seq(Unit)
           /\ Len(BodySlice(c, a, b)) = b - a
           /\ \A i \in 1..(b - a) : BodySlice(c, a, b)[i] = BodyUnit(c, a + i)
<1>1. /\ up[c].from \in 0..FileSize /\ up[c].upto \in 0..FileSize
      /\ FileSize \in Nat
  BY Fields, SizeAssumption
<1>2. \A i \in 1..(b - a) : BodyUnit(c, a + i) \in Unit
  BY <1>1 DEF BodyUnit, PayloadLen, BodyInv
<1>3. b - a \in Nat
  OBVIOUS
<1> QED
  BY <1>2, <1>3 DEF BodySlice

\* spool_append_at keeps the spool a sequence of at most FileSize units.
LEMMA AppendType ==
    ASSUME TypeOK, NEW pos \in Int, NEW data \in Seq(Unit), AppendAt(pos, data)
    PROVE  part' \in Seq(Unit) /\ Len(part') <= FileSize
<1>1. part \in Seq(Unit) /\ Len(part) <= FileSize
  BY DEF TypeOK
<1>2. part \o data \in Seq(Unit) /\ Len(part \o data) = Len(part) + Len(data)
  BY <1>1, ConcatProperties
<1> QED
  BY <1>1, <1>2 DEF AppendAt, CanAppend

LEMMA TarLenType ==
    ASSUME TypeOK, NEW c \in Conn, BodyInv(c)
    PROVE  TarLen(c) \in 0..FileSize
<1>1. up[c].want \in -1..FileSize /\ up[c].rcvd \in Nat
  BY Fields
<1>2. PayloadLen(c) \in 0..FileSize /\ BodyLen(c) \in Nat /\ BodyLen(c) >= Term
  BY BodyLengths, SizeAssumption
<1>3. Term \in Nat /\ FileSize \in Nat
  BY SizeAssumption
<1> QED
  BY <1>1, <1>2, <1>3 DEF TarLen, BodyDone, Least

LEMMA AppendableType ==
    ASSUME TypeOK, NEW c \in Conn
    PROVE  Appendable(c) \in Int /\ Appendable(c) <= FileSize
BY Fields, SizeAssumption DEF Appendable, Least

\* start_offset and expected_len stay within the file.
LEMMA MetaType ==
    ASSUME TypeOK, NEW c \in Conn
    PROVE  Meta(c).start \in 0..FileSize /\ Meta(c).want \in -1..FileSize
<1>1. KnownOffset(c) \in 0..FileSize
  BY SizeAssumption DEF TypeOK, KnownOffset
<1> DEFINE s == KnownOffset(c)
<1>2. FileSize - s \in 0..FileSize /\ FileSize \in Nat
  BY <1>1, SizeAssumption
<1> QED
  BY <1>1, <1>2, SizeAssumption DEF Meta

\* A step that only replaces the locals of c and moves its handler.
LEMMA LocalStep ==
    ASSUME TypeInv, NEW c \in Conn, NEW u \in Upload, NEW l \in Labels,
           u.from <= u.upto,
           up' = [up EXCEPT ![c] = u], pc' = [pc EXCEPT ![c] = l],
           l \in {"check", "append"} => u.streamed < Least(u.rcvd - Hold, u.want),
           l = "rest" => u.streamed < TarLen(c)'
    PROVE  /\ up' \in [Conn -> Upload]
           /\ pc' \in [Conn -> Labels]
           /\ up'[c] = u /\ pc'[c] = l
           /\ \A d \in Conn : BodyInv(d)' /\ ReadyInv(d)'
<1>1. up \in [Conn -> Upload] /\ pc \in [Conn -> Labels]
  BY DEF TypeInv, TypeOK
<1>2. up' \in [Conn -> Upload] /\ pc' \in [Conn -> Labels] /\ up'[c] = u /\ pc'[c] = l
  BY <1>1
<1>3. ASSUME NEW d \in Conn
      PROVE  BodyInv(d)' /\ ReadyInv(d)'
  <2>1. CASE d = c
    BY <1>2, <2>1 DEF BodyInv, ReadyInv, Appendable
  <2>2. CASE d # c
    <3>1. up'[d] = up[d] /\ pc'[d] = pc[d]
      BY <1>1, <2>2
    <3>2. BodyInv(d) /\ ReadyInv(d)
      BY DEF TypeInv
    <3> QED
      BY <3>1, <3>2 DEF BodyInv, ReadyInv, Appendable, TarLen, BodyDone, BodyLen, PayloadLen
  <2> QED
    BY <2>1, <2>2
<1> QED
  BY <1>2, <1>3

LEMMA ReplyType ==
    ASSUME TypeInv, NEW c \in Conn, NEW success \in BOOLEAN, NEW closing \in BOOLEAN,
           Leave(c, success, closing), UNCHANGED lastAdv, UNCHANGED library, UNCHANGED writer,
           part' \in Seq(Unit), Len(part') <= FileSize, faults' \in 0..MaxFaults
    PROVE  TypeInv'
<1> DEFINE l == IF closing THEN "closed" ELSE "idle"
<1>1. l \in Labels /\ l \notin {"check", "append", "rest"}
  BY DEF Labels
<1>2. NoUpload \in Upload /\ NoUpload.from <= NoUpload.upto
  BY NoUploadLemma DEF NoUpload
<1>3. up' = [up EXCEPT ![c] = NoUpload] /\ pc' = [pc EXCEPT ![c] = l]
  BY DEF Leave, Goto
<1> HIDE DEF l
<1>4. /\ up' \in [Conn -> Upload] /\ pc' \in [Conn -> Labels]
      /\ \A d \in Conn : BodyInv(d)' /\ ReadyInv(d)'
  BY <1>1, <1>2, <1>3, LocalStep
<1>5. adv' \in [Conn -> Unset..FileSize]
  BY SizeAssumption DEF Leave, TypeInv, TypeOK
<1>6. acked' \in BOOLEAN /\ cardConn' \in Conn \cup {NoConn}
  BY DEF Leave, TypeInv, TypeOK
<1> QED
  BY <1>4, <1>5, <1>6 DEF Leave, TypeInv, TypeOK

\* A step that only moves the handler of c.
LEMMA MoveStep ==
    ASSUME TypeInv, NEW c \in Conn, NEW l \in Labels, Goto(c, l), UNCHANGED up,
           l \in {"check", "append"} => up[c].streamed < Appendable(c),
           l = "rest" => up[c].streamed < TarLen(c)
    PROVE  /\ pc' \in [Conn -> Labels]
           /\ \A d \in Conn : BodyInv(d)' /\ ReadyInv(d)'
<1>1. up \in [Conn -> Upload] /\ up[c] \in Upload /\ BodyInv(c)
  BY DEF TypeInv, TypeOK
<1>2. up' = [up EXCEPT ![c] = up[c]] /\ pc' = [pc EXCEPT ![c] = l]
  BY <1>1 DEF Goto
<1>3. TarLen(c)' = TarLen(c)
  BY DEF TarLen, BodyDone, BodyLen, PayloadLen
<1>4. up[c].from <= up[c].upto
  BY <1>1 DEF BodyInv
<1>5. l \in {"check", "append"} => up[c].streamed < Least(up[c].rcvd - Hold, up[c].want)
  BY DEF Appendable
<1> QED
  BY <1>1, <1>2, <1>3, <1>4, <1>5, LocalStep

LEMMA TypeInit == Init => TypeInv
<1> SUFFICES ASSUME Init PROVE TypeInv
  OBVIOUS
<1>1. FileSize \in Nat /\ MaxFaults \in Nat
  BY SizeAssumption
<1>2. NoUpload \in Upload
  BY NoUploadLemma
<1>3. << >> \in Seq(Unit) /\ Len(<< >>) = 0
  BY EmptySeq
<1>4. "closed" \in Labels
  BY DEF Labels
<1>5. TypeOK
  <2>1. up \in [Conn -> Upload] /\ pc \in [Conn -> Labels]
    BY <1>2, <1>4 DEF Init
  <2>2. off \in [Conn -> 0..FileSize] /\ adv \in [Conn -> Unset..FileSize]
    BY <1>1 DEF Init
  <2>3. part \in Seq(Unit) /\ Len(part) <= FileSize /\ library \in Seq(Unit)
    BY <1>1, <1>3 DEF Init
  <2>4. lastAdv \in Unset..FileSize /\ cardOff \in Unset..FileSize /\ faults \in 0..MaxFaults
    BY <1>1 DEF Init
  <2>5. writer \in Conn \cup {NoConn} /\ cardConn \in Conn \cup {NoConn} /\ acked \in BOOLEAN
    BY DEF Init
  <2> QED
    BY <2>1, <2>2, <2>3, <2>4, <2>5 DEF TypeOK
<1>6. ASSUME NEW c \in Conn PROVE BodyInv(c) /\ ReadyInv(c)
  <2>1. pc[c] = "closed" /\ up[c].from = 0 /\ up[c].upto = 0
    BY DEF Init, NoUpload
  <2> QED
    BY <2>1 DEF BodyInv, ReadyInv
<1> QED
  BY <1>5, <1>6 DEF TypeInv

\* The steps of the card.
LEMMA CardType ==
    ASSUME TypeInv, NEW c \in Conn, Card(c)
    PROVE  TypeInv'
<1>1. CASE Connect(c)
  <2>1. Goto(c, "idle") /\ UNCHANGED up /\ "idle" \in Labels
    BY <1>1 DEF Connect, Labels
  <2>2. pc' \in [Conn -> Labels] /\ \A d \in Conn : BodyInv(d)' /\ ReadyInv(d)'
    BY <2>1, MoveStep
  <2> QED
    BY <1>1, <2>2 DEF Connect, TypeInv, TypeOK, serverVars
<1>2. CASE SendStatus(c)
  <2>1. Goto(c, "status") /\ UNCHANGED up /\ "status" \in Labels
    BY <1>2 DEF SendStatus, Labels
  <2>2. pc' \in [Conn -> Labels] /\ \A d \in Conn : BodyInv(d)' /\ ReadyInv(d)'
    BY <2>1, MoveStep
  <2> QED
    BY <1>2, <2>2 DEF SendStatus, TypeInv, TypeOK, serverVars, cardVars
<1>3. CASE SendUpload(c)
  <2>0. PICK from \in {cardOff} \cup (IF IgnoreOffset THEN {0} ELSE {}) :
             \E upto \in (IF ShortBodies THEN from..FileSize ELSE {FileSize}) :
             up' = [up EXCEPT ![c] = [NoUpload EXCEPT !.from = from, !.upto = upto]]
    BY <1>3 DEF SendUpload
  <2>1. PICK upto \in (IF ShortBodies THEN from..FileSize ELSE {FileSize}) :
             up' = [up EXCEPT ![c] = [NoUpload EXCEPT !.from = from, !.upto = upto]]
    BY <2>0
  <2> DEFINE u == [NoUpload EXCEPT !.from = from, !.upto = upto]
  <2>2. from \in 0..FileSize /\ upto \in 0..FileSize /\ from <= upto
    <3>1. cardOff \in 0..FileSize /\ FileSize \in Nat
      BY <1>3, SizeAssumption DEF SendUpload, TypeInv, TypeOK
    <3>2. from \in 0..FileSize
      BY <3>1
    <3>3. upto \in from..FileSize
      BY <3>1, <3>2
    <3> QED
      BY <3>1, <3>2, <3>3
  <2>3. u \in Upload /\ u.from = from /\ u.upto = upto
    BY <2>2, NoUploadLemma DEF NoUpload, Upload
  <2>4. Goto(c, "head") /\ "head" \in Labels
    BY <1>3 DEF SendUpload, Labels
  <2>5. up' = [up EXCEPT ![c] = u] /\ pc' = [pc EXCEPT ![c] = "head"]
    BY <2>1, <2>4 DEF Goto
  <2>6. u.from <= u.upto
    BY <2>2, <2>3
  <2> HIDE DEF u
  <2>7. /\ up' \in [Conn -> Upload] /\ pc' \in [Conn -> Labels]
        /\ \A d \in Conn : BodyInv(d)' /\ ReadyInv(d)'
    BY <2>3, <2>4, <2>5, <2>6, LocalStep
  <2> QED
    BY <1>3, <2>7 DEF SendUpload, TypeInv, TypeOK, serverVars, cardVars
<1> QED
  BY <1>1, <1>2, <1>3 DEF Card

\* The steps of the network.
LEMMA NetworkType ==
    ASSUME TypeInv, NEW c \in Conn, Network(c)
    PROVE  TypeInv'
<1>0. up[c] \in Upload /\ BodyInv(c)
  BY Fields DEF TypeInv
<1>1. CASE IdleClose(c)
  <2>1. Goto(c, "closed") /\ UNCHANGED up /\ "closed" \in Labels
    BY <1>1 DEF IdleClose, Labels
  <2>2. pc' \in [Conn -> Labels] /\ \A d \in Conn : BodyInv(d)' /\ ReadyInv(d)'
    BY <2>1, MoveStep
  <2>3. adv' \in [Conn -> Unset..FileSize]
    BY <1>1, SizeAssumption DEF IdleClose, TypeInv, TypeOK
  <2> QED
    BY <1>1, <2>2, <2>3 DEF IdleClose, TypeInv, TypeOK, serverVars, cardVars
<1>2. CASE HeadLost(c)
  <2>1. /\ Leave(c, FALSE, TRUE) /\ faults' \in 0..MaxFaults
        /\ UNCHANGED lastAdv /\ UNCHANGED library /\ UNCHANGED writer
    BY <1>2 DEF HeadLost, Reply, serverVars, TypeInv, TypeOK
  <2>2. part' \in Seq(Unit) /\ Len(part') <= FileSize
    BY <1>2 DEF HeadLost, serverVars, TypeInv, TypeOK
  <2>3. TRUE \in BOOLEAN /\ FALSE \in BOOLEAN
    BY Fields DEF TypeInv
  <2> QED
    BY <2>1, <2>2, <2>3, ReplyType
<1>3. CASE Stall(c)
  <2> DEFINE u == [up[c] EXCEPT !.closing = TRUE]
  <2>1. u \in Upload /\ u.from <= u.upto
    BY <1>0 DEF Upload, BodyInv
  <2>2. "finish" \in Labels
    BY DEF Labels
  <2>3. up' = [up EXCEPT ![c] = u] /\ pc' = [pc EXCEPT ![c] = "finish"]
    BY <1>3 DEF Stall, Goto
  <2> HIDE DEF u
  <2>4. up' \in [Conn -> Upload] /\ pc' \in [Conn -> Labels] /\ \A d \in Conn : BodyInv(d)' /\ ReadyInv(d)'
    BY <2>1, <2>2, <2>3, LocalStep
  <2>5. faults' \in 0..MaxFaults
    <3>1. faults \in 0..MaxFaults /\ MaxFaults \in Nat
      BY SizeAssumption DEF TypeInv, TypeOK
    <3> QED
      BY <1>3, <3>1 DEF Stall
  <2> QED
    BY <1>3, <2>4, <2>5 DEF Stall, TypeInv, TypeOK, serverVars, cardVars
<1>4. CASE Recv(c)
  <2>1. PICK rcvd \in (up[c].rcvd + 1)..BodyLen(c) :
          /\ up' = [up EXCEPT ![c].rcvd = rcvd]
          /\ Goto(c, IF /\ up[c].ok /\ up[c].want > 0
                        /\ Least(rcvd - Hold, up[c].want) > up[c].streamed
                     THEN "check" ELSE AfterChunk(rcvd, c))
    BY <1>4 DEF Recv
  <2> DEFINE u == [up[c] EXCEPT !.rcvd = rcvd]
             l == IF /\ up[c].ok /\ up[c].want > 0
                     /\ Least(rcvd - Hold, up[c].want) > up[c].streamed
                  THEN "check" ELSE AfterChunk(rcvd, c)
  <2>2. rcvd \in Nat
    BY Fields, BodyLengths DEF TypeInv
  <2>3. u \in Upload /\ u.from <= u.upto /\ u.rcvd = rcvd
        /\ u.want = up[c].want /\ u.streamed = up[c].streamed
    BY <1>0, <2>2 DEF Upload, BodyInv
  <2>4. l \in Labels
    BY DEF Labels, AfterChunk
  <2>5. l \in {"check", "append"} => u.streamed < Least(u.rcvd - Hold, u.want)
    BY <2>3 DEF AfterChunk
  <2>6. l # "rest"
    BY DEF AfterChunk
  <2>7. up' = [up EXCEPT ![c] = u] /\ pc' = [pc EXCEPT ![c] = l]
    BY <2>1 DEF Goto
  <2> HIDE DEF u, l
  <2>8. up' \in [Conn -> Upload] /\ pc' \in [Conn -> Labels] /\ \A d \in Conn : BodyInv(d)' /\ ReadyInv(d)'
    BY <2>3, <2>4, <2>5, <2>6, <2>7, LocalStep
  <2> QED
    BY <1>4, <2>8 DEF Recv, TypeInv, TypeOK, serverVars, cardVars
<1> QED
  BY <1>1, <1>2, <1>3, <1>4 DEF Network

\* The steps of GetPhotoStatus.
LEMMA StatusType ==
    ASSUME TypeInv, NEW c \in Conn, StatusHandler(c)
    PROVE  TypeInv'
<1>1. CASE ReadOffset(c)
  <2>1. Goto(c, "advertise") /\ UNCHANGED up /\ "advertise" \in Labels
    BY <1>1 DEF ReadOffset, Labels
  <2>2. pc' \in [Conn -> Labels] /\ \A d \in Conn : BodyInv(d)' /\ ReadyInv(d)'
    BY <2>1, MoveStep
  <2>3. Len(part) \in 0..FileSize
    BY LenProperties, SizeAssumption DEF TypeInv, TypeOK
  <2>4. off' \in [Conn -> 0..FileSize]
    BY <1>1, <2>3 DEF ReadOffset, TypeInv, TypeOK
  <2> QED
    BY <1>1, <2>2, <2>4 DEF ReadOffset, TypeInv, TypeOK, serverVars, cardVars
<1>2. CASE Advertise(c)
  <2>1. Goto(c, "idle") /\ UNCHANGED up /\ "idle" \in Labels
    BY <1>2 DEF Advertise, Labels
  <2>2. pc' \in [Conn -> Labels] /\ \A d \in Conn : BodyInv(d)' /\ ReadyInv(d)'
    BY <2>1, MoveStep
  <2>3. FileSize \in Nat /\ off[c] \in 0..FileSize /\ off[c] \in Unset..FileSize
    BY SizeAssumption DEF TypeInv, TypeOK
  <2>4. off' \in [Conn -> 0..FileSize] /\ adv' \in [Conn -> Unset..FileSize]
    BY <1>2, <2>3 DEF Advertise, TypeInv, TypeOK
  <2>5. lastAdv' \in Unset..FileSize /\ cardOff' \in Unset..FileSize
    BY <1>2, <2>3 DEF Advertise, TypeInv, TypeOK
  <2> QED
    BY <1>2, <2>2, <2>4, <2>5 DEF Advertise, TypeInv, TypeOK
<1> QED
  BY <1>1, <1>2 DEF StatusHandler

\* The steps of the streaming loop.
LEMMA StreamType ==
    ASSUME TypeInv, NEW c \in Conn, StreamHandler(c)
    PROVE  TypeInv'
<1>0. up[c] \in Upload /\ BodyInv(c)
  BY Fields DEF TypeInv
<1>1. CASE ReadHead(c)
  <2> DEFINE u == [up[c] EXCEPT !.start = Meta(c).start, !.want = Meta(c).want]
             l == IF Meta(c).want > 0 THEN "claim" ELSE "recv"
  <2>1. u \in Upload /\ u.from <= u.upto
    BY <1>0, MetaType DEF Upload, BodyInv, TypeInv
  <2>2. l \in Labels /\ l \notin {"check", "append", "rest"}
    BY DEF Labels
  <2>3. up' = [up EXCEPT ![c] = u] /\ pc' = [pc EXCEPT ![c] = l]
    BY <1>1 DEF ReadHead, Goto
  <2> HIDE DEF u, l
  <2>4. up' \in [Conn -> Upload] /\ pc' \in [Conn -> Labels] /\ \A d \in Conn : BodyInv(d)' /\ ReadyInv(d)'
    BY <2>1, <2>2, <2>3, LocalStep
  <2> QED
    BY <1>1, <2>4 DEF ReadHead, TypeInv, TypeOK, serverVars, cardVars
<1>2. CASE ClaimWriter(c)
  <2>1. Goto(c, "begin") /\ UNCHANGED up /\ "begin" \in Labels
    BY <1>2 DEF ClaimWriter, Labels
  <2>2. pc' \in [Conn -> Labels] /\ \A d \in Conn : BodyInv(d)' /\ ReadyInv(d)'
    BY <2>1, MoveStep
  <2> QED
    BY <1>2, <2>2 DEF ClaimWriter, TypeInv, TypeOK, serverVars, cardVars
<1>3. CASE StreamBegin(c)
  <2> DEFINE u == [up[c] EXCEPT !.ok = (up[c].start = 0 \/ Len(part) = up[c].start)]
  <2>5. part' \in Seq(Unit) /\ Len(part') <= FileSize
    <3>1. << >> \in Seq(Unit) /\ Len(<< >>) = 0 /\ FileSize \in Nat
      BY EmptySeq, SizeAssumption
    <3>2. part' = << >> \/ part' = part
      BY <1>3 DEF StreamBegin
    <3>3. part \in Seq(Unit) /\ Len(part) <= FileSize
      BY DEF TypeInv, TypeOK
    <3>4. CASE part' = << >>
      <4>1. part' \in Seq(Unit)
        BY <3>4, <3>1
      <4>2. Len(part') = 0
        BY <3>4, <3>1
      <4> QED
        BY <4>1, <4>2, <3>1
    <3>5. CASE part' = part
      BY <3>3, <3>5
    <3> QED
      BY <3>2, <3>4, <3>5
  <2>1. u \in Upload /\ u.from <= u.upto
    BY <1>0 DEF Upload, BodyInv
  <2>2. "recv" \in Labels
    BY DEF Labels
  <2>3. up' = [up EXCEPT ![c] = u] /\ pc' = [pc EXCEPT ![c] = "recv"]
    BY <1>3 DEF StreamBegin, Goto
  <2> HIDE DEF u
  <2>4. up' \in [Conn -> Upload] /\ pc' \in [Conn -> Labels] /\ \A d \in Conn : BodyInv(d)' /\ ReadyInv(d)'
    BY <2>1, <2>2, <2>3, LocalStep
  <2> QED
    BY <1>3, <2>4, <2>5 DEF StreamBegin, TypeInv, TypeOK, serverVars, cardVars
<1>5. CASE CheckWriter(c)
  <2>1. Goto(c, "append") /\ UNCHANGED up /\ "append" \in Labels
    BY <1>5 DEF CheckWriter, Labels
  <2>2. up[c].streamed < Appendable(c)
    BY <1>5 DEF CheckWriter, TypeInv, ReadyInv
  <2>3. pc' \in [Conn -> Labels] /\ \A d \in Conn : BodyInv(d)' /\ ReadyInv(d)'
    BY <2>1, <2>2, MoveStep
  <2> QED
    BY <1>5, <2>3 DEF CheckWriter, TypeInv, TypeOK, serverVars, cardVars
<1>6. CASE HangUp(c)
  <2>1. /\ Leave(c, FALSE, TRUE) /\ faults' \in 0..MaxFaults
        /\ UNCHANGED lastAdv /\ UNCHANGED library /\ UNCHANGED writer
    BY <1>6 DEF HangUp, Reply, serverVars, TypeInv, TypeOK
  <2>2. part' \in Seq(Unit) /\ Len(part') <= FileSize
    BY <1>6 DEF HangUp, serverVars, TypeInv, TypeOK
  <2>3. TRUE \in BOOLEAN /\ FALSE \in BOOLEAN
    BY Fields DEF TypeInv
  <2> QED
    BY <2>1, <2>2, <2>3, ReplyType
<1>7. CASE AppendChunk(c)
  <2> DEFINE a == up[c].streamed
             b == Appendable(c)
             data == BodySlice(c, a, b)
             pos == up[c].start + a
             u == IF CanAppend(pos, data) THEN [up[c] EXCEPT !.streamed = b]
                                          ELSE [up[c] EXCEPT !.ok = FALSE]
             l == AfterChunk(up[c].rcvd, c)
  <2>1. a \in 0..FileSize /\ b \in 0..FileSize /\ a < b /\ FileSize \in Nat
    BY <1>7, Fields, AppendableType, SizeAssumption DEF AppendChunk, TypeInv, ReadyInv
  <2>2. data \in Seq(Unit)
    BY <1>0, <2>1, SliceType DEF TypeInv
  <2>3. pos \in Int /\ AppendAt(pos, data)
    BY <1>7, <2>1, Fields DEF AppendChunk, TypeInv
  <2>4. part' \in Seq(Unit) /\ Len(part') <= FileSize
    <3> HIDE DEF pos, data
    <3> QED
      BY <2>2, <2>3, AppendType DEF TypeInv
  <2>5. u \in Upload /\ u.from <= u.upto
    <3> HIDE DEF pos, data, b
    <3> QED
      BY <1>0, <2>1 DEF Upload, BodyInv
  <2>6. l \in Labels /\ l \notin {"check", "append", "rest"}
    BY DEF Labels, AfterChunk
  <2>7. up' = [up EXCEPT ![c] = u] /\ pc' = [pc EXCEPT ![c] = l]
    BY <1>7 DEF AppendChunk, Goto
  <2> HIDE DEF u, l
  <2>8. up' \in [Conn -> Upload] /\ pc' \in [Conn -> Labels] /\ \A d \in Conn : BodyInv(d)' /\ ReadyInv(d)'
    BY <2>5, <2>6, <2>7, LocalStep
  <2> QED
    BY <1>7, <2>4, <2>8 DEF AppendChunk, TypeInv, TypeOK, cardVars
<1> QED
  BY <1>1, <1>2, <1>3, <1>5, <1>6, <1>7 DEF StreamHandler

\* The steps of _finish_upload.
LEMMA FinishType ==
    ASSUME TypeInv, NEW c \in Conn, FinishHandler(c)
    PROVE  TypeInv'
<1>0. /\ up[c] \in Upload /\ BodyInv(c) /\ TypeOK
      /\ TarLen(c) \in 0..FileSize /\ FileSize \in Nat
  BY Fields, TarLenType, SizeAssumption DEF TypeInv
<1>1. CASE FinishEmpty(c)
  <2>1. /\ Leave(c, FALSE, up[c].closing) /\ faults' \in 0..MaxFaults
        /\ UNCHANGED lastAdv /\ UNCHANGED library /\ UNCHANGED writer
    BY <1>1 DEF FinishEmpty, Reply, serverVars, TypeInv, TypeOK
  <2>2. part' \in Seq(Unit) /\ Len(part') <= FileSize
    BY <1>1 DEF FinishEmpty, serverVars, TypeInv, TypeOK
  <2>3. up[c].closing \in BOOLEAN /\ FALSE \in BOOLEAN
    BY Fields DEF TypeInv
  <2> QED
    BY <2>1, <2>2, <2>3, ReplyType
<1>2. CASE FinishSuperseded(c)
  <2>1. /\ Leave(c, FALSE, TRUE) /\ faults' \in 0..MaxFaults
        /\ UNCHANGED lastAdv /\ UNCHANGED library /\ UNCHANGED writer
    BY <1>2 DEF FinishSuperseded, Reply, serverVars, TypeInv, TypeOK
  <2>2. part' \in Seq(Unit) /\ Len(part') <= FileSize
    BY <1>2 DEF FinishSuperseded, serverVars, TypeInv, TypeOK
  <2>3. TRUE \in BOOLEAN /\ FALSE \in BOOLEAN
    BY Fields DEF TypeInv
  <2> QED
    BY <2>1, <2>2, <2>3, ReplyType
<1>3. CASE FinishApply(c)
  <2> DEFINE l == ApplyStep(c)
  <2>1. Goto(c, l) /\ UNCHANGED up
    BY <1>3 DEF FinishApply
  <2>2. l \in Labels /\ l \notin {"check", "append"} /\ (l = "rest" => up[c].streamed < TarLen(c))
    BY DEF ApplyStep, Labels
  <2> HIDE DEF l
  <2>3. pc' \in [Conn -> Labels] /\ \A d \in Conn : BodyInv(d)' /\ ReadyInv(d)'
    BY <2>1, <2>2, MoveStep
  <2> QED
    BY <1>3, <2>3 DEF FinishApply, TypeInv, TypeOK, serverVars, cardVars
<1>4. CASE AppendRest(c)
  <2> DEFINE data == BodySlice(c, up[c].streamed, TarLen(c))
             pos == up[c].start + up[c].streamed
  <2>1. data \in Seq(Unit) /\ pos \in Int
    <3>1. up[c].streamed \in Nat /\ TarLen(c) \in Nat /\ up[c].streamed <= TarLen(c)
      BY <1>0, <1>4, Fields DEF AppendRest, TypeInv, ReadyInv
    <3>2. pos \in Int
      BY <1>0, Fields
    <3> QED
      BY <1>0, <3>1, <3>2, SliceType
  <2>2. AppendAt(pos, data) /\ Goto(c, "complete") /\ UNCHANGED up /\ "complete" \in Labels
    BY <1>4 DEF AppendRest, Labels
  <2>3. part' \in Seq(Unit) /\ Len(part') <= FileSize
    <3> HIDE DEF pos, data
    <3> QED
      BY <1>0, <2>1, <2>2, AppendType
  <2>4. pc' \in [Conn -> Labels] /\ \A d \in Conn : BodyInv(d)' /\ ReadyInv(d)'
    BY <2>2, MoveStep
  <2> QED
    BY <1>4, <2>3, <2>4 DEF AppendRest, TypeInv, TypeOK, cardVars
<1>5. CASE ResetSpool(c)
  <2>1. Goto(c, "rewrite") /\ UNCHANGED up /\ "rewrite" \in Labels
    BY <1>5 DEF ResetSpool, Labels
  <2>2. pc' \in [Conn -> Labels] /\ \A d \in Conn : BodyInv(d)' /\ ReadyInv(d)'
    BY <2>1, MoveStep
  <2>3. part' \in Seq(Unit) /\ Len(part') <= FileSize
    BY <1>0, <1>5, EmptySeq DEF ResetSpool
  <2> QED
    BY <1>5, <2>2, <2>3 DEF ResetSpool, TypeInv, TypeOK, serverVars, cardVars
<1>6. CASE Rewrite(c)
  <2> DEFINE data == BodySlice(c, 0, FileSize)
             pos == 0
  <2>1. data \in Seq(Unit) /\ pos \in Int
    <3>1. 0 \in Nat /\ FileSize \in Nat /\ 0 <= FileSize
      BY <1>0
    <3>2. pos \in Int
      BY <1>0, Fields
    <3> QED
      BY <1>0, <3>1, <3>2, SliceType
  <2>2. AppendAt(pos, data) /\ Goto(c, "complete") /\ UNCHANGED up /\ "complete" \in Labels
    BY <1>6 DEF Rewrite, Labels
  <2>3. part' \in Seq(Unit) /\ Len(part') <= FileSize
    <3> HIDE DEF pos, data
    <3> QED
      BY <1>0, <2>1, <2>2, AppendType
  <2>4. pc' \in [Conn -> Labels] /\ \A d \in Conn : BodyInv(d)' /\ ReadyInv(d)'
    BY <2>2, MoveStep
  <2> QED
    BY <1>6, <2>3, <2>4 DEF Rewrite, TypeInv, TypeOK, cardVars
<1>7. CASE AppendSlice(c)
  <2> DEFINE data == BodySlice(c, 0, TarLen(c))
             pos == FileSize - TarLen(c)
  <2>1. data \in Seq(Unit) /\ pos \in Int
    <3>1. 0 \in Nat /\ TarLen(c) \in Nat /\ 0 <= TarLen(c)
      BY <1>0
    <3>2. pos \in Int
      BY <1>0, Fields
    <3> QED
      BY <1>0, <3>1, <3>2, SliceType
  <2>2. AppendAt(pos, data) /\ Goto(c, "complete") /\ UNCHANGED up /\ "complete" \in Labels
    BY <1>7 DEF AppendSlice, Labels
  <2>3. part' \in Seq(Unit) /\ Len(part') <= FileSize
    <3> HIDE DEF pos, data
    <3> QED
      BY <1>0, <2>1, <2>2, AppendType
  <2>4. pc' \in [Conn -> Labels] /\ \A d \in Conn : BodyInv(d)' /\ ReadyInv(d)'
    BY <2>2, MoveStep
  <2> QED
    BY <1>7, <2>3, <2>4 DEF AppendSlice, TypeInv, TypeOK, cardVars
<1>8. CASE TryComplete(c)
  <2> DEFINE u == [up[c] EXCEPT !.asm = part]
  <2>1. u \in Upload /\ u.from <= u.upto
    BY <1>0 DEF Upload, BodyInv, TypeOK
  <2>2. "save" \in Labels
    BY DEF Labels
  <2>3. up' = [up EXCEPT ![c] = u] /\ pc' = [pc EXCEPT ![c] = "save"]
    BY <1>8 DEF TryComplete, Goto
  <2> HIDE DEF u
  <2>4. up' \in [Conn -> Upload] /\ pc' \in [Conn -> Labels] /\ \A d \in Conn : BodyInv(d)' /\ ReadyInv(d)'
    BY <2>1, <2>2, <2>3, LocalStep
  <2> QED
    BY <1>8, <2>4 DEF TryComplete, TypeInv, TypeOK, serverVars, cardVars
<1>9. CASE Incomplete(c)
  <2>1. /\ Leave(c, FALSE, up[c].closing) /\ faults' \in 0..MaxFaults
        /\ UNCHANGED lastAdv /\ UNCHANGED library /\ UNCHANGED writer
    BY <1>9 DEF Incomplete, Reply, serverVars, TypeInv, TypeOK
  <2>2. part' \in Seq(Unit) /\ Len(part') <= FileSize
    BY <1>9 DEF Incomplete, serverVars, TypeInv, TypeOK
  <2>3. up[c].closing \in BOOLEAN /\ FALSE \in BOOLEAN
    BY Fields DEF TypeInv
  <2> QED
    BY <2>1, <2>2, <2>3, ReplyType
<1>10. CASE Save(c)
  <2>1. Goto(c, "cleanup") /\ UNCHANGED up /\ "cleanup" \in Labels
    BY <1>10 DEF Save, Labels
  <2>2. pc' \in [Conn -> Labels] /\ \A d \in Conn : BodyInv(d)' /\ ReadyInv(d)'
    BY <2>1, MoveStep
  <2>3. SubSeq(up[c].asm, 1, Media) \in Seq(Unit)
    <3>1. up[c].asm \in Seq(Unit) /\ Len(up[c].asm) >= Media /\ Media \in Nat /\ Media >= 1
      BY <1>10, Fields, <1>0, SizeAssumption DEF Save, HoldsMedia
    <3>2. Len(up[c].asm) \in Nat
      BY <3>1, LenProperties
    <3>3. ASSUME NEW i \in 1..Media PROVE up[c].asm[i] \in Unit
      <4>1. i \in 1..Len(up[c].asm)
        BY <3>1, <3>2
      <4> QED
        BY <3>1, <4>1, ElementOfSeq
    <3>4. 1 \in Int /\ Media \in Int
      BY <3>1
    <3> QED
      BY ONLY <3>3, <3>4, SubSeqProperties
  <2>4. library' \in Seq(Unit)
    BY <1>10, <2>3, <1>0 DEF Save, TypeOK
  <2> QED
    BY <1>10, <2>2, <2>4 DEF Save, TypeInv, TypeOK, cardVars
<1>11. CASE Cleanup(c)
  <2>1. /\ Leave(c, TRUE, up[c].closing) /\ faults' \in 0..MaxFaults
        /\ UNCHANGED lastAdv /\ UNCHANGED library /\ UNCHANGED writer
    BY <1>11 DEF Cleanup, Reply, serverVars, TypeInv, TypeOK
  <2>2. part' \in Seq(Unit) /\ Len(part') <= FileSize
    BY <1>11, EmptySeq, SizeAssumption DEF Cleanup
  <2>3. up[c].closing \in BOOLEAN /\ TRUE \in BOOLEAN
    BY Fields DEF TypeInv
  <2> QED
    BY <2>1, <2>2, <2>3, ReplyType
<1>12. CASE Discard(c)
  <2>1. /\ Leave(c, FALSE, up[c].closing) /\ faults' \in 0..MaxFaults
        /\ UNCHANGED lastAdv /\ UNCHANGED library /\ UNCHANGED writer
    BY <1>12 DEF Discard, Reply, serverVars, TypeInv, TypeOK
  <2>2. part' \in Seq(Unit) /\ Len(part') <= FileSize
    BY <1>12, EmptySeq, SizeAssumption DEF Discard
  <2>3. up[c].closing \in BOOLEAN /\ FALSE \in BOOLEAN
    BY Fields DEF TypeInv
  <2> QED
    BY <2>1, <2>2, <2>3, ReplyType
<1>13. CASE SaveFails(c)
  <2>1. faults' \in 0..MaxFaults
    <3>1. faults \in 0..MaxFaults /\ MaxFaults \in Nat
      BY SizeAssumption DEF TypeInv, TypeOK
    <3> QED
      BY <1>13, <3>1 DEF SaveFails
  <2>2. /\ Leave(c, FALSE, TRUE) /\ part' \in Seq(Unit) /\ Len(part') <= FileSize
        /\ UNCHANGED lastAdv /\ UNCHANGED library /\ UNCHANGED writer
    BY <1>13 DEF SaveFails, serverVars, TypeInv, TypeOK
  <2> QED
    BY <2>1, <2>2, ReplyType
<1> QED
  BY <1>1, <1>2, <1>3, <1>4, <1>5, <1>6, <1>7, <1>8, <1>9, <1>10, <1>11, <1>12, <1>13
  DEF FinishHandler

LEMMA EnvironmentType ==
    ASSUME TypeInv, Abandon \/ Crash
    PROVE  TypeInv'
<1>1. faults \in 0..MaxFaults /\ MaxFaults \in Nat /\ FileSize \in Nat
  BY SizeAssumption DEF TypeInv, TypeOK
<1>2. CASE Abandon
  <2>1. faults' \in 0..MaxFaults
    BY <1>1, <1>2 DEF Abandon
  <2>2. \A d \in Conn : BodyInv(d)' /\ ReadyInv(d)'
    BY <1>2 DEF Abandon, TypeInv, BodyInv, ReadyInv, Appendable, TarLen, BodyDone, BodyLen, PayloadLen
  <2> QED
    BY <1>2, <2>1, <2>2 DEF Abandon, TypeInv, TypeOK, serverVars
<1>3. CASE Crash
  <2>1. faults' \in 0..MaxFaults
    BY <1>1, <1>3 DEF Crash
  <2>2. "closed" \in Labels /\ NoUpload \in Upload
    BY NoUploadLemma DEF Labels
  <2>3. pc' \in [Conn -> Labels] /\ up' \in [Conn -> Upload]
    BY <1>3, <2>2 DEF Crash
  <2>4. off' \in [Conn -> 0..FileSize] /\ adv' \in [Conn -> Unset..FileSize] /\ lastAdv' \in Unset..FileSize
    BY <1>1, <1>3 DEF Crash
  <2>5. ASSUME NEW d \in Conn PROVE BodyInv(d)' /\ ReadyInv(d)'
    <3>1. pc'[d] = "closed" /\ up'[d].from = 0 /\ up'[d].upto = 0
      BY <1>3 DEF Crash, NoUpload
    <3> QED
      BY <3>1 DEF BodyInv, ReadyInv
  <2> QED
    BY <1>3, <2>1, <2>3, <2>4, <2>5 DEF Crash, TypeInv, TypeOK
<1> QED
  BY <1>2, <1>3

LEMMA TypeStep == TypeInv /\ [Next]_vars => TypeInv'
<1> SUFFICES ASSUME TypeInv, [Next]_vars PROVE TypeInv'
  OBVIOUS
<1>1. ASSUME NEW c \in Conn, Card(c) \/ Network(c) \/ HandlerStep(c)
      PROVE  TypeInv'
  BY <1>1, CardType, NetworkType, StatusType, StreamType, FinishType DEF HandlerStep
<1>2. CASE Abandon \/ Crash
  BY <1>2, EnvironmentType
<1>3. CASE UNCHANGED vars
  BY <1>3 DEF vars, TypeInv, TypeOK, BodyInv, ReadyInv, Appendable, TarLen, BodyDone,
              BodyLen, PayloadLen
<1> QED
  BY <1>1, <1>2, <1>3 DEF Next

\* Every variable of the transfer keeps its type, however the card behaves: no
\* offset leaves 0..FileSize and the spool never outgrows the file.
THEOREM TypeCorrect == Spec => []TypeOK
<1>1. TypeInv => TypeOK
  BY DEF TypeInv
<1> QED
  BY TypeInit, TypeStep, <1>1, PTL DEF Spec

-----------------------------------------------------------------------------
(***************************************************************************)
(* Whatever the card does: success comes from Cleanup alone, after a Save. *)
(***************************************************************************)
FileInv ==
    /\ acked => library # << >>
    /\ \A c \in Conn : pc[c] = "cleanup" => library # << >>

LEMMA FileMove ==
    ASSUME TypeOK, FileInv, NEW c \in Conn, NEW label, label # "cleanup",
           Goto(c, label), UNCHANGED <<library, acked>>
    PROVE  FileInv'
BY DEF Goto, FileInv, TypeOK

LEMMA FileLeave ==
    ASSUME TypeOK, FileInv, NEW c \in Conn, NEW success \in BOOLEAN, NEW closing,
           Leave(c, success, closing), UNCHANGED library, success => library # << >>
    PROVE  FileInv'
<1>1. \A d \in Conn : pc'[d] = "cleanup" => pc[d] = "cleanup"
  BY DEF Leave, Goto, TypeOK
<1>2. acked' => acked \/ success
  BY DEF Leave
<1> QED
  BY <1>1, <1>2 DEF FileInv

LEMMA SaveFills ==
    ASSUME TypeOK, NEW c \in Conn, Save(c)
    PROVE  library' # << >>
<1>1. Media \in Nat /\ 1 <= Media /\ up[c].asm \in Seq(Unit) /\ Len(up[c].asm) >= Media
  BY Fields, SizeAssumption DEF Save, HoldsMedia
<1>2. ASSUME NEW i \in 1..Media PROVE up[c].asm[i] \in Unit
  <2>1. Len(up[c].asm) \in Nat
    BY <1>1, LenProperties
  <2>2. i \in 1..Len(up[c].asm)
    BY <1>1, <2>1
  <2> QED
    BY <1>1, <2>2, ElementOfSeq
<1>3. Len(SubSeq(up[c].asm, 1, Media)) = Media
  <2>1. 1 \in Int /\ Media \in Int
    BY <1>1
  <2>2. Len(SubSeq(up[c].asm, 1, Media)) = IF 1 <= Media THEN Media - 1 + 1 ELSE 0
    BY ONLY <1>2, <2>1, SubSeqProperties
  <2> QED
    BY <1>1, <2>2
<1>4. SubSeq(up[c].asm, 1, Media) # << >>
  BY <1>1, <1>3
<1> QED
  BY <1>4 DEF Save

LEMMA FileStep == TypeOK /\ FileInv /\ [Next]_vars => FileInv'
<1> SUFFICES ASSUME TypeOK, FileInv, [Next]_vars PROVE FileInv'
  OBVIOUS
<1> USE DEF serverVars, cardVars
<1>1. ASSUME NEW c \in Conn, Card(c) \/ Network(c) PROVE FileInv'
  <2>1. CASE Connect(c) \/ SendStatus(c) \/ SendUpload(c) \/ IdleClose(c) \/ Stall(c)
    <3>1. \E label \in {"idle", "status", "head", "closed", "finish"} : Goto(c, label)
      BY <2>1 DEF Connect, SendStatus, SendUpload, IdleClose, Stall
    <3>2. UNCHANGED <<library, acked>>
      BY <2>1 DEF Connect, SendStatus, SendUpload, IdleClose, Stall
    <3> QED
      BY <3>1, <3>2, FileMove
  <2>2. CASE HeadLost(c)
    BY <2>2, FileLeave DEF HeadLost, Reply
  <2>3. CASE Recv(c)
    <3>1. UNCHANGED <<library, acked>>
      BY <2>3 DEF Recv
    <3>2. \E label \in {"check", "finish", "recv"} : Goto(c, label)
      BY <2>3 DEF Recv, AfterChunk
    <3> QED
      BY <3>1, <3>2, FileMove
  <2> QED
    BY <1>1, <2>1, <2>2, <2>3 DEF Card, Network
<1>2. ASSUME NEW c \in Conn, StatusHandler(c) \/ StreamHandler(c) PROVE FileInv'
  <2>1. CASE HangUp(c)
    BY <2>1, FileLeave DEF HangUp, Reply
  <2>2. CASE AppendChunk(c)
    <3>1. UNCHANGED <<library, acked>> /\ Goto(c, AfterChunk(up[c].rcvd, c))
      BY <2>2 DEF AppendChunk
    <3>2. AfterChunk(up[c].rcvd, c) # "cleanup"
      BY DEF AfterChunk
    <3> QED
      BY <3>1, <3>2, FileMove
  <2>3. CASE ReadOffset(c) \/ Advertise(c) \/ ReadHead(c) \/ ClaimWriter(c)
             \/ StreamBegin(c) \/ CheckWriter(c)
    <3>1. \E label \in {"advertise", "idle", "claim", "recv", "begin", "append"} : Goto(c, label)
      BY <2>3 DEF ReadOffset, Advertise, ReadHead, ClaimWriter, StreamBegin, CheckWriter
    <3>2. UNCHANGED <<library, acked>>
      BY <2>3 DEF ReadOffset, Advertise, ReadHead, ClaimWriter, StreamBegin, CheckWriter
    <3> QED
      BY <3>1, <3>2, FileMove
  <2> QED
    BY <1>2, <2>1, <2>2, <2>3 DEF StatusHandler, StreamHandler
<1>3. ASSUME NEW c \in Conn, FinishHandler(c) PROVE FileInv'
  <2>1. CASE FinishEmpty(c) \/ FinishSuperseded(c) \/ Incomplete(c) \/ SaveFails(c) \/ Discard(c)
    <3>1. \E closing \in {up[c].closing, TRUE} : Leave(c, FALSE, closing)
      BY <2>1 DEF FinishEmpty, FinishSuperseded, Incomplete, SaveFails, Discard, Reply
    <3>2. UNCHANGED library
      BY <2>1 DEF FinishEmpty, FinishSuperseded, Incomplete, SaveFails, Discard, Reply
    <3> QED
      BY <3>1, <3>2, FileLeave
  <2>2. CASE FinishApply(c)
    <3>1. UNCHANGED <<library, acked>> /\ Goto(c, ApplyStep(c))
      BY <2>2 DEF FinishApply
    <3>2. ApplyStep(c) # "cleanup"
      BY DEF ApplyStep
    <3> QED
      BY <3>1, <3>2, FileMove
  <2>3. CASE AppendRest(c) \/ ResetSpool(c) \/ Rewrite(c) \/ AppendSlice(c) \/ TryComplete(c)
    <3>1. \E label \in {"complete", "rewrite", "save"} : Goto(c, label)
      BY <2>3 DEF AppendRest, ResetSpool, Rewrite, AppendSlice, TryComplete
    <3>2. UNCHANGED <<library, acked>>
      BY <2>3 DEF AppendRest, ResetSpool, Rewrite, AppendSlice, TryComplete
    <3> QED
      BY <3>1, <3>2, FileMove
  <2>4. CASE Save(c)
    BY <2>4, SaveFills DEF FileInv
  <2>5. CASE Cleanup(c)
    <3>1. Leave(c, TRUE, up[c].closing) /\ UNCHANGED library /\ pc[c] = "cleanup"
      BY <2>5 DEF Cleanup, Reply
    <3>2. library # << >>
      BY <3>1 DEF FileInv
    <3> QED
      BY <3>1, <3>2, FileLeave
  <2> QED
    BY <1>3, <2>1, <2>2, <2>3, <2>4, <2>5 DEF FinishHandler
<1>4. CASE Abandon \/ Crash
  BY <1>4 DEF Abandon, Crash, FileInv
<1>5. CASE UNCHANGED vars
  BY <1>5 DEF vars, FileInv
<1> QED
  BY <1>1, <1>2, <1>3, <1>4, <1>5 DEF Next, HandlerStep

\* Success is never answered without a stored file, however the card behaves:
\* on another connection, from another offset, with a body that ends early.
THEOREM SuccessNeedsFile == Spec => []AckedHasFile
<1>1. Init => FileInv
  BY DEF Init, FileInv
<1>2. FileInv => AckedHasFile
  BY DEF FileInv, AckedHasFile
<1> QED
  BY TypeCorrect, FileStep, <1>1, <1>2, PTL DEF Spec

-----------------------------------------------------------------------------
(***************************************************************************)
(* From here on the card uploads on the connection it asked on, from the   *)
(* offset it was told, to the end of the photo.                            *)
(***************************************************************************)
FaithfulCard == ~CrossConn /\ ~IgnoreOffset /\ ~ShortBodies

\* For such a card tar_bytes is never longer than the payload, and it is the
\* whole payload once the body is complete.
LEMMA ServingLengths ==
    ASSUME TypeOK, NEW c \in Conn, BodyInv(c), OffsetAgreed(c), pc[c] \in Serving
    PROVE  /\ PayloadLen(c) = FileSize - up[c].from
           /\ TarLen(c) <= PayloadLen(c)
           /\ BodyDone(c) => TarLen(c) = PayloadLen(c)
           /\ Appendable(c) <= PayloadLen(c)
<1>1. /\ up[c].upto = FileSize /\ up[c].want = FileSize - up[c].from
      /\ PayloadLen(c) = FileSize - up[c].from
  BY DEF OffsetAgreed, PayloadLen
<1>2. /\ PayloadLen(c) \in Nat /\ up[c].rcvd \in Nat /\ Trailer \in Nat /\ Hold \in Nat
      /\ FileSize \in Nat
  BY BodyLengths, Fields, SizeAssumption
<1>3. BodyLen(c) = PayloadLen(c) + Trailer
  BY <1>1 DEF BodyLen
<1>4. up[c].want = PayloadLen(c)
  BY <1>1
<1>5. Appendable(c) <= PayloadLen(c)
  BY <1>2, <1>4 DEF Appendable, Least
<1>6. TarLen(c) = Least(up[c].rcvd, PayloadLen(c))
  BY <1>2, <1>3, <1>4 DEF TarLen, BodyDone
<1>7. TarLen(c) <= PayloadLen(c)
  BY <1>2, <1>6 DEF Least
<1>8. BodyDone(c) => TarLen(c) = PayloadLen(c)
  BY <1>2, <1>3, <1>6 DEF BodyDone, Least
<1> QED
  BY <1>1, <1>5, <1>7, <1>8

\* The heart of the matter: appending payload units at the position they have
\* in the photo, and only at the end of the spool, keeps the spool a prefix.
LEMMA PrefixAppend ==
    ASSUME TypeOK, IsPrefix(part), NEW c \in Conn, BodyInv(c),
           NEW a \in Nat, NEW b \in Nat, a <= b, b <= PayloadLen(c),
           AppendAt(up[c].from + a, BodySlice(c, a, b))
    PROVE  IsPrefix(part')
<1> DEFINE data == BodySlice(c, a, b)
           pos == up[c].from + a
<1>1. part \in Seq(Unit) /\ Len(part) \in Nat /\ up[c].from \in Nat
  BY Fields, LenProperties DEF TypeOK
<1>2. /\ data \in Seq(Unit) /\ Len(data) = b - a
      /\ \A i \in 1..(b - a) : data[i] = BodyUnit(c, a + i)
  BY SliceType
<1>3. PayloadLen(c) \in Nat
  BY BodyLengths
<1>4. \A i \in 1..(b - a) : data[i] = pos + i
  <2>1. ASSUME NEW i \in 1..(b - a)
        PROVE  BodyUnit(c, a + i) = up[c].from + (a + i)
    <3>1. a + i <= PayloadLen(c)
      BY <1>3
    <3> QED
      BY <3>1 DEF BodyUnit
  <2> HIDE DEF data
  <2>2. \A i \in 1..(b - a) : data[i] = up[c].from + (a + i)
    BY <1>2, <2>1
  <2> QED
    BY <1>1, <2>2
<1> HIDE DEF data, pos
<1>5. CASE CanAppend(pos, data)
  <2>1. part' = part \o data
    BY <1>5 DEF AppendAt, data, pos
  <2>2. pos = Len(part)
    BY <1>5 DEF CanAppend
  <2>3. /\ Len(part \o data) = Len(part) + Len(data)
        /\ \A i \in 1..Len(part) + Len(data) :
              (part \o data)[i] = IF i <= Len(part) THEN part[i] ELSE data[i - Len(part)]
    BY <1>1, <1>2, ConcatProperties
  <2>4. ASSUME NEW i \in 1..Len(part \o data)
        PROVE  (part \o data)[i] = i
    <3>1. CASE i <= Len(part)
      BY <1>1, <1>2, <2>3, <3>1 DEF IsPrefix
    <3>2. CASE i > Len(part)
      <4>1. i - Len(part) \in 1..(b - a)
        BY <1>1, <1>2, <2>3, <3>2
      <4>2. data[i - Len(part)] = pos + (i - Len(part))
        BY <1>4, <4>1
      <4>3. i \in 1..Len(part) + Len(data) /\ ~(i <= Len(part))
        BY <1>1, <2>3, <3>2
      <4> QED
        BY <1>1, <2>2, <2>3, <4>2, <4>3
    <3> QED
      BY <1>1, <2>3, <3>1, <3>2
  <2> QED
    BY <2>1, <2>4 DEF IsPrefix
<1>6. CASE ~CanAppend(pos, data)
  BY <1>6 DEF AppendAt, data, pos
<1> QED
  BY <1>5, <1>6

LEMMA EmptyIsPrefix == IsPrefix(<< >>)
BY EmptySeq DEF IsPrefix

\* A prefix that reaches the end of the media member is a tar with the photo.
LEMMA PrefixHoldsMedia ==
    ASSUME NEW s \in Seq(Unit), IsPrefix(s), Len(s) >= Media
    PROVE  HoldsMedia(s) /\ SubSeq(s, 1, Media) = MediaUnits
<1>1. Media \in Nat /\ Media >= 1 /\ Len(s) \in Nat
  BY SizeAssumption, LenProperties
<1>2. HoldsMedia(s)
  <2>1. 1 \in 1..Len(s)
    BY <1>1
  <2>2. s[1] = 1
    BY <2>1 DEF IsPrefix
  <2> QED
    BY <2>2 DEF HoldsMedia
<1>3. ASSUME NEW i \in 1..Media PROVE s[i] \in Unit /\ s[i] = i
  <2>1. i \in 1..Len(s)
    BY <1>1
  <2> QED
    BY <2>1, ElementOfSeq DEF IsPrefix
<1>4. \A i \in 1..Media : s[i] \in Unit
  BY <1>3
<1>5. /\ SubSeq(s, 1, Media) \in Seq(Unit) /\ Len(SubSeq(s, 1, Media)) = Media
      /\ \A i \in 1..Media : SubSeq(s, 1, Media)[i] = s[i]
  <2>1. 1 \in Int /\ Media \in Int
    BY <1>1
  <2>2. /\ SubSeq(s, 1, Media) \in Seq(Unit)
        /\ Len(SubSeq(s, 1, Media)) = IF 1 <= Media THEN Media - 1 + 1 ELSE 0
        /\ \A i \in 1..(Media - 1 + 1) : SubSeq(s, 1, Media)[i] = s[1 + i - 1]
    BY ONLY <1>4, <2>1, SubSeqProperties
  <2> QED
    BY <1>1, <2>2
<1>6. MediaUnits \in Seq(Unit) /\ Len(MediaUnits) = Media /\ \A i \in 1..Media : MediaUnits[i] = i
  BY SizeAssumption DEF MediaUnits
<1> QED
  BY <1>1, <1>2, <1>3, <1>5, <1>6, SeqEqual

\* A handler not involved in a step keeps its part of the invariant.
LEMMA OtherHandler ==
    ASSUME NEW d \in Conn, OffsetAgreed(d), FinishReady(d),
           pc'[d] = pc[d], up'[d] = up[d], adv'[d] = adv[d],
           cardConn' = d => cardConn = d /\ cardOff' = cardOff,
           library = MediaUnits => library' = MediaUnits
    PROVE  OffsetAgreed(d)' /\ FinishReady(d)'
BY DEF OffsetAgreed, FinishReady, TarLen, BodyDone, BodyLen, PayloadLen, IsPrefix, MediaUnits

\* A step of connection c.
LEMMA StepOf ==
    ASSUME TypeInv, TransferInv, NEW c \in Conn, NEW l,
           pc' = [pc EXCEPT ![c] = l],
           \A d \in Conn \ {c} : up'[d] = up[d] /\ adv'[d] = adv[d],
           \A d \in Conn \ {c} : cardConn' = d => cardConn = d /\ cardOff' = cardOff,
           library' = library \/ library' = MediaUnits,
           acked' => acked \/ library = MediaUnits,
           IsPrefix(part'), OffsetAgreed(c)', FinishReady(c)'
    PROVE  TransferInv'
<1>1. LibraryIntact /\ AckedIsStored
  BY DEF TransferInv
<1>2. library = MediaUnits => library' = MediaUnits
  OBVIOUS
<1>3. LibraryIntact'
  <2>1. MediaUnits' = MediaUnits
    BY DEF MediaUnits
  <2> QED
    BY <1>1, <2>1 DEF LibraryIntact
<1>4. AckedIsStored'
  <2>1. MediaUnits' = MediaUnits
    BY DEF MediaUnits
  <2> QED
    BY <1>1, <1>2, <2>1 DEF AckedIsStored
<1>5. SpoolIsPrefix'
  BY DEF SpoolIsPrefix, IsPrefix
<1>6. ASSUME NEW d \in Conn
      PROVE  OffsetAgreed(d)' /\ FinishReady(d)'
  <2>1. CASE d = c
    BY <2>1
  <2>2. CASE d # c
    <3>1. pc'[d] = pc[d]
      BY <2>2 DEF TypeInv, TypeOK
    <3>2. OffsetAgreed(d) /\ FinishReady(d)
      BY DEF TransferInv
    <3> QED
      BY <1>2, <2>2, <3>1, <3>2, OtherHandler
  <2> QED
    BY <2>1, <2>2
<1> QED
  BY <1>3, <1>4, <1>5, <1>6 DEF TransferInv

\* Answering keeps the invariant if success is only claimed for a stored photo.
LEMMA ReplyKeeps ==
    ASSUME TypeInv, TransferInv, NEW c \in Conn,
           NEW success \in BOOLEAN, NEW closing \in BOOLEAN,
           Leave(c, success, closing), UNCHANGED library,
           success => library = MediaUnits, IsPrefix(part')
    PROVE  TransferInv'
<1> DEFINE l == IF closing THEN "closed" ELSE "idle"
<1>1. /\ pc' = [pc EXCEPT ![c] = l]
      /\ up' = [up EXCEPT ![c] = NoUpload]
      /\ adv' = IF closing THEN [adv EXCEPT ![c] = Unset] ELSE adv
      /\ cardConn' = IF closing /\ cardConn = c THEN NoConn ELSE cardConn
      /\ cardOff' = cardOff
      /\ acked' = (acked \/ (success /\ cardConn = c))
  BY DEF Leave, Goto
<1>2. pc \in [Conn -> Labels] /\ up \in [Conn -> Upload] /\ adv \in [Conn -> Unset..FileSize]
  BY DEF TypeInv, TypeOK
<1>3. pc'[c] = l /\ (closing => adv'[c] = Unset) /\ (~closing => adv'[c] = adv[c])
  BY <1>1, <1>2
<1>4. OffsetAgreed(c)
  BY DEF TransferInv
<1>5. OffsetAgreed(c)' /\ FinishReady(c)'
  BY <1>1, <1>3, <1>4, ConnAssumption DEF OffsetAgreed, FinishReady, Serving
<1>6. \A d \in Conn \ {c} : up'[d] = up[d] /\ adv'[d] = adv[d]
  BY <1>1, <1>2
<1>7. \A d \in Conn \ {c} : cardConn' = d => cardConn = d /\ cardOff' = cardOff
  BY <1>1, ConnAssumption
<1> HIDE DEF l
<1> QED
  BY <1>1, <1>5, <1>6, <1>7, StepOf
\* The card's steps: what it sends is what the server expects.
LEMMA CardKeeps ==
    ASSUME FaithfulCard, TypeInv, TransferInv, NEW c \in Conn, Card(c)
    PROVE  TransferInv'
<1>0. /\ TypeOK /\ BodyInv(c) /\ ReadyInv(c) /\ OffsetAgreed(c) /\ FinishReady(c) /\ IsPrefix(part)
      /\ pc \in [Conn -> Labels] /\ up \in [Conn -> Upload] /\ adv \in [Conn -> Unset..FileSize]
      /\ up[c] \in Upload
  BY Fields DEF TypeInv, TypeOK, TransferInv, SpoolIsPrefix
<1>1. CASE Connect(c)
  <2>1. /\ pc' = [pc EXCEPT ![c] = "idle"] /\ pc'[c] = "idle"
        /\ UNCHANGED <<part, up, library, acked>>
    BY <1>1, <1>0 DEF Connect, Goto, serverVars, cardVars
  <2>2. OffsetAgreed(c)' /\ FinishReady(c)'
    BY <1>1, <1>0, <2>1 DEF Connect, serverVars, cardVars, OffsetAgreed, FinishReady, Serving, TarLen, BodyDone, BodyLen, PayloadLen, IsPrefix, MediaUnits
  <2>3. /\ \A d \in Conn \ {c} : up'[d] = up[d] /\ adv'[d] = adv[d]
        /\ \A d \in Conn \ {c} : cardConn' = d => cardConn = d /\ cardOff' = cardOff
    BY <1>1, <1>0, <2>1 DEF Connect, serverVars, cardVars
  <2>4. IsPrefix(part')
    BY <1>0, <2>1
  <2> QED
    BY <2>1, <2>2, <2>3, <2>4, StepOf
<1>2. CASE SendStatus(c)
  <2>1. /\ pc' = [pc EXCEPT ![c] = "status"] /\ pc'[c] = "status"
        /\ UNCHANGED <<part, up, library, acked>>
    BY <1>2, <1>0 DEF SendStatus, Goto, serverVars, cardVars
  <2>2. OffsetAgreed(c)' /\ FinishReady(c)'
    BY <1>2, <1>0, <2>1 DEF SendStatus, serverVars, cardVars, OffsetAgreed, FinishReady, Serving, TarLen, BodyDone, BodyLen, PayloadLen, IsPrefix, MediaUnits
  <2>3. /\ \A d \in Conn \ {c} : up'[d] = up[d] /\ adv'[d] = adv[d]
        /\ \A d \in Conn \ {c} : cardConn' = d => cardConn = d /\ cardOff' = cardOff
    BY <1>2, <1>0, <2>1 DEF SendStatus, serverVars, cardVars
  <2>4. IsPrefix(part')
    BY <1>0, <2>1
  <2> QED
    BY <2>1, <2>2, <2>3, <2>4, StepOf
<1>3. CASE SendUpload(c)
  <2>1. /\ pc' = [pc EXCEPT ![c] = "head"] /\ pc'[c] = "head"
        /\ UNCHANGED <<part, adv, library, acked, cardConn, cardOff>>
    BY <1>3, <1>0 DEF SendUpload, Goto, serverVars, cardVars
  <2>2. up' = [up EXCEPT ![c] = [NoUpload EXCEPT !.from = cardOff, !.upto = FileSize]]
    BY <1>3 DEF SendUpload, FaithfulCard
  <2>3. up'[c].from = cardOff /\ up'[c].upto = FileSize
    BY <1>0, <2>2 DEF NoUpload
  <2>4. cardConn = c /\ adv[c] = cardOff
    BY <1>0, <1>3 DEF SendUpload, FaithfulCard, OffsetAgreed
  <2>5. OffsetAgreed(c)' /\ FinishReady(c)'
    BY <2>1, <2>3, <2>4 DEF OffsetAgreed, FinishReady, Serving
  <2>6. \A d \in Conn \ {c} : up'[d] = up[d] /\ adv'[d] = adv[d]
    BY <1>0, <2>1, <2>2
  <2>7. \A d \in Conn \ {c} : cardConn' = d => cardConn = d /\ cardOff' = cardOff
    BY <2>1
  <2>8. IsPrefix(part')
    BY <1>0, <2>1
  <2> QED
    BY <2>1, <2>5, <2>6, <2>7, <2>8, StepOf
<1> QED
  BY <1>1, <1>2, <1>3 DEF Card

\* The network's steps.
LEMMA NetworkKeeps ==
    ASSUME FaithfulCard, TypeInv, TransferInv, NEW c \in Conn, Network(c)
    PROVE  TransferInv'
<1>0. /\ TypeOK /\ BodyInv(c) /\ ReadyInv(c) /\ OffsetAgreed(c) /\ FinishReady(c) /\ IsPrefix(part)
      /\ pc \in [Conn -> Labels] /\ up \in [Conn -> Upload] /\ adv \in [Conn -> Unset..FileSize]
      /\ up[c] \in Upload
  BY Fields DEF TypeInv, TypeOK, TransferInv, SpoolIsPrefix
<1>1. CASE IdleClose(c)
  <2>1. /\ pc' = [pc EXCEPT ![c] = "closed"] /\ pc'[c] = "closed"
        /\ UNCHANGED <<part, up, library, acked>>
    BY <1>1, <1>0 DEF IdleClose, Goto, serverVars, cardVars
  <2>2. OffsetAgreed(c)' /\ FinishReady(c)'
    BY <1>1, <1>0, <2>1 DEF IdleClose, serverVars, cardVars, OffsetAgreed, FinishReady, Serving, TarLen, BodyDone, BodyLen, PayloadLen, IsPrefix, MediaUnits
  <2>3. /\ \A d \in Conn \ {c} : up'[d] = up[d] /\ adv'[d] = adv[d]
        /\ \A d \in Conn \ {c} : cardConn' = d => cardConn = d /\ cardOff' = cardOff
    BY <1>1, <1>0, <2>1 DEF IdleClose, serverVars, cardVars
  <2>4. IsPrefix(part')
    BY <1>0, <2>1
  <2> QED
    BY <2>1, <2>2, <2>3, <2>4, StepOf
<1>2. CASE HeadLost(c)
  <2>1. Leave(c, FALSE, TRUE) /\ UNCHANGED library /\ TRUE \in BOOLEAN
    BY <1>2, <1>0, Fields DEF HeadLost, Reply, serverVars
  <2>2. IsPrefix(part')
    BY <1>0, <1>2 DEF HeadLost, serverVars
  <2> QED
    BY <2>1, <2>2, ReplyKeeps
<1>3. CASE Stall(c)
  <2>1. /\ pc' = [pc EXCEPT ![c] = "finish"] /\ pc'[c] = "finish"
        /\ UNCHANGED <<library, acked, adv, cardConn, cardOff>> /\ UNCHANGED part
    BY <1>3, <1>0 DEF Stall, Goto, serverVars, cardVars
  <2>2. up'[c].from = up[c].from /\ up'[c].upto = up[c].upto /\ up'[c].start = up[c].start /\ up'[c].want = up[c].want
    BY <1>3, <1>0 DEF Stall
  <2>3. OffsetAgreed(c)' /\ FinishReady(c)'
    BY <1>0, <1>3, <2>1, <2>2 DEF Stall, OffsetAgreed, FinishReady, Serving
  <2>4. \A d \in Conn \ {c} : up'[d] = up[d] /\ adv'[d] = adv[d]
    BY <1>3, <1>0, <2>1 DEF Stall
  <2>5. \A d \in Conn \ {c} : cardConn' = d => cardConn = d /\ cardOff' = cardOff
    BY <2>1
  <2>6. IsPrefix(part')
    BY <1>0, <2>1
  <2> QED
    BY <2>1, <2>3, <2>4, <2>5, <2>6, StepOf
<1>4. CASE Recv(c)
  <2> DEFINE l == pc'[c]
  <2>1. PICK rcvd \in (up[c].rcvd + 1)..BodyLen(c) :
          /\ up' = [up EXCEPT ![c].rcvd = rcvd]
          /\ Goto(c, IF /\ up[c].ok /\ up[c].want > 0
                        /\ Least(rcvd - Hold, up[c].want) > up[c].streamed
                     THEN "check" ELSE AfterChunk(rcvd, c))
    BY <1>4 DEF Recv
  <2>2. pc' = [pc EXCEPT ![c] = l] /\ l \in {"check", "recv", "finish"}
    BY <1>0, <2>1 DEF Goto, AfterChunk
  <2>3. UNCHANGED <<part, library, acked, adv, cardConn, cardOff>>
    BY <1>4 DEF Recv, serverVars, cardVars
  <2>4. up'[c].from = up[c].from /\ up'[c].upto = up[c].upto /\ up'[c].start = up[c].start /\ up'[c].want = up[c].want
    BY <1>0, <2>1
  <2>5. OffsetAgreed(c)' /\ FinishReady(c)'
    BY <1>0, <1>4, <2>2, <2>3, <2>4 DEF Recv, OffsetAgreed, FinishReady, Serving
  <2>6. \A d \in Conn \ {c} : up'[d] = up[d] /\ adv'[d] = adv[d]
    BY <1>0, <2>1, <2>3
  <2>7. \A d \in Conn \ {c} : cardConn' = d => cardConn = d /\ cardOff' = cardOff
    BY <2>3
  <2>8. IsPrefix(part')
    BY <1>0, <2>3
  <2> HIDE DEF l
  <2> QED
    BY <2>2, <2>3, <2>5, <2>6, <2>7, <2>8, StepOf
<1> QED
  BY <1>1, <1>2, <1>3, <1>4 DEF Network

\* GetPhotoStatus: the card and the handler object learn the same offset.
LEMMA StatusKeeps ==
    ASSUME FaithfulCard, TypeInv, TransferInv, NEW c \in Conn, StatusHandler(c)
    PROVE  TransferInv'
<1>0. /\ TypeOK /\ BodyInv(c) /\ ReadyInv(c) /\ OffsetAgreed(c) /\ FinishReady(c) /\ IsPrefix(part)
      /\ pc \in [Conn -> Labels] /\ up \in [Conn -> Upload] /\ adv \in [Conn -> Unset..FileSize]
      /\ up[c] \in Upload
  BY Fields DEF TypeInv, TypeOK, TransferInv, SpoolIsPrefix
<1>1. CASE ReadOffset(c)
  <2>1. /\ pc' = [pc EXCEPT ![c] = "advertise"] /\ pc'[c] = "advertise"
        /\ UNCHANGED <<part, up, library, acked>>
    BY <1>1, <1>0 DEF ReadOffset, Goto, serverVars, cardVars
  <2>2. OffsetAgreed(c)' /\ FinishReady(c)'
    BY <1>1, <1>0, <2>1 DEF ReadOffset, serverVars, cardVars, OffsetAgreed, FinishReady, Serving, TarLen, BodyDone, BodyLen, PayloadLen, IsPrefix, MediaUnits
  <2>3. /\ \A d \in Conn \ {c} : up'[d] = up[d] /\ adv'[d] = adv[d]
        /\ \A d \in Conn \ {c} : cardConn' = d => cardConn = d /\ cardOff' = cardOff
    BY <1>1, <1>0, <2>1 DEF ReadOffset, serverVars, cardVars
  <2>4. IsPrefix(part')
    BY <1>0, <2>1
  <2> QED
    BY <2>1, <2>2, <2>3, <2>4, StepOf
<1>2. CASE Advertise(c)
  <2>1. /\ pc' = [pc EXCEPT ![c] = "idle"] /\ pc'[c] = "idle"
        /\ UNCHANGED <<part, up, library, acked>>
    BY <1>2, <1>0 DEF Advertise, Goto, serverVars, cardVars
  <2>2. OffsetAgreed(c)' /\ FinishReady(c)'
    BY <1>2, <1>0, <2>1 DEF Advertise, serverVars, cardVars, OffsetAgreed, FinishReady, Serving, TarLen, BodyDone, BodyLen, PayloadLen, IsPrefix, MediaUnits
  <2>3. /\ \A d \in Conn \ {c} : up'[d] = up[d] /\ adv'[d] = adv[d]
        /\ \A d \in Conn \ {c} : cardConn' = d => cardConn = d /\ cardOff' = cardOff
    BY <1>2, <1>0, <2>1 DEF Advertise, serverVars, cardVars
  <2>4. IsPrefix(part')
    BY <1>0, <2>1
  <2> QED
    BY <2>1, <2>2, <2>3, <2>4, StepOf
<1> QED
  BY <1>1, <1>2 DEF StatusHandler
\* The streaming loop: start and length are those of the card's slice, and every
\* chunk lands where it belongs or not at all.
LEMMA StreamKeeps ==
    ASSUME FaithfulCard, TypeInv, TransferInv, NEW c \in Conn, StreamHandler(c)
    PROVE  TransferInv'
<1>0. /\ TypeOK /\ BodyInv(c) /\ ReadyInv(c) /\ OffsetAgreed(c) /\ FinishReady(c) /\ IsPrefix(part)
      /\ pc \in [Conn -> Labels] /\ up \in [Conn -> Upload] /\ adv \in [Conn -> Unset..FileSize]
      /\ up[c] \in Upload
  BY Fields DEF TypeInv, TypeOK, TransferInv, SpoolIsPrefix
<1>1. CASE ReadHead(c)
  <2> DEFINE l == pc'[c]
  <2>1. /\ pc' = [pc EXCEPT ![c] = l] /\ l \in {"claim", "recv"}
        /\ UNCHANGED <<part, library, acked, adv, cardConn, cardOff>>
    BY <1>1, <1>0 DEF ReadHead, Goto, serverVars, cardVars
  <2>2. up[c].upto = FileSize /\ adv[c] = up[c].from
    BY <1>0, <1>1 DEF ReadHead, OffsetAgreed
  <2>3. /\ FileSize \in Nat /\ up[c].from \in 0..FileSize
        /\ Trailer \in Nat /\ Trailer <= MaxSlack /\ MaxSlack \in Nat
    BY <1>0, Fields, SizeAssumption
  <2>4. KnownOffset(c) = up[c].from
    BY <2>2, <2>3 DEF KnownOffset
  <2>5. BodyLen(c) = (FileSize - up[c].from) + Trailer
    BY <2>2 DEF BodyLen, PayloadLen
  <2>6. Slack(c, up[c].from) <= MaxSlack
    BY <2>3, <2>5 DEF Slack
  <2>7. Meta(c).start = up[c].from /\ Meta(c).want = FileSize - up[c].from
    BY <2>4, <2>6 DEF Meta
  <2>8. /\ up'[c].from = up[c].from /\ up'[c].upto = FileSize
        /\ up'[c].start = up[c].from /\ up'[c].want = FileSize - up[c].from
    BY <1>0, <1>1, <2>2, <2>7 DEF ReadHead, Upload
  <2>9. OffsetAgreed(c)' /\ FinishReady(c)'
    BY <1>0, <2>1, <2>8 DEF OffsetAgreed, FinishReady
  <2>10. \A d \in Conn \ {c} : up'[d] = up[d] /\ adv'[d] = adv[d]
    BY <1>0, <1>1, <2>1 DEF ReadHead
  <2>11. \A d \in Conn \ {c} : cardConn' = d => cardConn = d /\ cardOff' = cardOff
    BY <2>1
  <2>12. IsPrefix(part')
    BY <1>0, <2>1
  <2> HIDE DEF l
  <2> QED
    BY <2>1, <2>9, <2>10, <2>11, <2>12, StepOf
<1>2. CASE ClaimWriter(c)
  <2>1. /\ pc' = [pc EXCEPT ![c] = "begin"] /\ pc'[c] = "begin"
        /\ UNCHANGED <<part, up, library, acked>>
    BY <1>2, <1>0 DEF ClaimWriter, Goto, serverVars, cardVars
  <2>2. OffsetAgreed(c)' /\ FinishReady(c)'
    BY <1>2, <1>0, <2>1 DEF ClaimWriter, serverVars, cardVars, OffsetAgreed, FinishReady, Serving, TarLen, BodyDone, BodyLen, PayloadLen, IsPrefix, MediaUnits
  <2>3. /\ \A d \in Conn \ {c} : up'[d] = up[d] /\ adv'[d] = adv[d]
        /\ \A d \in Conn \ {c} : cardConn' = d => cardConn = d /\ cardOff' = cardOff
    BY <1>2, <1>0, <2>1 DEF ClaimWriter, serverVars, cardVars
  <2>4. IsPrefix(part')
    BY <1>0, <2>1
  <2> QED
    BY <2>1, <2>2, <2>3, <2>4, StepOf
<1>3. CASE StreamBegin(c)
  <2>1. /\ pc' = [pc EXCEPT ![c] = "recv"] /\ pc'[c] = "recv"
        /\ UNCHANGED <<library, acked, adv, cardConn, cardOff>> /\ (part' = << >> \/ part' = part)
    BY <1>3, <1>0 DEF StreamBegin, Goto, serverVars, cardVars
  <2>2. up'[c].from = up[c].from /\ up'[c].upto = up[c].upto /\ up'[c].start = up[c].start /\ up'[c].want = up[c].want
    BY <1>3, <1>0 DEF StreamBegin
  <2>3. OffsetAgreed(c)' /\ FinishReady(c)'
    BY <1>0, <1>3, <2>1, <2>2 DEF StreamBegin, OffsetAgreed, FinishReady, Serving
  <2>4. \A d \in Conn \ {c} : up'[d] = up[d] /\ adv'[d] = adv[d]
    BY <1>3, <1>0, <2>1 DEF StreamBegin
  <2>5. \A d \in Conn \ {c} : cardConn' = d => cardConn = d /\ cardOff' = cardOff
    BY <2>1
  <2>6. IsPrefix(part')
    BY <1>0, <2>1, EmptyIsPrefix
  <2> QED
    BY <2>1, <2>3, <2>4, <2>5, <2>6, StepOf
<1>5. CASE CheckWriter(c)
  <2>1. /\ pc' = [pc EXCEPT ![c] = "append"] /\ pc'[c] = "append"
        /\ UNCHANGED <<part, up, library, acked>>
    BY <1>5, <1>0 DEF CheckWriter, Goto, serverVars, cardVars
  <2>2. OffsetAgreed(c)' /\ FinishReady(c)'
    BY <1>5, <1>0, <2>1 DEF CheckWriter, serverVars, cardVars, OffsetAgreed, FinishReady, Serving, TarLen, BodyDone, BodyLen, PayloadLen, IsPrefix, MediaUnits
  <2>3. /\ \A d \in Conn \ {c} : up'[d] = up[d] /\ adv'[d] = adv[d]
        /\ \A d \in Conn \ {c} : cardConn' = d => cardConn = d /\ cardOff' = cardOff
    BY <1>5, <1>0, <2>1 DEF CheckWriter, serverVars, cardVars
  <2>4. IsPrefix(part')
    BY <1>0, <2>1
  <2> QED
    BY <2>1, <2>2, <2>3, <2>4, StepOf
<1>6. CASE HangUp(c)
  <2>1. Leave(c, FALSE, TRUE) /\ UNCHANGED library /\ TRUE \in BOOLEAN
    BY <1>6, <1>0, Fields DEF HangUp, Reply, serverVars
  <2>2. IsPrefix(part')
    BY <1>0, <1>6 DEF HangUp, serverVars
  <2> QED
    BY <2>1, <2>2, ReplyKeeps
<1>7. CASE AppendChunk(c)
  <2> DEFINE l == pc'[c]
             a == up[c].streamed
             b == Appendable(c)
  <2>1. /\ pc' = [pc EXCEPT ![c] = l] /\ l \in {"recv", "finish"} /\ pc[c] = "append"
        /\ UNCHANGED <<library, acked, adv, cardConn, cardOff>>
    BY <1>7, <1>0 DEF AppendChunk, Goto, AfterChunk, cardVars
  <2>2. up'[c].from = up[c].from /\ up'[c].upto = up[c].upto /\ up'[c].start = up[c].start /\ up'[c].want = up[c].want
    BY <1>0, <1>7 DEF AppendChunk, Upload
  <2>3. OffsetAgreed(c)' /\ FinishReady(c)'
    BY <1>0, <2>1, <2>2 DEF OffsetAgreed, FinishReady, Serving
  <2>4. \A d \in Conn \ {c} : up'[d] = up[d] /\ adv'[d] = adv[d]
    BY <1>0, <1>7, <2>1 DEF AppendChunk
  <2>5. \A d \in Conn \ {c} : cardConn' = d => cardConn = d /\ cardOff' = cardOff
    BY <2>1
  <2>6. IsPrefix(part')
    <3>1. pc[c] \in Serving /\ up[c].start = up[c].from
      BY <1>0, <2>1 DEF Serving, OffsetAgreed
    <3>2. a \in Nat /\ b \in Nat /\ a <= b /\ b <= PayloadLen(c)
      BY <1>0, <2>1, <3>1, Fields, AppendableType, ServingLengths DEF ReadyInv
    <3>3. AppendAt(up[c].from + a, BodySlice(c, a, b))
      BY <1>7, <3>1 DEF AppendChunk
    <3> HIDE DEF a, b
    <3> QED
      BY <1>0, <3>2, <3>3, PrefixAppend
  <2> HIDE DEF l
  <2> QED
    BY <2>1, <2>3, <2>4, <2>5, <2>6, StepOf
<1> QED
  BY <1>1, <1>2, <1>3, <1>5, <1>6, <1>7 DEF StreamHandler

\* _finish_upload: what is left of the slice goes where it belongs, what is saved
\* is the photo, and a broken tar is never met.
LEMMA FinishKeeps ==
    ASSUME FaithfulCard, TypeInv, TransferInv, NEW c \in Conn, FinishHandler(c)
    PROVE  TransferInv'
<1>0. /\ TypeOK /\ BodyInv(c) /\ ReadyInv(c) /\ OffsetAgreed(c) /\ FinishReady(c) /\ IsPrefix(part)
      /\ pc \in [Conn -> Labels] /\ up \in [Conn -> Upload] /\ adv \in [Conn -> Unset..FileSize]
      /\ up[c] \in Upload
  BY Fields DEF TypeInv, TypeOK, TransferInv, SpoolIsPrefix
<1>1. CASE FinishEmpty(c)
  <2>1. Leave(c, FALSE, up[c].closing) /\ UNCHANGED library /\ up[c].closing \in BOOLEAN
    BY <1>1, <1>0, Fields DEF FinishEmpty, Reply, serverVars
  <2>2. IsPrefix(part')
    BY <1>0, <1>1 DEF FinishEmpty, serverVars
  <2> QED
    BY <2>1, <2>2, ReplyKeeps
<1>2. CASE FinishSuperseded(c)
  <2>1. Leave(c, FALSE, TRUE) /\ UNCHANGED library /\ TRUE \in BOOLEAN
    BY <1>2, <1>0, Fields DEF FinishSuperseded, Reply, serverVars
  <2>2. IsPrefix(part')
    BY <1>0, <1>2 DEF FinishSuperseded, serverVars
  <2> QED
    BY <2>1, <2>2, ReplyKeeps
<1>3. CASE FinishApply(c)
  <2> DEFINE l == ApplyStep(c)
  <2>1. /\ pc' = [pc EXCEPT ![c] = l] /\ pc'[c] = l /\ pc[c] = "finish"
        /\ UNCHANGED <<part, up, library, acked, adv, cardConn, cardOff>>
    BY <1>3, <1>0 DEF FinishApply, Goto, serverVars, cardVars
  <2>2. TarLen(c)' = TarLen(c) /\ BodyDone(c)' = BodyDone(c)
    BY <2>1 DEF TarLen, BodyDone, BodyLen, PayloadLen
  <2>3. /\ l \in {"rest", "complete", "reset", "slice"}
        /\ l = "reset" => TarLen(c) >= FileSize
        /\ l = "slice" => BodyDone(c)
    BY DEF ApplyStep
  <2> HIDE DEF l
  <2>4. OffsetAgreed(c)' /\ FinishReady(c)'
    BY <1>0, <2>1, <2>2, <2>3 DEF OffsetAgreed, FinishReady, Serving
  <2>5. /\ \A d \in Conn \ {c} : up'[d] = up[d] /\ adv'[d] = adv[d]
        /\ \A d \in Conn \ {c} : cardConn' = d => cardConn = d /\ cardOff' = cardOff
    BY <2>1
  <2>6. IsPrefix(part')
    BY <1>0, <2>1
  <2> QED
    BY <2>1, <2>4, <2>5, <2>6, StepOf
<1>4. CASE AppendRest(c)
  <2>1. /\ pc' = [pc EXCEPT ![c] = "complete"] /\ pc'[c] = "complete" /\ pc[c] = "rest"
        /\ UNCHANGED <<up, library, acked, adv, cardConn, cardOff>>
    BY <1>4, <1>0 DEF AppendRest, Goto, cardVars
  <2>2. OffsetAgreed(c)' /\ FinishReady(c)'
    BY <1>0, <2>1 DEF OffsetAgreed, FinishReady, Serving
  <2>3. /\ \A d \in Conn \ {c} : up'[d] = up[d] /\ adv'[d] = adv[d]
        /\ \A d \in Conn \ {c} : cardConn' = d => cardConn = d /\ cardOff' = cardOff
    BY <2>1
  <2>4. IsPrefix(part')
    <3>1. /\ pc[c] \in Serving /\ up[c].start = up[c].from /\ up[c].from \in 0..FileSize
          /\ TarLen(c) \in 0..FileSize /\ FileSize \in Nat /\ up[c].streamed \in Nat
      BY <1>0, <2>1, Fields, TarLenType, SizeAssumption DEF Serving, OffsetAgreed
    <3>2. /\ PayloadLen(c) = FileSize - up[c].from /\ TarLen(c) <= PayloadLen(c)
          /\ BodyDone(c) => TarLen(c) = PayloadLen(c)
      BY <1>0, <3>1, ServingLengths
    <3>3. up[c].streamed < TarLen(c)
      BY <1>0, <2>1 DEF ReadyInv
    <3>4. AppendAt(up[c].from + up[c].streamed, BodySlice(c, up[c].streamed, TarLen(c)))
      BY <1>4, <3>1 DEF AppendRest
    <3> QED
      BY <1>0, <3>1, <3>2, <3>3, <3>4, PrefixAppend
  <2> QED
    BY <2>1, <2>2, <2>3, <2>4, StepOf
<1>5. CASE ResetSpool(c)
  <2>1. /\ pc' = [pc EXCEPT ![c] = "rewrite"] /\ pc'[c] = "rewrite" /\ pc[c] = "reset"
        /\ UNCHANGED <<up, library, acked, adv, cardConn, cardOff>> /\ part' = << >>
    BY <1>5, <1>0 DEF ResetSpool, Goto, cardVars
  <2>2. TarLen(c)' = TarLen(c)
    BY <2>1 DEF TarLen, BodyDone, BodyLen, PayloadLen
  <2>3. OffsetAgreed(c)' /\ FinishReady(c)'
    BY <1>0, <2>1, <2>2 DEF OffsetAgreed, FinishReady, Serving
  <2>4. /\ \A d \in Conn \ {c} : up'[d] = up[d] /\ adv'[d] = adv[d]
        /\ \A d \in Conn \ {c} : cardConn' = d => cardConn = d /\ cardOff' = cardOff
    BY <2>1
  <2>5. IsPrefix(part')
    BY <2>1, EmptyIsPrefix
  <2> QED
    BY <2>1, <2>3, <2>4, <2>5, StepOf
<1>6. CASE Rewrite(c)
  <2>1. /\ pc' = [pc EXCEPT ![c] = "complete"] /\ pc'[c] = "complete" /\ pc[c] = "rewrite"
        /\ UNCHANGED <<up, library, acked, adv, cardConn, cardOff>>
    BY <1>6, <1>0 DEF Rewrite, Goto, cardVars
  <2>2. OffsetAgreed(c)' /\ FinishReady(c)'
    BY <1>0, <2>1 DEF OffsetAgreed, FinishReady, Serving
  <2>3. /\ \A d \in Conn \ {c} : up'[d] = up[d] /\ adv'[d] = adv[d]
        /\ \A d \in Conn \ {c} : cardConn' = d => cardConn = d /\ cardOff' = cardOff
    BY <2>1
  <2>4. IsPrefix(part')
    <3>1. /\ pc[c] \in Serving /\ up[c].start = up[c].from /\ up[c].from \in 0..FileSize
          /\ TarLen(c) \in 0..FileSize /\ FileSize \in Nat /\ up[c].streamed \in Nat
      BY <1>0, <2>1, Fields, TarLenType, SizeAssumption DEF Serving, OffsetAgreed
    <3>2. /\ PayloadLen(c) = FileSize - up[c].from /\ TarLen(c) <= PayloadLen(c)
          /\ BodyDone(c) => TarLen(c) = PayloadLen(c)
      BY <1>0, <3>1, ServingLengths
    <3>3. TarLen(c) >= FileSize
      BY <1>0, <2>1 DEF FinishReady
    <3>4. up[c].from = 0 /\ PayloadLen(c) = FileSize
      BY <3>1, <3>2, <3>3
    <3>5. up[c].from + 0 = 0
      BY <3>4
    <3>6. AppendAt(up[c].from + 0, BodySlice(c, 0, FileSize))
      BY <1>6, <3>5 DEF Rewrite
    <3> QED
      BY <1>0, <3>1, <3>4, <3>6, PrefixAppend
  <2> QED
    BY <2>1, <2>2, <2>3, <2>4, StepOf
<1>7. CASE AppendSlice(c)
  <2>1. /\ pc' = [pc EXCEPT ![c] = "complete"] /\ pc'[c] = "complete" /\ pc[c] = "slice"
        /\ UNCHANGED <<up, library, acked, adv, cardConn, cardOff>>
    BY <1>7, <1>0 DEF AppendSlice, Goto, cardVars
  <2>2. OffsetAgreed(c)' /\ FinishReady(c)'
    BY <1>0, <2>1 DEF OffsetAgreed, FinishReady, Serving
  <2>3. /\ \A d \in Conn \ {c} : up'[d] = up[d] /\ adv'[d] = adv[d]
        /\ \A d \in Conn \ {c} : cardConn' = d => cardConn = d /\ cardOff' = cardOff
    BY <2>1
  <2>4. IsPrefix(part')
    <3>1. /\ pc[c] \in Serving /\ up[c].start = up[c].from /\ up[c].from \in 0..FileSize
          /\ TarLen(c) \in 0..FileSize /\ FileSize \in Nat /\ up[c].streamed \in Nat
      BY <1>0, <2>1, Fields, TarLenType, SizeAssumption DEF Serving, OffsetAgreed
    <3>2. /\ PayloadLen(c) = FileSize - up[c].from /\ TarLen(c) <= PayloadLen(c)
          /\ BodyDone(c) => TarLen(c) = PayloadLen(c)
      BY <1>0, <3>1, ServingLengths
    <3>3. TarLen(c) = PayloadLen(c)
      BY <1>0, <2>1, <3>2 DEF FinishReady
    <3>4. FileSize - TarLen(c) = up[c].from + 0
      BY <3>1, <3>2, <3>3
    <3>5. AppendAt(up[c].from + 0, BodySlice(c, 0, TarLen(c)))
      BY <1>7, <3>4 DEF AppendSlice
    <3> QED
      BY <1>0, <3>1, <3>2, <3>5, PrefixAppend
  <2> QED
    BY <2>1, <2>2, <2>3, <2>4, StepOf
<1>8. CASE TryComplete(c)
  <2>1. /\ pc' = [pc EXCEPT ![c] = "save"] /\ pc'[c] = "save"
        /\ UNCHANGED <<part, library, acked, adv, cardConn, cardOff>>
    BY <1>8, <1>0 DEF TryComplete, Goto, serverVars, cardVars
  <2>2. up'[c].asm = part
    BY <1>0, <1>8 DEF TryComplete, Upload
  <2>3. Len(part) >= Media
    BY <1>8, SizeAssumption, LenProperties, <1>0 DEF TryComplete, Complete, HoldsMedia, TypeOK
  <2>4. OffsetAgreed(c)' /\ FinishReady(c)'
    BY <1>0, <2>1, <2>2, <2>3 DEF OffsetAgreed, FinishReady, Serving, IsPrefix
  <2>5. \A d \in Conn \ {c} : up'[d] = up[d] /\ adv'[d] = adv[d]
    BY <1>0, <1>8, <2>1 DEF TryComplete
  <2>6. \A d \in Conn \ {c} : cardConn' = d => cardConn = d /\ cardOff' = cardOff
    BY <2>1
  <2>7. IsPrefix(part')
    BY <1>0, <2>1
  <2> QED
    BY <2>1, <2>4, <2>5, <2>6, <2>7, StepOf
<1>9. CASE Incomplete(c)
  <2>1. Leave(c, FALSE, up[c].closing) /\ UNCHANGED library /\ up[c].closing \in BOOLEAN
    BY <1>9, <1>0, Fields DEF Incomplete, Reply, serverVars
  <2>2. IsPrefix(part')
    BY <1>0, <1>9 DEF Incomplete, serverVars
  <2> QED
    BY <2>1, <2>2, ReplyKeeps
<1>10. CASE Save(c)
  <2>1. /\ pc' = [pc EXCEPT ![c] = "cleanup"] /\ pc'[c] = "cleanup" /\ pc[c] = "save"
        /\ UNCHANGED <<part, up, acked, adv, cardConn, cardOff>>
    BY <1>10, <1>0 DEF Save, Goto, cardVars
  <2>2. SubSeq(up[c].asm, 1, Media) = MediaUnits
    BY <1>0, <2>1, Fields, PrefixHoldsMedia DEF FinishReady
  <2>3. library' = MediaUnits /\ MediaUnits' = MediaUnits
    BY <1>10, <2>2 DEF Save, TransferInv, LibraryIntact, MediaUnits
  <2>4. OffsetAgreed(c)' /\ FinishReady(c)'
    BY <1>0, <2>1, <2>3 DEF OffsetAgreed, FinishReady, Serving
  <2>5. /\ \A d \in Conn \ {c} : up'[d] = up[d] /\ adv'[d] = adv[d]
        /\ \A d \in Conn \ {c} : cardConn' = d => cardConn = d /\ cardOff' = cardOff
    BY <2>1
  <2>6. IsPrefix(part')
    BY <1>0, <2>1
  <2> QED
    BY <2>1, <2>3, <2>4, <2>5, <2>6, StepOf
<1>11. CASE Cleanup(c)
  <2>1. Leave(c, TRUE, up[c].closing) /\ UNCHANGED library /\ up[c].closing \in BOOLEAN
    BY <1>11, <1>0, Fields DEF Cleanup, Reply
  <2>2. library = MediaUnits
    BY <1>0, <1>11 DEF Cleanup, FinishReady
  <2>3. IsPrefix(part')
    BY <1>11, EmptyIsPrefix DEF Cleanup
  <2> QED
    BY <2>1, <2>2, <2>3, ReplyKeeps
<1>12. CASE Discard(c)
  BY <1>0, <1>12, Fields, PrefixHoldsMedia DEF Discard, FinishReady
<1>13. CASE SaveFails(c)
  <2>1. Leave(c, FALSE, TRUE) /\ UNCHANGED library /\ IsPrefix(part')
    BY <1>0, <1>13 DEF SaveFails, serverVars
  <2> QED
    BY <2>1, ReplyKeeps
<1> QED
  BY <1>1, <1>2, <1>3, <1>4, <1>5, <1>6, <1>7, <1>8, <1>9, <1>10, <1>11, <1>12, <1>13
  DEF FinishHandler

LEMMA EnvironmentKeeps ==
    ASSUME TypeInv, TransferInv, Abandon \/ Crash
    PROVE  TransferInv'
<1>1. /\ UNCHANGED <<part, library, acked>> /\ MediaUnits' = MediaUnits
  BY DEF Abandon, Crash, serverVars, MediaUnits
<1>2. SpoolIsPrefix' /\ LibraryIntact' /\ AckedIsStored'
  BY <1>1 DEF TransferInv, SpoolIsPrefix, IsPrefix, LibraryIntact, AckedIsStored
<1>3. ASSUME NEW d \in Conn PROVE OffsetAgreed(d)' /\ FinishReady(d)'
  <2>1. OffsetAgreed(d) /\ FinishReady(d)
    BY DEF TransferInv
  <2>2. CASE Abandon
    BY <1>1, <2>1, <2>2, ConnAssumption, OtherHandler DEF Abandon, serverVars
  <2>3. CASE Crash
    <3>1. pc'[d] = "closed" /\ adv'[d] = Unset
      BY <2>3 DEF Crash
    <3> QED
      BY <3>1 DEF OffsetAgreed, FinishReady, Serving
  <2> QED
    BY <2>2, <2>3
<1> QED
  BY <1>2, <1>3 DEF TransferInv

LEMMA TransferInit == Init => TransferInv
<1> SUFFICES ASSUME Init PROVE TransferInv
  OBVIOUS
<1>1. SpoolIsPrefix /\ LibraryIntact /\ AckedIsStored
  BY EmptyIsPrefix DEF Init, SpoolIsPrefix, LibraryIntact, AckedIsStored
<1>2. ASSUME NEW c \in Conn PROVE OffsetAgreed(c) /\ FinishReady(c)
  <2>1. pc[c] = "closed" /\ adv[c] = Unset
    BY DEF Init
  <2> QED
    BY <2>1 DEF OffsetAgreed, FinishReady, Serving
<1> QED
  BY <1>1, <1>2 DEF TransferInv

LEMMA TransferStep ==
    ASSUME FaithfulCard
    PROVE  TypeInv /\ TransferInv /\ [Next]_vars => TransferInv'
<1> SUFFICES ASSUME TypeInv, TransferInv, [Next]_vars PROVE TransferInv'
  OBVIOUS
<1>1. ASSUME NEW c \in Conn, Card(c) \/ Network(c) \/ HandlerStep(c)
      PROVE  TransferInv'
  BY <1>1, CardKeeps, NetworkKeeps, StatusKeeps, StreamKeeps, FinishKeeps DEF HandlerStep
<1>2. CASE Abandon \/ Crash
  BY <1>2, EnvironmentKeeps
<1>3. CASE UNCHANGED vars
  BY <1>3 DEF vars, TransferInv, SpoolIsPrefix, LibraryIntact, AckedIsStored, OffsetAgreed,
              FinishReady, TarLen, BodyDone, BodyLen, PayloadLen, IsPrefix, MediaUnits
<1> QED
  BY <1>1, <1>2, <1>3 DEF Next

\* The inductive invariant of the transfer: every handler at work has the start
\* and the length of the slice its card sends.
THEOREM TransferCorrect ==
    ASSUME FaithfulCard
    PROVE  Spec => []TransferSound
<1>1. TypeInv /\ TransferInv => TransferSound
  BY DEF TypeInv, TransferSound
<1> QED
  BY TypeInit, TypeStep, TransferInit, TransferStep, <1>1, PTL DEF Spec

\* No interleaving of old and new connections, drops, stalls and restarts ever
\* leaves anything but a prefix of the photo in the spool.
THEOREM SpoolNeverCorrupt ==
    ASSUME FaithfulCard
    PROVE  Spec => []SpoolIsPrefix
<1>1. TransferSound => SpoolIsPrefix
  BY DEF TransferSound, TransferInv
<1> QED
  BY TransferCorrect, <1>1, PTL

\* What is stored is the photo, whichever connections brought it.
THEOREM StoredWhole ==
    ASSUME FaithfulCard
    PROVE  Spec => []LibraryIntact
<1>1. TransferSound => LibraryIntact
  BY DEF TransferSound, TransferInv
<1> QED
  BY TransferCorrect, <1>1, PTL

\* Success is only answered for a photo that is stored as it was taken.
THEOREM StoredAndAcknowledged ==
    ASSUME FaithfulCard
    PROVE  Spec => []AckedIsStored
<1>1. TransferSound => AckedIsStored
  BY DEF TransferSound, TransferInv
<1> QED
  BY TransferCorrect, <1>1, PTL

LEMMA AppendGrows ==
    ASSUME TypeOK, NEW pos, NEW data \in Seq(Unit), AppendAt(pos, data)
    PROVE  ~(Len(part') < Len(part))
<1>1. part \in Seq(Unit) /\ Len(part) \in Nat /\ Len(data) \in Nat
  BY LenProperties DEF TypeOK
<1>2. Len(part \o data) = Len(part) + Len(data)
  BY <1>1, ConcatProperties
<1>3. part' = part \/ part' = part \o data
  BY DEF AppendAt
<1> QED
  BY <1>1, <1>2, <1>3

\* One step of a handler gives received data up only as NothingLost allows.
LEMMA NothingLostStep ==
    ASSUME FaithfulCard, TypeInv, TransferInv, [Next]_vars, Len(part') < Len(part)
    PROVE  \/ library = MediaUnits
           \/ \E c \in Conn : pc[c] \in {"begin", "reset"} /\ up[c].from = 0
<1>1. part' # part
  <2>1. Len(part) \in Nat
    BY LenProperties DEF TypeInv, TypeOK
  <2> QED
    BY <2>1
<1>2. PICK c \in Conn : StreamHandler(c) \/ FinishHandler(c)
  BY <1>1 DEF Next, vars, Card, Connect, SendStatus, SendUpload, Network, IdleClose, HeadLost,
      Stall, Recv, HandlerStep, StatusHandler, ReadOffset, Advertise, Abandon, Crash, serverVars
<1>3. /\ TypeOK /\ BodyInv(c) /\ ReadyInv(c) /\ OffsetAgreed(c) /\ FinishReady(c)
      /\ up[c].from \in 0..FileSize /\ up[c].streamed \in 0..FileSize
      /\ TarLen(c) \in 0..FileSize /\ FileSize \in Nat
  BY Fields, TarLenType, SizeAssumption DEF TypeInv, TransferInv
<1>4. CASE StreamBegin(c)
  <2>1. up[c].start = 0 /\ pc[c] = "begin"
    BY <1>1, <1>4 DEF StreamBegin
  <2> QED
    BY <1>3, <2>1 DEF OffsetAgreed, Serving
<1>5. CASE ResetSpool(c)
  <2>1. pc[c] = "reset" /\ pc[c] \in Serving
    BY <1>5 DEF ResetSpool, Serving
  <2>2. TarLen(c) >= FileSize /\ TarLen(c) <= FileSize - up[c].from
    BY <1>3, <2>1, ServingLengths DEF FinishReady
  <2>3. up[c].from = 0
    BY <1>3, <2>2
  <2> QED
    BY <2>1, <2>3
<1>6. CASE Cleanup(c)
  BY <1>3, <1>6 DEF Cleanup, FinishReady
<1>7. CASE Discard(c)
  BY <1>3, <1>7, Fields, PrefixHoldsMedia DEF Discard, FinishReady
<1>8. CASE AppendChunk(c)
  <2>1. up[c].streamed < Appendable(c) /\ Appendable(c) \in Int
    BY <1>3, <1>8, AppendableType DEF AppendChunk, ReadyInv
  <2>2. BodySlice(c, up[c].streamed, Appendable(c)) \in Seq(Unit)
    <3>1. /\ up[c].streamed \in Nat /\ Appendable(c) \in Nat
          /\ up[c].streamed <= Appendable(c)
      BY <1>3, <2>1
    <3> QED
      BY <1>3, <3>1, SliceType
  <2> QED
    BY <1>3, <1>8, <2>2, AppendGrows DEF AppendChunk
<1>9. CASE AppendRest(c)
  <2>1. up[c].streamed < TarLen(c)
    BY <1>3, <1>9 DEF AppendRest, ReadyInv
  <2>2. BodySlice(c, up[c].streamed, TarLen(c)) \in Seq(Unit)
    BY <1>3, <2>1, SliceType
  <2> QED
    BY <1>3, <1>9, <2>2, AppendGrows DEF AppendRest
<1>10. CASE Rewrite(c)
  <2>1. BodySlice(c, 0, FileSize) \in Seq(Unit)
    <3>1. 0 \in Nat /\ 0 <= FileSize
      BY <1>3
    <3> QED
      BY <1>3, <3>1, SliceType
  <2> QED
    BY <1>3, <1>10, <2>1, AppendGrows DEF Rewrite
<1>11. CASE AppendSlice(c)
  <2>1. BodySlice(c, 0, TarLen(c)) \in Seq(Unit)
    <3>1. 0 \in Nat /\ TarLen(c) \in Nat /\ 0 <= TarLen(c)
      BY <1>3
    <3> QED
      BY <1>3, <3>1, SliceType
  <2> QED
    BY <1>3, <1>11, <2>1, AppendGrows DEF AppendSlice
<1>12. CASE \/ ReadHead(c) \/ ClaimWriter(c) \/ CheckWriter(c) \/ HangUp(c)
            \/ FinishEmpty(c) \/ FinishSuperseded(c) \/ FinishApply(c)
            \/ TryComplete(c) \/ Incomplete(c) \/ Save(c) \/ SaveFails(c)
  BY <1>1, <1>12 DEF ReadHead, ClaimWriter, CheckWriter, HangUp, FinishEmpty,
      FinishSuperseded, FinishApply, TryComplete, Incomplete, Save, SaveFails, serverVars
<1> QED
  BY <1>2, <1>4, <1>5, <1>6, <1>7, <1>8, <1>9, <1>10, <1>11, <1>12
  DEF StreamHandler, FinishHandler

\* Received data is given up only when the photo is stored, or by a handler that
\* holds the photo from its first unit.
THEOREM NoDataLost ==
    ASSUME FaithfulCard
    PROVE  Spec => NothingLost
<1>1. TypeInv /\ TransferInv /\ [Next]_vars =>
        [ Len(part') < Len(part) =>
            \/ library = MediaUnits
            \/ \E c \in Conn : pc[c] \in {"begin", "reset"} /\ up[c].from = 0 ]_vars
  BY NothingLostStep
<1> QED
  BY TypeInit, TypeStep, TransferInit, TransferStep, <1>1, PTL DEF Spec, NothingLost

\* The receiver implements its promise: with connections, retries and restarts
\* forgotten, it stores the photo once, intact, and then acknowledges it.
THEOREM ImplementsDelivery ==
    ASSUME FaithfulCard
    PROVE  Spec => DeliveryImplemented
<1>1. Init => Delivery!Init
  BY DEF Init, Delivery!Init
<1>2. TypeInv /\ TransferInv /\ TransferInv' /\ [Next]_vars => [Delivery!Next]_(Delivery!vars)
  <2> SUFFICES ASSUME TypeInv, TransferInv, TransferInv', [Next]_vars
               PROVE  [Delivery!Next]_(Delivery!vars)
    OBVIOUS
  <2>1. /\ library \in {<< >>, MediaUnits} /\ library' \in {<< >>, MediaUnits}
        /\ acked => library = MediaUnits
    BY DEF TransferInv, LibraryIntact, AckedIsStored, MediaUnits
  <2>2. Delivery!MediaUnits = MediaUnits
    BY DEF Delivery!MediaUnits, MediaUnits
  <2>3. CASE \E c \in Conn : Save(c)
    <3>1. acked' = acked /\ (library # << >> => library' = library)
      BY <2>3 DEF Save, cardVars
    <3> QED
      BY <2>1, <2>2, <3>1 DEF Delivery!Next, Delivery!Store, Delivery!vars
  <2>4. CASE \E c \in Conn : Cleanup(c)
    <3>1. PICK c \in Conn : Cleanup(c)
      BY <2>4
    <3>2. library' = library /\ library = MediaUnits
      BY <3>1 DEF Cleanup, TransferInv, FinishReady
    <3>3. acked' = (acked \/ cardConn = c)
      BY <3>1 DEF Cleanup, Reply, Leave
    <3>4. acked \in BOOLEAN
      BY DEF TypeInv, TypeOK
    <3>5. CASE acked' = acked
      BY <3>2, <3>5 DEF Delivery!vars
    <3>6. CASE acked' # acked
      <4>1. ~acked /\ acked' = TRUE
        BY <3>3, <3>4, <3>6
      <4> QED
        BY <2>2, <3>2, <4>1 DEF Delivery!Next, Delivery!Acknowledge
    <3> QED
      BY <3>5, <3>6
  <2>5. CASE ~(\E c \in Conn : Save(c) \/ Cleanup(c))
    <3>1. acked \in BOOLEAN
      BY DEF TypeInv, TypeOK
    <3>2. UNCHANGED <<library, acked>>
      <4>1. ASSUME NEW c \in Conn, Card(c) \/ Network(c) \/ StatusHandler(c) \/ StreamHandler(c)
            PROVE  UNCHANGED <<library, acked>>
        BY <3>1, <4>1 DEF Card, Connect, SendStatus, SendUpload, Network, IdleClose, HeadLost, Stall,
            Recv, StatusHandler, ReadOffset, Advertise, StreamHandler, ReadHead, ClaimWriter,
            StreamBegin, CheckWriter, HangUp, AppendChunk, Reply, Leave,
            serverVars, cardVars
      <4>2. ASSUME NEW c \in Conn, FinishHandler(c)
            PROVE  UNCHANGED <<library, acked>>
        BY <2>5, <3>1, <4>2 DEF FinishHandler, FinishEmpty, FinishSuperseded, FinishApply,
            AppendRest, ResetSpool, Rewrite, AppendSlice, TryComplete, Incomplete, SaveFails,
            Discard, Reply, Leave, serverVars, cardVars
      <4>3. CASE Abandon \/ Crash \/ UNCHANGED vars
        BY <4>3 DEF Abandon, Crash, vars, serverVars
      <4> QED
        BY <4>1, <4>2, <4>3 DEF Next, HandlerStep
    <3> QED
      BY <3>2 DEF Delivery!vars
  <2> QED
    BY <2>3, <2>4, <2>5
<1> QED
  BY TypeInit, TypeStep, TransferInit, TransferStep, <1>1, <1>2, PTL DEF Spec, Delivery!Spec, DeliveryImplemented
=============================================================================
