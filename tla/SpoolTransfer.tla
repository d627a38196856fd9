---------------------------- MODULE SpoolTransfer ----------------------------
(***************************************************************************)
(* The resumable upload of one photo (one key (mac, filename)) by one card *)
(* to the threaded HTTP server of eyefi_server.py: GetPhotoStatus, the     *)
(* streaming UploadPhoto handler, the .part spool and the writer token.    *)
(*                                                                         *)
(* Every connection has a handler thread.  The card drops connections and  *)
(* opens new ones whenever the radio fails; the handler of a dropped       *)
(* connection lives on with the data already in its socket, so several     *)
(* handlers of the same file run at once.  One action is one lock section  *)
(* or one access to state shared by the handlers (spool file, active_writer*)
(* and last_adv).                                                          *)
(*                                                                         *)
(* Data: the tar of the photo is FileSize units, unit i is written i; what *)
(* follows the payload in a request body (the digest part and the closing  *)
(* boundary) is Junk.  The first unit holds the tar header, units 1..Media *)
(* the header and the data of the media member.                            *)
(***************************************************************************)
EXTENDS Integers, Sequences

CONSTANTS
    Conn,           \* connection slots (handler threads that can coexist)
    NoConn,         \* "no connection"
    FileSize,       \* units of the tar, the filesize field of the requests
    Media,          \* units up to the end of the last media member
    Trailer,        \* units after the payload of a whole upload
    Term,           \* of these, units of the closing boundary
    Hold,           \* trailer_hold: units not streamed until the body ends
    MaxSlack,       \* the 4096 of the length check at the start of an upload
    Near,           \* the 4096 of the near-complete rescue
    CrossConn,      \* may the card upload on a connection without its own status?
    IgnoreOffset,   \* may the card resend from 0 whatever offset it was told?
    ShortBodies,    \* may the card end a well-formed body before the photo's end?
    CanCrash,       \* may the program die, or a save fail?
    MaxFaults       \* bound on drops, stalls, failed saves and crashes

ASSUME ConnAssumption == NoConn \notin Conn

ASSUME SizeAssumption ==
    /\ FileSize \in Nat \ {0}
    /\ Media \in 1..FileSize
    /\ Trailer \in Nat \ {0} /\ Term \in 1..Trailer
    /\ Hold \in Nat /\ Term <= Hold
    /\ MaxSlack \in Nat /\ Trailer <= MaxSlack
    /\ Near \in Nat
    /\ MaxFaults \in Nat

ASSUME CardAssumption ==
    /\ CrossConn \in BOOLEAN
    /\ IgnoreOffset \in BOOLEAN
    /\ ShortBodies \in BOOLEAN
    /\ CanCrash \in BOOLEAN

VARIABLES
    part,           \* content of the .part file (absent = empty)
    writer,         \* active_writer[key]: connection holding the newest token
    lastAdv,        \* last_adv[key]
    library,        \* media content stored by save_media, << >> if none
    pc,             \* pc[c]: where the handler of connection c is
    off,            \* off[c]: local "offset" of _handle_get_photo_status
    adv,            \* adv[c]: the handler object's _adv[key]
    up,             \* up[c]: locals of _handle_upload / _finish_upload
    cardConn,       \* connection the card uses now
    cardOff,        \* last offset the card was told
    acked,          \* the card received success=true
    faults          \* faults so far

serverVars == <<part, writer, lastAdv, library>>
cardVars == <<cardConn, cardOff, acked>>
vars == <<part, writer, lastAdv, library, pc, off, adv, up,
          cardConn, cardOff, acked, faults>>

-----------------------------------------------------------------------------
Junk == 0
Unset == -1
Unit == 0..FileSize

MediaUnits == [i \in 1..Media |-> i]

Least(a, b) == IF a <= b THEN a ELSE b

\* Locals of an upload before its headers are read, and of a handler that
\* serves no upload.
NoUpload == [from |-> 0, upto |-> 0, start |-> 0, want |-> 0, rcvd |-> 0,
             streamed |-> 0, ok |-> FALSE, closing |-> FALSE, asm |-> << >>]

\* The body the card sends on c, counted from payload_start: the photo's units
\* up.from + 1 .. up.upto, then the trailer.
PayloadLen(c) == up[c].upto - up[c].from
BodyLen(c) == PayloadLen(c) + (IF up[c].upto = FileSize THEN Trailer ELSE Term)
BodyUnit(c, i) == IF i <= PayloadLen(c) THEN up[c].from + i ELSE Junk
BodySlice(c, a, b) == [i \in 1..(b - a) |-> BodyUnit(c, a + i)]
BodyDone(c) == up[c].rcvd = BodyLen(c)

\* start_offset before the length check: the offset this handler object told,
\* else the last one any handler told, else 0.
KnownOffset(c) ==
    IF adv[c] # Unset THEN adv[c]
    ELSE IF lastAdv # Unset THEN lastAdv ELSE 0

\* The length check: the declared body length may exceed payload_start +
\* expected_len by a trailer of at most MaxSlack units.
Slack(c, start) == BodyLen(c) - (FileSize - start)

Meta(c) ==
    LET s == KnownOffset(c)
    IN  IF Slack(c, s) <= MaxSlack
        THEN [start |-> s, want |-> FileSize - s]
        ELSE IF Slack(c, 0) \in 0..MaxSlack
        THEN [start |-> 0, want |-> FileSize]
        ELSE [start |-> s, want |-> -1]

\* End of what may be streamed now; the last Hold units are withheld.
Appendable(c) == Least(up[c].rcvd - Hold, up[c].want)

\* Length of tar_bytes: cut by arithmetic when the upload had a length,
\* otherwise the FILENAME part as split_multipart finds it.
TarLen(c) ==
    IF up[c].want > 0
    THEN Least(IF BodyDone(c) /\ up[c].rcvd < up[c].want
               THEN up[c].rcvd - Term ELSE up[c].rcvd, up[c].want)
    ELSE Least(up[c].rcvd, PayloadLen(c))

\* Mutants: append without the position check; without any check.
MutantCanAppend(pos, data) == pos + Len(data) <= FileSize
\* spool_append_at: only at the current end, never past FileSize.
CanAppend(pos, data) == pos = Len(part) /\ pos + Len(data) <= FileSize

AppendAt(pos, data) ==
    part' = IF CanAppend(pos, data) THEN part \o data ELSE part

\* tar_media_complete and extract_media_from_tar need the header at the front
\* and the member's data inside; they do not look at the data.
HoldsMedia(tar) == Len(tar) >= Media /\ tar[1] = 1
-----------------------------------------------------------------------------
Init ==
    /\ part = << >>
    /\ writer = NoConn
    /\ lastAdv = Unset
    /\ library = << >>
    /\ pc = [c \in Conn |-> "closed"]
    /\ off = [c \in Conn |-> 0]
    /\ adv = [c \in Conn |-> Unset]
    /\ up = [c \in Conn |-> NoUpload]
    /\ cardConn = NoConn
    /\ cardOff = Unset
    /\ acked = FALSE
    /\ faults = 0

Goto(c, label) == pc' = [pc EXCEPT ![c] = label]

\* The handler answers and returns.  A closing connection ends with it; the
\* answer reaches the card if the card still uses this connection.
Leave(c, success, closing) ==
    /\ Goto(c, IF closing THEN "closed" ELSE "idle")
    /\ adv' = IF closing THEN [adv EXCEPT ![c] = Unset] ELSE adv
    /\ up' = [up EXCEPT ![c] = NoUpload]
    /\ acked' = (acked \/ (success /\ cardConn = c))
    /\ cardConn' = IF closing /\ cardConn = c THEN NoConn ELSE cardConn
    /\ UNCHANGED <<off, cardOff>>

Reply(c, success, closing) == Leave(c, success, closing) /\ UNCHANGED faults

(***************************************************************************)
(* The card.                                                               *)
(***************************************************************************)
Connect(c) ==
    /\ ~acked /\ cardConn = NoConn /\ pc[c] = "closed"
    /\ Goto(c, "idle")
    /\ cardConn' = c
    /\ UNCHANGED <<serverVars, off, adv, up, cardOff, acked, faults>>

SendStatus(c) ==
    /\ ~acked /\ cardConn = c /\ pc[c] = "idle"
    /\ Goto(c, "status")
    /\ UNCHANGED <<serverVars, off, adv, up, cardVars, faults>>

SendUpload(c) ==
    /\ ~acked /\ cardConn = c /\ pc[c] = "idle" /\ cardOff # Unset
    /\ CrossConn \/ adv[c] # Unset
    /\ \E from \in {cardOff} \cup (IF IgnoreOffset THEN {0} ELSE {}) :
       \E upto \in (IF ShortBodies THEN from..FileSize ELSE {FileSize}) :
          up' = [up EXCEPT ![c] = [NoUpload EXCEPT !.from = from, !.upto = upto]]
    /\ Goto(c, "head")
    /\ UNCHANGED <<serverVars, off, adv, cardVars, faults>>

\* The card gives a connection up (power saving, lost radio); the handler is
\* not told and keeps what has been sent.
Abandon ==
    /\ cardConn # NoConn /\ faults < MaxFaults
    /\ cardConn' = NoConn
    /\ faults' = faults + 1
    /\ UNCHANGED <<serverVars, pc, off, adv, up, cardOff, acked>>

\* A keep-alive connection the card has left is closed.
IdleClose(c) ==
    /\ pc[c] = "idle" /\ cardConn # c
    /\ Goto(c, "closed")
    /\ adv' = [adv EXCEPT ![c] = Unset]
    /\ UNCHANGED <<serverVars, off, up, cardVars, faults>>

(***************************************************************************)
(* GetPhotoStatus: spool_offset reads the size without the lock, then the  *)
(* offset is published in last_adv and _adv and sent.                      *)
(***************************************************************************)
ReadOffset(c) ==
    /\ pc[c] = "status"
    /\ off' = [off EXCEPT ![c] = Len(part)]
    /\ Goto(c, "advertise")
    /\ UNCHANGED <<serverVars, adv, up, cardVars, faults>>

Advertise(c) ==
    /\ pc[c] = "advertise"
    /\ lastAdv' = off[c]
    /\ adv' = [adv EXCEPT ![c] = off[c]]
    /\ off' = [off EXCEPT ![c] = 0]
    /\ cardOff' = IF cardConn = c THEN off[c] ELSE cardOff
    /\ Goto(c, "idle")
    /\ UNCHANGED <<part, writer, library, up, cardConn, acked, faults>>

(***************************************************************************)
(* UploadPhoto, the streaming loop.                                        *)
(***************************************************************************)
\* The SOAP part and the FILENAME header are in: fix start and length.
ReadHead(c) ==
    /\ pc[c] = "head"
    /\ up' = [up EXCEPT ![c] = [@ EXCEPT !.start = Meta(c).start, !.want = Meta(c).want]]
    /\ Goto(c, IF Meta(c).want > 0 THEN "claim" ELSE "recv")
    /\ UNCHANGED <<serverVars, off, adv, cardVars, faults>>

\* The body ended before the FILENAME header: success=false, then close.
HeadLost(c) ==
    /\ pc[c] = "head"
    /\ cardConn # c
    /\ Reply(c, FALSE, TRUE)
    /\ UNCHANGED serverVars

\* Mutant: the first handler keeps the file for itself.
MutantClaimWriter(c) ==
    /\ pc[c] = "claim"
    /\ writer' = IF writer = NoConn THEN c ELSE writer
    /\ Goto(c, "begin")
    /\ UNCHANGED <<part, lastAdv, library, off, adv, up, cardVars, faults>>

ClaimWriter(c) ==
    /\ pc[c] = "claim"
    /\ writer' = c
    /\ Goto(c, "begin")
    /\ UNCHANGED <<part, lastAdv, library, off, adv, up, cardVars, faults>>

StreamBegin(c) ==
    /\ pc[c] = "begin"
    /\ part' = IF up[c].start = 0 THEN << >> ELSE part
    /\ up' = [up EXCEPT ![c].ok = (up[c].start = 0 \/ Len(part) = up[c].start)]
    /\ Goto(c, "recv")
    /\ UNCHANGED <<writer, lastAdv, library, off, adv, cardVars, faults>>

\* The loop goes on until the declared length is in.
AfterChunk(rcvd, c) == IF rcvd = BodyLen(c) THEN "finish" ELSE "recv"

Recv(c) ==
    /\ pc[c] = "recv" /\ ~BodyDone(c)
    /\ \E rcvd \in (up[c].rcvd + 1)..BodyLen(c) :
          /\ up' = [up EXCEPT ![c].rcvd = rcvd]
          /\ Goto(c, IF /\ up[c].ok /\ up[c].want > 0
                        /\ Least(rcvd - Hold, up[c].want) > up[c].streamed
                     THEN "check" ELSE AfterChunk(rcvd, c))
    /\ UNCHANGED <<serverVars, off, adv, cardVars, faults>>

\* No data for UPLOAD_STALL_TIMEOUT, or the connection ended.
Stall(c) ==
    /\ pc[c] = "recv" /\ ~BodyDone(c)
    /\ cardConn = c => faults < MaxFaults
    /\ faults' = IF cardConn = c THEN faults + 1 ELSE faults
    /\ up' = [up EXCEPT ![c].closing = TRUE]
    /\ Goto(c, "finish")
    /\ UNCHANGED <<serverVars, off, adv, cardVars>>

\* writer_valid in the loop: a handler that was superseded hangs up silently.
CheckWriter(c) ==
    /\ pc[c] = "check" /\ writer = c
    /\ Goto(c, "append")
    /\ UNCHANGED <<serverVars, off, adv, up, cardVars, faults>>

HangUp(c) ==
    /\ pc[c] = "check" /\ writer # c
    /\ Reply(c, FALSE, TRUE)
    /\ UNCHANGED serverVars

AppendChunk(c) ==
    LET data == BodySlice(c, up[c].streamed, Appendable(c))
        pos  == up[c].start + up[c].streamed
    IN  /\ pc[c] = "append"
        /\ AppendAt(pos, data)
        /\ up' = [up EXCEPT ![c] =
                    IF CanAppend(pos, data) THEN [@ EXCEPT !.streamed = Appendable(c)]
                                            ELSE [@ EXCEPT !.ok = FALSE]]
        /\ Goto(c, AfterChunk(up[c].rcvd, c))
        /\ UNCHANGED <<writer, lastAdv, library, off, adv, cardVars, faults>>

(***************************************************************************)
(* _finish_upload.                                                         *)
(***************************************************************************)
\* Mutants: an upload that brought nothing, or was superseded, answers success.
MutantFinishEmpty(c) ==
    /\ pc[c] = "finish"
    /\ TarLen(c) = 0 /\ up[c].streamed = 0
    /\ Reply(c, TRUE, up[c].closing)
    /\ UNCHANGED serverVars

\* Nothing arrived and nothing was streamed.  An empty payload counts as
\* nothing, also when the offset told was the whole file.
FinishEmpty(c) ==
    /\ pc[c] = "finish"
    /\ TarLen(c) = 0 /\ up[c].streamed = 0
    /\ Reply(c, FALSE, up[c].closing)
    /\ UNCHANGED serverVars

\* A newer connection took the file over (token is None when want <= 0).
FinishSuperseded(c) ==
    /\ pc[c] = "finish"
    /\ up[c].want > 0 /\ TarLen(c) > 0 /\ writer # c
    /\ Reply(c, FALSE, TRUE)
    /\ UNCHANGED serverVars

\* Which part of tar_bytes still has to go to the spool.
ApplyStep(c) ==
    IF up[c].ok
    THEN IF up[c].streamed < TarLen(c) THEN "rest" ELSE "complete"
    ELSE IF TarLen(c) >= FileSize THEN "reset"
    ELSE IF BodyDone(c) THEN "slice" ELSE "complete"

FinishApply(c) ==
    /\ pc[c] = "finish"
    /\ TarLen(c) > 0
    /\ up[c].want > 0 => writer = c
    /\ Goto(c, ApplyStep(c))
    /\ UNCHANGED <<serverVars, off, adv, up, cardVars, faults>>

AppendRest(c) ==
    /\ pc[c] = "rest"
    /\ AppendAt(up[c].start + up[c].streamed, BodySlice(c, up[c].streamed, TarLen(c)))
    /\ Goto(c, "complete")
    /\ UNCHANGED <<writer, lastAdv, library, off, adv, up, cardVars, faults>>

\* RAM fallback with the whole file: reset, then write, in two lock sections.
ResetSpool(c) ==
    /\ pc[c] = "reset"
    /\ part' = << >>
    /\ Goto(c, "rewrite")
    /\ UNCHANGED <<writer, lastAdv, library, off, adv, up, cardVars, faults>>

Rewrite(c) ==
    /\ pc[c] = "rewrite"
    /\ AppendAt(0, BodySlice(c, 0, FileSize))
    /\ Goto(c, "complete")
    /\ UNCHANGED <<writer, lastAdv, library, off, adv, up, cardVars, faults>>

\* RAM fallback with a slice: the start is taken to be FileSize - length.
AppendSlice(c) ==
    /\ pc[c] = "slice"
    /\ AppendAt(FileSize - TarLen(c), BodySlice(c, 0, TarLen(c)))
    /\ Goto(c, "complete")
    /\ UNCHANGED <<writer, lastAdv, library, off, adv, up, cardVars, faults>>

\* Mutants: the rescue trusts the size alone; "complete" is one unit too late.
MutantRescue ==
    \/ Len(part) >= FileSize
    \/ FileSize - Len(part) \in 1..Near /\ part # << >>
MutantComplete == Len(part) > FileSize

\* spool_try_complete with its near-complete rescue.
Complete ==
    \/ Len(part) >= FileSize
    \/ FileSize - Len(part) \in 1..Near /\ part # << >> /\ HoldsMedia(part)

TryComplete(c) ==
    /\ pc[c] = "complete" /\ Complete
    /\ up' = [up EXCEPT ![c].asm = part]
    /\ Goto(c, "save")
    /\ UNCHANGED <<serverVars, off, adv, cardVars, faults>>

Incomplete(c) ==
    /\ pc[c] = "complete" /\ ~Complete
    /\ Reply(c, FALSE, up[c].closing)
    /\ UNCHANGED serverVars

\* The assembled bytes are a tar: extract and save_media, which keeps an
\* earlier file of the same name and size.
Save(c) ==
    /\ pc[c] = "save" /\ HoldsMedia(up[c].asm)
    /\ library' = IF library = << >> THEN SubSeq(up[c].asm, 1, Media) ELSE library
    /\ Goto(c, "cleanup")
    /\ UNCHANGED <<part, writer, lastAdv, off, adv, up, cardVars, faults>>

\* save_media raises (folder gone, disk full): the handler thread ends without
\* an answer, the spool stays as it is.
SaveFails(c) ==
    /\ pc[c] = "save" /\ HoldsMedia(up[c].asm)
    /\ CanCrash /\ faults < MaxFaults
    /\ faults' = faults + 1
    /\ Leave(c, FALSE, TRUE)
    /\ UNCHANGED serverVars

Cleanup(c) ==
    /\ pc[c] = "cleanup"
    /\ part' = << >>
    /\ Reply(c, TRUE, up[c].closing)
    /\ UNCHANGED <<writer, lastAdv, library>>

\* The assembled bytes are not a tar: drop the spool, start from scratch.
Discard(c) ==
    /\ pc[c] = "save" /\ ~HoldsMedia(up[c].asm)
    /\ part' = << >>
    /\ Reply(c, FALSE, up[c].closing)
    /\ UNCHANGED <<writer, lastAdv, library>>

\* The program dies and is started again: the spool and the library survive.
Crash ==
    /\ CanCrash /\ faults < MaxFaults
    /\ \E c \in Conn : pc[c] # "closed"
    /\ faults' = faults + 1
    /\ writer' = NoConn
    /\ lastAdv' = Unset
    /\ pc' = [c \in Conn |-> "closed"]
    /\ off' = [c \in Conn |-> 0]
    /\ adv' = [c \in Conn |-> Unset]
    /\ up' = [c \in Conn |-> NoUpload]
    /\ cardConn' = NoConn
    /\ UNCHANGED <<part, library, cardOff, acked>>
-----------------------------------------------------------------------------
Card(c) == Connect(c) \/ SendStatus(c) \/ SendUpload(c)

Network(c) == IdleClose(c) \/ HeadLost(c) \/ Stall(c) \/ Recv(c)

StatusHandler(c) == ReadOffset(c) \/ Advertise(c)

StreamHandler(c) ==
    \/ ReadHead(c) \/ ClaimWriter(c) \/ StreamBegin(c)
    \/ CheckWriter(c) \/ HangUp(c) \/ AppendChunk(c)

FinishHandler(c) ==
    \/ FinishEmpty(c) \/ FinishSuperseded(c) \/ FinishApply(c)
    \/ AppendRest(c) \/ ResetSpool(c) \/ Rewrite(c) \/ AppendSlice(c)
    \/ TryComplete(c) \/ Incomplete(c) \/ Save(c) \/ SaveFails(c)
    \/ Cleanup(c) \/ Discard(c)

HandlerStep(c) == StatusHandler(c) \/ StreamHandler(c) \/ FinishHandler(c)

Next ==
    \/ \E c \in Conn : Card(c) \/ Network(c) \/ HandlerStep(c)
    \/ Abandon
    \/ Crash

Spec == Init /\ [][Next]_vars

(***************************************************************************)
(* Fairness.  Handlers are threads: each step is taken.  An abandoned      *)
(* connection ends (UPLOAD_STALL_TIMEOUT, TCP close).  The card reconnects,*)
(* and on a connection that stays open it asks for the offset again and    *)
(* uploads again until the photo is acknowledged.  Nothing is assumed of   *)
(* faults; MaxFaults says that they stop.                                  *)
(***************************************************************************)
CardFairness(c) ==
    WF_vars(Connect(c)) /\ SF_vars(SendStatus(c)) /\ SF_vars(SendUpload(c))

Fairness ==
    /\ \A c \in Conn : CardFairness(c) /\ WF_vars(Network(c)) /\ WF_vars(HandlerStep(c))

FairSpec == Spec /\ Fairness
-----------------------------------------------------------------------------
Labels == {"closed", "idle", "status", "advertise", "head", "claim", "begin",
           "recv", "check", "append", "finish", "rest", "reset", "rewrite",
           "slice", "complete", "save", "cleanup"}

Upload == [from : 0..FileSize, upto : 0..FileSize, start : 0..FileSize,
           want : -1..FileSize, rcvd : Nat, streamed : 0..FileSize,
           ok : BOOLEAN, closing : BOOLEAN, asm : Seq(Unit)]

TypeOK ==
    /\ part \in Seq(Unit) /\ Len(part) <= FileSize
    /\ writer \in Conn \cup {NoConn}
    /\ lastAdv \in Unset..FileSize
    /\ library \in Seq(Unit)
    /\ pc \in [Conn -> Labels]
    /\ off \in [Conn -> 0..FileSize]
    /\ adv \in [Conn -> Unset..FileSize]
    /\ up \in [Conn -> Upload]
    /\ cardConn \in Conn \cup {NoConn}
    /\ cardOff \in Unset..FileSize
    /\ acked \in BOOLEAN
    /\ faults \in 0..MaxFaults

IsPrefix(s) == \A i \in 1..Len(s) : s[i] = i

\* The spool is a prefix of the photo's tar: no race of an old connection
\* with a new one leaves a hole, an overlap or foreign bytes in it (the claim
\* of the comment in _handle_upload).
SpoolIsPrefix == IsPrefix(part)

\* What save_media wrote is the photo.
LibraryIntact == library \in {<< >>, MediaUnits}

\* The card is told success only when the photo is stored: it will not offer
\* the photo again.
AckedIsStored == acked => library = MediaUnits

\* However the card behaves, success is not answered while nothing is stored.
AckedHasFile == acked => library # << >>

\* Received data is given up only when the photo is stored already, or by a
\* handler whose own body holds the photo from its first unit; in particular
\* an assembled tar is never found broken and thrown away.
NothingLost ==
    [][ Len(part') < Len(part) =>
          \/ library = MediaUnits
          \/ \E c \in Conn : pc[c] \in {"begin", "reset"} /\ up[c].from = 0
          ]_vars

\* The card is eventually told that the photo has arrived: once the whole file
\* is in the spool it is filed.
EventuallyAcked == <>acked

\* The one way a transfer stays unfinished for good: the spool holds the whole
\* file, and no upload that the card can still make gets it filed.
AckedOrStranded == <>acked \/ <>[](Len(part) = FileSize)

Delivery == INSTANCE PhotoDelivery WITH library <- library, acked <- acked, Media <- Media

\* The receiver keeps the promise of PhotoDelivery.
DeliveryImplemented == Delivery!Spec

(***************************************************************************)
(* What makes the properties above inductive, for a card that uploads where*)
(* it asked (~CrossConn), from where it was told (~IgnoreOffset), to the   *)
(* end of the photo (~ShortBodies).                                        *)
(***************************************************************************)
Serving == {"claim", "begin", "recv", "check", "append", "finish", "rest",
            "reset", "rewrite", "slice", "complete"}

\* The server and the card agree on the offset of the connection in use.
OffsetAgreed(c) ==
    /\ pc[c] = "closed" => adv[c] = Unset
    /\ cardConn = c /\ adv[c] # Unset => cardOff = adv[c]
    /\ pc[c] = "head" => up[c].upto = FileSize /\ adv[c] = up[c].from
    /\ pc[c] \in Serving =>
          /\ up[c].upto = FileSize
          /\ up[c].start = up[c].from
          /\ up[c].want = FileSize - up[c].from

\* Each step of _finish_upload relies on what the steps before it established.
FinishReady(c) ==
    /\ pc[c] \in {"reset", "rewrite"} => TarLen(c) >= FileSize
    /\ pc[c] = "slice" => BodyDone(c)
    /\ pc[c] = "save" => IsPrefix(up[c].asm) /\ Len(up[c].asm) >= Media
    /\ pc[c] = "cleanup" => library = MediaUnits

\* A handler at work has the start and the length of the slice the card sends,
\* whatever other handlers did since the offset was read.
TransferInv ==
    /\ SpoolIsPrefix /\ LibraryIntact /\ AckedIsStored
    /\ \A c \in Conn : OffsetAgreed(c) /\ FinishReady(c)

\* The types, the spool without holes, overlaps or foreign bytes, the stored
\* photo whole, success only for a stored photo, and what they rest on.
TransferSound == TypeOK /\ TransferInv
=============================================================================
