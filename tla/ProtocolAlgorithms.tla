------------------------- MODULE ProtocolAlgorithms -------------------------
(***************************************************************************)
(* The algorithms that read what a card sends (eyefi_protocol.py), on every*)
(* small input: the block checksum, the parts of a multipart body and the  *)
(* members of a tar.  The input grows as it does when it is received, so a *)
(* state is an input cut off at some point.                                *)
(***************************************************************************)
EXTENDS Integers, Sequences, FiniteSets, FiniteSetsExt, SequencesExt

CONSTANTS
    Byte,           \* values of a byte (256); a word is Byte * Byte
    MaxBlock,       \* bytes of a block (512)
    BlockSize,      \* units of a tar block (512)
    MaxMember,      \* bound on the size of a member
    MaxMembers,
    MaxPayload      \* bound on the FILENAME payload, in symbols

VARIABLES
    kind,           \* "block", "body" or "tar"
    input           \* the bytes, the body and the members with what has arrived

vars == <<kind, input>>

(***************************************************************************)
(* tcp_checksum: little-endian words, end-around carry, complement.        *)
(***************************************************************************)
Word == Byte * Byte

ByteIsByte == Byte \in Nat /\ Byte >= 2

\* An odd block is padded with one zero byte.
Padded(b) == IF Len(b) % 2 = 1 THEN b \o <<0>> ELSE b

\* The sums of the first numbers of ns.
Sums(ns) ==
    LET sum[i \in 0..Len(ns)] == IF i = 0 THEN 0 ELSE sum[i - 1] + ns[i]
    IN  sum

Sum(ns) == Sums(ns)[Len(ns)]

Words(b, low, high) ==
    [i \in 1..(Len(b) \div 2) |-> b[2 * i - 1] * low + b[2 * i] * high]

\* while total >> 16
Fold[total \in Nat] ==
    IF total < Word THEN total ELSE Fold[(total % Word) + (total \div Word)]

\* Mutant: the carry of the folding itself is lost.
MutantFolded(total) == (total % Word) + (total \div Word)

Folded(total) == Fold[total]

Checksum(b) == Word - 1 - Folded(Sum(Words(Padded(b), 1, Byte)))

(***************************************************************************)
(* split_multipart, for one part after its delimiter.  A line end and the  *)
(* delimiter are two symbols each, so that a body may be cut off in them:  *)
(* Dash is what of the delimiter has come by then, Name the rest of it.    *)
(* The payload may have any of them anywhere.                              *)
(***************************************************************************)
CR == "CR"
LF == "LF"
Dash == "--"
Name == "boundary"
Header == "header"
Data == "data"

\* A body of the card with this payload in the part.
Body(payload) ==
    <<Dash, Name, CR, LF, Header, CR, LF, CR, LF>> \o payload \o <<CR, LF, Dash, Name, Dash, CR, LF>>

Before(s, i) == SubSeq(s, 1, i - 1)
Beyond(s, i) == SubSeq(s, i + 1, Len(s))

Delims(s) == {i \in 1..(Len(s) - 1) : s[i] = Dash /\ s[i + 1] = Name}

\* The chunk between the first delimiter and the next one or the end.
Chunk(body) ==
    LET rest == Beyond(body, 2)
    IN  IF Delims(rest) = {} THEN rest ELSE Before(rest, Min(Delims(rest)))

LineEnd(s, i) == i \in 1..(Len(s) - 1) /\ s[i] = CR /\ s[i + 1] = LF

\* One line end is removed at either end.
TrimEnd(s) == IF LineEnd(s, Len(s) - 1) THEN Before(s, Len(s) - 1) ELSE s

TrimStart(s) == IF LineEnd(s, 1) THEN Beyond(s, 2) ELSE s

\* The payload after the first empty line, if there is one.
Part(body) ==
    LET chunk == TrimEnd(TrimStart(Chunk(body)))
        gaps == {i \in 1..Len(chunk) : LineEnd(chunk, i) /\ LineEnd(chunk, i + 2)}
    IN  IF gaps = {} THEN {} ELSE {Beyond(chunk, Min(gaps) + 3)}

(***************************************************************************)
(* A tar: a header block and the data, padded to blocks, of each member,   *)
(* then the closing blocks.  Only whole header blocks are looked at.  A    *)
(* member that is no file is of a type that tarfile does not know, or has  *)
(* no data: tarfile does not skip the data of a directory or a link that   *)
(* has a size (no tar writer gives it one), while tar_media_complete does. *)
(***************************************************************************)
BlockIsBlock == BlockSize \in Nat \ {0} /\ MaxMember \in Nat

Blocks(size) == ((size + BlockSize - 1) \div BlockSize) * BlockSize

\* Where the header of member m is, and where the closing blocks begin.
HeaderAt(tar, m) == (m - 1) * BlockSize + Sum([i \in 1..(m - 1) |-> Blocks(tar[i].size)])
DataEnd(tar, m) == HeaderAt(tar, m) + BlockSize + tar[m].size
TarLen(tar) == HeaderAt(tar, Len(tar) + 1) + 2 * BlockSize

At(tar, off) == {m \in 1..Len(tar) : HeaderAt(tar, m) = off}

\* Mutant: the header block is left out of the sum.
MutantEndsWithin(off, size, n) == off + size <= n

EndsWithin(off, size, n) == off + BlockSize + size <= n

\* tar_media_complete of the first n units: from block to block until a closing
\* block, or until what is left is no whole block.
Walk(tar, n) ==
    LET walk[off \in 0..TarLen(tar)] ==
            [saw \in BOOLEAN |->
                IF off + BlockSize > n \/ At(tar, off) = {} THEN saw
                ELSE LET member == tar[CHOOSE m \in At(tar, off) : TRUE]
                         next == walk[off + BlockSize + Blocks(member.size)]
                     IN  IF member.file
                         THEN EndsWithin(off, member.size, n) /\ next[TRUE]
                         ELSE next[saw]]
    IN  walk

MediaComplete(tar, n) == Walk(tar, n)[0][FALSE]

\* extract_media_from_tar: tarfile returns the members whose header is there, and
\* raises without a first one or when the data of a file is cut off.
Extracted(tar, n) == {m \in 1..Len(tar) : tar[m].file /\ HeaderAt(tar, m) + BlockSize <= n}
Raises(tar, n) == n < BlockSize \/ \E m \in Extracted(tar, n) : DataEnd(tar, m) > n
-----------------------------------------------------------------------------
SeqsUpto(n, S) == UNION {[1..k -> S] : k \in 0..n}

Init ==
    \/ kind = "block" /\ input = <<>>
    \/ /\ kind = "body"
       /\ input \in [payload : SeqsUpto(MaxPayload, {Data, CR, LF, Dash, Name}), n : {0}]
    \/ /\ kind = "tar"
       /\ input \in [tar : SeqsUpto(MaxMembers, [size : 0..MaxMember, file : BOOLEAN]) \ {<<>>},
                    n : {0}]

NextByte ==
    /\ kind = "block" /\ Len(input) < MaxBlock
    /\ \E b \in 0..(Byte - 1) : input' = Append(input, b)
    /\ UNCHANGED kind

Arrived == SubSeq(Body(input.payload), 1, input.n)

Receive ==
    /\ \/ kind = "body" /\ input.n < Len(Body(input.payload))
       \/ kind = "tar" /\ input.n < TarLen(input.tar)
    /\ input' = [input EXCEPT !.n = @ + 1]
    /\ UNCHANGED kind

Next == NextByte \/ Receive

Spec == Init /\ [][Next]_vars
-----------------------------------------------------------------------------
(***************************************************************************)
(* The checksum is the complement of the one's complement sum, which is    *)
(* the sum modulo Word - 1 with 0 for the empty sum only, however many     *)
(* carries there are.                                                      *)
(***************************************************************************)
OnesSum(n) == IF n = 0 THEN 0 ELSE ((n - 1) % (Word - 1)) + 1

ChecksumCorrect ==
    kind = "block" => Checksum(input) = Word - 1 - OnesSum(Sum(Words(Padded(input), 1, Byte)))

(***************************************************************************)
(* What verify_integrity.py relies on when it tries no other byte order    *)
(* (_checksum_stream): words summed the other way round give the same      *)
(* bytes, the other way round.                                             *)
(***************************************************************************)
Swapped(w) == ((w % Byte) * Byte) + (w \div Byte)

ByteOrderFree ==
    kind = "block" =>
        Folded(Sum(Words(Padded(input), Byte, 1))) = Swapped(Folded(Sum(Words(Padded(input), 1, Byte))))

(***************************************************************************)
(* The part of a body is its payload, byte for byte, as soon as the next   *)
(* delimiter is there.  Of a body that was cut off before, it is what came *)
(* after the header, less one line end if it ends with one, be it of the   *)
(* payload or the closing one; if the body was cut off in the closing line *)
(* end or delimiter, what came of those stays in the part, and nothing     *)
(* else ever does.  Exception: a payload with the delimiter in it is cut   *)
(* there.                                                                  *)
(***************************************************************************)
Clean(p) == Delims(p) = {}

\* What may come after the payload before the delimiter is whole.
Closing == <<CR, LF, Dash>>

\* What came after the header, from the tenth symbol on.
Came(p, n) == SubSeq(p \o Closing, 1, n - 9)

PartExact ==
    kind = "body" /\ Clean(input.payload) =>
        LET got == Part(Arrived)
            came == Came(input.payload, input.n)
            whole == input.n >= 9 + Len(input.payload) + Len(Closing) + 1
        IN  /\ input.n <= 9 => got = {}
            /\ whole => got = {input.payload}
            /\ input.n > 9 /\ ~whole =>
                  got = {IF LineEnd(came, Len(came) - 1) THEN Before(came, Len(came) - 1) ELSE came}

(***************************************************************************)
(* What is taken for complete can be extracted without an error, and gives *)
(* a file; and a whole tar with a file in it is always taken for complete  *)
(* (of the tars described above).                                          *)
(***************************************************************************)
CompleteExtracts ==
    kind = "tar" =>
        /\ MediaComplete(input.tar, input.n) =>
              ~Raises(input.tar, input.n) /\ Extracted(input.tar, input.n) # {}
        /\ input.n = TarLen(input.tar) =>
              (MediaComplete(input.tar, input.n) <=> \E m \in 1..Len(input.tar) : input.tar[m].file)
=============================================================================
