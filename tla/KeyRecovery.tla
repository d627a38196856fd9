---------------------------- MODULE KeyRecovery ----------------------------
(***************************************************************************)
(* The search for the upload key of a card with old firmware in what the   *)
(* official software left on the PC (key_recovery.py), and in a file the   *)
(* user picks when that finds none (_try_recover_key of gui.py).           *)
(*                                                                         *)
(* A settings file is a list of card blocks, well-formed XML or not, that  *)
(* may name a MAC outside the blocks as well; a database is a list of rows.*)
(* The key of a card is written as the card.                               *)
(***************************************************************************)
EXTENDS Integers, Sequences

CONSTANTS
    Own,            \* the card that is being registered
    Other,          \* another card of the household
    Empty,          \* no key: missing, empty or not 32 hex digits
    Zeros,          \* 32 zeros
    Token,          \* 32 hex digits that are no upload key
    PcFiles,        \* number of files in the known places
    PcBlocks,       \* bound on blocks or rows of each of these
    PickedBlocks    \* bound on those of a file the user picks

\* The kinds of keys are told apart, and the bounds are numbers.
KeysDiffer ==
    /\ Own # Other /\ {Own, Other} \cap {Empty, Zeros, Token} = {}
    /\ Empty # Zeros /\ Token \notin {Empty, Zeros}
    /\ {PcFiles, PcBlocks, PickedBlocks} \subseteq Nat

Card == {Own, Other}
Upto(n, S) == UNION {[1..k -> S] : k \in 0..n}

\* upload: UploadKey, or the column with "upload" and "key" in its name; rest:
\* another column, neither downsync nor card key.
Blocks == UNION {[mac : {c}, upload : {c, Empty, Zeros}] : c \in Card}
Rows == UNION {[mac : {c}, upload : {c, Empty}, rest : {Empty, Token}] : c \in Card}

File(n) ==
    [kind : {"xml"}, wellFormed : BOOLEAN, named : SUBSET {Own}, blocks : Upto(n, Blocks)]
      \cup [kind : {"db"}, rows : Upto(n, Rows)]

VARIABLES
    files,          \* what default_config_files returns
    next,           \* index of the file to try
    phase,          \* "search", "ask" or "done"
    picked,         \* the file the user picked, <<>> if none
    key, from       \* the key returned, Empty if none, and its file

vars == <<files, next, phase, picked, key, from>>

Init ==
    /\ files \in [1..PcFiles -> File(PcBlocks)]
    /\ next = 1 /\ phase = "search"
    /\ picked = <<>> /\ key = Empty /\ from = <<>>

(***************************************************************************)
(* The extraction from one file.                                           *)
(***************************************************************************)
\* The first of the blocks or rows I of s; one without a key if there is none.
First(s, I) ==
    IF I = {} THEN [upload |-> Empty, rest |-> Empty]
    ELSE s[CHOOSE i \in I : \A j \in I : i <= j]

Labelled(f) == {i \in 1..Len(f.blocks) : f.blocks[i].upload # Empty}
OwnBlocks(f) == {i \in 1..Len(f.blocks) : f.blocks[i].mac = Own}
OwnRows(f) == {i \in 1..Len(f.rows) : f.rows[i].mac = Own}

\* Mutant: the first key is taken, whosever it is.
MutantFromBlocks(f) == First(f.blocks, Labelled(f)).upload

\* _extract_xml_structured: the first block of the card decides.
FromBlocks(f) == First(f.blocks, OwnBlocks(f)).upload

HasBlock(f) == f.wellFormed /\ OwnBlocks(f) # {}

\* _extract_labeled_key: the first labelled key of a text that has the MAC.
FromLabels(f) ==
    IF Own \in f.named \/ OwnBlocks(f) # {} THEN First(f.blocks, Labelled(f)).upload ELSE Empty

\* extract_from_sqlite: in a row of the card the upload key column goes first.
FromRows(f) ==
    LET keyed == {i \in OwnRows(f) : f.rows[i].upload # Empty \/ f.rows[i].rest # Empty}
        r == First(f.rows, keyed)
    IN  IF r.upload # Empty THEN r.upload ELSE r.rest

\* recover_from_file; what is no database has no rows.
FromFile(f) ==
    IF f.kind = "db" THEN FromRows(f)
    ELSE IF HasBlock(f) THEN FromBlocks(f) ELSE FromLabels(f)

(***************************************************************************)
(* recover_upload_key, and the file picked by hand, which is not tested    *)
(* for zeros.                                                              *)
(***************************************************************************)
Found(k, f) == key' = k /\ from' = f /\ phase' = "done"

AfterMiss == next + 1

Search ==
    /\ phase = "search" /\ next <= PcFiles
    /\ LET k == FromFile(files[next])
       IN  IF k \notin {Empty, Zeros}
           THEN Found(k, files[next]) /\ UNCHANGED next
           ELSE next' = AfterMiss /\ UNCHANGED <<phase, key, from>>
    /\ UNCHANGED <<files, picked>>

Ask ==
    /\ phase = "search" /\ next > PcFiles
    /\ phase' = "ask"
    /\ UNCHANGED <<files, next, picked, key, from>>

Decline ==
    /\ phase = "ask"
    /\ phase' = "done"
    /\ UNCHANGED <<files, next, picked, key, from>>

Pick ==
    /\ phase = "ask"
    /\ \E f \in File(PickedBlocks) :
          /\ picked' = f
          /\ Found(FromFile(f), f)
    /\ UNCHANGED <<files, next>>

Next == Search \/ Ask \/ Decline \/ Pick

Spec == Init /\ [][Next]_vars
-----------------------------------------------------------------------------
(***************************************************************************)
(* The key is the one the card's own block or row gives.  Exceptions: the  *)
(* card has no block in well-formed XML, and the labels decide; its row has*)
(* no upload key, and another column does.  Zeros are found by hand only.  *)
(***************************************************************************)
Guessed(f) ==
    \/ f.kind = "xml" /\ ~HasBlock(f)
    \/ f.kind = "db" /\ \E i \in OwnRows(f) : f.rows[i].upload = Empty

OwnKeyOnly ==
    /\ key # Empty => key \in {Own, Zeros} \/ Guessed(from)
    /\ key = Zeros => picked # <<>>

(***************************************************************************)
(* The user is asked only when no file in the known places has a key for   *)
(* the card: an empty or zero key in one file does not hide that in the    *)
(* next.                                                                   *)
(***************************************************************************)
Holds(f) ==
    IF f.kind = "db" THEN \E i \in OwnRows(f) : f.rows[i].upload = Own
    ELSE HasBlock(f) /\ FromBlocks(f) = Own

AskedLast == phase = "ask" => \A i \in 1..PcFiles : ~Holds(files[i])
=============================================================================
