----------------------------- MODULE PhotoSpool -----------------------------
(***************************************************************************)
(* What the transfer relies on when it treats the spool of one file name   *)
(* as one object: it grows at its end, by units that follow the ones it    *)
(* has, it is emptied as a whole, and what is archived is the whole spool. *)
(***************************************************************************)
EXTENDS Integers, Sequences

CONSTANTS
    Photos,         \* photos that bear the name, one after the other
    FileSize        \* FileSize[p]: units of photo p

VARIABLES spool, archive

vars == <<spool, archive>>

Unit(p, i) == [photo |-> p, at |-> i]

\* Units a + 1 .. b of photo p.
Slice(p, a, b) == [i \in 1..(b - a) |-> Unit(p, a + i)]

Init == spool = <<>> /\ archive = <<>>

Extend(p, n) ==
    /\ n <= FileSize[p]
    /\ spool' = spool \o Slice(p, Len(spool), n)
    /\ UNCHANGED archive

Reset == spool' = <<>> /\ UNCHANGED archive

Archive == archive' = spool /\ spool' = <<>>

Next ==
    \/ \E p \in Photos : \E n \in (Len(spool) + 1)..FileSize[p] : Extend(p, n)
    \/ Reset
    \/ Archive

Spec == Init /\ [][Next]_vars
=============================================================================
