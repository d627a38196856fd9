------------------------------ MODULE Captures ------------------------------
(***************************************************************************)
(* The captures of uploads (capture_integrity of eyefi_server.py) and the  *)
(* tool that finds from them how the card computes its digest              *)
(* (verify_integrity.py).  A capture is a .bin file with the bytes of one  *)
(* upload and a .txt file with the digest the card sent for the whole      *)
(* photo.  Handler threads write them with no lock.  MD5 is injective.     *)
(***************************************************************************)
EXTENDS Integers, FiniteSets

CONSTANTS
    Handlers,       \* handler threads
    Photos,
    Label,          \* Label[p]: name and size of the file of p
    Symmetric,      \* photos whose block sums read the same both ways
    Limit,          \* captures that are kept (12)
    MaxUploads,     \* bound on the uploads
    MaxFaults       \* bound on failed writes and crashes

Numbers == IsFiniteSet(Handlers) /\ Limit \in Nat \ {0}

VARIABLES
    pc, data, base, \* of a handler: its step, its bytes and the name it chose
    bin, txt,       \* the files: functions from names
    uploads, faults

vars == <<pc, data, base, bin, txt, uploads, faults>>

\* The bytes of an upload: the photo, and whether all of it.
Data == Photos \X BOOLEAN
Nothing == << >>
Short == <<"short">>                    \* what a failed write leaves

Init ==
    /\ pc = [h \in Handlers |-> "idle"]
    /\ data = [h \in Handlers |-> Nothing]
    /\ base = [h \in Handlers |-> Nothing]
    /\ bin = << >> /\ txt = << >>
    /\ uploads = 0 /\ faults = 0
-----------------------------------------------------------------------------
Step(h, from, to) == pc[h] = from /\ pc' = [pc EXCEPT ![h] = to]

\* The files once content is written to those with these names.
Put(names, content, old) ==
    [n \in DOMAIN old \cup names |-> IF n \in names THEN content ELSE old[n]]

Name(n, d) == <<n, Label[d[1]], d[2]>>

\* A connection delivered bytes and the digest.
Receive(h) ==
    /\ uploads < MaxUploads
    /\ Step(h, "idle", "count")
    /\ \E d \in Data : data' = [data EXCEPT ![h] = d]
    /\ uploads' = uploads + 1
    /\ UNCHANGED <<base, bin, txt, faults>>

Full == Cardinality(DOMAIN txt) >= Limit

Count(h) ==
    /\ IF Full
       THEN Step(h, "count", "idle") /\ data' = [data EXCEPT ![h] = Nothing] /\ UNCHANGED base
       ELSE /\ Step(h, "count", "bin")
            /\ base' = [base EXCEPT ![h] = Name(Cardinality(DOMAIN txt), data[h])]
            /\ UNCHANGED data
    /\ UNCHANGED <<bin, txt, uploads, faults>>

WriteBin(h) ==
    /\ Step(h, "bin", "txt")
    /\ bin' = Put({base[h]}, data[h], bin)
    /\ UNCHANGED <<data, base, txt, uploads, faults>>

WriteTxt(h) ==
    /\ Step(h, "txt", "idle")
    /\ txt' = Put({base[h]}, data[h], txt)
    /\ data' = [data EXCEPT ![h] = Nothing] /\ base' = [base EXCEPT ![h] = Nothing]
    /\ UNCHANGED <<bin, uploads, faults>>

\* What the handlers H leave when they are stopped within a write.
Leaves(H) ==
    \E cut \in SUBSET {h \in H : pc[h] \in {"bin", "txt"}} :
        LET names(step) == {base[h] : h \in {g \in cut : pc[g] = step}}
        IN  bin' = Put(names("bin"), Short, bin) /\ txt' = Put(names("txt"), Short, txt)

\* A write fails (the exception is dropped), or the program dies.
Fault ==
    /\ faults < MaxFaults
    /\ \E H \in {{h} : h \in {g \in Handlers : pc[g] \in {"bin", "txt"}}} \cup {Handlers} :
          /\ Leaves(H)
          /\ pc' = [h \in Handlers |-> IF h \in H THEN "idle" ELSE pc[h]]
          /\ data' = [h \in Handlers |-> IF h \in H THEN Nothing ELSE data[h]]
          /\ base' = [h \in Handlers |-> IF h \in H THEN Nothing ELSE base[h]]
    /\ faults' = faults + 1
    /\ UNCHANGED uploads

Next ==
    \/ \E h \in Handlers : Receive(h) \/ Count(h) \/ WriteBin(h) \/ WriteTxt(h)
    \/ Fault

Spec == Init /\ [][Next]_vars
-----------------------------------------------------------------------------
(***************************************************************************)
(* verify_integrity.main on the files as they are.                         *)
(***************************************************************************)
Candidates == {"inv", "noinv", "inv-swapped", "noinv-swapped", "keyindata", "md5"}
CardFormula == "inv"

\* On symmetric sums the order in which they are packed makes no difference.
Digest(f, d) ==
    << IF d[1] \in Symmetric
       THEN CASE f = "inv-swapped" -> "inv" [] f = "noinv-swapped" -> "noinv" [] OTHER -> f
       ELSE f, d >>

\* load_captures, and main without the captures that lack the digest.
Captured == {b \in DOMAIN txt \cap DOMAIN bin : txt[b] # Short}
Judged == {b \in Captured : txt[b][2]}

\* The card sends the digest of the whole photo.
Matches(f, b) ==
    bin[b] # Short /\ Digest(f, bin[b]) = Digest(CardFormula, <<txt[b][1], TRUE>>)

\* Mutant: the captures of continued uploads count as well.
MutantWinners == {f \in Candidates : Captured # {} /\ \A b \in Captured : Matches(f, b)}

\* The candidates that match all whole captures, none without one.
Winners == {f \in Candidates : Judged # {} /\ \A b \in Judged : Matches(f, b)}

Confirmed == Cardinality(Winners) = 1
-----------------------------------------------------------------------------
(***************************************************************************)
(* Handlers that count at the same time exceed the limit by no more than   *)
(* there are others.                                                       *)
(***************************************************************************)
LimitNearly == Cardinality(DOMAIN txt) <= Limit + Cardinality(Handlers) - 1

(***************************************************************************)
(* While no write fails, and no two photos share name and size, uploads of *)
(* one photo on several connections do not mislead the tool: once none is  *)
(* writing, the formula of the card matches, and it is confirmed as soon   *)
(* as a whole photo is there that tells the byte orders apart.             *)
(***************************************************************************)
Distinct == \A p, q \in Photos : Label[p] = Label[q] => p = q

FormulaFound ==
    (faults = 0 /\ Distinct /\ \A h \in Handlers : pc[h] \in {"idle", "count"}) =>
        /\ Judged # {} => CardFormula \in Winners
        /\ (\E b \in Judged : txt[b][1] \notin Symmetric) => Confirmed
=============================================================================
