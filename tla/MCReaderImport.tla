---------------------------- MODULE MCReaderImport ----------------------------
(***************************************************************************)
(* Two components around the card in the reader that share no state: the   *)
(* reader and its imports, and the command sessions of the mailbox.  The   *)
(* first state picks the one that runs; the other stays in an initial state*)
(* in which nothing is under way.                                          *)
(***************************************************************************)
EXTENDS ReaderImport

CONSTANTS
    Session, InitSeq, FirstSeq, HighSeq, SeqWrap, Blank, MaxTimeouts

VARIABLES
    runs,                                                   \* what runs
    reqm, reqc, rspm, rspc, posted, busy, networks, pc, kind, at, step, seq,
    retried, reported, astray, timeouts                     \* mailbox

Operations == {"info", "firmware", "networks", "add", "delete", "diagnose"}

Mailbox == INSTANCE CardMailbox WITH
    Kind <- Operations, Overlap <- FALSE, nets <- networks

\* Far enough from the ends of the numbers for a session, and a blank that is no
\* request and no answer.
ASSUME MailboxAssumption ==
    /\ FirstSeq \in Nat /\ HighSeq \in Nat /\ SeqWrap \in Nat /\ MaxTimeouts \in Nat
    /\ FirstSeq + 1 + Mailbox!MaxStep < HighSeq
    /\ HighSeq + Mailbox!MaxStep < SeqWrap
    /\ InitSeq \subseteq Mailbox!Seq32
    /\ Blank \notin Mailbox!Request /\ Blank \notin Mailbox!Response
    /\ Blank \notin Mailbox!Work

\* The check box as the program sets it first; with the folder and without.
Settings == {<<TRUE, TRUE>>, <<TRUE, FALSE>>}

\* A new card, an erased one and one next to the erased range.
CardSeq == {0, 31, 23}
-----------------------------------------------------------------------------
EmptyReader ==
    /\ reader = [d \in Drive |-> NoCard] /\ registered = {}
    /\ form = [c \in Card |-> "set"] /\ shots = [c \in Card |-> "none"]
    /\ autoimport = TRUE /\ folder = TRUE
    /\ Init

NoSession ==
    /\ rspc = 0 /\ networks = FALSE /\ kind = [s \in Session |-> "info"]
    /\ Mailbox!Init

MCInit ==
    \/ runs = "reader" /\ Init /\ NoSession
    \/ runs = "mailbox" /\ Mailbox!Init /\ EmptyReader

mVars == <<reqm, reqc, rspm, rspc, posted, busy, networks, pc, kind, at, step, seq,
           retried, reported, astray, timeouts>>

MCNext ==
    /\ UNCHANGED runs
    /\ \/ runs = "reader" /\ Next /\ UNCHANGED mVars
       \/ runs = "mailbox" /\ Mailbox!Next /\ UNCHANGED vars

MCSpec ==
    /\ MCInit /\ [][MCNext]_<<vars, runs, mVars>>
    /\ Fairness /\ Mailbox!Fairness
-----------------------------------------------------------------------------
\* The types of the mailbox, and: however late the card answers earlier sessions, at
\* most two commands of a session take an answer that is not their own.
MailboxSound == Mailbox!TypeOK /\ Mailbox!FewAstray

\* An add or delete that is done says truly whether the network is on the card,
\* unless its list took another command's answer.
NetworksTruthful == Mailbox!NetworksTruthful

\* A session that was opened ends, without a timeout to help it.
SessionEnds == Mailbox!SessionEnds
=============================================================================
