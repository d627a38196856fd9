---------------------------- MODULE MCComponents ----------------------------
(***************************************************************************)
(* Six components that do not interact, checked in one run: the folders and*)
(* the ledger with one thread at a time, the upload handlers with a card   *)
(* that does not do as it is told, the algorithms of the protocol, the     *)
(* search for an upload key, the captures and the configuration file.  The *)
(* first state picks the one that runs; the others stay in an initial      *)
(* state.                                                                  *)
(***************************************************************************)
EXTENDS MCMediaLibrary

CONSTANTS
    Failures,                                               \* MaxFaults of the others
    Conn, NoConn, FileSize, Media, Trailer, Term, Hold, MaxSlack, Near,
    Byte, MaxBlock, BlockSize, MaxMember, MaxMembers, MaxPayload,
    Own, Other, Empty, Zeros, Token, PcFiles, PcBlocks, PickedBlocks,
    Label, Symmetric, Handlers, Limit, MaxUploads,
    Programs, Macs, Keys, Folders, Missing, Cut, Mixed, Off, NoDialog, MaxSaves

VARIABLES
    at,                                                     \* what runs
    part, writer, lastAdv, library, uPc, off, adv, up,
    cardConn, cardOff, acked, uFaults,                      \* upload
    aKind, aInput,                                          \* algorithms
    kFiles, kNext, kPhase, kPicked, kKey, kFrom,            \* key recovery
    cPc, cData, cBase, cBin, cTxt, cUploads, cFaults,       \* captures
    fDisk, fTemp, fMem, fDialogs, fGrab, fPc, fAlone, fFailed, fOverlap,
    fSaves, fFaults                                         \* configuration

Upload == INSTANCE SpoolTransfer WITH
    CrossConn <- TRUE, IgnoreOffset <- TRUE, ShortBodies <- TRUE, CanCrash <- TRUE,
    MaxFaults <- Failures, pc <- uPc, faults <- uFaults

Algorithms == INSTANCE ProtocolAlgorithms WITH kind <- aKind, input <- aInput

Recovery == INSTANCE KeyRecovery WITH
    files <- kFiles, next <- kNext, phase <- kPhase, picked <- kPicked,
    key <- kKey, from <- kFrom

\* Their labels differ, so that the captures can tell the photos apart.
Labelled == p1 :> "IMG_1" @@ p2 :> "IMG_2"

Capturing == INSTANCE Captures WITH
    Photos <- Photo, MaxFaults <- Failures,
    pc <- cPc, data <- cData, base <- cBase, bin <- cBin, txt <- cTxt,
    uploads <- cUploads, faults <- cFaults

Config == INSTANCE ConfigFile WITH
    MaxFaults <- Failures,
    disk <- fDisk, temp <- fTemp, mem <- fMem, dialogs <- fDialogs, grab <- fGrab,
    pc <- fPc, alone <- fAlone, failed <- fFailed, overlap <- fOverlap,
    saves <- fSaves, faults <- fFaults

\* What SpoolTransfer asks of its constants.
ASSUME UploadConstants ==
    Upload!ConnAssumption /\ Upload!SizeAssumption /\ Upload!CardAssumption

\* The kinds of keys are told apart.
ASSUME KeysApart == Recovery!KeysDiffer

\* There are finitely many handlers, and room for a capture.
ASSUME CaptureNumbers == Capturing!Numbers

\* A byte has more than one value.
ASSUME ByteSize == Algorithms!ByteIsByte

\* Blocks and members have sizes.
ASSUME BlockSizes == Algorithms!BlockIsBlock

\* The states of a file are told apart from what is in it.
ASSUME StatesApart == Config!Apart

Interchangeable == Permutations(Programs) \cup Permutations(Macs)
-----------------------------------------------------------------------------
\* One initial state of the two components that have several.
NoFiles == kFiles = [i \in 1..PcFiles |-> [kind |-> "db", rows |-> << >>]] /\ Recovery!Init
NoInput == aKind = "block" /\ Algorithms!Init

MCInit ==
    /\ Init /\ Upload!Init /\ Capturing!Init /\ Config!Init
    /\ \/ at \in {"library", "upload", "captures", "config"} /\ NoFiles /\ NoInput
       \/ at = "algorithms" /\ Algorithms!Init /\ NoFiles
       \/ at = "recovery" /\ Recovery!Init /\ NoInput

uVars == <<part, writer, lastAdv, library, uPc, off, adv, up, cardConn, cardOff, acked, uFaults>>
aVars == <<aKind, aInput>>
kVars == <<kFiles, kNext, kPhase, kPicked, kKey, kFrom>>
cVars == <<cPc, cData, cBase, cBin, cTxt, cUploads, cFaults>>
fVars == <<fDisk, fTemp, fMem, fDialogs, fGrab, fPc, fAlone, fFailed, fOverlap, fSaves, fFaults>>

MCNext ==
    /\ UNCHANGED at
    /\ \/ at = "library" /\ Next /\ UNCHANGED <<uVars, aVars, kVars, cVars, fVars>>
       \/ at = "upload" /\ Upload!Next /\ UNCHANGED <<vars, aVars, kVars, cVars, fVars>>
       \/ at = "algorithms" /\ Algorithms!Next /\ UNCHANGED <<vars, uVars, kVars, cVars, fVars>>
       \/ at = "recovery" /\ Recovery!Next /\ UNCHANGED <<vars, uVars, aVars, cVars, fVars>>
       \/ at = "captures" /\ Capturing!Next /\ UNCHANGED <<vars, uVars, aVars, kVars, fVars>>
       \/ at = "config" /\ Config!Next /\ UNCHANGED <<vars, uVars, aVars, kVars, cVars>>

MCSpec == MCInit /\ [][MCNext]_<<vars, at, uVars, aVars, kVars, cVars, fVars>>
-----------------------------------------------------------------------------
\* Whatever the card sends, it is not told success while nothing is stored.
AckedHasFile == Upload!AckedHasFile

\* tcp_checksum is the one's complement checksum, for any number of carries, and
\* summing the words the other way round swaps the bytes of the sum and does
\* nothing else, so that verify_integrity need not try it on its own.
ChecksumRight == Algorithms!ChecksumCorrect /\ Algorithms!ByteOrderFree

\* split_multipart gives the payload once the next delimiter is there, and before
\* that what came of it and of the closing line end and delimiter; what
\* tar_media_complete accepts, extract_media_from_tar extracts.
PayloadExact == Algorithms!PartExact /\ Algorithms!CompleteExtracts

\* Key recovery gives the key of the card itself unless the files leave it to
\* the labels or to another column, and asks the user for a file only when no
\* known file has the key.
KeyRight == Recovery!OwnKeyOnly /\ Recovery!AskedLast

\* Handlers that count at once exceed the limit of captures by one each, and
\* without faults the captures confirm the formula of the card.
CapturesTell == Capturing!LimitNearly /\ Capturing!FormulaFound

\* Unless two programs save at once, cards.json can always be read, and a program
\* that ran alone finds at its next start what it had in memory.
ConfigSound == Config!TypeOK /\ Config!Loadable /\ Config!SavedIsRead

\* Registering a card takes no card its folder.
RegistrationKeepsFolder == Config!RegistrationKeepsFolder
=============================================================================
