# Verification of the Eye-Fi X2 receiver

The repository is a Windows tray program in Python that receives photos from
Eye-Fi X2 SD cards over Wi-Fi, files them by date, imports photos from a card
reader without making duplicates, and configures cards through the mailbox
files on the card. This directory holds TLA+ models of it, the TLC runs that
check them and TLAPS proofs about them. Line numbers refer to
`src/EyeFiReceiver/`.

## The system

| Component | Code | State it keeps | Operations |
|---|---|---|---|
| Upload transfer | `eyefi_server.py` 165-273, 489-739 | spool file `.part` per (card, file), `active_writer`, `last_adv`; per connection `_adv` and the locals of the upload handler | GetPhotoStatus, UploadPhoto: stream, append, supersede, complete, save, clean up |
| Spool watchdog | `eyefi_server.py` 38-74, 119-158 | `_stall_alerted`, file times, `.abandoned` archives | scan, alert, give up |
| Sessions | `eyefi_server.py` 82-89, 431-520, `eyefi_protocol.py` 47-150 | the 8 latest (cnonce, snonce) per card | StartSession, credential check |
| Media library | `eyefi_server.py` 281-320, `reader_import.py` | photo folders, `import_ledger.json` | save_media, import_photos, ledger_record, find_duplicate |
| Card mailbox | `card_mailbox.py` | four 16 KB files on the card, the sequence number of a session | init_seq, command, wait for the answer, bootstrap, Wi-Fi networks |
| Reader polling, identification | `gui.py` 790-931, 356-451 | the drives seen, importing flag | poll, identify, import |
| Life cycle | `gui.py` 145-193, 1300-1344, `__main__.py` | the server object, its port, its threads | start, stop, watch, restart, quit |
| Events, popup | `gui.py` 955-1298 | event queue, popup and toast windows, thumbnails | post, drain, show, expire |
| Algorithms | `eyefi_protocol.py` 150-263 | none | checksum, multipart, tar |
| Key recovery | `key_recovery.py`, `gui.py` `_try_recover_key` | none, but a search through files | extract, search, ask |
| Configuration | `config.py`, the card dialogs of `gui.py` | `cards.json`, a copy in memory | load, save, add, remove |
| Captures | `eyefi_server.py` 322-365, `verify_integrity.py` | files of a diagnostic folder | capture, evaluate |
| Card Wi-Fi window | `gui.py` 640-788, `card_wifi.py` | two lists, the running operation | list, add, delete, test |
| Windows integration | `autostart.py`, `paths.py`, PowerShell, installer | registry | |

How they interact: one thread per HTTP connection (`ThreadingHTTPServer`) runs
the handlers; they share the spool directory, the dictionaries of the server
object, the ledger and the photo folders with each other, with the watchdog
thread, and with the GUI's import thread. Handlers talk to the GUI by a queue
that the Tk thread drains. The card talks to the handlers over connections that
break whenever its radio sleeps, and to the mailbox code over files its
firmware polls.

What is hard here: handlers of connections the card has already given up run on
with buffered data beside the handler of the new connection; an offset is read,
told, and used three requests later; the program may die between any two file
operations and starts again with what is on disk; answers get lost, so the card
repeats what was done; two threads check for a duplicate and then write; the
card's firmware answers when it likes. `PROJECT.json` lists the hazards with
their lines.

## Modules

| Module | Models | Extended for TLC by | Proofs |
|---|---|---|---|
| `PhotoDelivery` | the promise for one photo (abstract) | | |
| `SpoolTransfer` | upload handlers and the spool | `MCSpoolTransfer`, `MCComponents` | `SpoolTransferProofs`, `ComponentsProofs` |
| `SpoolWatchdog` | the watchdog thread beside the handlers | `MCSpoolWatchdog` | `SpoolWatchdogProofs` |
| `SessionAuth` | sessions and the credential check | `MCSessionAuth` | `SessionAuthProofs` |
| `MediaLibrary` | photo folders, ledger, reader import | `MCMediaLibrary`, `MCComponents` | `ComponentsProofs` |
| `CardMailbox` | command sessions with a card in the reader | `MCReaderImport` | `ReaderImportProofs` |
| `ReaderImport` | drives, identification and import in the window | `MCReaderImport` | `ReaderImportProofs` |
| `PhotoSpool` | the spool of one name as one object (abstract) | | |
| `SpoolFiles` | `.part`, `.size` and the archive, access by access | `MCSpoolFiles` | `SpoolFilesProofs` |
| `ReceiverLifecycle` | server objects, port, watch | `MCReceiverLifecycle` | `ReceiverLifecycleProofs` |
| `EventPopups` | event queue, popups, toasts, thumbnails | `MCSpoolWatchdog` | `EventPopupsProofs` |
| `KeyRecovery` | the search for an upload key | `MCComponents` | `ComponentsProofs` |
| `ProtocolAlgorithms` | checksum, multipart, tar | `MCComponents` | `ComponentsProofs` |
| `Captures` | captures of uploads and the tool that reads them | `MCComponents` | `ComponentsProofs` |
| `ConfigFile` | `cards.json`, card dialogs, two programs | `MCComponents` | `ComponentsProofs` |
| `CardWifi` | the Wi-Fi window, its workers, the helper | `MCReceiverLifecycle` | `ReceiverLifecycleProofs` |

Operators called `Mutant...` stand before a definition of which they are a
plausible wrong version; nothing uses them. `PROJECT.json` pairs each with a
property it breaks.

A property called `...Sound` is the type invariant of its module together with the
named safety invariants of the same state; the parts are stated one by one in the
module. The modules above hold the specifications; where components share no
state, `MCComponents`, `MCReaderImport` and `MCReceiverLifecycle` instantiate several
of them and check them in one run: the first state picks the component that runs,
and the others stay in an initial state in which nothing is under way, so that the
states of the run are the union of those of its components and not their product.

### PhotoDelivery

What the receiver promises for one photo: it is stored once, byte for byte, and
the card is told success only after that. `SpoolTransfer` implements it.

### SpoolTransfer

One photo of one card, any number of connections. A handler is a program counter
`pc[c]` and the locals `up[c]`; an action is one lock section of the store, or
one access to something the handlers share. `part` is the content of the spool
as a sequence of units, `writer` the newest token in `active_writer`, `lastAdv`
and `adv[c]` the two records of the offset last told. The photo is the sequence
1..FileSize, everything else in a body is `Junk`, so a hole, an overlap or a
foreign byte shows as a position holding the wrong number.

* `ReadOffset`, `Advertise`: `_handle_get_photo_status`. The size is read
  without the lock.
* `ReadHead` .. `AppendChunk`: the streaming loop of `_handle_upload`. `Recv`
  delivers any number of units at a time; `Stall` is the 90 s timeout or the end
  of the connection.
* `FinishEmpty` .. `Discard`: `_finish_upload`, in the order of the code.
* `Connect`, `SendStatus`, `SendUpload`, `Abandon`, `IdleClose`, `Crash`: card,
  network and operating system. The card uses one connection at a time and may
  leave it at any moment; the handler is not told.

Three constants widen what the card may do: `CrossConn` (upload on a connection
that asked no status), `IgnoreOffset` (send from 0 whatever was told),
`ShortBodies` (end a well-formed body early). With all three FALSE the card is
the one the protocol describes and every safety property holds, for all sizes
and numbers of connections (see Proofs).

Abstractions: sizes are units, the 4096-byte limits are `MaxSlack` and `Near`; the
tar is "header first, media member up to unit `Media`"; one photo has one size, so
that `.size` plays no part (`SpoolFiles` has it, and photos that take over a name);
an operation of the store is one step, which `SpoolFiles` justifies; the card's
retry policy is a fairness assumption.

### SpoolWatchdog

The thread of `_watchdog_loop` beside handlers that append to the spools, remove
them and begin them again at any moment, also in the middle of a tick.

Time is counted in watchdog periods (60 s). File times and the times in
`_stall_alerted` are kept as ages: `idle[f]` is the age of the spool's mtime,
`stallAlerted[f]` the age of the entry. Ages stop at the largest threshold that
reads them, since nothing tells two older ones apart. A tick is short against a
period, so `Elapse` happens between ticks only, and each period has its tick.

* `StartTick`, `Stat`, `ScanDone`: `find_stalled`. The directory is listed, then
  the files are looked at one after the other; what it reports is stale as soon
  as a handler goes on.
* `Alert`, `Abandon`: one round each of the loop of `_watchdog_tick`.
  `Abandon` (`_spool_abandon`) renames whatever the spool is *now*.
* `FinishTick`: entries of spools that are not stalled any more are deleted and
  one event is posted.
* `Crash`: `_stall_alerted` is lost; the files and their times survive. The history
  `told` is lost with it: the program may repeat an event right after a restart, so
  `AlertsApart` and `AlertTimely` speak of one run of the program.

### SessionAuth

One card; handlers of several connections make sessions and search them.

`sessions` is the deque of `srv.sessions[mac]` with its `maxlen`. A nonce stands
for the (cnonce, snonce) pair of a session; nonces that nobody holds any more are
drawn again (`Unused`), which keeps the state space finite and is sound because a
random nonce is equal to none in use. A credential is the card's key with the
session the card holds, so `Matches` compares key and nonce. The variants of the
MD5 argument that `match_credential` tries are one comparison.

* `ReadStart`, `AppendSession`, `Welcome`: `_handle_start_session`. The card
  takes the session only when the server's credential shows the card's key; an
  unregistered card gets an answer that proves nothing.
* `ReadStatus`, `TryNext`, `NoneLeft`, `Died`, `TellOffset`, `Refuse`: the search
  of `_handle_get_photo_status` in the newest-first order of the code. `Died` is
  the RuntimeError of a deque that changed during the iteration: the handler ends
  without an answer.
* `EditCard`: the user registers, rekeys or deletes the card. `get_card` returns
  the entry itself, so that a new key reaches a search that has looked the entry
  up, unless the entry was deleted and made anew.
* `Restart` empties the table.

`kept` and `edited` are history: was the session of the credential in the deque
when the search began, and did the key change under it.

### MediaLibrary

`save_media` in handler threads, `import_photos` in the GUI's import thread, the
photo folders and the ledger. A path is (day folder, name, number); a photo is
known by name and size, as the code knows it. A file is `Absent`, `Partial` (open
or cut off), a photo, or `Damaged`: the size of one photo with bytes of another,
which two writers of one path can leave behind.

* `CheckDuplicate`, `ChooseName`, `OpenDest`, `WriteDest`, `WriteFails`,
  `Record` are the steps of both threads; they differ in the number appended to a
  name, in the day of the folder and in what a duplicate leads to (`save_media`
  records it, the import goes on).
* `StartImport`, `TakeNext`, `ReadLedger`, `EndImport`: the loop of the import.
  `pc = "reading"` stands for the open file in `ledger_has`; a `Record` in that
  moment loses its entry, as `os.replace` fails on Windows while the target is
  open and the failure is caught.
* `NextDay`, `Move` (the user moves photos out of the folders), `Restart`.

With `Exclusive` (`Components`) no two threads run at once; the properties of that
run are about sequences of saves, imports and days, those of `LibraryConcurrent` and
`LibraryOverwrite` about interleaving.

### CardMailbox

Sessions of `card_mailbox.py` against the card's firmware, over four files. A
request is known by its session and its place in it, so that an answer in `rspm`
tells whose it is, which the program cannot see; `reqc` and `rspc` hold the
numbers, with their width (`SeqWrap`).

* `Open`, `ClearAnswer`, `ReadSeq`: `CardMailbox.__init__` and `_init_seq`.
* `WriteRequest`, `WriteSeq`, `SeeNumber`, `Take`, `TimeOut`: `command`. `Script`
  gives the commands of each operation of the program; `Take` also holds what the
  operation makes of the answer (no MAC is an error, an empty upload key is asked
  for once more, the list decides what `add` and `delete` report).
* `Notice`, `Answer`, `Confirm`: the firmware, known only from the protocol
  described at the head of `card_mailbox.py` and how the code relies on it: it
  reacts to a write of REQC, works on one request at a time, writes the answer
  before the number, and carries out what it has begun although the program gave
  up.

`astray` records the steps of a session that took something else than the answer
to their request. With `Overlap` FALSE a session opens only while no other runs.
Raw disk access and the encoding of requests are not modelled; how a mailbox
comes to be is in `ReaderImport`.

### ReaderImport

The window of `gui.py` with cards in the reader. The Tk thread runs one handler at
a time, so a handler is one action: `PollReader` (the ten-second timer),
`Announced`, `Identified`, `Registered` (callbacks of threads that read a card),
`ManualReaderImport`, `ReadButton`, `ChangeSettings`, `ReaderImportDone`. Between
them threads act (`ReadCard`, `CopyEnds`) and cards come and go (`PutIn`,
`TakeOut`). `jobs[d]` holds the threads that have started to read drive d, with
the MAC they found; `importers` the import threads until their callback has run,
while `importing` is the flag the code has. What `import_photos` does with the
photos is in `MediaLibrary`; here an import either copies all of a card that was
left alone or leaves it as it is.

`passed` is history: drives whose card was unreadable, only announced, or
identified while an import ran.

### PhotoSpool and SpoolFiles

`SpoolTransfer` treats the spool as one object that is extended, emptied or moved
away in one step. `PhotoSpool` states that; `SpoolFiles` has the methods of
`EyeFiServer` one access to a file at a time, with the locks and tokens of the
server object, and implements it (`StoreImplemented`).

* `Measure`, `Compare`: `spool_offset`, which takes no lock until it resets.
  `RemovePart`, `RemoveSize`: `_spool_remove`, for a reset and for a start from 0.
* `Upload` .. `Fallback`: what an upload calls, from the offset it was told, with a
  body whose connection may end early (well-formed bodies that are too short are in
  `SpoolTransfer`). After the last piece of the body the handler goes on to complete
  whether or not the piece was taken (`AfterAppend`). `CheckEnd`, `WritePart`,
  `TruncateSize`, `WriteSize`: `spool_append_at`; a file that is opened for writing is
  empty until it is written.
* `TryComplete`: `spool_try_complete` with its near-complete rescue (`Rescued`): a
  spool that lacks at most `Near` units is taken as it is if the header in its first
  unit says that its file is whole (`HoldsMedia`). Then, without the lock, `Save`,
  `ExtractFails` or `SaveFails`; after the first two the spool is removed, whatever
  it holds by then. `MediaSize[p]` is the end of the last file in the tar of photo p.
* `Scan`, `Move`, `MoveSize`: `_spool_abandon` with a scan that may be stale.
* `Crash`, `WriteFails`: between any two accesses, and within a write. `Retake`:
  another photo of the same name (formatted card, camera counting anew) once no
  handler is left. `NewServer`: stop and start in one process; `LiveOn` says
  whether handlers of the old object still run.

`orphan` and `wrong` are history: a spool without a readable `.size` met another
photo; what was assembled was not the photo, so that something else was filed or the
extraction failed and the spool was thrown away.

### ReceiverLifecycle

`gui.py` and `__main__.py` with the server object, its port and its two threads.
The Tk thread runs one handler at a time; only `_start_server` lets time pass, so an
attempt is an action.

* `BeginStart`, `Succeeds`, `SpoolFails`, `BindFails`: `_start_server`. When `bind`
  fails, `TCPServer.__init__` calls `server_close`, which is overridden and reads an
  attribute not yet set: the exception that leaves is an AttributeError, which in
  the constructor of the window, and headless, ends the program.
* `ToggleServer`, `StopServer`, `WatchServer`, `EditFolder`, `Leave`. `Answers` is
  the connection of `_watch_server`: the kernel completes it as long as a socket
  listens and its queue has room, also when nobody accepts.
* `DogEnds`, `LoopDies`, `Foreign`: the watchdog thread of a given-up server, a
  serving loop that raises, the official program taking or leaving the port.

`Init` covers the window, the tray and the headless program. `wanted` is history.

### EventPopups

Handler threads put events into a queue; the Tk thread handles one event, timer or
click at a time. `upload[u]` is an upload that starts and ends, with an event or
without one. All uploads share `prog` (`_prog`); `window[w]` are the windows in the
order of their opening; `safety` the 45 s timers that are set. `OnEvent` is
`_on_event` with what it calls; `SafetyTimer`, `CloseTimer`, `UserCloses`,
`ToggleToast` are the rest. `announced`, `muted` and `previewed` are history.

### KeyRecovery

One card whose firmware does not tell its key. The files are inputs: XML with card
blocks, well-formed or not, or rows of a database. `FromBlocks`, `FromLabels` and
`FromRows` are the three extractions, `FromFile` their order, `Search` the loop of
`recover_upload_key`, `Ask`, `Decline` and `Pick` the file the user may choose. The
key of a card is written as the card, so a wrong key shows.

### ProtocolAlgorithms

Operators for `tcp_checksum`, one part of `split_multipart`, `tar_media_complete`
and what `tarfile` makes of the same bytes. The state is an input that grows as it
does on the wire, so that each state is an input cut off somewhere and each
property compares an operator with a reference definition of it. Sizes are small
(`Byte`, `BlockSize`). A line end and the delimiter are two symbols each, so that a
body may be cut off within them and a payload may hold half of one; `PartExact` says
what the part is at every cut. A member is a header block and its data (no pax or
long-name headers), and one that is no file is of a type `tarfile` does not know, or
has no data.

### Captures

`capture_integrity` in handler threads without a lock, and `verify_integrity.py` on
whatever files there are. `Count` chooses the name from the count, `WriteBin` and
`WriteTxt` follow; a fault leaves an empty or short file. `Winners` are the
candidates of the tool that match every whole capture; a digest is its formula and
bytes, the same in both byte orders for `Symmetric` photos.

### ConfigFile

`cards.json`, its temporary file, and per program the copy in memory, the open
dialogs and the place within `Config.save` (`OpenTemp`, `Dump`, `Replace`). Nothing
keeps a second program from running, and both use one temporary file name. As on
Windows a file that somebody has open is not replaced. `Confirm` is the OK of the
edit and the registration dialog with `add_or_update_card`, `OpenEdit` and
`OpenRegister` how dialogs come up (`grab_set` blocks the main window, not a
callback of a thread).

### CardWifi

The window that lists and changes the networks of the card. `Press` is `run_op`,
which disables the buttons and starts a worker. Through `card_mailbox.py` the worker
sends the change (`ChangeCard`), reads the list (`Read`) and then the MAC or the scan
(`Rest`); any of them may fail, after the card has changed too, and then the
PowerShell helper repeats the operation (`RunHelper`, `Relist`), or in a packaged
program it has failed. A change may be answered without an effect (the helper's `rc`,
which nothing but the list contradicts). A change that is given up stays in `late`,
and the card carries it out at any later time or never (`Arrive`). `Deliver` is the
callback in the Tk thread, on a window that may be closed by then.

Two windows may have operations at the card at once, and a registration or an
identification may have a session beside them (`OtherSession`); `CardMailbox` shows
that answers may be swapped then, and after a given-up command. The history `trust`
knows of an operation whether that may have happened to it (`mixed`): the list it
reads is then any, and `VerdictTrue` says nothing of it. `own` and `missed` part the
others by whether a change of their own was given up. Two things are assumed of code
outside of `src/`: the vendor DLL tells the answers to its own commands from late
ones of the mailbox, and gives the card's list or none, which the helper takes for an
empty one (`EyeFiCardWifi.ps1` 133; nothing is said of its verdict then). One card is in the reader, so that mailbox and
helper mean the same one.

## Runs

| Run | Instance | Shows |
|---|---|---|
| `SpoolRace` | 2 connections, 3 units, 2 faults, crashes | `TransferSound` (types and the inductive invariant: prefix, library, acknowledgement), nothing lost, implements `PhotoDelivery`; acknowledged in the end, or stuck with a full spool and in no other way; in a calm behaviour acknowledged |
| `SpoolStrandedByRace` | 2 connections, 4 units, 1 drop, no crash | the full spool is never filed (finding) |
| `Watchdog` | 2 spools, alert after 2 periods, reminder after 3, given up after 6, 1 restart; the popups of 2 uploads at once, 1 alert, 2 clicks, a strip of 1 | `WatchSound` (alerts in time), not too often; a stalled spool moves on or is given up; each photo announced once, no stray popup and the newest in the strip (`ScreenSound`), a timer closes its own popup only, popups go |
| `Sessions` | 2 connections, 2 kept sessions, 2 keys, 1 fault, 1 edit | refused or told an offset as the credential deserves (`WindowHonoured`, `SessionSound`); a registered card is served |
| `Components` | the library with 2 photos of one name, 3 days, one thread at a time; a card that departs from the protocol, 2 connections, 2 units, 1 fault; blocks of up to 7 bytes of 4 values, payloads of 5 symbols, tars of 3 members; 2 settings files and a picked one; 2 capture handlers, 4 uploads, 1 fault; 2 programs with one `cards.json`, 2 saves, 1 fault | received photos stay, are stored once and not imported again; success needs a stored file; the algorithms agree with their references; the key is the card's own unless guessed; the captures tell the formula and exceed the limit by one per concurrent handler at most; the configuration can be read and a registration keeps folders |
| `LibraryConcurrent` | 1 photo, a handler and the import at once, 2 faults | `LibrarySound` (a truthful ledger); the photo is saved in the end |
| `LibraryOverwrite` | 2 photos of one name, 2 handlers and the import at once | a received photo is overwritten (finding) |
| `Reader` | 2 cards, 1 drive, 2 threads, 1 card put in, 1 click; the mailbox with 2 sessions of any kind one after the other, 3 timeouts, 5-bit numbers | one import at a time, only of registered cards unless by hand; a registered card put in is imported; at most two commands of a session take an answer that is not theirs, `add` and `delete` report the truth unless their list is such an answer, sessions end |
| `SpoolFiles` | 2 handlers, photos of 2 and 3 units, 1 crash, failed write or failed save, and either 1 retake or a second server object | implements `PhotoSpool`; no overlap in the spool; `.size` is true and what is assembled, by a rescue too, has the photo's whole file, unless `.size` was lost before the retake (`SpoolSound`) |
| `SpoolRestartRace` | the same without faults and retakes, the handlers of the first server object run on | both server objects' handlers write one place of the spool (finding) |
| `Lifecycle` | 3 clicks, 3 faults, a queue of 2; 2 network windows, 1 network, 3 operations | `ServerSound` (one server, and its watchdog); a dead server is replaced; "registered" and "deleted" are true of the card, whatever was given up and repeated, unless sessions are mixed up; the buttons of the network window come back |
| `LifecycleConflict` | 1 click, 3 faults | a taken port ends in an unhandled exception (finding) |

Some runs carry variables of their own. `calm` (`SpoolRace`) marks behaviours with
one connection at a time and neither crash nor failed save, in which the card's
retries must lead to success: with crashes or races the full spool of the findings
is in the way. `restarted` (`SpoolFiles`) parts the behaviours with a second server
object from those with another photo; both in one behaviour would take four times
the states and is not checked.
`runs` and `at` name the component of a joined run.

Why the bounds are enough. Two connections make every pairwise race; a superseded
handler acts on a third one only through the shared spool or table, and the
proofs cover any number. Three units in `SpoolRace`, of which the last is after the
media member, let a spool be empty, cut in the media, near complete or full; the
run of the finding has four, so that the last append may be a partial one.
The card that departs from the protocol has a photo of one media unit and a
trailer: success without a file needs no longer one, a whole body that is missing its
media is among the bodies it can send, and `SuccessNeedsFile` is proved for every
size. `MaxFaults` bounds drops of a connection in use,
stalls on it, failed saves and crashes, not what handlers of dead connections do.
The thresholds of the watchdog keep the order of the real ones with every
distinct case between them: resting, alerted, silent, reminded, given up. Two
kept sessions and two connections let the newest sessions evict the one being
searched for. Three days with one-day windows let a ledger entry expire while the
photo is in, and out of, the searched folders; two photos of one name and
different sizes are needed for name conflicts. `MaxSuffix` leaves a free number
for every file the bounded faults can produce. The 5-bit numbers of the mailbox
keep 0, the start value, the erased range and the distance from there to the
overflow, which is longer than a session as it is in the code; the card begins
with a number of each kind (`CardSeq`). Three timeouts can
leave a request of the first session in the firmware's hands and another in REQM when
the second opens, and let the answers of both arrive at any of its commands: two
answers astray, the most there are.
In `Reader` each card that is put in may be a new one, the one that was there,
refilled, or formatted by the camera; two threads of one drive arise when a card
is exchanged while it is read.

In `SpoolFiles` two handlers and the watchdog make every pair of accesses to the
files; the sizes 2 and 3 let a spool be shorter than, as long as and longer than the
photo that takes over, and one fault suffices to part `.part` from `.size`. The file
of the shorter photo ends one unit before its tar, within `Near`, so that its spool
may be rescued; that of the longer one ends with its tar, so that its spool may not,
and so that a spool of both photos may be long enough for one and too short to extract.
`Lifecycle` has as many server objects as clicks and faults can ask for
(`AllServers`), and its three faults let a loop die while the spool folder and the
port fail; a queue of two is enough to be empty, in between and full; two network
windows, since an operation outlives the window it was started in, and three operations,
since a network is deleted only after it was listed, beside or after one of the other
window. One network, since commands for different ones do not disturb each other. The popups
of `Watchdog` have as many windows as two uploads and an alert can open (`AllWindows`), and a strip of
one, so that the second photo drops a thumbnail. Key recovery needs two files for
the order of the search and two blocks for the order within a file. A byte of four
values makes words of 16, of which three (seven bytes) carry twice; tars of three
members of up to two blocks hold an empty, a partial, a full and a padded member,
with and without directories, cut everywhere. Two capture handlers may both find
room for the last capture of two, and four uploads leave one that finds none. Two
saves of the configuration are one of each program or two of one, and a card may
change its MAC.

Deadlock is not checked where the system stops: a card that was told success or
its offset has nothing left to send (`SpoolRace`, `SpoolStrandedByRace`,
`Sessions`), everything is stored (`LibraryConcurrent`, `LibraryOverwrite`), every
upload was shown (the popups of `Watchdog`), the program has quit or the operations are used up
(`Lifecycle`, `LifecycleConflict`), the mailbox sessions are used up (`Reader`), and
in `Components` the search has its result, the input is whole, and the captures and
saves are used up. `SpoolFiles` checks it.

### Fairness

Handlers, the watchdog and the import are threads, so an enabled step is
eventually taken (weak fairness); a connection the card left ends (weak on
`Network` and `IdleClose`, which the 90 s timeout and TCP justify). The card
reconnects, asks and uploads again whenever it holds an open connection again and
again (strong on `SendStatus` and `SendUpload`, and in `SessionAuth` on
`SendStart` while it holds no session): that is what the firmware is for, and the
README of the receiver relies on it. Strong fairness is needed because a drop
disables the request; drops are bounded by `MaxFaults`. `StartImport` is fair:
the card is put into the reader again. The mailbox has weak fairness on the
firmware and on the threads, none on `TimeOut`: `SessionEnds` shows that no
session depends on one. In the window the timer, the reading threads with their
callbacks, and the import are weakly fair, since Tk runs every due handler and
polls have a limit; the registration dialog is the user's and may stay open.
In the life cycle the watch (a Tk timer of a minute that sets itself again in a
`finally`), the attempts of a start and a watchdog thread that was told to end are
weakly fair; a start that neither succeeds nor fails does not exist. Of the popups the
drain (every 300 ms) and the timers are, uploads are not: they need not end. In
`CardWifi` the worker and its callback are: every command of the mailbox has a limit of
polls, and the helper has a timeout of 150 s.
Nothing is assumed of faults, edits, days, cards coming and going, or the user.

## Proofs

All theorems hold for every value of the constants that meets the named
assumptions of the module.

`SpoolTransferProofs`
* `TypeCorrect`: the type invariant, whatever the card does. The strengthening
  `TypeInv` adds the bounds of the slice a handler is about to write.
* For the card of the protocol (`FaithfulCard`): `TransferCorrect` proves
  `TransferSound`, the types with the inductive invariant `TransferInv`.
  `SpoolIsPrefix` is not inductive by itself: an append is right only because of
  `OffsetAgreed`, the handler of an upload holds exactly the start and the length of
  the slice the card sends, whatever other handlers did since the offset was read;
  and `FinishReady` carries what the earlier steps of `_finish_upload` established
  to the later ones. `SpoolNeverCorrupt`, `StoredAndAcknowledged` and `StoredWhole`
  follow; `NoDataLost` is the action property, `ImplementsDelivery` the refinement
  (initial state and steps).
* `SuccessNeedsFile`: for every card, also one that departs from the protocol. The
  invariant `FileInv` is what is left without `OffsetAgreed`: a handler that is past
  its save, and a card that was told success, have a file in the library.

`SpoolWatchdogProofs`
* `AlertsInTime` (`WatchSound`), `AlertsKeepApart`: for any thresholds, spools and
  restarts. The invariant `WatchdogInv` relates the entry of `_stall_alerted` to the
  event that was really posted: an entry is as old as the event, or it was deleted,
  and then the spool was written since (`Linked`); a spool that rests longer than
  its last event is old was stalled all the time (`Rested`); and during a tick, what
  the scan reported is still so or the spool was written or removed (`Seen`).

`SessionAuthProofs`
* `CredentialDecided`: for any window and number of connections. The invariant
  `SessionInv`: while the deque is unchanged since the search began, a fitting
  session is among those still to try (`Searching`); once it changed, the search has
  tried everything already or ends without an answer. `OffsetsAreEarned`
  (`SessionSound`) is the other direction from the same invariant: an offset was
  told for a session of the card and its key.

`ReaderImportProofs`
* `AtMostOneImport` (`ImportSound`), `OnlyRegisteredImported`: for any cards,
  drives, reading threads, clicks and moves. `OneImport` is inductive with the
  types, because the flag is set by the handler that decides, before its thread
  runs: `RunKeeps` says so of every way to start an import, `RunImports` whose card
  it reads.
* `FewAnswersAstray` (`MailboxSound`): for any number of sessions, one after the
  other, and of timeouts. When a session opens, the firmware may hold one request of
  an earlier one and REQM may hold another; nothing else is left of the past. The
  invariant follows both: what the card may still answer is a request written before
  the session began or one of the session's own, an own answer comes with a number
  that the session has already left behind or is waiting for, and the numbers of a
  session grow without wrapping, which `MailboxAssumption` says of the bounds
  (`FirstSeq`, `HighSeq`, `SeqWrap`), as the code's do. Each foreign request is
  answered once, so two commands can go wrong and not a third.
* `NetworkReportsTrue` (`NetworksTruthful`): the list that ends an `add` or `delete`
  shows the card as it is, unless an answer astray was taken for it: no other
  command of an exclusive session changes the card in between.

`SpoolFilesProofs`
* `StoreRefinement`, `NothingOverlaps`: for any threads, photos, retakes, crashes,
  failed writes and server objects, while no handler outlives its server object
  (`MaxGens = 1 \/ ~LiveOn`, stated in the theorems, since the lock and the tokens are
  attributes of the server object). The invariant `FilesInv`: a thread between the accesses of an operation holds the lock
  (`Held`), so what `CheckEnd` found is still so when the piece is written
  (`AtEnd`). One lemma per group of actions shows that it is a step of `PhotoSpool`
  or changes no file.
* `RightPhoto` (`SpoolSound`): under the same condition, and if photos of one name
  differ in size, which is all the receiver tells them apart by. A spool without
  `orphan` holds units of one photo, the one its `.size` names if it can be read;
  every handler that works on it is of the present photo, since another photo comes
  only when no handler is left. `AssemblesPhoto`: so the header in the first unit is
  the photo's own, and what is assembled, in full or rescued, has its whole file; it
  stays so in the handler's memory (`Assembled`) while others go on with the spool.

`ReceiverLifecycleProofs`
* `AtMostOneServer` (`ServerSound`), `TypeCorrect`: for any number of server
  objects, clicks and faults. `OneServer` becomes inductive with `TryingAlone`: a
  start is under way only while there is no server, which both `_toggle_server` and
  the watch see to.
* `WifiVerdictTrue` (`VerdictTrue`): for any number of network windows, networks and
  operations. `Alone`: while an operation is on its own no other one runs; `OwnLate`:
  the given-up changes still in the card are its own, so that their arrival can only
  confirm what it has read (`Answered`). One lemma per step (`Sound` is what it owes).

`EventPopupsProofs`
* `ScreenIsSound` (`ScreenSound`): for any number of uploads, alerts, clicks and
  windows. `ScreenInv` adds that no window is used before its number, so that a
  new one overwrites none; `StripInv` that the strip, whatever its length, is the
  newest part of what was previewed; `RestType` holds the remaining types.
* `EveryPhotoAnnounced`: `QueueInv` says that a photo is still to be announced
  exactly if its event is in the queue, once, and that is only when it was received.
* `TimerClosesItsOwn` (`OwnTimerOnly`): a timer names the window it was set for.

`ComponentsProofs` (the components that share a run and no state)
* The library. `TypeCorrect`, and `LedgerNamesSaved` (`LibrarySound`): for any number
  of photos, handlers, faults and days, if the photos have different names
  (`NamesDiffer`) or no two threads run at once (`Exclusive`). Each path holds
  only what its name belongs to, and a thread about to record a photo has seen or
  written it whole. With photos of one name and threads at once, a file may be
  `Damaged`, which `LibraryOverwrite` shows.
  Under `Exclusive`: `ReceivedStays` (`ReceivedKept`), as a path that is opened is
  free until it is written; `ImportedOnce` (`NotImportedAgain`), as the ledger knows
  every photo received within `KeepDays`, or the one thread is about to enter it; and
  `NothingStoredTwice` (`StoredOnce`), where the thread that writes has looked for
  the photo in every recent folder, and no folder is of a day to come. The
  last one needs `ClocksRight`: the import copies nothing dated after today, since it
  files such a photo under its date, where a later search does not look.
* The configuration. `ConfigurationSafe` (`ConfigSound`): for any programs, cards and
  faults. Unless saves overlap, `OneSaves` says what the temporary file holds at
  each step of the one save, and `LoneProgram` that the disk has what a program that
  runs alone has saved. `FoldersStay` is the action property.
* The upload. `StoredBeforeSuccess` (`AckedHasFile`) is `SuccessNeedsFile` for the
  instance in `MCComponents`; the lemmas before it say that both instances are the
  same specification.
* The checksum. `ChecksumIsInternet` (`ChecksumRight`): for blocks of any length and
  bytes of any size. `FoldIsOnes` says what the loop of carries computes for every
  total, `SumsAlike` that two sums of words differ as the words do, `SwapOnes`
  that exchanging the bytes of a word multiplies it by `Byte` modulo `Word - 1`.
* Bodies and tars. `PayloadIsExact` (`PayloadExact`): for payloads and members of any
  number and size, under `InputsArrive` (an input is cut off somewhere in it).
  `ChunkIs`, `TrimStartIs`, `TrimEndIs` and `PayloadIs` follow `split_multipart` line
  by line, each with the exact piece of the body it leaves, and `PartIsExact` compares
  the last of them with the payload and with what came of the closing symbols. For the tar,
  `HeadersGrow` says that no two headers begin at one offset, so the loop finds
  the members in their order. `Sought` is what is to be found from an offset on:
  `SoughtTurns` says that it solves the equation of `Walk`, `WalkFinds` that `Walk`
  agrees with it at every header, and `ExtractsComplete` compares it with what the
  extraction needs.
* The key. `RecoveredKeyIsOwn` (`KeyRight`): for any number of files, blocks and
  rows. `FileKey` says what one file can give.
* The captures. `CapturesConfirm` (`CapturesTell`): for any number of handlers,
  photos and captures. `PlacesLeft` bounds the files that exist plus those that
  handlers still have to write by the limit and the handlers, and `NamesTell`
  that a file is what its name says; `TwoFilesAgree` then lets the tool find the
  formula.

Assumptions on constants, each named where the constant is declared or given its
value, are about what the code fixes: special values differ from data (`StatesApart`,
`KeysApart`, `WriterAssumption`), sizes and limits are positive (`UploadConstants`,
`CaptureNumbers`, `ByteSize`, `BlockSizes`), and the numbers of a mailbox session do not
reach the values it takes for erased (`MailboxAssumption`). TLC evaluates all of them.

The recursive definitions that these theorems need (`Sums`, `Fold`, `Walk`) are recursive
functions, about which induction is done by hand: the set of arguments for which the
claim fails has a least element (`FirstIndex`, from `WFMin`), and the equation of the
function refutes it. That the equation has a solution at all is a lemma of its own
(`SumsExist`, `FoldDefined`, `SoughtTurns`).

Only model-checked: every liveness property (TLAPS proves neither ENABLED nor
fairness). Facts about sequences and finite sets are cited from the library's
theorem modules.

## Findings

Disagreements of the code with what its comments or its README say; each has a
run whose counterexample shows it, and `PROJECT.json` quotes the lines.

* `eyefi_server.py` 681 (`SpoolStrandedByRace`): a superseded handler whose own
  last append filled the spool leaves without completing it; every later upload is
  empty and refused.
* `eyefi_server.py` 193 (`SpoolRestartRace`): after a stop and start in one process
  the handlers of the old server object have locks and tokens of their own, and write
  into the spool beside those of the new one.
* `eyefi_server.py` 309 (`LibraryOverwrite`): two threads choose the same free
  name.
* `eyefi_server.py` 161 (`LifecycleConflict`): a taken port raises AttributeError
  instead of OSError, so the conflict is not logged and no attempt is repeated; a
  program started with `--tray` or `--headless` ends.

Limits that the models have as assumptions, as exceptions named in a property, or
as a listed hazard:

* Transfer. For a card that departs from the protocol, a body may be misplaced:
  `last_adv` as a fallback for a connection that asked no status (590,
  `CrossConn`); a body from 0 after a told offset of less than 4096 bytes, which
  is not recognised (596, `IgnoreOffset`); a body that is slightly short, whose
  closing boundary is kept (644, `ShortBodies`). A full spool is not filed after a
  crash between the last append and the save either (671, the second half of
  `AckedOrStranded`). A spool that resumes between the scan and `_spool_abandon`
  is archived (150).
* Spool files. A spool whose `.size` is missing is compared by length only, and is
  continued by another, longer photo of its name (184; `orphan` in `SizeTrue` and
  `FiledIsPhoto`). Two photos of one name and size are one photo to the receiver. The
  runs and theorems about the files have the handlers of a stopped server object
  ended (`LiveOn = FALSE`), except for `SpoolRestartRace`.
* Sessions. A session appended during the search ends the request of a valid
  credential without an answer (502, `Died`); `ServedEventually` shows that the
  card is served in the end.
* Library. A photo older than the 30 searched days is stored again when it arrives
  by both ways (`reader_import.py` 89), and so is one that the import filed under a
  day to come, because the camera's clock was ahead; a ledger entry is lost while the
  import reads the file (53).
* Mailbox. Two sessions at once count from the same number, and one may take the
  answers of the other (`card_mailbox.py` 197, 212): runs and theorems have
  `Overlap = FALSE`, that is one session at a time, and with `Overlap = TRUE`
  `MailboxSound` fails. Also one at a time, up to two commands of a session may
  take a late answer of an earlier one, because the numbers start again from RSPC;
  if the list of `add` or `delete` is among them, the report may be wrong.
  `add_network` fails as a whole when the network was added but the list or the MAC
  that follows cannot be read (619).
* Life cycle. After one failed restart the watch has no server left to watch
  (`gui.py` 1303; the failed starts in `DeadServerReplaced`).
* Window. A card exchanged within ten seconds is not noticed, as drives are
  compared (`gui.py` 810); a card identified during an import is not imported
  later (870); a card exchanged after its MAC was read is imported under the other
  one's registration; `_watch_server` is content with another program on its port
  (1307; `foreign` in `DeadServerReplaced`); a window closed while a network is
  added leaves the configuration without it (759).
* Key recovery. In a text that is not well-formed the first labelled key is taken,
  whosever it is (`key_recovery.py` 84; `Guessed` in `OwnKeyOnly`). A row without an
  upload key gives another column that looks like one (also `Guessed`); a key of
  zeros is refused in the known files and accepted in one that the user picks.
* Algorithms. A tar that is cut off in the header of a later member counts as
  complete (`eyefi_protocol.py` 245; the media member itself is whole). A body that is
  cut off in the closing line end or delimiter leaves what came of them in the part
  (`eyefi_protocol.py` 192-206). A directory or a link with a size is not modelled:
  `tar_media_complete` skips its data (262), `tarfile` does not, so such a tar might
  count as complete and not be extracted.
* Captures. Concurrent handlers exceed the limit (`eyefi_server.py` 328;
  `LimitNearly` says by how much). Photos that share name and size, and failed
  writes, may mislead the tool (`Distinct` and `faults = 0` in `FormulaFound`).
* Card Wi-Fi window. Whenever the helper answers with an error, the list of stored
  networks is emptied, since any such answer counts as data and none has that list
  (`card_wifi.py` 64, `gui.py` 722). An operation beside another one, or after one that
  was given up, may report what is not so (`mixed` in `VerdictTrue`). A list that the DLL does
  not give counts as empty: a network is reported as deleted
  (`EyeFiCardWifi.ps1` 133, 198).
* Configuration. Clearing the folder of a card has no effect, since an empty one
  means "keep" (`config.py` 90). Of two programs the one that saves last overwrites
  what the other changed; saving at the same time, they may leave a file that cannot
  be read (`overlap` in `Loadable`).

## Not modelled

* Of the transfer: the chunked and no-boundary bodies (527-536), which have no
  streaming and no resume. Of the captures: `capture_failure`, the same structure
  with a limit of 5, whose files nothing reads.
* Of the library: `date_subfolders` off and folders per card. Of the algorithms:
  the spellings of a MAC, the variants of the MD5 argument, the SOAP texts. Of the
  mailbox and the reader: raw disk access, the encoding of requests, the vendor DLL,
  the diagnostics file. Of the popups: the percentage, the thumbnails of an import.
* Windows integration: `autostart.py` sets one registry value, `paths.py` is
  constants, the PowerShell helpers and the installer call the operating system.
  `docs/eyefi-config.*` is third-party reference code. The test suite was read for
  the behaviour it expects.

## Plan

Done: `SpoolTransfer`, `SpoolWatchdog`, `SessionAuth`, `MediaLibrary`,
`CardMailbox`, `ReaderImport`, `ReceiverLifecycle`, `EventPopups`,
`ProtocolAlgorithms`, `SpoolFiles` with `PhotoSpool`, `KeyRecovery`, `Captures`,
`ConfigFile`, `CardWifi`. Left, in this order:

1. The chunked body as further inputs of the upload handler in `SpoolTransfer`.
2. Folders per card in `MediaLibrary`, whose choice `ConfigFile` already has.

A new module joins the run of a component it shares nothing with, as long as that
run stays short; a run of its own is for what interacts.
