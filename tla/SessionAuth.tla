----------------------------- MODULE SessionAuth -----------------------------
(***************************************************************************)
(* StartSession and the credential check of GetPhotoStatus in              *)
(* eyefi_server.py, for one card.  The card drops connections and opens    *)
(* new ones, so several handlers append sessions while others search them. *)
(* The user may edit the card's registration at any time.                  *)
(*                                                                         *)
(* A credential is modelled by what it is made of: the upload key and the  *)
(* nonces of one session, which stand for each other.                      *)
(***************************************************************************)
EXTENDS Integers, Sequences, SequencesExt

CONSTANTS
    Conn,           \* connection slots
    NoConn,
    Nonce,          \* a finite stock of session nonces, reused when forgotten
    Window,         \* maxlen of the deque of recent sessions
    Key,            \* upload keys that may be registered
    CardKey,        \* the key the card has
    NoKey,          \* the card is not registered
    MaxFaults,      \* bound on dropped connections and restarts
    MaxEdits        \* bound on changes of the registration

ASSUME KeyAssumption == CardKey \in Key /\ NoKey \notin Key
ASSUME ConnAssumption == NoConn \notin Conn
ASSUME BoundAssumption ==
    /\ Nonce \subseteq Nat \ {0}
    /\ Window \in Nat \ {0}
    /\ MaxFaults \in Nat /\ MaxEdits \in Nat

VARIABLES
    sessions,       \* srv.sessions[mac], the oldest first
    config,         \* upload key in the configuration, or NoKey
    pc,             \* pc[c]: where the handler of c is
    nonce,          \* nonce[c]: of the session it makes, or of the credential it got
    key,            \* key[c]: the upload key of the entry it looked up
    pos,            \* pos[c]: sessions the search has still to try
    mutated,        \* mutated[c]: the deque changed since the search began
    kept,           \* kept[c]: the session of the credential was kept when the
                    \*   search began (history)
    edited,         \* edited[c]: the key changed during the search (history)
    cardConn,       \* connection the card uses
    held,           \* nonce of the last StartSession answer, 0 if none
    served,         \* the card was told an offset
    faults,
    edits

search == <<nonce, key, pos, mutated, kept, edited>>
vars == <<sessions, config, pc, nonce, key, pos, mutated, kept, edited, cardConn,
          held, served, faults, edits>>

Labels == {"closed", "idle", "start", "append", "welcome",
           "status", "match", "offset", "refuse"}

Init ==
    /\ sessions = << >>
    /\ config \in Key \cup {NoKey}
    /\ pc = [c \in Conn |-> "closed"]
    /\ nonce = [c \in Conn |-> 0]
    /\ key = [c \in Conn |-> NoKey]
    /\ pos = [c \in Conn |-> 0]
    /\ mutated = [c \in Conn |-> FALSE]
    /\ kept = [c \in Conn |-> FALSE]
    /\ edited = [c \in Conn |-> FALSE]
    /\ cardConn = NoConn
    /\ held = 0
    /\ served = FALSE
    /\ faults = 0
    /\ edits = 0

Goto(c, label) == pc' = [pc EXCEPT ![c] = label]

\* A random nonce is none of those still in use anywhere; which one it is makes
\* no difference.  Window + |Conn| + 2 nonces never run out.
Unused == Nonce \ (ToSet(sessions) \cup {held} \cup {nonce[c] : c \in Conn})

(***************************************************************************)
(* The card and the user.                                                  *)
(***************************************************************************)
Connect(c) ==
    /\ ~served /\ cardConn = NoConn /\ pc[c] = "closed"
    /\ Goto(c, "idle")
    /\ cardConn' = c
    /\ UNCHANGED <<sessions, config, search, held, served, faults, edits>>

SendStart(c) ==
    /\ ~served /\ cardConn = c /\ pc[c] = "idle"
    /\ Goto(c, "start")
    /\ UNCHANGED <<sessions, config, search, cardConn, held, served, faults, edits>>

\* The credential is made of the card's key and the nonces it holds.
SendStatus(c) ==
    /\ ~served /\ cardConn = c /\ pc[c] = "idle" /\ held # 0
    /\ Goto(c, "status")
    /\ nonce' = [nonce EXCEPT ![c] = held]
    /\ UNCHANGED <<sessions, config, key, pos, mutated, kept, edited, cardConn, held,
                   served, faults, edits>>

Abandon ==
    /\ cardConn # NoConn /\ faults < MaxFaults
    /\ cardConn' = NoConn
    /\ faults' = faults + 1
    /\ UNCHANGED <<sessions, config, pc, search, held, served, edits>>

IdleClose(c) ==
    /\ pc[c] = "idle" /\ cardConn # c
    /\ Goto(c, "closed")
    /\ UNCHANGED <<sessions, config, search, cardConn, held, served, faults, edits>>

\* The user registers the card, changes its key or deletes it.  A new key goes
\* into the same entry: a search that looked the entry up compares with it from
\* then on, unless the entry was deleted and made anew since.
EditCard ==
    /\ edits < MaxEdits
    /\ edits' = edits + 1
    /\ config' \in (Key \cup {NoKey}) \ {config}
    /\ \E same \in SUBSET {c \in Conn : pc[c] = "match" /\ NoKey \notin {config, config'}} :
          /\ key' = [c \in Conn |-> IF c \in same THEN config' ELSE key[c]]
          /\ edited' = [c \in Conn |-> edited[c] \/ c \in same]
    /\ UNCHANGED <<sessions, pc, nonce, pos, mutated, kept, cardConn, held, served, faults>>

Restart ==
    /\ faults < MaxFaults
    /\ faults' = faults + 1
    /\ sessions' = << >>
    /\ pc' = [c \in Conn |-> "closed"]
    /\ nonce' = [c \in Conn |-> 0]
    /\ key' = [c \in Conn |-> NoKey]
    /\ pos' = [c \in Conn |-> 0]
    /\ mutated' = [c \in Conn |-> FALSE]
    /\ kept' = [c \in Conn |-> FALSE]
    /\ edited' = [c \in Conn |-> FALSE]
    /\ cardConn' = NoConn
    /\ UNCHANGED <<config, held, served, edits>>

(***************************************************************************)
(* _handle_start_session.  A card that is not registered gets a session    *)
(* too, with a key that proves nothing.                                    *)
(***************************************************************************)
ReadStart(c) ==
    /\ pc[c] = "start"
    /\ key' = [key EXCEPT ![c] = config]
    /\ Unused # {}
    /\ nonce' = [nonce EXCEPT ![c] = CHOOSE n \in Unused : TRUE]
    /\ Goto(c, "append")
    /\ UNCHANGED <<sessions, config, pos, mutated, kept, edited, cardConn, held, served,
                   faults, edits>>

\* Mutant: the deque keeps the first sessions instead of the last.
MutantRecent(s) == SubSeq(s, 1, IF Len(s) < Window THEN Len(s) ELSE Window)

Recent(s) == SubSeq(s, IF Len(s) > Window THEN Len(s) - Window + 1 ELSE 1, Len(s))

AppendSession(c) ==
    /\ pc[c] = "append"
    /\ sessions' = Recent(Append(sessions, nonce[c]))
    /\ mutated' = [d \in Conn |-> TRUE]
    /\ Goto(c, "welcome")
    /\ UNCHANGED <<config, nonce, key, pos, kept, edited, cardConn, held, served, faults, edits>>

\* The answer.  The card takes the session if the server's own credential shows
\* that it knows the card's key.
Welcome(c) ==
    /\ pc[c] = "welcome"
    /\ held' = IF cardConn = c /\ key[c] = CardKey THEN nonce[c] ELSE held
    /\ nonce' = [nonce EXCEPT ![c] = 0]
    /\ Goto(c, "idle")
    /\ UNCHANGED <<sessions, config, key, pos, mutated, kept, edited, cardConn, served,
                   faults, edits>>

(***************************************************************************)
(* _handle_get_photo_status: the credential against the kept sessions, the *)
(* newest first.                                                           *)
(***************************************************************************)
ReadStatus(c) ==
    /\ pc[c] = "status"
    /\ key' = [key EXCEPT ![c] = config]
    /\ pos' = [pos EXCEPT ![c] = Len(sessions)]
    /\ mutated' = [mutated EXCEPT ![c] = FALSE]
    /\ kept' = [kept EXCEPT ![c] = nonce[c] \in ToSet(sessions)]
    /\ edited' = [edited EXCEPT ![c] = FALSE]
    /\ Goto(c, IF config = NoKey THEN "offset" ELSE "match")
    /\ UNCHANGED <<sessions, config, nonce, cardConn, held, served, faults, edits>>

\* Mutant: the key of the credential is not compared.
MutantMatches(c) == sessions[pos[c]] = nonce[c]

\* match_credential for the session at hand.
Matches(c) == key[c] = CardKey /\ sessions[pos[c]] = nonce[c]

\* Mutant: the last session to try, the oldest, is left out.
MutantTryNext(c) ==
    /\ pc[c] = "match" /\ pos[c] > 0 /\ ~mutated[c]
    /\ Goto(c, IF Matches(c) THEN "offset" ELSE IF pos[c] <= 2 THEN "refuse" ELSE "match")
    /\ pos' = [pos EXCEPT ![c] = @ - 1]
    /\ UNCHANGED <<sessions, config, nonce, key, mutated, kept, edited, cardConn, held,
                   served, faults, edits>>

TryNext(c) ==
    /\ pc[c] = "match" /\ pos[c] > 0 /\ ~mutated[c]
    /\ Goto(c, IF Matches(c) THEN "offset" ELSE "match")
    /\ pos' = [pos EXCEPT ![c] = @ - 1]
    /\ UNCHANGED <<sessions, config, nonce, key, mutated, kept, edited, cardConn, held,
                   served, faults, edits>>

NoneLeft(c) ==
    /\ pc[c] = "match" /\ pos[c] = 0
    /\ Goto(c, "refuse")
    /\ UNCHANGED <<sessions, config, search, cardConn, held, served, faults, edits>>

Close(c) ==
    /\ Goto(c, "closed")
    /\ cardConn' = IF cardConn = c THEN NoConn ELSE cardConn

\* "deque mutated during iteration": the handler dies, the connection ends.
Died(c) ==
    /\ pc[c] = "match" /\ pos[c] > 0 /\ mutated[c]
    /\ Close(c)
    /\ nonce' = [nonce EXCEPT ![c] = 0]
    /\ UNCHANGED <<sessions, config, key, pos, mutated, kept, edited, held, served, faults, edits>>

TellOffset(c) ==
    /\ pc[c] = "offset"
    /\ served' = (served \/ cardConn = c)
    /\ nonce' = [nonce EXCEPT ![c] = 0]
    /\ Goto(c, "idle")
    /\ UNCHANGED <<sessions, config, key, pos, mutated, kept, edited, cardConn, held, faults, edits>>

\* 403: the card begins with StartSession again.
Refuse(c) ==
    /\ pc[c] = "refuse"
    /\ held' = IF cardConn = c THEN 0 ELSE held
    /\ nonce' = [nonce EXCEPT ![c] = 0]
    /\ Goto(c, "idle")
    /\ UNCHANGED <<sessions, config, key, pos, mutated, kept, edited, cardConn, served,
                   faults, edits>>

Handler(c) ==
    \/ ReadStart(c) \/ AppendSession(c) \/ Welcome(c)
    \/ ReadStatus(c) \/ TryNext(c) \/ NoneLeft(c) \/ Died(c)
    \/ TellOffset(c) \/ Refuse(c)

Next ==
    \/ \E c \in Conn : Connect(c) \/ SendStart(c) \/ SendStatus(c) \/ IdleClose(c) \/ Handler(c)
    \/ Abandon \/ EditCard \/ Restart

Spec == Init /\ [][Next]_vars

(***************************************************************************)
(* Fairness: handlers are threads, left connections end, and the card      *)
(* keeps trying: it reconnects, asks whenever it may, and starts a session *)
(* whenever it holds none.                                                 *)
(***************************************************************************)
FairSpec ==
    /\ Spec
    /\ \A c \in Conn :
          /\ WF_vars(Handler(c)) /\ WF_vars(IdleClose(c)) /\ WF_vars(Connect(c))
          /\ SF_vars(SendStatus(c))
          /\ SF_vars(held = 0 /\ SendStart(c))
-----------------------------------------------------------------------------
TypeOK ==
    /\ sessions \in Seq(Nonce) /\ Len(sessions) <= Window
    /\ config \in Key \cup {NoKey}
    /\ pc \in [Conn -> Labels]
    /\ nonce \in [Conn -> Nonce \cup {0}]
    /\ key \in [Conn -> Key \cup {NoKey}]
    /\ pos \in [Conn -> 0..Window]
    /\ mutated \in [Conn -> BOOLEAN]
    /\ kept \in [Conn -> BOOLEAN]
    /\ edited \in [Conn -> BOOLEAN]
    /\ cardConn \in Conn \cup {NoConn}
    /\ held \in Nonce \cup {0}
    /\ served \in BOOLEAN
    /\ faults \in 0..MaxFaults
    /\ edits \in 0..MaxEdits

\* The credential of c is made with the key of the entry, and its session was
\* kept when the search began.
Fitting(c) == kept[c] /\ key[c] = CardKey

\* The card is refused only if its credential fits none of the sessions kept
\* when the search began, whatever sessions other connections open meanwhile.
WindowHonoured == \A c \in Conn : pc[c] = "refuse" => ~Fitting(c) \/ edited[c]

\* An offset is told after a search only for a credential that fits.
OffsetEarned == \A c \in Conn : pc[c] = "offset" /\ key[c] # NoKey => Fitting(c)

\* With its key registered for good, the card gets its offset in the end.
ServedEventually == <>[](config = CardKey) => <>served

\* The types, at most Window sessions among them, and no offset for nothing.
SessionSound == TypeOK /\ OffsetEarned
=============================================================================
