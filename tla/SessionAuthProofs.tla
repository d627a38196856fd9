-------------------------- MODULE SessionAuthProofs --------------------------
(***************************************************************************)
(* Theorems about SessionAuth: for any window of sessions, any number of   *)
(* connections, restarts and edits, the search answers what was kept when  *)
(* it began.                                                               *)
(***************************************************************************)
EXTENDS SessionAuth, TLAPS, SequenceTheorems

\* While the deque is as it was, what is left to try decides; under one key,
\* the sessions tried before do not fit.
Searching(c) ==
    pc[c] = "match" =>
        /\ key[c] # NoKey
        /\ pos[c] = 0 => ~Fitting(c) \/ edited[c]
        /\ ~mutated[c] =>
              /\ pos[c] <= Len(sessions)
              /\ \A i \in 1..pos[c] : sessions[i] = nonce[c] => kept[c]
              /\ Fitting(c) /\ ~edited[c] => \E i \in 1..pos[c] : sessions[i] = nonce[c]

\* A session that is about to be kept has a nonce.
Made(c) == pc[c] \in {"append", "welcome", "status", "match"} => nonce[c] # 0

\* An offset without a key is told without a search.
Concluded(c) ==
    /\ pc[c] = "refuse" => ~Fitting(c) \/ edited[c]
    /\ pc[c] = "offset" /\ key[c] # NoKey => Fitting(c)

ConnInv(c) == Searching(c) /\ Made(c) /\ Concluded(c)

SessionInv == TypeOK /\ \A c \in Conn : ConnInv(c)

\* The deque keeps at most Window sessions.
LEMMA RecentType ==
    ASSUME NEW s \in Seq(Nonce)
    PROVE  Recent(s) \in Seq(Nonce) /\ Len(Recent(s)) <= Window
<1>1. Window \in Nat \ {0} /\ Len(s) \in Nat
  BY BoundAssumption
<1> DEFINE a == IF Len(s) > Window THEN Len(s) - Window + 1 ELSE 1
<1>2. a \in 1..(Len(s) + 1) /\ Len(s) - a + 1 <= Window /\ Len(s) - a + 1 \in Nat
  BY <1>1
<1>3. /\ SubSeq(s, a, Len(s)) \in Seq(Nonce)
      /\ Len(SubSeq(s, a, Len(s))) = IF a <= Len(s) THEN Len(s) - a + 1 ELSE 0
  BY <1>1, <1>2, SubSeqProperties
<1>4. Len(SubSeq(s, a, Len(s))) <= Window
  BY <1>1, <1>2, <1>3
<1> QED
  BY <1>3, <1>4 DEF Recent

LEMMA SessionInit == Init => SessionInv
<1> SUFFICES ASSUME Init PROVE SessionInv
  OBVIOUS
<1>1. << >> \in Seq(Nonce) /\ Len(<< >>) = 0
  OBVIOUS
<1>2. TypeOK
  <2>1. sessions \in Seq(Nonce) /\ Len(sessions) <= Window
    BY <1>1, BoundAssumption DEF Init
  <2>2. /\ pc \in [Conn -> Labels] /\ nonce \in [Conn -> Nonce \cup {0}]
        /\ key \in [Conn -> Key \cup {NoKey}] /\ pos \in [Conn -> 0..Window]
    BY BoundAssumption DEF Init, Labels
  <2>3. mutated \in [Conn -> BOOLEAN] /\ kept \in [Conn -> BOOLEAN] /\ edited \in [Conn -> BOOLEAN]
    BY DEF Init
  <2>4. config \in Key \cup {NoKey} /\ cardConn \in Conn \cup {NoConn} /\ held \in Nonce \cup {0}
    BY DEF Init
  <2>5. faults \in 0..MaxFaults /\ edits \in 0..MaxEdits
    BY BoundAssumption DEF Init
  <2>6. served \in BOOLEAN
    BY DEF Init
  <2> QED
    BY <2>1, <2>2, <2>3, <2>4, <2>5, <2>6 DEF TypeOK
<1>3. \A c \in Conn : ConnInv(c)
  BY DEF Init, ConnInv, Searching, Made, Concluded, Fitting
<1> QED
  BY <1>2, <1>3 DEF SessionInv

\* A handler moves without touching what another one relies on.
LEMMA OtherConn ==
    ASSUME NEW c \in Conn, ConnInv(c), UNCHANGED sessions,
           pc'[c] = pc[c], nonce'[c] = nonce[c], key'[c] = key[c], pos'[c] = pos[c],
           mutated'[c] = mutated[c], kept'[c] = kept[c], edited'[c] = edited[c]
    PROVE  ConnInv(c)'
BY DEF ConnInv, Searching, Made, Concluded, Fitting

\* The card, the network and the user.
LEMMA OutsideStep ==
    ASSUME SessionInv, NEW c \in Conn,
           Connect(c) \/ SendStart(c) \/ SendStatus(c) \/ IdleClose(c) \/ Abandon
    PROVE  SessionInv'
<1>1. TypeOK /\ \A d \in Conn : ConnInv(d)
  BY DEF SessionInv
<1>2. TypeOK'
  <2>1. pc' \in [Conn -> Labels]
    BY <1>1 DEF TypeOK, Connect, SendStart, SendStatus, IdleClose, Abandon, Goto, Labels
  <2>2. nonce' \in [Conn -> Nonce \cup {0}]
    BY <1>1 DEF TypeOK, Connect, SendStart, SendStatus, IdleClose, Abandon, search
  <2>3. cardConn' \in Conn \cup {NoConn} /\ faults' \in 0..MaxFaults
    BY <1>1, BoundAssumption DEF TypeOK, Connect, SendStart, SendStatus, IdleClose, Abandon
  <2>4. UNCHANGED <<sessions, config, key, pos, mutated, kept, edited, held, served, edits>>
    BY DEF Connect, SendStart, SendStatus, IdleClose, Abandon, search
  <2> QED
    BY <1>1, <2>1, <2>2, <2>3, <2>4 DEF TypeOK
<1>3. ASSUME NEW d \in Conn PROVE ConnInv(d)'
  <2>1. CASE SendStatus(c) /\ d = c
    BY <1>1, <2>1 DEF TypeOK, SendStatus, Goto, ConnInv, Searching, Made, Concluded, Fitting
  <2>2. CASE (Connect(c) \/ SendStart(c) \/ IdleClose(c)) /\ d = c
    BY <1>1, <2>2
       DEF TypeOK, Connect, SendStart, IdleClose, Goto, ConnInv, Searching, Made, Concluded, Fitting
  <2>3. CASE Abandon \/ d # c
    <3>1. /\ UNCHANGED sessions
          /\ pc'[d] = pc[d] /\ nonce'[d] = nonce[d] /\ key'[d] = key[d] /\ pos'[d] = pos[d]
          /\ mutated'[d] = mutated[d] /\ kept'[d] = kept[d] /\ edited'[d] = edited[d]
      BY <1>1, <2>3
         DEF TypeOK, Connect, SendStart, SendStatus, IdleClose, Abandon, Goto, search
    <3> QED
      BY <1>1, <3>1, OtherConn
  <2> QED
    BY <2>1, <2>2, <2>3
<1> QED
  BY <1>2, <1>3 DEF SessionInv

\* The user: a search whose key changed may end either way.
LEMMA EditStep ==
    ASSUME SessionInv, EditCard
    PROVE  SessionInv'
<1>1. TypeOK /\ \A c \in Conn : ConnInv(c)
  BY DEF SessionInv
<1>2. PICK same \in SUBSET {c \in Conn : pc[c] = "match" /\ NoKey \notin {config, config'}} :
        /\ key' = [c \in Conn |-> IF c \in same THEN config' ELSE key[c]]
        /\ edited' = [c \in Conn |-> edited[c] \/ c \in same]
  BY DEF EditCard
<1>3. /\ config' \in Key \cup {NoKey} /\ edits' \in 0..MaxEdits
      /\ UNCHANGED <<sessions, pc, nonce, pos, mutated, kept, cardConn, held, served, faults>>
  BY <1>1, BoundAssumption DEF EditCard, TypeOK
<1>4. TypeOK'
  <2>1. key' \in [Conn -> Key \cup {NoKey}]
    BY <1>1, <1>2, <1>3 DEF TypeOK
  <2>2. edited' \in [Conn -> BOOLEAN]
    BY <1>2
  <2> QED
    BY <1>1, <1>3, <2>1, <2>2 DEF TypeOK
<1>5. ASSUME NEW c \in Conn PROVE ConnInv(c)'
  <2>1. CASE c \in same
    <3>1. pc[c] = "match" /\ edited'[c] /\ key'[c] # NoKey
      BY <1>2, <2>1
    <3> QED
      BY <1>1, <1>3, <3>1 DEF TypeOK, ConnInv, Searching, Made, Concluded, Fitting
  <2>2. CASE c \notin same
    <3>1. key'[c] = key[c] /\ edited'[c] = edited[c]
      BY <1>1, <1>2, <2>2 DEF TypeOK
    <3> QED
      BY <1>1, <1>3, <3>1, OtherConn
  <2> QED
    BY <2>1, <2>2
<1> QED
  BY <1>4, <1>5 DEF SessionInv

LEMMA RestartStep ==
    ASSUME SessionInv, Restart
    PROVE  SessionInv'
<1>1. << >> \in Seq(Nonce) /\ Len(<< >>) = 0
  OBVIOUS
<1>2. TypeOK'
  BY <1>1, BoundAssumption DEF SessionInv, TypeOK, Restart, Labels
<1>3. \A c \in Conn : ConnInv(c)'
  BY DEF Restart, ConnInv, Searching, Made, Concluded, Fitting
<1> QED
  BY <1>2, <1>3 DEF SessionInv

\* _handle_start_session.
LEMMA StartStep ==
    ASSUME SessionInv, NEW c \in Conn, ReadStart(c) \/ AppendSession(c) \/ Welcome(c)
    PROVE  SessionInv'
<1>1. TypeOK /\ \A d \in Conn : ConnInv(d)
  BY DEF SessionInv
<1> USE BoundAssumption
<1>2. CASE ReadStart(c)
  <2>1. (CHOOSE n \in Unused : TRUE) \in Nonce
    BY <1>2 DEF ReadStart, Unused
  <2>2. TypeOK'
    BY <1>1, <1>2, <2>1 DEF TypeOK, ReadStart, Goto, Labels
  <2>3. ConnInv(c)'
    BY <1>1, <1>2, <2>1 DEF TypeOK, ReadStart, Goto, ConnInv, Searching, Made, Concluded, Fitting
  <2>4. ASSUME NEW d \in Conn, d # c PROVE ConnInv(d)'
    <3>1. /\ UNCHANGED sessions
          /\ pc'[d] = pc[d] /\ nonce'[d] = nonce[d] /\ key'[d] = key[d] /\ pos'[d] = pos[d]
          /\ mutated'[d] = mutated[d] /\ kept'[d] = kept[d] /\ edited'[d] = edited[d]
      BY <1>1, <1>2, <2>4 DEF TypeOK, ReadStart, Goto
    <3> QED
      BY <1>1, <3>1, OtherConn
  <2> QED
    BY <2>2, <2>3, <2>4 DEF SessionInv
<1>3. CASE AppendSession(c)
  <2>1. nonce[c] \in Nonce /\ sessions \in Seq(Nonce)
    BY <1>1, <1>3 DEF TypeOK, AppendSession, ConnInv, Made
  <2>2. Append(sessions, nonce[c]) \in Seq(Nonce)
    BY <2>1, AppendProperties
  <2>3. Recent(Append(sessions, nonce[c])) \in Seq(Nonce) /\ Len(Recent(Append(sessions, nonce[c]))) <= Window
    BY <2>2, RecentType
  <2>4. TypeOK'
    BY <1>1, <1>3, <2>3 DEF TypeOK, AppendSession, Goto, Labels
  <2>5. ASSUME NEW d \in Conn PROVE ConnInv(d)'
    BY <1>1, <1>3 DEF TypeOK, AppendSession, Goto, ConnInv, Searching, Made, Concluded, Fitting
  <2> QED
    BY <2>4, <2>5 DEF SessionInv
<1>4. CASE Welcome(c)
  <2>1. TypeOK'
    BY <1>1, <1>4 DEF TypeOK, Welcome, Goto, Labels
  <2>2. ConnInv(c)'
    BY <1>1, <1>4 DEF TypeOK, Welcome, Goto, ConnInv, Searching, Made, Concluded, Fitting
  <2>3. ASSUME NEW d \in Conn, d # c PROVE ConnInv(d)'
    <3>1. /\ UNCHANGED sessions
          /\ pc'[d] = pc[d] /\ nonce'[d] = nonce[d] /\ key'[d] = key[d] /\ pos'[d] = pos[d]
          /\ mutated'[d] = mutated[d] /\ kept'[d] = kept[d] /\ edited'[d] = edited[d]
      BY <1>1, <1>4, <2>3 DEF TypeOK, Welcome, Goto
    <3> QED
      BY <1>1, <3>1, OtherConn
  <2> QED
    BY <2>1, <2>2, <2>3 DEF SessionInv
<1> QED
  BY <1>2, <1>3, <1>4

\* The frame of a step of the search: other handlers and the deque stay.
StatusAction(c) ==
    ReadStatus(c) \/ TryNext(c) \/ NoneLeft(c) \/ Died(c) \/ TellOffset(c) \/ Refuse(c)

LEMMA StatusStep ==
    ASSUME SessionInv, NEW c \in Conn, StatusAction(c)
    PROVE  SessionInv'
<1>1. TypeOK /\ \A d \in Conn : ConnInv(d)
  BY DEF SessionInv
<1> USE BoundAssumption, KeyAssumption
<1>0. Len(sessions) \in 0..Window
  BY <1>1 DEF TypeOK
<1>2. TypeOK'
  <2>1. CASE ReadStatus(c)
    BY <1>0, <1>1, <2>1 DEF TypeOK, ReadStatus, Goto, Labels
  <2>2. CASE TryNext(c)
    BY <1>1, <2>2 DEF TypeOK, TryNext, Goto, Labels
  <2>3. CASE NoneLeft(c) \/ Died(c) \/ TellOffset(c) \/ Refuse(c)
    BY <1>1, <2>3 DEF TypeOK, NoneLeft, Died, Close, TellOffset, Refuse, Goto, Labels, search
  <2> QED
    BY <2>1, <2>2, <2>3 DEF StatusAction
<1>3. ConnInv(c)'
  <2>1. CASE ReadStatus(c)
    <3>1. /\ pc'[c] = IF config = NoKey THEN "offset" ELSE "match"
          /\ key'[c] = config /\ pos'[c] = Len(sessions) /\ ~mutated'[c]
          /\ nonce'[c] = nonce[c] /\ sessions' = sessions /\ nonce[c] # 0
          /\ kept'[c] <=> nonce[c] \in ToSet(sessions)
      BY <1>1, <2>1 DEF TypeOK, ReadStatus, Goto, ConnInv, Made
    <3>2. nonce[c] \in ToSet(sessions) <=> \E i \in 1..Len(sessions) : sessions[i] = nonce[c]
      <4>1. sessions \in Seq(Nonce)
        BY <1>1 DEF TypeOK
      <4> QED
        BY <4>1 DEF ToSet
    <3> QED
      BY <1>0, <3>1, <3>2 DEF ConnInv, Searching, Made, Concluded, Fitting
  <2>2. CASE TryNext(c)
    <3>1. /\ pc[c] = "match" /\ pos[c] \in 1..Window /\ ~mutated[c]
          /\ pc'[c] = IF Matches(c) THEN "offset" ELSE "match"
          /\ pos'[c] = pos[c] - 1 /\ sessions' = sessions
          /\ key'[c] = key[c] /\ nonce'[c] = nonce[c] /\ ~mutated'[c]
          /\ kept'[c] = kept[c] /\ edited'[c] = edited[c]
      BY <1>1, <2>2 DEF TypeOK, TryNext, Goto
    <3>2. /\ pos[c] <= Len(sessions) /\ nonce[c] # 0 /\ key[c] # NoKey
          /\ \A i \in 1..pos[c] : sessions[i] = nonce[c] => kept[c]
          /\ Fitting(c) /\ ~edited[c] => \E i \in 1..pos[c] : sessions[i] = nonce[c]
      BY <1>1, <3>1 DEF ConnInv, Searching, Made
    <3>3. pos[c] \in 1..pos[c] /\ \A i \in 1..pos[c] : i = pos[c] \/ i \in 1..(pos[c] - 1)
      BY <3>1
    <3>4. \A i \in 1..(pos[c] - 1) : i \in 1..pos[c]
      BY <3>1
    <3>5. Fitting(c)' <=> Fitting(c)
      BY <3>1 DEF Fitting
    <3>6. CASE Matches(c)
      BY <3>1, <3>2, <3>3, <3>6 DEF ConnInv, Searching, Made, Concluded, Fitting, Matches
    <3>7. CASE ~Matches(c)
      <4>1. Fitting(c) => sessions[pos[c]] # nonce[c]
        BY <3>7 DEF Fitting, Matches
      <4>2. Fitting(c) /\ ~edited[c] => \E i \in 1..(pos[c] - 1) : sessions[i] = nonce[c]
        BY <3>2, <3>3, <4>1
      <4>3. pos[c] - 1 = 0 => ~Fitting(c) \/ edited[c]
        BY <4>2
      <4>4. \A i \in 1..(pos[c] - 1) : sessions[i] = nonce[c] => kept[c]
        BY <3>2, <3>4
      <4>5. pos'[c] <= Len(sessions')
        BY <1>0, <3>1, <3>2
      <4>6. Searching(c)'
        BY <3>1, <3>2, <3>5, <4>2, <4>3, <4>4, <4>5 DEF Searching
      <4> QED
        BY <3>1, <3>2, <3>7, <4>6 DEF ConnInv, Made, Concluded
    <3> QED
      BY <3>6, <3>7
  <2>3. CASE NoneLeft(c) \/ Died(c) \/ TellOffset(c) \/ Refuse(c)
    BY <1>1, <2>3 DEF TypeOK, NoneLeft, Died, Close, TellOffset, Refuse, Goto, search,
                      ConnInv, Searching, Made, Concluded, Fitting
  <2> QED
    BY <2>1, <2>2, <2>3 DEF StatusAction
<1>4. ASSUME NEW d \in Conn, d # c PROVE ConnInv(d)'
  <2>1. /\ UNCHANGED sessions
        /\ pc'[d] = pc[d] /\ nonce'[d] = nonce[d] /\ key'[d] = key[d] /\ pos'[d] = pos[d]
        /\ mutated'[d] = mutated[d] /\ kept'[d] = kept[d] /\ edited'[d] = edited[d]
    BY <1>1, <1>4 DEF TypeOK, StatusAction, ReadStatus, TryNext, NoneLeft, Died, Close,
                      TellOffset, Refuse, Goto, search
  <2> QED
    BY <1>1, <2>1, OtherConn
<1> QED
  BY <1>2, <1>3, <1>4 DEF SessionInv

LEMMA SessionStep == SessionInv /\ [Next]_vars => SessionInv'
<1> SUFFICES ASSUME SessionInv, [Next]_vars PROVE SessionInv'
  OBVIOUS
<1>1. ASSUME NEW c \in Conn,
             Connect(c) \/ SendStart(c) \/ SendStatus(c) \/ IdleClose(c) \/ Handler(c)
      PROVE  SessionInv'
  BY <1>1, OutsideStep, StartStep, StatusStep DEF Handler, StatusAction
<1>2. CASE Abandon
  <2>1. CASE Conn = {}
    BY <1>2, <2>1, BoundAssumption DEF SessionInv, TypeOK, Abandon, search
  <2>2. CASE Conn # {}
    <3>1. PICK c \in Conn : TRUE
      BY <2>2
    <3> QED
      BY <1>2, <3>1, OutsideStep
  <2> QED
    BY <2>1, <2>2
<1>3. CASE Restart \/ EditCard
  BY <1>3, RestartStep, EditStep
<1>4. CASE UNCHANGED vars
  BY <1>4 DEF vars, search, SessionInv, TypeOK, ConnInv, Searching, Made, Concluded, Fitting
<1> QED
  BY <1>1, <1>2, <1>3, <1>4 DEF Next

\* The type invariant of SessionAuth.
THEOREM TypeCorrect == Spec => []TypeOK
<1>1. SessionInv => TypeOK
  BY DEF SessionInv
<1> QED
  BY SessionInit, SessionStep, <1>1, PTL DEF Spec

\* A credential that fits a session kept when the search began is not refused.
THEOREM CredentialDecided == Spec => []WindowHonoured
<1>1. SessionInv => WindowHonoured
  BY DEF SessionInv, ConnInv, Concluded, Fitting, WindowHonoured
<1> QED
  BY SessionInit, SessionStep, <1>1, PTL DEF Spec

\* An offset is told only for a credential that fits a session of the card.
THEOREM OffsetsAreEarned == Spec => []SessionSound
<1>1. SessionInv => SessionSound
  BY DEF SessionInv, ConnInv, Concluded, Fitting, OffsetEarned, SessionSound
<1> QED
  BY SessionInit, SessionStep, <1>1, PTL DEF Spec
=============================================================================
