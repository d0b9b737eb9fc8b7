----------------------------- MODULE IseProofs -----------------------------
(***************************************************************************)
(* Theorems about IsePoller, for every set of nodes and sessions, every    *)
(* lag and every number of faults.                                         *)
(***************************************************************************)
EXTENDS IsePoller, FiniteSetTheorems, WellFoundedInduction, TLAPS

\* Every action of the next-state relation, for the case splits below.
LEMMA NextCases ==
    ASSUME [Next]_vars
    PROVE  \/ Tick \/ (\E s \in Sessions : Appear(s)) \/ Start \/ Kill \/ CertificatesRemoved
           \/ Download \/ Activate \/ Query \/ NoSessions \/ QueryFails \/ SendFile
           \/ SendFileTooLarge \/ SendFileFails \/ SendSignal \/ SendSignalFails \/ Truncate
           \/ Write \/ UNCHANGED vars
  BY DEF Next, Execute

\* A nonempty, bounded set of numbers has a maximum: of the sets of numbers above
\* one of its own, a smallest one is empty.
LEMMA MaxOfBounded ==
    ASSUME NEW S \in SUBSET Nat, NEW n \in Nat, S # {}, \A s \in S : s <= n
    PROVE  Max(S) \in S /\ \A s \in S : s <= Max(S)
  <1> DEFINE Above(x) == {y \in S : y > x}
  <1> DEFINE T == {Above(x) : x \in S}
  <1>1. IsFiniteSet(S)
    BY FS_BoundedSetOfNaturals
  <1>2. T \subseteq FiniteSubsetsOf(S) /\ T # {}
    <2>1. \A x \in S : Above(x) \in SUBSET S
      OBVIOUS
    <2>2. \A x \in S : IsFiniteSet(Above(x))
      BY <1>1, <2>1, FS_Subset
    <2> QED
      BY <2>1, <2>2 DEF FiniteSubsetsOf
  <1>3. PICK M \in T : \A U \in T : ~ (<<U, M>> \in StrictSubsetOrdering(S))
    <2> HIDE DEF T
    <2> QED
      BY <1>2, WFMin, FS_StrictSubsetOrderingWellFounded
  <1>4. PICK x \in S : M = Above(x)
    OBVIOUS
  <1>5. \A y \in S : y <= x
    <2> SUFFICES ASSUME NEW y \in S, y > x PROVE FALSE
      OBVIOUS
    <2>1. Above(y) \subseteq Above(x) /\ Above(y) # Above(x)
      <3>1. x \in Nat /\ y \in Nat
        OBVIOUS
      <3>2. \A z \in S : z \in Nat /\ (z > y => z > x)
        BY <3>1
      <3>3. y \in Above(x) /\ y \notin Above(y)
        BY <3>1
      <3> QED
        BY <3>2, <3>3
    <2>2. <<Above(y), Above(x)>> \in StrictSubsetOrdering(S)
      BY <2>1 DEF StrictSubsetOrdering
    <2> QED
      BY <1>3, <1>4, <2>2
  <1>6. \A y \in S : x >= y
    BY <1>5
  <1>7. Max(S) \in S /\ \A y \in S : Max(S) >= y
    BY <1>6 DEF Max
  <1> QED
    BY <1>7

\* The new cursor is the time of a session of the poll, and covers all of them.
LEMMA MaxStampCovers ==
    ASSUME NEW S \in SUBSET Sessions, S # {}
    PROVE  /\ MaxStamp(S) \in 1 .. MaxClock
           /\ \A s \in S : Stamp[s] <= MaxStamp(S)
           /\ \E s \in S : Stamp[s] = MaxStamp(S)
  <1> DEFINE N == {Stamp[s] : s \in S}
  <1>1. N \in SUBSET Nat /\ N # {} /\ (\A n \in N : n <= MaxClock) /\ N \subseteq 1 .. MaxClock
    BY SessionsAssumption
  <1>2. MaxClock \in Nat
    BY SessionsAssumption
  <1> HIDE DEF N
  <1>3. Max(N) \in N /\ \A n \in N : n <= Max(N)
    BY <1>1, <1>2, MaxOfBounded
  <1>4. MaxStamp(S) = Max(N)
    BY DEF MaxStamp, N
  <1> QED
    BY <1>1, <1>3, <1>4 DEF N

-----------------------------------------------------------------------------
(* Type correctness.                                                       *)

\* Sessions that are about to be sent are there.
SomeSessions == pc \in {"send", "signal"} => sessions # {}

LEMMA TypeInit == Init => TypeOK /\ SomeSessions
  <1> SUFFICES ASSUME Init PROVE TypeOK /\ SomeSessions
    OBVIOUS
  <1> USE SessionsAssumption
  <1>1. complete \in BOOLEAN /\ env \in BOOLEAN /\ failed \in BOOLEAN
    BY DEF Init
  <1>2. /\ clock = 0 /\ faults = 0 /\ node = 1 /\ pc = "down" /\ disk = Unset /\ last = Unset
        /\ \A h \in {visible, sessions, sent, twice, refused, late, passed} : h = {}
        /\ down \in SUBSET {Nodes[n] : n \in 1 .. Len(Nodes)}
    BY DEF Init
  <1>3. Len(Nodes) \in Nat
    BY DEF Init
  <1> QED
    BY <1>1, <1>2, <1>3 DEF TypeOK, SomeSessions, Cursors

\* A poll sends what it found after the cursor, until the cursor is moved.
LEMMA TypeStep == TypeOK /\ SomeSessions /\ [Next]_vars => TypeOK' /\ SomeSessions'
  <1> SUFFICES ASSUME TypeOK, SomeSessions, [Next]_vars PROVE TypeOK' /\ SomeSessions'
    OBVIOUS
  <1> USE NextCases DEF Tick, Appear, Start, Kill, CertificatesRemoved, Download, Activate, Query,
          NoSessions, QueryFails, SendFile, SendFileTooLarge, SendFileFails, SendSignal,
          SendSignalFails, Truncate, Write, vars, local, setup, history, Sleep, Save, Told
  <1>1. complete' \in BOOLEAN /\ env' \in BOOLEAN /\ failed' \in BOOLEAN
    <2>1. complete \in BOOLEAN /\ env \in BOOLEAN /\ failed \in BOOLEAN
      BY DEF TypeOK
    <2>2. /\ env' = env
          /\ \/ complete' = complete \/ complete' = env
             \/ complete' = TRUE \/ complete' = FALSE
      OBVIOUS
    <2>3. failed' = failed \/ failed' = TRUE
      OBVIOUS
    <2> QED
      BY <2>1, <2>2, <2>3
  <1>2. /\ clock' \in 0 .. MaxClock /\ faults' \in 0 .. MaxFaults
        /\ node' \in 1 .. Len(Nodes) + 1
        /\ down' \subseteq {Nodes[n] : n \in 1 .. Len(Nodes)}
    <2>1. /\ clock \in 0 .. MaxClock /\ faults \in 0 .. MaxFaults /\ node \in 1 .. Len(Nodes) + 1
          /\ down \subseteq {Nodes[n] : n \in 1 .. Len(Nodes)}
          /\ MaxClock \in Nat /\ MaxFaults \in Nat
      BY SessionsAssumption DEF TypeOK
    <2>2. down' = down /\ (clock' = clock \/ (clock < MaxClock /\ clock' = clock + 1))
      OBVIOUS
    <2>3. faults' = faults \/ (faults < MaxFaults /\ faults' = faults + 1)
      OBVIOUS
    <2>4. node' = node \/ node' = 1 \/ (node <= Len(Nodes) /\ node' = node + 1)
      OBVIOUS
    <2> QED
      BY <2>1, <2>2, <2>3, <2>4
  <1>3. pc' \in {"down", "asleep", "query", "send", "signal", "truncate", "write"}
    BY DEF TypeOK
  <1>4. /\ visible' \subseteq Sessions /\ sessions' \subseteq visible' /\ sent' \subseteq visible'
        /\ twice' \subseteq sent' /\ refused' \subseteq visible' /\ late' \subseteq visible'
        /\ passed' \subseteq Sessions
    BY DEF TypeOK, New
  <1>5. disk' \in Cursors /\ last' \in Cursors
    <2>1. /\ clock \in 0 .. MaxClock /\ MaxClock \in Nat /\ Back \in Nat
          /\ disk \in Cursors /\ last \in Cursors
      BY SessionsAssumption DEF TypeOK
    <2>2. pc \in {"send", "signal"} => MaxStamp(sessions) \in 1 .. MaxClock
      BY MaxStampCovers DEF TypeOK, SomeSessions
    <2>3. /\ disk' = disk \/ disk' = Unset \/ disk' = last
          /\ \/ last' = last \/ last' = disk \/ last' = clock - Back
             \/ (pc \in {"send", "signal"} /\ last' = MaxStamp(sessions))
      OBVIOUS
    <2> QED
      BY <2>1, <2>2, <2>3 DEF Cursors
  <1>6. SomeSessions'
    BY DEF SomeSessions
  <1> QED
    BY <1>1, <1>2, <1>3, <1>4, <1>5, <1>6 DEF TypeOK

\* Every variable keeps its type, and a poll that sends has something to send.
THEOREM TypeCorrect == Spec => []TypeOK
  BY TypeInit, TypeStep, PTL DEF Spec
-----------------------------------------------------------------------------
(* The cursor.  A session that appears below a cursor appears after one that *)
(* is not older, or the cursor was new and has passed it over.             *)

Covered(c) == \A s \in visible : Stamp[s] <= c => s \in Settled
Sourced(c) ==
    \/ \E r \in visible : Stamp[r] >= c
    \/ \A s \in Sessions : Stamp[s] <= c => s \in passed
CursorInv(c) == Covered(c) /\ Sourced(c)

\* What a poll found is newer than the cursor, and what it did not find is late,
\* or newer than all it found.
PollInv ==
    pc \in {"send", "signal"} =>
        /\ \A r \in sessions : Stamp[r] > last
        /\ \A s \in visible \ sessions :
              Stamp[s] > last => s \in late \/ \A r \in sessions : Stamp[r] < Stamp[s]

\* While nothing fails, the cursor is in the file, and behind it lies what was sent.
OnceInv ==
    ~failed => /\ pc \notin {"truncate", "write"} => disk = last
               /\ \A s \in sent : Stamp[s] <= last
               /\ twice = {}

CursorsInv == CursorInv(disk) /\ CursorInv(last)

LEMMA HistoryGrows ==
    ASSUME TypeOK, [Next]_vars
    PROVE  visible \subseteq visible' /\ Settled \subseteq Settled' /\ passed \subseteq passed'
  BY NextCases
  DEF Settled, Tick, Appear, Start, Kill, CertificatesRemoved, Download, Activate, Query,
      NoSessions, QueryFails, SendFile, SendFileTooLarge, SendFileFails, SendSignal,
      SendSignalFails, Truncate, Write, vars, local, setup, history, Sleep, Save, Told

\* Whatever session appears, a cursor stays covered.
LEMMA CursorKept ==
    ASSUME TypeOK, [Next]_vars, NEW c \in Cursors, CursorInv(c)
    PROVE  /\ \A s \in visible' : Stamp[s] <= c => s \in Settled'
           /\ \/ \E r \in visible' : Stamp[r] >= c
              \/ \A s \in Sessions : Stamp[s] <= c => s \in passed'
  <1>1. c \in Int /\ \A s \in Sessions : Stamp[s] \in Int
    BY SessionsAssumption DEF Cursors, Unset
  <1>2. \/ \E r \in visible' : Stamp[r] >= c
        \/ \A s \in Sessions : Stamp[s] <= c => s \in passed'
    BY HistoryGrows DEF CursorInv, Sourced
  <1>3. ASSUME NEW s \in visible', Stamp[s] <= c PROVE s \in Settled'
    <2>1. CASE s \in visible
      BY <1>3, <2>1, HistoryGrows DEF CursorInv, Covered
    <2>2. CASE s \notin visible
      <3>1. s \in Sessions /\ Appear(s)
        <4>1. visible' # visible
          BY <1>3, <2>2
        <4>2. \E q \in Sessions : Appear(q)
          BY <4>1, NextCases
          DEF Tick, Start, Kill, CertificatesRemoved, Download, Activate, Query,
              NoSessions, QueryFails, SendFile, SendFileTooLarge, SendFileFails, SendSignal,
              SendSignalFails, Truncate, Write, vars
        <4> QED
          BY <1>3, <2>2, <4>2 DEF Appear
      <3>2. s \in Sessions /\ visible \subseteq Sessions
        BY <3>1 DEF TypeOK
      <3>3. CASE \E r \in visible : Stamp[r] >= c
        <4>1. \E r \in visible : Stamp[r] >= Stamp[s]
          BY <1>1, <1>3, <3>2, <3>3
        <4> QED
          BY <3>1, <4>1 DEF Appear, Settled
      <3>4. CASE \A r \in Sessions : Stamp[r] <= c => r \in passed
        BY <1>3, <3>2, <3>4, HistoryGrows DEF Settled
      <3> QED
        BY <3>3, <3>4 DEF CursorInv, Sourced
    <2> QED
      BY <2>1, <2>2
  <1> QED
    BY <1>2, <1>3

\* A cursor is kept, read from the file, new, or that of the sessions settled.
LEMMA CursorMoves ==
    ASSUME [Next]_vars
    PROVE  /\ disk' \in {disk, Unset} \/ (disk' = last /\ last' = last)
           /\ \/ last' \in {last, disk}
              \/ Start /\ disk = Unset
              \/ SendFileTooLarge \/ SendSignal
  <1>1. disk' = disk \/ disk' = Unset \/ (disk' = last /\ last' = last)
    BY NextCases
    DEF Tick, Appear, Start, Kill, CertificatesRemoved, Download, Activate, Query,
        NoSessions, QueryFails, SendFile, SendFileTooLarge, SendFileFails, SendSignal,
        SendSignalFails, Truncate, Write, vars
  <1>2. \/ last' = last \/ last' = disk
        \/ Start /\ disk = Unset
        \/ SendFileTooLarge \/ SendSignal
    <2>1. CASE Start
      BY <2>1 DEF Start
    <2> QED
      BY <2>1, NextCases
      DEF Tick, Appear, Kill, CertificatesRemoved, Download, Activate, Query, NoSessions,
          QueryFails, SendFile, SendFileFails, SendSignalFails, Truncate, Write, vars, local,
          setup, history
  <1> QED
    BY <1>1, <1>2

LEMMA CursorStep == TypeOK /\ SomeSessions /\ PollInv /\ CursorsInv /\ [Next]_vars => CursorsInv'
  <1> SUFFICES ASSUME TypeOK, SomeSessions, PollInv, CursorsInv, [Next]_vars PROVE CursorsInv'
    OBVIOUS
  <1>1. disk \in Cursors /\ last \in Cursors /\ visible' \subseteq Sessions
    BY TypeStep DEF TypeOK
  <1>2. ASSUME NEW c, c \in {disk, last, Unset}
        PROVE  /\ \A s \in visible' : Stamp[s] <= c => s \in Settled'
               /\ \/ \E r \in visible' : Stamp[r] >= c
                  \/ \A s \in Sessions : Stamp[s] <= c => s \in passed'
    <2>1. c \in Cursors
      BY <1>1, <1>2 DEF Cursors
    <2>2. CursorInv(c)
      <3>1. CASE c = Unset
        <4>1. \A s \in Sessions : ~ (Stamp[s] <= Unset)
          BY SessionsAssumption DEF Unset
        <4> QED
          BY <3>1, <4>1 DEF CursorInv, Covered, Sourced, TypeOK
      <3> QED
        BY <1>2, <3>1 DEF CursorsInv
    <2> QED
      BY <2>1, <2>2, CursorKept
  <1>3. CursorInv(disk)'
    BY <1>2, CursorMoves DEF CursorInv, Covered, Sourced
  <1>4. CursorInv(last)'
    <2>1. CASE last' \in {last, disk}
      BY <1>2, <2>1 DEF CursorInv, Covered, Sourced
    <2>2. CASE Start /\ disk = Unset
      <3>1. \A s \in Sessions : Stamp[s] <= last' => s \in passed'
        BY <2>2 DEF Start
      <3> QED
        BY <1>1, <3>1 DEF CursorInv, Covered, Sourced, Settled
    <2>3. CASE SendFileTooLarge \/ SendSignal
      <3>1. /\ pc \in {"send", "signal"} /\ last' = MaxStamp(sessions) /\ visible' = visible
            /\ sessions \subseteq Settled' /\ late \subseteq Settled'
        BY <2>3 DEF SendFileTooLarge, SendSignal, Save, Told, Settled
      <3>2. sessions # {} /\ sessions \in SUBSET Sessions /\ sessions \subseteq visible
        BY <3>1 DEF SomeSessions, TypeOK
      <3>3. /\ last' \in 1 .. MaxClock
            /\ \E r \in sessions : Stamp[r] = last'
        BY <3>1, <3>2, MaxStampCovers
      <3>4. ASSUME NEW s \in visible, Stamp[s] <= last' PROVE s \in Settled'
        <4>1. CASE s \in sessions
          BY <3>1, <4>1
        <4>2. CASE Stamp[s] <= last
          BY <1>2, <3>1, <3>4, <4>2
        <4>3. CASE s \notin sessions /\ Stamp[s] > last
          <5>1. s \in late \/ \A r \in sessions : Stamp[r] < Stamp[s]
            BY <3>1, <4>3 DEF PollInv
          <5>2. \A r \in Sessions : Stamp[r] \in Nat
            BY SessionsAssumption
          <5>3. s \in Sessions
            BY DEF TypeOK
          <5> QED
            BY <3>1, <3>2, <3>3, <3>4, <5>1, <5>2, <5>3
        <4>4. Stamp[s] \in Int /\ last \in Int
          BY <1>1, SessionsAssumption DEF TypeOK, Cursors, Unset
        <4> QED
          BY <4>1, <4>2, <4>3, <4>4
      <3>5. \E r \in visible' : Stamp[r] >= last'
        BY <3>1, <3>2, <3>3
      <3> QED
        BY <3>1, <3>4, <3>5 DEF CursorInv, Covered, Sourced
    <2> QED
      BY <2>1, <2>2, <2>3, CursorMoves
  <1> QED
    BY <1>3, <1>4 DEF CursorsInv

LEMMA PollStep == TypeOK /\ PollInv /\ [Next]_vars => PollInv'
  <1> SUFFICES ASSUME TypeOK, PollInv, [Next]_vars PROVE PollInv'
    OBVIOUS
  <1>1. CASE pc' \notin {"send", "signal"}
    BY <1>1 DEF PollInv
  <1>2. CASE Query
    <2>1. visible' = visible /\ last' = last /\ sessions' = {s \in visible : Stamp[s] > last}
      BY <1>2 DEF Query, New
    <2> QED
      BY <2>1 DEF PollInv
  <1>3. CASE \E q \in Sessions : Appear(q)
    <2>1. PICK q \in Sessions : Appear(q)
      BY <1>3
    <2>2. /\ visible' = visible \union {q} /\ UNCHANGED <<last, pc, sessions>>
          /\ late \subseteq late' /\ (q \in late' \/ \A r \in visible : ~ (Stamp[r] >= Stamp[q]))
      BY <2>1 DEF Appear, local
    <2>3. sessions \subseteq visible /\ visible \subseteq Sessions
          /\ \A s \in Sessions : Stamp[s] \in Int
      BY SessionsAssumption DEF TypeOK
    <2>4. q \in late' \/ \A r \in sessions : Stamp[r] < Stamp[q]
      BY <2>2, <2>3
    <2> QED
      BY <2>2, <2>4 DEF PollInv
  <1>4. CASE UNCHANGED <<visible, last, late, sessions>> /\ (pc' = pc \/ SendFile)
    BY <1>4 DEF PollInv, SendFile
  <1> QED
    BY <1>1, <1>2, <1>3, <1>4, NextCases
    DEF Tick, Start, Kill, CertificatesRemoved, Download, Activate, NoSessions, QueryFails,
        SendFile, SendFileTooLarge, SendFileFails, SendSignal, SendSignalFails, Truncate, Write,
        vars, local, history, Sleep, Save

LEMMA OnceStep ==
    TypeOK /\ SomeSessions /\ PollInv /\ OnceInv /\ [Next]_vars => OnceInv'
  <1> SUFFICES ASSUME TypeOK, SomeSessions, PollInv, OnceInv, [Next]_vars, ~failed' PROVE OnceInv'
    BY DEF OnceInv
  <1>1. ~failed
    BY NextCases
    DEF Tick, Appear, Start, Kill, CertificatesRemoved, Download, Activate, Query, NoSessions,
        QueryFails, SendFile, SendFileTooLarge, SendFileFails, SendSignal, SendSignalFails,
        Truncate, Write, vars, history
  <1>2. /\ pc \notin {"truncate", "write"} => disk = last
        /\ \A s \in sent : Stamp[s] <= last
        /\ twice = {}
    BY <1>1 DEF OnceInv
  <1>3. /\ last \in Int /\ \A s \in Sessions : Stamp[s] \in 1 .. MaxClock
        /\ sent \subseteq Sessions /\ sessions \subseteq Sessions
    BY SessionsAssumption DEF TypeOK, Cursors, Unset
  <1>4. CASE SendFileTooLarge \/ SendSignal
    <2>1. /\ pc \in {"send", "signal"} /\ last' = MaxStamp(sessions) /\ pc' = "truncate"
          /\ sent' \subseteq sent \union sessions
          /\ twice' \subseteq twice \union (sent \intersect sessions)
      BY <1>4 DEF SendFileTooLarge, SendSignal, Save, Told
    <2>2. sessions # {} /\ \A r \in sessions : Stamp[r] > last
      BY <2>1 DEF SomeSessions, PollInv
    <2>3. last' \in Int /\ \A r \in sessions : Stamp[r] <= last'
      BY <1>3, <2>1, <2>2, MaxStampCovers
    <2>4. sent \intersect sessions = {}
      BY <1>2, <1>3, <2>2
    <2>5. \A s \in sent : Stamp[s] <= last'
      BY <1>2, <1>3, <2>2, <2>3
    <2> QED
      BY <1>2, <2>1, <2>3, <2>4, <2>5 DEF OnceInv
  <1>5. CASE Start
    <2>1. pc = "down" /\ sent' = sent /\ twice' = twice /\ disk' = disk
      BY <1>5 DEF Start
    <2>2. CASE disk = Unset
      <3>1. sent = {}
        <4>1. \A s \in Sessions : ~ (Stamp[s] <= Unset)
          BY SessionsAssumption DEF Unset
        <4> QED
          BY <1>2, <1>3, <2>1, <2>2, <4>1
      <3>2. pc' = "truncate"
        BY <1>5, <2>2 DEF Start
      <3> QED
        BY <1>2, <2>1, <3>1, <3>2 DEF OnceInv
    <2>3. CASE disk # Unset
      BY <1>2, <1>5, <2>1, <2>3 DEF Start, OnceInv
    <2> QED
      BY <2>2, <2>3
  <1>6. CASE Truncate
    BY <1>2, <1>6 DEF Truncate, history, OnceInv
  <1>7. CASE Write
    BY <1>2, <1>7 DEF Write, Sleep, history, OnceInv
  <1>8. CASE UNCHANGED <<disk, last, sent, twice>> /\ pc \notin {"truncate", "write"}
    BY <1>2, <1>8 DEF OnceInv
  <1>9. CASE UNCHANGED <<disk, last, sent, twice, pc>>
    BY <1>2, <1>9 DEF OnceInv
  <1> QED
    BY <1>1, <1>4, <1>5, <1>6, <1>7, <1>8, <1>9, NextCases
    DEF Tick, Appear, Kill, CertificatesRemoved, Download, Activate, Query, NoSessions,
        QueryFails, SendFile, SendFileFails, SendSignalFails, vars, local, history, Sleep

\* The cursor in the state file covers only sessions that are settled, late or older
\* than a new cursor, whatever fails and whenever the process is killed.
THEOREM CursorIsCovered == Spec => []CursorCovered
  <1>1. Init => PollInv /\ CursorsInv
    <2> SUFFICES ASSUME Init PROVE PollInv /\ CursorsInv
      OBVIOUS
    <2>1. \A s \in Sessions : ~ (Stamp[s] <= Unset)
      BY SessionsAssumption DEF Unset
    <2> QED
      BY <2>1 DEF Init, PollInv, CursorsInv, CursorInv, Covered, Sourced
  <1>2. CursorsInv => CursorCovered
    BY DEF CursorsInv, CursorInv, Covered, CursorCovered
  <1> QED
    BY <1>1, <1>2, TypeInit, TypeStep, PollStep, CursorStep, PTL DEF Spec

\* No session is signalled twice while no signal fails and nothing kills the process.
THEOREM SignalledOnce == Spec => []NotTwice
  <1>1. Init => PollInv /\ OnceInv
    BY DEF Init, PollInv, OnceInv
  <1>2. OnceInv => NotTwice
    BY DEF OnceInv, NotTwice
  <1> QED
    BY <1>1, <1>2, TypeInit, TypeStep, PollStep, OnceStep, PTL DEF Spec
=============================================================================
