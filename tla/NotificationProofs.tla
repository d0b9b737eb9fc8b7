------------------------- MODULE NotificationProofs -------------------------
(***************************************************************************)
(* Theorems about NotificationPublisher, for every set of messages and     *)
(* types, every lag and every number of kills.                             *)
(***************************************************************************)
EXTENDS NotificationPublisher, FiniteSetTheorems, WellFoundedInduction, TLAPS

\* Every action of the next-state relation, for the case splits below.
LEMMA NextCases ==
    ASSUME [Next]_vars
    PROVE  \/ Tick \/ (\E m \in Messages : Appear(m))
           \/ Begin \/ Finish \/ TruncateState \/ WriteState \/ Get \/ GetNone \/ GetFails
           \/ Published \/ (\E t \in Types : NextType(t)) \/ (\E m \in Messages : Publish(m))
           \/ Kill \/ Restart \/ UNCHANGED vars
  BY DEF Next, Execute

\* A nonempty, bounded set of numbers has a maximum: of the sets of numbers above
\* one of its own, a smallest one is empty.
LEMMA MaxOfBounded ==
    ASSUME NEW S \in SUBSET Nat, NEW n \in Nat, S # {}, \A s \in S : s <= n
    PROVE  Max(S) \in S /\ \A s \in S : s <= Max(S)
  <1> DEFINE Above(x) == {y \in S : y > x}
  <1> DEFINE T == {Above(x) : x \in S}
  <1>1. IsFiniteSet(S)
    BY FS_BoundedSetOfNaturals
  <1>2. T \subseteq FiniteSubsetsOf(S) /\ T # {}
    <2>1. \A x \in S : Above(x) \in SUBSET S
      OBVIOUS
    <2>2. \A x \in S : IsFiniteSet(Above(x))
      BY <1>1, <2>1, FS_Subset
    <2> QED
      BY <2>1, <2>2 DEF FiniteSubsetsOf
  <1>3. PICK M \in T : \A U \in T : ~ (<<U, M>> \in StrictSubsetOrdering(S))
    <2> HIDE DEF T
    <2> QED
      BY <1>2, WFMin, FS_StrictSubsetOrderingWellFounded
  <1>4. PICK x \in S : M = Above(x)
    OBVIOUS
  <1>5. \A y \in S : y <= x
    <2> SUFFICES ASSUME NEW y \in S, y > x PROVE FALSE
      OBVIOUS
    <2>1. Above(y) \subseteq Above(x) /\ Above(y) # Above(x)
      <3>1. x \in Nat /\ y \in Nat
        OBVIOUS
      <3>2. \A z \in S : z \in Nat /\ (z > y => z > x)
        BY <3>1
      <3>3. y \in Above(x) /\ y \notin Above(y)
        BY <3>1
      <3> QED
        BY <3>2, <3>3
    <2>2. <<Above(y), Above(x)>> \in StrictSubsetOrdering(S)
      BY <2>1 DEF StrictSubsetOrdering
    <2> QED
      BY <1>3, <1>4, <2>2
  <1>6. \A y \in S : x >= y
    BY <1>5
  <1>7. Max(S) \in S /\ \A y \in S : Max(S) >= y
    BY <1>6 DEF Max
  <1> QED
    BY <1>7

\* The new cursor is the time of a message of the answer, and covers all of them.
LEMMA MaxTimeCovers ==
    ASSUME NEW S \in SUBSET Messages, S # {}
    PROVE  /\ MaxTime(S) \in 1 .. MaxClock
           /\ \A m \in S : Stamp[m] <= MaxTime(S)
  <1> DEFINE N == {Stamp[m] : m \in S}
  <1>1. N \in SUBSET Nat /\ N # {} /\ (\A s \in N : s <= MaxClock) /\ N \subseteq 1 .. MaxClock
    BY MessagesAssumption
  <1>2. MaxClock \in Nat
    BY MessagesAssumption
  <1> HIDE DEF N
  <1>3. Max(N) \in N /\ \A s \in N : s <= Max(N)
    BY <1>1, <1>2, MaxOfBounded
  <1>4. MaxTime(S) = Max(N)
    BY DEF MaxTime, N
  <1> QED
    BY <1>1, <1>3, <1>4 DEF N

-----------------------------------------------------------------------------
(* Type correctness.                                                       *)

LEMMA TypeInit == Init => TypeOK
  <1> SUFFICES ASSUME Init PROVE TypeOK
    OBVIOUS
  <1>1. torn \in BOOLEAN
    BY DEF Init
  <1>2. disk \in Cursors /\ state = disk /\ since = disk
    BY DEF Init, Cursors
  <1>3. /\ clock = 0 /\ kills = 0 /\ visible = {} /\ todo = {} /\ batch = {} /\ failed = {}
        /\ late = {} /\ pc = "asleep" /\ type \in Types /\ published = [m \in Messages |-> 0]
    BY DEF Init
  <1> QED
    BY <1>1, <1>2, <1>3, MessagesAssumption DEF TypeOK

LEMMA TypeStep == TypeOK /\ [Next]_vars => TypeOK'
  <1> SUFFICES ASSUME TypeOK, [Next]_vars PROVE TypeOK'
    OBVIOUS
  <1> USE MessagesAssumption DEF TypeOK, Cursors, site, file, history
  <1>1. CASE Tick
    BY <1>1 DEF Tick
  <1>2. CASE \E m \in Messages : Appear(m)
    BY <1>2 DEF Appear
  <1>3. CASE Begin
    BY <1>3 DEF Begin
  <1>4. CASE Finish
    BY <1>4 DEF Finish
  <1>5. CASE TruncateState
    <2>1. torn' \in BOOLEAN
      BY <1>5 DEF TruncateState
    <2>2. pc' = "write" /\ UNCHANGED <<site, disk, state, todo, type, batch, history, kills>>
      BY <1>5 DEF TruncateState
    <2> QED
      BY <2>1, <2>2
  <1>6. CASE WriteState
    <2>1. torn' \in BOOLEAN
      BY <1>6 DEF WriteState
    <2>2. /\ disk' = state /\ pc' \in {"get", "publish"}
          /\ UNCHANGED <<site, state, todo, type, batch, history, kills>>
      BY <1>6 DEF WriteState
    <2> QED
      BY <2>1, <2>2
  <1>7. CASE Get
    <2>1. New \in SUBSET Messages
      BY DEF New
    <2>2. CASE New = {}
      BY <1>7, <2>2 DEF Get
    <2>3. CASE New # {}
      <3>1. MaxTime(New) \in 1 .. MaxClock
        BY <2>1, <2>3, MaxTimeCovers
      <3> QED
        BY <1>7, <2>1, <2>3, <3>1 DEF Get
    <2> QED
      BY <2>2, <2>3
  <1>8. CASE GetNone
    BY <1>8 DEF GetNone
  <1>9. CASE GetFails
    BY <1>9 DEF GetFails
  <1>10. CASE Published
    BY <1>10 DEF Published
  <1>11. CASE \E t \in Types : NextType(t)
    BY <1>11 DEF NextType
  <1>12. CASE \E m \in Messages : Publish(m)
    BY <1>12 DEF Publish
  <1>13. CASE Kill
    BY <1>13 DEF Kill
  <1>14. CASE Restart
    <2>1. state' \in Cursors
      BY <1>14 DEF Restart
    <2> QED
      BY <1>14, <2>1 DEF Restart
  <1>15. CASE UNCHANGED vars
    BY <1>15 DEF vars
  <1> QED
    BY <1>1, <1>2, <1>3, <1>4, <1>5, <1>6, <1>7, <1>8, <1>9, <1>10, <1>11, <1>12, <1>13,
       <1>14, <1>15, NextCases

\* The variables of the publisher keep their types: a new cursor is a time.
THEOREM TypeCorrect == Spec => []TypeOK
  BY TypeInit, TypeStep, PTL DEF Spec

-----------------------------------------------------------------------------
(* No message goes out twice, because a message that went out is covered   *)
(* by both cursors: that of the process, which says what is asked for      *)
(* next, and that of the file, which a restart takes over.  A lost cursor  *)
(* is replaced by the present, which covers all that is visible.           *)

Covers(cursors, m) == cursors[TypeOf[m]] # Unset => Stamp[m] <= cursors[TypeOf[m]]

\* What was published is over, and covered.
PublishedInv ==
    /\ \A m \in visible : Stamp[m] <= clock
    /\ \A m \in Messages : published[m] > 0 =>
           m \in visible \ batch /\ Covers(state, m) /\ (torn = FALSE => Covers(disk, m))

\* What is about to be published is covered by the cursor, which is on disk by then.
BatchInv ==
    /\ batch # {} => pc \in {"truncate", "write", "publish"}
    /\ \A m \in batch : m \in visible /\ TypeOf[m] = type /\ Stamp[m] <= state[type]
    /\ pc \in {"truncate", "write", "get"} => state[type] # Unset
    /\ pc = "publish" => disk = state

OnceInv == PublishedInv /\ BatchInv /\ NeverTwice

LEMMA OnceInit == Init => OnceInv
  BY DEF Init, OnceInv, PublishedInv, BatchInv, NeverTwice

LEMMA OnceStep == TypeOK /\ OnceInv /\ [Next]_vars => OnceInv'
  <1> SUFFICES ASSUME TypeOK, OnceInv, [Next]_vars PROVE OnceInv'
    OBVIOUS
  <1> USE MessagesAssumption DEF OnceInv, PublishedInv, BatchInv, NeverTwice, Covers, TypeOK,
          Cursors, Unset, site, file, history
  <1>1. CASE Tick
    BY <1>1 DEF Tick
  <1>2. CASE \E m \in Messages : Appear(m)
    BY <1>2 DEF Appear
  <1>3. CASE Begin
    BY <1>3 DEF Begin
  <1>4. CASE Finish
    BY <1>4 DEF Finish
  <1>5. CASE TruncateState
    BY <1>5 DEF TruncateState
  <1>6. CASE WriteState
    BY <1>6 DEF WriteState
  <1>7. CASE Get
    <2>1. New \in SUBSET Messages /\ batch = {}
      BY <1>7 DEF Get, New
    <2>2. CASE New = {}
      BY <1>7, <2>1, <2>2 DEF Get
    <2>3. CASE New # {}
      <3>1. /\ MaxTime(New) \in 1 .. MaxClock
            /\ \A m \in New : Stamp[m] <= MaxTime(New) /\ Stamp[m] > state[type]
        BY <2>1, <2>3, MaxTimeCovers DEF New
      <3>2. state[type] < MaxTime(New) /\ state[type] # Unset
        BY <1>7, <2>1, <2>3, <3>1 DEF Get
      <3>3. \A m \in Messages : published[m] > 0 => m \notin New
        BY <2>1, <3>1, <3>2 DEF New
      <3>4. state' = [state EXCEPT ![type] = MaxTime(New)] /\ batch' = New /\ pc' = "truncate"
        BY <1>7, <2>3 DEF Get
      <3>5. UNCHANGED <<site, file, todo, type, history, kills>>
        BY <1>7 DEF Get
      <3>6. PublishedInv'
        <4>1. ASSUME NEW m \in Messages, published[m] > 0 PROVE Covers(state', m)
          <5>1. CASE TypeOf[m] = type
            <6>1. Stamp[m] <= state[type] /\ Stamp[m] \in Int /\ state[type] \in Int
              BY <3>2, <4>1, <5>1
            <6>2. state'[TypeOf[m]] = MaxTime(New)
              BY <3>4, <5>1
            <6> QED
              BY <3>1, <3>2, <6>1, <6>2
          <5>2. CASE TypeOf[m] # type
            <6>1. state'[TypeOf[m]] = state[TypeOf[m]]
              BY <3>4, <5>2
            <6> QED
              BY <4>1, <6>1
          <5> QED
            BY <5>1, <5>2
        <4>2. /\ UNCHANGED <<clock, visible, published, disk, torn>>
              /\ \A m \in Messages : published[m] > 0 => m \notin batch'
          BY <3>3, <3>4, <3>5
        <4> QED
          BY <4>1, <4>2
      <3>7. BatchInv'
        <4>1. state'[type] = MaxTime(New) /\ type' = type /\ visible' = visible
          BY <3>4, <3>5
        <4>2. \A m \in New : m \in visible /\ TypeOf[m] = type /\ Stamp[m] <= MaxTime(New)
          BY <3>1 DEF New
        <4>3. MaxTime(New) # Unset
          BY <3>1
        <4> QED
          BY <3>4, <4>1, <4>2, <4>3
      <3> QED
        BY <3>5, <3>6, <3>7
    <2> QED
      BY <2>2, <2>3
  <1>8. CASE GetNone
    BY <1>8 DEF GetNone
  <1>9. CASE GetFails
    BY <1>9 DEF GetFails
  <1>10. CASE Published
    BY <1>10 DEF Published
  <1>11. CASE \E t \in Types : NextType(t)
    BY <1>11 DEF NextType
  <1>12. CASE \E m \in Messages : Publish(m)
    BY <1>12 DEF Publish
  <1>13. CASE Kill
    BY <1>13 DEF Kill
  <1>14. CASE Restart
    BY <1>14 DEF Restart
  <1>15. CASE UNCHANGED vars
    BY <1>15 DEF vars
  <1> QED
    BY <1>1, <1>2, <1>3, <1>4, <1>5, <1>6, <1>7, <1>8, <1>9, <1>10, <1>11, <1>12, <1>13,
       <1>14, <1>15, NextCases

\* No message is forwarded twice, whatever kills, torn state files and late messages
\* there are.
THEOREM PublishedOnce == Spec => []NeverTwice
  <1>1. OnceInv => NeverTwice
    BY DEF OnceInv
  <1> QED
    BY <1>1, TypeInit, TypeStep, OnceInit, OnceStep, PTL DEF Spec
=============================================================================
