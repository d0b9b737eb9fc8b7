-------------------------- MODULE KubernetesProofs --------------------------
(***************************************************************************)
(* Theorems about KubernetesWatcher, for every finite set of pods and      *)
(* every number of changes.                                                *)
(***************************************************************************)
EXTENDS KubernetesWatcher, FiniteSetTheorems, TLAPS

\* Every action of the next-state relation, for the case splits below.
LEMMA NextCases ==
    ASSUME [Next]_vars
    PROVE  \/ ListChanges \/ NextHour
           \/ (\E p \in Pods : Start(p)) \/ (\E p \in Pods : Die(p))
           \/ (\E p \in Pods : Poll(p)) \/ (\E p \in Pods : Elect(p))
           \/ (\E p \in Pods : Get(p)) \/ (\E p \in Pods : SendFile(p))
           \/ (\E p \in Pods : SendSignal(p)) \/ (\E p \in Pods : Fails(p))
           \/ UNCHANGED vars
  BY DEF Next, Execute

-----------------------------------------------------------------------------
(* Type correctness.                                                       *)

LEMMA TypeInit == Init => TypeOK
  BY PodsAssumption DEF Init, TypeOK, Running

LEMMA TypeStep == TypeOK /\ [Next]_vars => TypeOK'
  <1> SUFFICES ASSUME TypeOK, [Next]_vars PROVE TypeOK'
    OBVIOUS
  <1> USE PodsAssumption DEF TypeOK, Running, cluster, hour, Goto
  <1>1. CASE ListChanges
    <2>1. listed' \subseteq Pods /\ Running \subseteq listed'
      BY <1>1 DEF ListChanges
    <2>2. recent' \in 0 .. changes' /\ changes' \in 0 .. MaxChanges
      BY <1>1 DEF ListChanges
    <2> QED
      BY <1>1, <2>1, <2>2 DEF ListChanges
  <1>2. CASE NextHour
    BY <1>2 DEF NextHour
  <1>3. CASE \E p \in Pods : Start(p)
    BY <1>3 DEF Start
  <1>4. CASE \E p \in Pods : Die(p)
    BY <1>4 DEF Die
  <1>5. CASE \E p \in Pods : Poll(p)
    BY <1>5 DEF Poll
  <1>6. CASE \E p \in Pods : Elect(p)
    BY <1>6 DEF Elect
  <1>7. CASE \E p \in Pods : Get(p)
    BY <1>7 DEF Get
  <1>8. CASE \E p \in Pods : SendFile(p)
    BY <1>8 DEF SendFile
  <1>9. CASE \E p \in Pods : SendSignal(p)
    BY <1>9 DEF SendSignal
  <1>10. CASE \E p \in Pods : Fails(p)
    BY <1>10 DEF Fails
  <1>11. CASE UNCHANGED vars
    BY <1>11 DEF vars
  <1> QED
    BY <1>1, <1>2, <1>3, <1>4, <1>5, <1>6, <1>7, <1>8, <1>9, <1>10, <1>11, NextCases

\* The variables of the watchers keep their types, and only a listed pod runs.
THEOREM TypeCorrect == Spec => []TypeOK
  BY TypeInit, TypeStep, PTL DEF Spec

-----------------------------------------------------------------------------
(* One winner an hour, and one more for every change of the list.  The     *)
(* number of winners alone says nothing of the pod that would win now;     *)
(* counted with it, a win changes nothing.                                 *)

Firsts(S) == {p \in Pods : First(p, S)}

WinnersInv == Cardinality(winners \union Firsts(listed)) <= 1 + recent

LEMMA OneFirst ==
    ASSUME NEW S
    PROVE  IsFiniteSet(Firsts(S)) /\ Cardinality(Firsts(S)) \in Nat /\ Cardinality(Firsts(S)) <= 1
  <1>1. Firsts(S) \in SUBSET {Min(S)}
    BY DEF Firsts, First
  <1>2. IsFiniteSet({Min(S)}) /\ Cardinality({Min(S)}) = 1
    BY FS_Singleton
  <1>3. IsFiniteSet(Firsts(S)) /\ Cardinality(Firsts(S)) <= Cardinality({Min(S)})
    BY <1>1, <1>2, FS_Subset
  <1>4. Cardinality(Firsts(S)) \in Nat
    BY <1>3, FS_CardinalityType
  <1> QED
    BY <1>2, <1>3, <1>4

LEMMA WinnersInit == Init => WinnersInv
  <1> SUFFICES ASSUME Init PROVE WinnersInv
    OBVIOUS
  <1>1. winners \union Firsts(listed) = Firsts(listed) /\ recent = 0
    BY DEF Init
  <1> QED
    BY <1>1, OneFirst DEF WinnersInv

\* A change of the list adds at most one pod that may win.
LEMMA ListChangesStep ==
    ASSUME TypeOK, WinnersInv, ListChanges
    PROVE  WinnersInv'
  <1> DEFINE W == winners \union Firsts(listed)
  <1> DEFINE F == Firsts(listed')
  <1>1. winners' = winners /\ recent' = recent + 1 /\ recent \in Nat
    BY PodsAssumption DEF ListChanges, hour, TypeOK
  <1>2. IsFiniteSet(W) /\ IsFiniteSet(F) /\ IsFiniteSet(winners)
    <2>1. W \in SUBSET Pods /\ F \in SUBSET Pods /\ winners \in SUBSET Pods
      BY DEF TypeOK, Firsts
    <2> QED
      BY <2>1, PodsAssumption, FS_Subset
  <1>3. Cardinality(winners \union F) <= Cardinality(winners) + 1
    <2>1. Cardinality(winners \union F) =
            Cardinality(winners) + Cardinality(F) - Cardinality(winners \intersect F)
      BY <1>2, FS_Union
    <2>2. Cardinality(F) \in Nat /\ Cardinality(F) <= 1
      BY OneFirst
    <2>3. Cardinality(winners) \in Nat /\ Cardinality(winners \intersect F) \in Nat
      BY <1>2, FS_Intersection, FS_CardinalityType
    <2> QED
      BY <2>1, <2>2, <2>3
  <1>4. Cardinality(winners) <= Cardinality(W)
    <2>1. winners \in SUBSET W
      OBVIOUS
    <2> QED
      BY <1>2, <2>1, FS_Subset
  <1>5. Cardinality(winners) \in Nat /\ Cardinality(W) \in Nat /\ Cardinality(winners \union F) \in Nat
    BY <1>2, FS_CardinalityType, FS_Union
  <1>6. Cardinality(W) <= 1 + recent
    BY DEF WinnersInv
  <1>7. (winners \union Firsts(listed))' = winners \union F
    BY <1>1
  <1>8. Cardinality(winners \union F) <= 1 + recent'
    BY <1>1, <1>3, <1>4, <1>5, <1>6
  <1> QED
    BY <1>7, <1>8 DEF WinnersInv

LEMMA WinnersStep == TypeOK /\ WinnersInv /\ [Next]_vars => WinnersInv'
  <1> SUFFICES ASSUME TypeOK, WinnersInv, [Next]_vars PROVE WinnersInv'
    OBVIOUS
  <1>1. CASE ListChanges
    BY <1>1, ListChangesStep
  <1>2. CASE NextHour
    <2>1. winners' = {} /\ recent' = 0 /\ listed' = listed
      BY <1>2 DEF NextHour
    <2>2. (winners \union Firsts(listed))' = Firsts(listed)
      BY <2>1
    <2> QED
      BY <2>1, <2>2, OneFirst DEF WinnersInv
  <1>3. ASSUME NEW p \in Pods, Elect(p) PROVE WinnersInv'
    <2>1. listed' = listed /\ recent' = recent
      BY <1>3 DEF Elect, cluster
    <2>2. (winners \union Firsts(listed))' = winners \union Firsts(listed)
      BY <1>3, <2>1 DEF Elect, Firsts
    <2> QED
      BY <2>1, <2>2 DEF WinnersInv
  <1>4. CASE UNCHANGED <<winners, listed, recent>>
    BY <1>4 DEF WinnersInv
  <1> QED
    BY <1>1, <1>2, <1>3, <1>4, NextCases
    DEF Start, Die, Poll, Get, SendFile, SendSignal, Fails, vars, hour, cluster

\* "If we are the first one, we win the election": at whatever times the watchers
\* read the list, an hour has one winner, and one more for every change.
THEOREM OneWinnerAnHour == Spec => []OneWinner
  <1>1. TypeOK /\ WinnersInv => OneWinner
    <2> SUFFICES ASSUME TypeOK, WinnersInv PROVE OneWinner
      OBVIOUS
    <2> DEFINE W == winners \union Firsts(listed)
    <2>1. W \in SUBSET Pods /\ winners \in SUBSET W
      BY DEF TypeOK, Firsts
    <2>2. IsFiniteSet(W)
      BY <2>1, PodsAssumption, FS_Subset
    <2>3. Cardinality(winners) <= Cardinality(W) /\ IsFiniteSet(winners)
      BY <2>1, <2>2, FS_Subset
    <2>4. Cardinality(winners) \in Nat /\ Cardinality(W) \in Nat
      BY <2>2, <2>3, FS_CardinalityType
    <2>5. Cardinality(W) <= 1 + recent /\ recent \in Nat
      BY PodsAssumption DEF WinnersInv, TypeOK
    <2> QED
      BY <2>3, <2>4, <2>5 DEF OneWinner
  <1> QED
    BY <1>1, TypeInit, TypeStep, WinnersInit, WinnersStep, PTL DEF Spec
=============================================================================
