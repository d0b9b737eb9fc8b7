----------------------------- MODULE FlowProofs -----------------------------
(***************************************************************************)
(* Theorems about OnaConfig, alone and under the composition FlowCapture,  *)
(* for every set of configurations, probes and interfaces, and every bound *)
(* on changes and faults.                                                  *)
(***************************************************************************)
EXTENDS FlowCapture, FiniteSetTheorems, SequenceTheorems, WellFoundedInduction, TLAPS

\* Every action of OnaConfig, for the case splits below.
LEMMA NextCases ==
    ASSUME [Next]_vars
    PROVE  \/ ChangeSite \/ ChangeNics \/ Load \/ Retrieve \/ RetrieveFails \/ Truncate \/ Write
           \/ Check \/ Report \/ ReportFails \/ Boot \/ Supervise \/ Exit \/ Crash \/ ScriptKill
           \/ UNCHANGED vars
  BY DEF Next, Execute, Scripts

-----------------------------------------------------------------------------
(* Where the scripts stand, and where a configuration comes from.          *)

Running == {"load", "poll", "truncate", "write", "check", "exit"}
Booting == {"boot", "load", "poll", "truncate", "write", "check", "report", "source"}

ConfigTypeOK ==
    /\ up \in BOOLEAN /\ reload \in BOOLEAN
    /\ pc \in (IF up THEN Running ELSE Booting)
    /\ pc \in {"poll", "truncate", "write"} => ~reload
    /\ siteChanges \in Nat /\ nicChanges \in Nat /\ crashes \in Nat /\ restarts \in Nat

Known == had \union {Empty}

FilesKnown == site \in had /\ fetched \in had /\ file \in Known

LEMMA ConfigTypeInit == Init => ConfigTypeOK /\ FilesKnown
  <1> SUFFICES ASSUME Init PROVE ConfigTypeOK /\ FilesKnown
    OBVIOUS
  <1>1. up = FALSE /\ reload = FALSE /\ pc = "boot"
    BY DEF Init
  <1>2. siteChanges = 0 /\ nicChanges = 0 /\ crashes = 0 /\ restarts = 0
    BY DEF Init
  <1>3. ConfigTypeOK
    BY <1>1, <1>2 DEF ConfigTypeOK, Booting
  <1>4. FilesKnown
    BY DEF Init, FilesKnown, Known
  <1> QED
    BY <1>3, <1>4

LEMMA ConfigTypeStep ==
    ASSUME ConfigTypeOK, FilesKnown, [Next]_vars
    PROVE  ConfigTypeOK' /\ FilesKnown'
  <1> USE DEF ConfigTypeOK, FilesKnown, Known, Running, Booting, world, ona, counts
  <1>1. CASE ChangeSite
    BY <1>1 DEF ChangeSite
  <1>2. CASE ChangeNics
    BY <1>2 DEF ChangeNics
  <1>3. CASE Load
    BY <1>3 DEF Load
  <1>4. CASE Retrieve
    BY <1>4 DEF Retrieve
  <1>5. CASE RetrieveFails
    BY <1>5 DEF RetrieveFails
  <1>6. CASE Truncate
    BY <1>6 DEF Truncate
  <1>7. CASE Write
    BY <1>7 DEF Write
  <1>8. CASE Check
    BY <1>8 DEF Check
  <1>9. CASE Report
    BY <1>9 DEF Report
  <1>10. CASE ReportFails
    BY <1>10 DEF ReportFails
  <1>11. CASE Boot
    BY <1>11 DEF Boot
  <1>12. CASE Supervise
    BY <1>12 DEF Supervise
  <1>13. CASE Exit
    <2>1. restarts' \in Nat
      BY <1>13 DEF Exit
    <2>2. /\ up' = FALSE /\ pc' = "boot"
          /\ UNCHANGED <<world, file, ona, crashes>>
      BY <1>13 DEF Exit
    <2> QED
      BY <2>1, <2>2
  <1>14. CASE Crash
    BY <1>14 DEF Crash
  <1>15. CASE ScriptKill
    BY <1>15 DEF ScriptKill
  <1>16. CASE UNCHANGED vars
    BY <1>16 DEF vars
  <1> QED
    BY <1>1, <1>2, <1>3, <1>4, <1>5, <1>6, <1>7, <1>8, <1>9, <1>10, <1>11, <1>12, <1>13, <1>14,
       <1>15, <1>16, NextCases

-----------------------------------------------------------------------------
(* Every restart is paid for by a cause.  What is owed is the restarts the *)
(* state leads to if nothing more happens: one for a file that is not the  *)
(* site's configuration, and one for an ona.py that is about to end.       *)

AllStable == \A c \in had : Stable(c)

\* Until it writes another, ona.py has read the file that is there.
CurrentIsFile == up /\ pc \in {"poll", "check"} /\ ~reload => current = ReadBack(file)

FileOwes(c) == IF c # site THEN 1 ELSE 0

Ending ==
    \/ pc = "exit"
    \/ up /\ pc \in {"truncate", "write"}
    \/ up /\ pc = "poll" /\ nics # seen
    \/ up /\ pc = "check" /\ (reload \/ nics # seen)

Owed ==
    FileOwes(IF pc \in {"truncate", "write"} THEN fetched ELSE file) + (IF Ending THEN 1 ELSE 0)

Causes == 1 + siteChanges + nicChanges + crashes

RestartsPaid == AllStable => restarts + Owed <= Causes

RestartInv == ConfigTypeOK /\ FilesKnown /\ CurrentIsFile /\ RestartsPaid

LEMMA KnownIsStable ==
    ASSUME FilesKnown, AllStable, file # Empty
    PROVE  ReadBack(file) = file
  BY DEF FilesKnown, Known, AllStable, Stable

LEMMA RestartInvInit == Init => RestartInv
  <1> SUFFICES ASSUME Init PROVE RestartInv
    OBVIOUS
  <1>1. ConfigTypeOK /\ FilesKnown
    BY ConfigTypeInit
  <1>2. pc = "boot" /\ up = FALSE
    BY DEF Init
  <1>3. siteChanges = 0 /\ nicChanges = 0 /\ crashes = 0 /\ restarts = 0
    BY DEF Init
  <1>4. CurrentIsFile
    BY <1>2 DEF CurrentIsFile
  <1>5. Owed \in {0, 1}
    BY <1>2 DEF Owed, Ending, FileOwes
  <1> QED
    BY <1>1, <1>3, <1>4, <1>5 DEF RestartInv, RestartsPaid, Causes

LEMMA OwedIsNat == FileOwes(file) \in {0, 1} /\ FileOwes(fetched) \in {0, 1} /\ Owed \in {0, 1, 2}
  BY DEF FileOwes, Owed

\* An action by an action: what it adds to the restarts and to what is owed, it adds
\* to the causes.
LEMMA PaidStep ==
    ASSUME RestartInv, ConfigTypeOK', AllStable, [Next]_vars
    PROVE  restarts' + Owed' - Causes' <= restarts + Owed - Causes
  <1>t. /\ restarts \in Nat /\ siteChanges \in Nat /\ nicChanges \in Nat /\ crashes \in Nat
        /\ Owed \in {0, 1, 2} /\ Owed' \in {0, 1, 2}
    BY DEF RestartInv, ConfigTypeOK, Owed, FileOwes
  <1> USE DEF world, ona, counts
  <1>1. CASE ChangeSite
    <2>1. Owed' <= Owed + 1
      BY <1>1 DEF ChangeSite, Owed, FileOwes, Ending
    <2>2. restarts' = restarts /\ Causes' = Causes + 1
      BY <1>1, <1>t DEF ChangeSite, Causes
    <2> QED
      BY <1>t, <2>1, <2>2 DEF Causes
  <1>2. CASE ChangeNics
    <2>1. Owed' <= Owed + 1
      BY <1>2 DEF ChangeNics, Owed, FileOwes, Ending
    <2>2. restarts' = restarts /\ Causes' = Causes + 1
      BY <1>2, <1>t DEF ChangeNics, Causes
    <2> QED
      BY <1>t, <2>1, <2>2 DEF Causes
  <1>3. CASE Crash
    <2>1. Owed' <= Owed + 1
      BY <1>3 DEF Crash, Owed, FileOwes, Ending
    <2>2. restarts' = restarts /\ Causes' = Causes + 1
      BY <1>3, <1>t DEF Crash, Causes
    <2> QED
      BY <1>t, <2>1, <2>2 DEF Causes
  <1>4. CASE Exit
    <2>1. Owed' = Owed - 1
      BY <1>4 DEF Exit, Owed, FileOwes, Ending
    <2>2. restarts' <= restarts + 1 /\ restarts' \in Nat /\ Causes' = Causes
      BY <1>4, <1>t DEF Exit, Causes
    <2> QED
      BY <1>t, <2>1, <2>2 DEF Causes
  <1>5. ASSUME Load \/ Retrieve \/ RetrieveFails \/ Truncate \/ Write \/ Check \/ Report \/ ReportFails
                 \/ Boot \/ Supervise \/ ScriptKill \/ UNCHANGED vars
        PROVE  restarts' = restarts /\ Causes' = Causes
    BY <1>5 DEF Load, Retrieve, RetrieveFails, Truncate, Write, Check, Report, ReportFails, Boot,
               Supervise, ScriptKill, vars, Causes
  <1>6. CASE Load
    BY <1>6, <1>5, <1>t DEF Load, Owed, FileOwes, Ending, Causes
  <1>7. CASE Retrieve
    <2>1. CASE Changed(site)
      <3>1. up => file # site
        <4>1. CASE file = Empty
          BY <2>1, <4>1 DEF Changed
        <4>2. CASE file # Empty /\ up
          BY <1>7, <2>1, <4>2, KnownIsStable
             DEF Retrieve, Changed, RestartInv, CurrentIsFile, ConfigTypeOK
        <4> QED
          BY <4>1, <4>2
      <3>2. Owed' <= Owed
        BY <1>7, <2>1, <3>1 DEF Retrieve, Owed, FileOwes, Ending
      <3> QED
        BY <3>2, <1>7, <1>5, <1>t DEF Causes
    <2>2. CASE ~Changed(site)
      <3>1. Owed' <= Owed
        BY <1>7, <2>2 DEF Retrieve, Owed, FileOwes, Ending, RestartInv, ConfigTypeOK
      <3> QED
        BY <3>1, <1>7, <1>5, <1>t DEF Causes
    <2> QED
      BY <2>1, <2>2
  <1>8. CASE RetrieveFails
    <2>1. Owed' <= Owed
      BY <1>8 DEF RetrieveFails, Owed, FileOwes, Ending, RestartInv, ConfigTypeOK
    <2> QED
      BY <2>1, <1>8, <1>5, <1>t DEF Causes
  <1>9. CASE Truncate \/ Write \/ Check \/ Report \/ ReportFails \/ Boot \/ Supervise \/ ScriptKill
                 \/ UNCHANGED vars
    <2>1. Owed' <= Owed
      BY <1>9 DEF Truncate, Write, Check, Report, ReportFails, Boot, Supervise, ScriptKill, vars,
                 Owed, FileOwes, Ending, RestartInv, ConfigTypeOK, Running, Booting
    <2> QED
      BY <2>1, <1>9, <1>5, <1>t DEF Causes
  <1> QED
    BY <1>1, <1>2, <1>3, <1>4, <1>6, <1>7, <1>8, <1>9, NextCases

LEMMA HadGrows == ASSUME [Next]_vars PROVE had \subseteq had'
  BY NextCases
  DEF ChangeSite, ChangeNics, Load, Retrieve, RetrieveFails, Truncate, Write, Check, Report,
      ReportFails, Boot, Supervise, Exit, Crash, ScriptKill, vars, world

LEMMA RestartInvStep == ASSUME RestartInv, [Next]_vars PROVE RestartInv'
  <1>1. ConfigTypeOK' /\ FilesKnown'
    BY ConfigTypeStep DEF RestartInv
  <1>2. CurrentIsFile'
    <2> USE DEF CurrentIsFile, RestartInv
    <2>1. CASE Load
      BY <2>1 DEF Load
    <2>2. CASE Retrieve \/ RetrieveFails \/ Check
      BY <2>2 DEF Retrieve, RetrieveFails, Check, ConfigTypeOK, ona
    <2>3. CASE Write \/ Truncate
      BY <2>3 DEF Write, Truncate
    <2>4. CASE ReportFails
      BY <2>4 DEF ReportFails, ConfigTypeOK, Running
    <2>5. CASE Report \/ Boot \/ Supervise \/ Exit \/ Crash \/ ScriptKill
      BY <2>5 DEF Report, Boot, Supervise, Exit, Crash, ScriptKill
    <2>6. CASE ChangeSite \/ ChangeNics \/ UNCHANGED vars
      BY <2>6 DEF ChangeSite, ChangeNics, vars, ona
    <2> QED
      BY <2>1, <2>2, <2>3, <2>4, <2>5, <2>6, NextCases
  <1>3. AllStable' => AllStable
    BY HadGrows DEF AllStable, Stable, ReadBack
  <1>4. ASSUME AllStable' PROVE restarts' + Owed' <= Causes'
    <2>1. restarts + Owed <= Causes
      BY <1>3, <1>4 DEF RestartInv, RestartsPaid
    <2>2. restarts' + Owed' - Causes' <= restarts + Owed - Causes
      BY <1>1, <1>3, <1>4, PaidStep
    <2>3. Owed \in Nat /\ Owed' \in Nat
      BY DEF Owed, FileOwes
    <2>4. restarts \in Nat /\ Causes \in Nat
      BY DEF RestartInv, ConfigTypeOK, Causes
    <2>5. restarts' \in Nat /\ siteChanges' \in Nat /\ nicChanges' \in Nat /\ crashes' \in Nat
      BY <1>1 DEF ConfigTypeOK
    <2>6. Causes' \in Nat
      <3>1. \A a, b, c \in Nat : 1 + a + b + c \in Nat
        OBVIOUS
      <3> QED
        BY <2>5, <3>1 DEF Causes
    <2>7. \A r, o, c, s, p, d \in Nat : r + o <= c /\ s + p - d <= r + o - c => s + p <= d
      OBVIOUS
    <2> QED
      BY <2>1, <2>2, <2>3, <2>4, <2>5, <2>6, <2>7
  <1> QED
    BY <1>1, <1>2, <1>4 DEF RestartInv, RestartsPaid

\* The services restart no more often than the site, the interfaces or crashes give
\* cause to, whatever the order of polls, reports, kills and changes: no restart is
\* the consequence of another.
THEOREM RestartsAreCaused == Spec => []RestartsHaveCauses
  <1>1. ASSUME RestartInv PROVE RestartsHaveCauses
    <2>1. Owed \in Nat
      BY DEF Owed, FileOwes
    <2>2. restarts \in Nat /\ siteChanges \in Nat /\ nicChanges \in Nat /\ crashes \in Nat
      BY <1>1 DEF RestartInv, ConfigTypeOK
    <2> QED
      BY <1>1, <2>1, <2>2 DEF RestartInv, RestartsPaid, Causes, RestartsHaveCauses, AllStable
  <1> QED
    BY <1>1, RestartInvInit, RestartInvStep, PTL DEF Spec

-----------------------------------------------------------------------------
(* The flow collector leaves the configuration loop to itself.             *)

LEMMA FlowSteps == ASSUME [FlowNext]_flowVars PROVE [Next]_vars
  BY DEF FlowNext, Configure, Beside, Flowcap, WriteSensorConf, OpenPorts, RestoreFails, Restore, flowVars

\* The composition implements OnaConfig, so that its theorems hold of it.
THEOREM FlowImplementsConfig == FlowSpec => Spec
  <1>1. FlowInit => Init
    BY DEF FlowInit
  <1> QED
    BY <1>1, FlowSteps, PTL DEF FlowSpec, Spec

\* Restarts have causes with the collector beside the loop, too.
THEOREM FlowRestartsAreCaused == FlowSpec => []RestartsHaveCauses
  BY FlowImplementsConfig, RestartsAreCaused, PTL

-----------------------------------------------------------------------------
(* The values the services run with are values that a configuration of the *)
(* site, together with the defaults and config.local, comes to.            *)

KnownValue(k, x) == x = Absent \/ \E c \in Known : x = Effective(c)[k]
KnownValues(env) == \A k \in Keys : KnownValue(k, env[k])

ValuesInv == FilesKnown /\ ConfigTypeOK /\ KnownValues(shell) /\ KnownValues(running)

LEMMA SourceKnown ==
    ASSUME KnownValues(shell), FilesKnown
    PROVE  KnownValues(Source(shell, file)) /\ KnownValues(Effective(file))
  <1>1. KnownValues(Effective(file))
    BY DEF KnownValues, KnownValue, FilesKnown
  <1>2. ASSUME NEW k \in Keys PROVE KnownValue(k, Source(shell, file)[k])
    <2>1. Source(shell, file)[k] = Effective(file)[k] \/ Source(shell, file)[k] = shell[k]
      BY DEF Effective, Source
    <2> QED
      BY <1>1, <2>1 DEF KnownValues
  <1> QED
    BY <1>1, <1>2 DEF KnownValues

LEMMA ValuesInvInit == Init => ValuesInv
  <1> SUFFICES ASSUME Init PROVE ValuesInv
    OBVIOUS
  <1>1. shell = Empty /\ running = Empty
    BY DEF Init
  <1> QED
    BY <1>1, ConfigTypeInit DEF ValuesInv, KnownValues, KnownValue, Empty

LEMMA ValuesInvStep == ASSUME ValuesInv, [Next]_vars PROVE ValuesInv'
  <1>1. ConfigTypeOK' /\ FilesKnown'
    BY ConfigTypeStep DEF ValuesInv
  <1>2. had \subseteq had'
    BY HadGrows
  <1>3. \A k, x : KnownValue(k, x) => KnownValue(k, x)'
    BY <1>2 DEF KnownValue, Known
  <1>4. CASE Boot
    <2>1. shell' = Effective(file) /\ running' = running
      BY <1>4 DEF Boot
    <2>2. KnownValues(shell') /\ KnownValues(running')
      BY <2>1, SourceKnown DEF ValuesInv
    <2> QED
      BY <1>1, <1>3, <2>2 DEF ValuesInv, KnownValues
  <1>5. CASE Supervise
    <2>1. shell' = Source(shell, file) /\ running' = shell'
      BY <1>5 DEF Supervise
    <2>2. KnownValues(shell') /\ KnownValues(running')
      BY <2>1, SourceKnown DEF ValuesInv
    <2> QED
      BY <1>1, <1>3, <2>2 DEF ValuesInv, KnownValues
  <1>6. CASE UNCHANGED <<shell, running>>
    BY <1>1, <1>3, <1>6 DEF ValuesInv, KnownValues
  <1> QED
    BY <1>4, <1>5, <1>6, NextCases
    DEF ChangeSite, ChangeNics, Load, Retrieve, RetrieveFails, Truncate, Write, Check, Report,
        ReportFails, Exit, Crash, ScriptKill, vars

-----------------------------------------------------------------------------
(* The probes of an environment.                                           *)

\* A probe is one of the user's or, behind those, one of yaf's.
LEMMA ProbeAt ==
    ASSUME NEW env
    PROVE  /\ DOMAIN ProbeConfig(env)
                = 1 .. Len(Indices) + (IF env[Yaf] = "true" THEN Len(Ifaces) ELSE 0)
           /\ \A k \in DOMAIN ProbeConfig(env) :
                 \/ k \in 1 .. Len(Indices) /\ ProbeConfig(env)[k] = UserProbe(env, Indices[k])
                 \/ /\ env[Yaf] = "true"
                    /\ k - Len(Indices) \in 1 .. Len(Ifaces)
                    /\ ProbeConfig(env)[k] = YafProbe(k - Len(Indices))
  <1> DEFINE users == [k \in 1 .. Len(Indices) |-> UserProbe(env, Indices[k])]
             yafs == IF env[Yaf] = "true" THEN [k \in 1 .. Len(Ifaces) |-> YafProbe(k)] ELSE << >>
             P == {UserProbe(env, Indices[k]) : k \in 1 .. Len(Indices)}
                    \union {YafProbe(k) : k \in 1 .. Len(Ifaces)}
  <1>1. Len(Indices) \in Nat /\ Len(Ifaces) \in Nat
    BY ProbesAssumption, LenProperties
  <1>2. users \in Seq(P) /\ Len(users) = Len(Indices)
    <2>1. users \in [1 .. Len(Indices) -> P]
      OBVIOUS
    <2> HIDE DEF users, P
    <2>2. users \in Seq(P)
      BY <1>1, <2>1, SeqDef
    <2>3. DOMAIN users = 1 .. Len(users) /\ Len(users) \in Nat
      BY <2>2, LenProperties
    <2> QED
      BY <1>1, <2>1, <2>2, <2>3
  <1>3. yafs \in Seq(P) /\ Len(yafs) = IF env[Yaf] = "true" THEN Len(Ifaces) ELSE 0
    <2>1. CASE env[Yaf] = "true"
      <3>1. yafs \in [1 .. Len(Ifaces) -> P]
        BY <2>1
      <3> HIDE DEF yafs, P
      <3>2. yafs \in Seq(P)
        BY <1>1, <3>1, SeqDef
      <3>3. DOMAIN yafs = 1 .. Len(yafs) /\ Len(yafs) \in Nat
        BY <3>2, LenProperties
      <3> QED
        BY <1>1, <2>1, <3>1, <3>2, <3>3
    <2>2. CASE env[Yaf] # "true"
      BY <2>2, EmptySeq
    <2> QED
      BY <2>1, <2>2
  <1>4. /\ users \o yafs \in Seq(P)
        /\ Len(users \o yafs) = Len(users) + Len(yafs)
        /\ \A k \in 1 .. Len(users) + Len(yafs) :
              (users \o yafs)[k] = IF k <= Len(users) THEN users[k] ELSE yafs[k - Len(users)]
    <2> HIDE DEF users, yafs, P
    <2> QED
      BY <1>2, <1>3, ConcatProperties
  <1>5. ProbeConfig(env) = users \o yafs
    BY DEF ProbeConfig
  <1>6. DOMAIN (users \o yafs) = 1 .. Len(users) + Len(yafs)
    <2> HIDE DEF users, yafs, P
    <2> QED
      BY <1>4, LenProperties
  <1>7. ASSUME NEW k \in 1 .. Len(users) + Len(yafs), k <= Len(Indices)
        PROVE  k \in 1 .. Len(Indices) /\ (users \o yafs)[k] = UserProbe(env, Indices[k])
    <2>1. k \in 1 .. Len(Indices) /\ (users \o yafs)[k] = users[k]
      <3> HIDE DEF users, yafs
      <3> QED
        BY <1>1, <1>2, <1>3, <1>4, <1>7
    <2> QED
      BY <2>1
  <1>8. ASSUME NEW k \in 1 .. Len(users) + Len(yafs), ~ (k <= Len(Indices))
        PROVE  /\ env[Yaf] = "true" /\ k - Len(Indices) \in 1 .. Len(Ifaces)
               /\ (users \o yafs)[k] = YafProbe(k - Len(Indices))
    <2>1. /\ env[Yaf] = "true" /\ k - Len(Indices) \in 1 .. Len(Ifaces)
          /\ (users \o yafs)[k] = yafs[k - Len(Indices)]
      <3> HIDE DEF users, yafs
      <3> QED
        BY <1>1, <1>2, <1>3, <1>4, <1>8
    <2> QED
      BY <2>1
  <1> QED
    <2> HIDE DEF users, yafs
    <2> QED
      BY <1>2, <1>3, <1>5, <1>6, <1>7, <1>8

\* The yaf probes are there if yaf is.
LEMMA YafProbeAt ==
    ASSUME NEW env, env[Yaf] = "true", NEW k \in 1 .. Len(Ifaces)
    PROVE  /\ Len(Indices) + k \in DOMAIN ProbeConfig(env)
           /\ ProbeConfig(env)[Len(Indices) + k] = YafProbe(k)
  <1>1. Len(Indices) \in Nat /\ Len(Ifaces) \in Nat
    BY ProbesAssumption, LenProperties
  <1>2. /\ Len(Indices) + k \in 1 .. Len(Indices) + Len(Ifaces)
        /\ Len(Indices) + k \notin 1 .. Len(Indices)
        /\ (Len(Indices) + k) - Len(Indices) = k
    BY <1>1
  <1>3. Len(Indices) + k \in DOMAIN ProbeConfig(env)
    BY <1>2, ProbeAt
  <1> QED
    BY <1>2, <1>3, ProbeAt

\* A port to be opened is one that the user gave to a probe.
LEMMA PortIsGiven ==
    ASSUME NEW env, NEW p, NEW o \in Ports(env, p)
    PROVE  \E k \in 1 .. Len(Indices) :
              env[<<Indices[k], "PORT">>] # Absent /\ Number[env[<<Indices[k], "PORT">>]] = o[2]
  <1>1. PICK k \in valid_probes(env) :
           ~ProbeConfig(env)[k].local /\ o = <<p, ProbeConfig(env)[k].port>>
    BY DEF Ports
  <1>2. k \in DOMAIN ProbeConfig(env) /\ ValidPort(ProbeConfig(env)[k].port)
    BY DEF valid_probes, Valid
  <1>3. k \in 1 .. Len(Indices) /\ ProbeConfig(env)[k] = UserProbe(env, Indices[k])
    BY <1>1, <1>2, ProbeAt DEF YafProbe
  <1> QED
    BY <1>1, <1>2, <1>3 DEF UserProbe, ValidPort

-----------------------------------------------------------------------------
(* What is opened in the firewall.                                         *)

CauseOf(hs, o) ==
    \E c \in hs \union {Empty}, k \in 1 .. Len(Indices) :
        LET port == Effective(c)[<<Indices[k], "PORT">>]
        IN  port # Absent /\ Number[port] = o[2]

OpenedInv ==
    ValuesInv /\ rules \in [Protocols -> {0, 1}] /\ \A o \in opened : CauseOf(had, o)

LEMMA PortHasCause ==
    ASSUME ValuesInv, NEW p, NEW o \in Ports(running, p)
    PROVE  CauseOf(had, o)
  <1>1. PICK k \in 1 .. Len(Indices) :
           /\ running[<<Indices[k], "PORT">>] # Absent
           /\ Number[running[<<Indices[k], "PORT">>]] = o[2]
    BY PortIsGiven
  <1>2. <<Indices[k], "PORT">> \in Keys
    BY KeysAssumption
  <1>3. \E c \in Known : running[<<Indices[k], "PORT">>] = Effective(c)[<<Indices[k], "PORT">>]
    BY <1>1, <1>2 DEF ValuesInv, KnownValues, KnownValue
  <1> QED
    BY <1>1, <1>3 DEF CauseOf, Known

LEMMA OpenedInvInit == FlowInit => OpenedInv
  BY ValuesInvInit DEF FlowInit, OpenedInv

LEMMA OpenedInvStep == ASSUME OpenedInv, [FlowNext]_flowVars PROVE OpenedInv'
  <1>1. ValuesInv'
    BY FlowSteps, ValuesInvStep DEF OpenedInv
  <1>2. had \subseteq had'
    BY FlowSteps, HadGrows
  <1>3. \A o : CauseOf(had, o) => CauseOf(had', o)
    BY <1>2 DEF CauseOf
  <1>4. CASE UNCHANGED <<opened, rules>>
    BY <1>1, <1>3, <1>4 DEF OpenedInv
  <1>5. ASSUME NEW ok \in SUBSET Protocols, Restore(ok) PROVE OpenedInv'
    <2>1. rules' \in [Protocols -> {0, 1}]
      BY <1>5 DEF Restore, OpenedInv
    <2>2. \A o \in opened' : CauseOf(had, o)
      BY <1>5, PortHasCause DEF Restore, OpenedInv
    <2> QED
      BY <1>1, <1>3, <2>1, <2>2 DEF OpenedInv
  <1> QED
    BY <1>4, <1>5 DEF FlowNext, Configure, Beside, Flowcap, WriteSensorConf, OpenPorts, RestoreFails, flowVars, flow

\* The firewall never has a rule twice, and no port is opened but one that a probe has
\* had by config.local or, where that does not override it, by a configuration of the
\* site: the ports of yaf's monitors stay closed, whatever defaults and overrides the
\* sensor has.
THEOREM PortsHaveCauses == FlowSpec => []OpenedHaveCauses
  <1>1. ASSUME OpenedInv PROVE OpenedHaveCauses
    <2>1. \A p \in Protocols : rules[p] \in {0, 1}
      BY <1>1 DEF OpenedInv
    <2>2. \A p \in Protocols : rules[p] <= 1
      BY <2>1
    <2> QED
      BY <1>1, <2>2 DEF OpenedInv, CauseOf, OpenedHaveCauses
  <1> QED
    BY <1>1, OpenedInvInit, OpenedInvStep, PTL DEF FlowSpec

-----------------------------------------------------------------------------
(* What the collector listens to.                                          *)

\* A nonempty set of numbers has a least one: of the sets of its numbers below one of
\* its own, a smallest one is empty.
LEMMA LeastOfNaturals ==
    ASSUME NEW S \in SUBSET Nat, S # {}
    PROVE  \E x \in S : \A y \in S : x <= y
  <1> DEFINE Below(x) == {y \in S : y < x}
  <1> DEFINE T == {Below(x) : x \in S}
  <1>1. T \subseteq FiniteSubsetsOf(S) /\ T # {}
    <2>1. ASSUME NEW x \in S PROVE IsFiniteSet(Below(x))
      <3>1. Below(x) \in SUBSET Nat /\ x \in Nat
        OBVIOUS
      <3>2. \A y \in Below(x) : y <= x
        BY <3>1
      <3> QED
        BY <3>1, <3>2, FS_BoundedSetOfNaturals
    <2> QED
      BY <2>1 DEF FiniteSubsetsOf
  <1>2. PICK M \in T : \A U \in T : ~ (<<U, M>> \in StrictSubsetOrdering(S))
    <2> HIDE DEF T
    <2> QED
      BY <1>1, WFMin, FS_StrictSubsetOrderingWellFounded
  <1>3. PICK x \in S : M = Below(x)
    OBVIOUS
  <1>4. ASSUME NEW y \in S, y < x PROVE FALSE
    <2>1. Below(y) \subseteq Below(x) /\ Below(y) # Below(x)
      <3>1. \A z \in S : z < y => z < x
        BY <1>4
      <3>2. y \in Below(x) /\ y \notin Below(y)
        BY <1>4
      <3> QED
        BY <3>1, <3>2
    <2>2. <<Below(y), Below(x)>> \in StrictSubsetOrdering(S)
      BY <2>1 DEF StrictSubsetOrdering
    <2> QED
      BY <1>2, <1>3, <2>2
  <1>5. \A y \in S : x <= y
    BY <1>4
  <1> QED
    BY <1>5

\* The port of a monitor is written to sensor.conf: as that of its own probe, or as
\* that of the user's probe that comes before it.
LEMMA MonitorServed ==
    ASSUME NEW env, NEW k \in 1 .. Len(Ifaces), env[Yaf] = "true",
           ValidPort(StartPort + k - 1)
    PROVE  \E s \in SensorConf(env) :
              /\ s.port = StartPort + k - 1 /\ s.protocol = "tcp"
              /\ s.name = Ifaces[k] \/ <<"tcp", StartPort + k - 1>> \in Ports(env, "tcp")
  <1> DEFINE ps == ProbeConfig(env)
             port == StartPort + k - 1
             Alike == {j \in valid_probes(env) : ps[j].port = port /\ ps[j].protocol = "tcp"}
  <1>1. Len(Indices) \in Nat /\ Len(Ifaces) \in Nat /\ StartPort \in Int
    BY ProbesAssumption, LenProperties
  <1>2. Len(Indices) + k \in Alike
    <2>1. Len(Indices) + k \in DOMAIN ps /\ ps[Len(Indices) + k] = YafProbe(k)
      BY YafProbeAt
    <2>2. Valid(YafProbe(k)) /\ YafProbe(k).port = port /\ YafProbe(k).protocol = "tcp"
      BY DEF Valid, Typed, YafProbe, PROBE_TYPES, Protocols
    <2> QED
      BY <2>1, <2>2 DEF valid_probes
  <1>3. valid_probes(env) \subseteq DOMAIN ps /\ DOMAIN ps \subseteq Nat
    BY <1>1, ProbeAt DEF valid_probes
  <1>4. PICK j \in Alike : \A h \in Alike : j <= h
    <2>1. Alike \in SUBSET Nat /\ Alike # {}
      BY <1>2, <1>3
    <2> HIDE DEF Alike
    <2> QED
      BY <2>1, LeastOfNaturals
  <1>5. j \in valid_probes(env) /\ ps[j].port = port /\ ps[j].protocol = "tcp" /\ j \in Nat
    BY <1>3
  <1>6. \A h \in valid_probes(env) :
           h < j => ~ (ps[h].port = ps[j].port /\ ps[h].protocol = ps[j].protocol)
    BY <1>3, <1>4, <1>5
  <1>7. ps[j] \in SensorConf(env)
    BY <1>5, <1>6 DEF SensorConf
  <1>8. CASE j \in 1 .. Len(Indices) /\ ps[j] = UserProbe(env, Indices[j])
    <2>1. ~ps[j].local
      BY <1>8 DEF UserProbe
    <2>2. <<"tcp", port>> \in Ports(env, "tcp")
      BY <1>5, <2>1 DEF Ports
    <2> QED
      BY <1>5, <1>7, <2>2
  <1>9. CASE j - Len(Indices) \in 1 .. Len(Ifaces) /\ ps[j] = YafProbe(j - Len(Indices))
    <2>1. ps[j].port = StartPort + (j - Len(Indices)) - 1 /\ ps[j].name = Ifaces[j - Len(Indices)]
      BY <1>9 DEF YafProbe
    <2>2. j - Len(Indices) = k
      BY <1>1, <1>5, <1>9, <2>1
    <2> QED
      BY <1>5, <1>7, <2>1, <2>2
  <1> QED
    BY <1>3, <1>5, <1>8, <1>9, ProbeAt

FlowcapInv ==
    /\ ConfigTypeOK /\ FilesKnown
    /\ flowcap # "off" => up /\ sensor = SensorConf(running)

LEMMA FlowcapInvInit == FlowInit => FlowcapInv
  BY ConfigTypeInit DEF FlowInit, FlowcapInv

LEMMA FlowcapInvStep == ASSUME FlowcapInv, [FlowNext]_flowVars PROVE FlowcapInv'
  <1>1. ConfigTypeOK' /\ FilesKnown'
    BY FlowSteps, ConfigTypeStep DEF FlowcapInv
  <1>2. CASE Configure
    <2>1. CASE Supervise
      <3>1. flowcap = "off"
        BY <2>1 DEF FlowcapInv, ConfigTypeOK, Supervise, Running
      <3> QED
        BY <1>1, <1>2, <3>1 DEF Configure, Beside, FlowcapInv
    <2>2. CASE ~Supervise
      <3>1. running' = running /\ (up' => up)
        BY <1>2, <2>2
        DEF Configure, Beside, Next, Execute, Scripts, ChangeSite, ChangeNics, Load, Retrieve, RetrieveFails,
            Truncate, Write, Check, Report, ReportFails, Boot, Exit, Crash, ScriptKill
      <3> QED
        BY <1>1, <1>2, <3>1 DEF Configure, Beside, FlowcapInv
    <2> QED
      BY <2>1, <2>2
  <1>3. CASE WriteSensorConf
    BY <1>1, <1>3 DEF WriteSensorConf, FlowcapInv, vars
  <1>4. ASSUME NEW ok, Restore(ok) PROVE FlowcapInv'
    BY <1>1, <1>4 DEF Restore, FlowcapInv, vars
  <1>5. CASE UNCHANGED flowVars
    BY <1>1, <1>5 DEF flowVars, flow, vars, FlowcapInv
  <1> QED
    BY <1>2, <1>3, <1>4, <1>5 DEF FlowNext, Flowcap, OpenPorts, RestoreFails

\* Every monitor has a receiver once the collector runs, whatever probes the user has:
\* the two scripts that count the ports of the monitors agree.
THEOREM EveryMonitorIsHeard == FlowSpec => []MonitorsHaveReceivers
  <1>1. ASSUME FlowcapInv PROVE MonitorsHaveReceivers
    <2> SUFFICES ASSUME flowcap = "on", NEW m \in Programs(running), m[1] = "ona-yaf-monitor",
                        ValidPort(m[3])
                 PROVE  \E s \in sensor :
                           /\ s.port = m[3] /\ s.protocol = "tcp"
                           /\ s.name = m[2] \/ <<"tcp", m[3]>> \in Ports(running, "tcp")
      BY DEF MonitorsHaveReceivers
    <2>1. sensor = SensorConf(running)
      BY <1>1 DEF FlowcapInv
    <2>2. /\ running[Yaf] = "true"
          /\ \E k \in 1 .. Len(Ifaces) : m = <<"ona-yaf-monitor", Ifaces[k], StartPort + k - 1>>
      BY DEF Programs
    <2>3. PICK k \in 1 .. Len(Ifaces) : m = <<"ona-yaf-monitor", Ifaces[k], StartPort + k - 1>>
      BY <2>2
    <2>4. m[2] = Ifaces[k] /\ m[3] = StartPort + k - 1
      BY <2>3
    <2> QED
      BY <2>1, <2>2, <2>4, MonitorServed
  <1> QED
    BY <1>1, FlowcapInvInit, FlowcapInvStep, PTL DEF FlowSpec
=============================================================================
