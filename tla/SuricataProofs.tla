--------------------------- MODULE SuricataProofs ---------------------------
(***************************************************************************)
(* Theorems about SuricataWatcher over Api, for every set of logs and      *)
(* paths, every number of attempts and every bound on time and kills.      *)
(***************************************************************************)
EXTENDS SuricataWatcher, TLAPS

(* Api on its own.  ToldIsStored alone is not inductive, because a signal  *)
(* relies on the path a former call returned.                              *)

\* Between calls, while it is signalled and during a download, a path is one that holds the file.
PathIsStored ==
    call \in {"none", "signal", "get"} /\ path # NoPath => <<path, file>> \in stored

SignalHasPath == call = "signal" => path # NoPath

\* A new attempt has forgotten the path of the last.
SignForgets == call = "sign" => path = NoPath

ApiInv == ToldIsStored /\ PathIsStored /\ SignalHasPath /\ SignForgets

\* ApiInv holds at the start.
LEMMA ApiInvInit == ApiInit => ApiInv
  BY DEF ApiInit, ApiInv, ToldIsStored, PathIsStored, SignalHasPath, SignForgets

\* Every step keeps ApiInv.
LEMMA ApiInvStep == ApiInv /\ [ApiNext]_apiVars => ApiInv'
  <1> SUFFICES ASSUME ApiInv, [ApiNext]_apiVars PROVE ApiInv'
    OBVIOUS
  <1> USE DEF ApiInv, ToldIsStored, PathIsStored, SignalHasPath, SignForgets
  <1>1. CASE \E f \in Files : SendFile(f)
    BY <1>1 DEF SendFile
  <1>2. CASE SendSignal
    BY <1>2 DEF SendSignal
  <1>3. CASE Sign
    BY <1>3 DEF Sign
  <1>4. CASE SignFails
    BY <1>4 DEF SignFails, Retry, Return
  <1>5. CASE Put
    BY <1>5 DEF Put, Return
  <1>6. CASE PutFails
    BY <1>6 DEF PutFails, Retry, Return
  <1>7. CASE PutTooLarge
    BY <1>7 DEF PutTooLarge, Return
  <1>8. CASE Signal
    BY <1>8 DEF Signal, Return
  <1>9. CASE SignalFails
    BY <1>9 DEF SignalFails, Retry, Return
  <1>10. CASE Drop
    BY <1>10 DEF Drop
  <1>11. CASE GetData
    BY <1>11 DEF GetData
  <1>12. CASE Get
    BY <1>12 DEF Get, Return
  <1>13. CASE GetFails
    BY <1>13 DEF GetFails, Retry, Return
  <1>14. CASE UNCHANGED apiVars
    BY <1>14 DEF apiVars
  <1> QED
    BY <1>1, <1>2, <1>3, <1>4, <1>5, <1>6, <1>7, <1>8, <1>9, <1>10, <1>11, <1>12, <1>13, <1>14
    DEF ApiNext, Request

\* Whatever client calls send_file and send_signal, and whatever answers are
\* lost, the site is told of a path only after it took the file there.
THEOREM ToldStored == ApiSpec => []ToldIsStored
  <1>1. ApiInv => ToldIsStored
    BY DEF ApiInv
  <1> QED
    BY <1>1, ApiInvInit, ApiInvStep, PTL DEF ApiSpec

-----------------------------------------------------------------------------

\* Every action of the next-state relation, for the case splits below.
LEMMA NextCases ==
    ASSUME [Next]_vars
    PROVE  \/ Tick \/ Install \/ ApiStep \/ Kill \/ Restart
           \/ RotateLogs \/ List \/ Send \/ Sent \/ Settled \/ Raised \/ Remove
           \/ Uploaded \/ UpdateRules \/ UpToDate \/ OpenRules \/ WriteRules
           \/ (\E f \in Logs : CompressLog(f)) \/ UNCHANGED vars
  BY DEF Next, Execute

-----------------------------------------------------------------------------
(* What the watcher knows of its calls: a request has a file and, once it  *)
(* is signed, a path; the outcome of a call is only there after it.        *)

CallInv ==
    /\ call \in {"sign", "put"} => file \in Files
    /\ path # NoPath => file \in Files
    /\ call \in {"put", "signal"} => path # NoPath
    /\ call # "none" => result = "none"

\* What the watcher does with a call that it waits for or has waited for.
CurrentInv ==
    /\ pc = "send" => current \in Logs
    /\ pc \in {"sending", "signalling"} => current \in Logs /\ file = current
    /\ pc \notin {"sending", "signalling", "fetching"} => call = "none"

LEMMA TypeInit == Init => TypeOK /\ CallInv /\ CurrentInv
  <1> SUFFICES ASSUME Init PROVE TypeOK /\ CallInv /\ CurrentInv
    OBVIOUS
  <1> USE ApiAssumption, WatcherAssumption
  <1>1. ApiTypeOK
    BY DEF Init, ApiInit, ApiTypeOK
  <1>2. torn \in BOOLEAN
    BY DEF Init
  <1>3. /\ {clock, now, wake, kills} = {0} /\ {installed, rules} \subseteq {Never, 0} /\ fault = Never
        /\ form = [f \in Logs |-> "unborn"] /\ pc = "asleep" /\ todo = {} /\ current = NoFile
    BY DEF Init
  <1>4. TypeOK
    BY <1>1, <1>2, <1>3 DEF TypeOK, Times, Never
  <1>5. CallInv /\ CurrentInv
    BY <1>3 DEF Init, ApiInit, CallInv, CurrentInv
  <1> QED
    BY <1>4, <1>5

LEMMA ApiTypeStep ==
    ASSUME ApiTypeOK, CallInv, Request
    PROVE  ApiTypeOK' /\ CallInv' /\ file' = file
  <1> USE ApiAssumption DEF ApiTypeOK, CallInv, Return, Retry
  <1>1. CASE Sign
    BY <1>1 DEF Sign
  <1>2. CASE SignFails
    BY <1>2 DEF SignFails
  <1>3. CASE Put
    BY <1>3 DEF Put
  <1>4. CASE PutFails
    BY <1>4 DEF PutFails
  <1>5. CASE PutTooLarge
    BY <1>5 DEF PutTooLarge
  <1>6. CASE Signal
    BY <1>6 DEF Signal
  <1>7. CASE SignalFails
    BY <1>7 DEF SignalFails
  <1>8. CASE Get
    BY <1>8 DEF Get
  <1>9. CASE GetFails
    BY <1>9 DEF GetFails
  <1> QED
    BY <1>1, <1>2, <1>3, <1>4, <1>5, <1>6, <1>7, <1>8, <1>9 DEF Request

LEMMA TypeStep ==
    ASSUME TypeOK, CallInv, CurrentInv, [Next]_vars
    PROVE  TypeOK' /\ CallInv' /\ CurrentInv'
  <1> USE ApiAssumption, WatcherAssumption
      DEF TypeOK, ApiTypeOK, CallInv, CurrentInv, Times, Never, Logs, Sleep, apiVars
  <1>1. CASE Tick
    BY <1>1 DEF Tick
  <1>2. CASE ApiStep
    <2>1. ApiTypeOK' /\ CallInv' /\ file' = file
      BY <1>2, ApiTypeStep DEF ApiStep
    <2>2. call # "none"
      BY <1>2 DEF ApiStep, Request, Sign, SignFails, Put, PutFails, PutTooLarge, Signal,
                  SignalFails, Get, GetFails
    <2> QED
      BY <1>2, <2>1, <2>2 DEF ApiStep, rest, watcher
  <1>3. CASE Kill
    BY <1>3 DEF Kill, Drop
  <1>4. CASE Restart
    BY <1>4 DEF Restart
  <1>5. CASE RotateLogs
    BY <1>5 DEF RotateLogs
  <1>6. CASE List
    BY <1>6 DEF List, Glob
  <1>7. CASE Send
    BY <1>7 DEF Send, SendFile
  <1>8. CASE Sent
    BY <1>8 DEF Sent, SendSignal
  <1>9. CASE Settled
    BY <1>9 DEF Settled
  <1>10. CASE Raised
    BY <1>10 DEF Raised
  <1>11. CASE Remove
    BY <1>11 DEF Remove
  <1>12. CASE Uploaded
    BY <1>12 DEF Uploaded
  <1>13. CASE UpdateRules
    BY <1>13 DEF UpdateRules, GetData
  <1>14. CASE UpToDate
    BY <1>14 DEF UpToDate
  <1>15. CASE OpenRules
    BY <1>15 DEF OpenRules
  <1>16. CASE WriteRules
    <2>1. torn' \in BOOLEAN /\ pc = "fetched"
      BY <1>16 DEF WriteRules
    <2>2. Sleep /\ UNCHANGED <<apiVars, clock, form, now>>
      BY <1>16 DEF WriteRules
    <2>3. UNCHANGED <<installed, rules, fault, kills>>
      BY <1>16 DEF WriteRules
    <2> QED
      BY <2>1, <2>2, <2>3
  <1>17. CASE \E f \in Logs : CompressLog(f)
    BY <1>17 DEF CompressLog
  <1>18. CASE UNCHANGED vars
    BY <1>18 DEF vars, watcher
  <1>19. CASE Install
    BY <1>19 DEF Install, watcher
  <1> QED
    BY <1>1, <1>2, <1>3, <1>4, <1>5, <1>6, <1>7, <1>8, <1>9, <1>10, <1>11, <1>12, <1>13,
       <1>14, <1>15, <1>16, <1>17, <1>18, <1>19, NextCases

\* The variables of the watcher and of its calls keep their types.
THEOREM TypeCorrect == Spec => []TypeOK
  BY TypeInit, TypeStep, PTL DEF Spec

-----------------------------------------------------------------------------
(* The watcher is a client of Api: each of its steps is a step of Api or   *)
(* none.                                                                   *)

LEMMA StepRefines ==
    ASSUME CurrentInv, [Next]_vars
    PROVE  [ApiNext]_apiVars
  <1> USE DEF apiVars
  <1>1. CASE Send
    BY <1>1 DEF Send, CurrentInv, ApiNext, Logs
  <1>2. CASE Sent
    BY <1>2 DEF Sent, ApiNext
  <1>3. CASE UpdateRules
    BY <1>3 DEF UpdateRules, ApiNext
  <1>4. CASE ApiStep
    BY <1>4 DEF ApiStep, ApiNext
  <1>5. CASE Kill
    BY <1>5 DEF Kill, ApiNext
  <1>6. CASE UNCHANGED apiVars
    BY <1>6
  <1> QED
    BY <1>1, <1>2, <1>3, <1>4, <1>5, <1>6, NextCases
    DEF Tick, Install, Restart, RotateLogs, List, Settled, Raised, Remove, Uploaded, UpToDate,
        OpenRules, WriteRules, CompressLog, vars

LEMMA WatcherIsClient == Spec => ApiSpec
  <1>1. Init => ApiInit
    BY DEF Init
  <1> QED
    BY <1>1, TypeInit, TypeStep, StepRefines, PTL DEF Spec, ApiSpec

\* What is proved of Api for every client holds of this one: the site is told only of
\* logs that it has, whatever calls raise and whenever the watcher is killed.
THEOREM ToldLogsAreStored == Spec => []ToldIsStored
  BY WatcherIsClient, ToldStored, PTL

-----------------------------------------------------------------------------
(* A log is removed only after the site took it and was told of it, or     *)
(* refused it: the two answers are remembered in result and in pc.         *)

TakenAndTold(f) == \E p \in Paths : <<p, f>> \in stored \intersect told

RemovalInv ==
    /\ result = "told" => TakenAndTold(file)
    /\ pc = "remove" => result = "large" \/ TakenAndTold(current)

LEMMA HistoryGrows ==
    ASSUME [ApiNext]_apiVars
    PROVE  stored \subseteq stored' /\ told \subseteq told'
  BY DEF ApiNext, SendFile, SendSignal, GetData, Request, Sign, SignFails, Put, PutFails,
         PutTooLarge, Signal, SignalFails, Get, GetFails, Drop, apiVars

LEMMA RequestStep ==
    ASSUME ApiTypeOK, CallInv, ApiInv, Request
    PROVE  result' = "told" => TakenAndTold(file)'
  <1>1. CASE Signal
    <2>1. path \in Paths /\ <<path, file>> \in stored
      BY <1>1 DEF Signal, ApiTypeOK, ApiInv, PathIsStored, SignalHasPath
    <2>2. file' = file /\ stored' = stored /\ <<path, file>> \in told'
      BY <1>1 DEF Signal
    <2> QED
      BY <2>1, <2>2 DEF TakenAndTold
  <1>2. CASE ~Signal
    <2>1. result = "none"
      BY DEF CallInv, Request, Sign, SignFails, Put, PutFails, PutTooLarge, Signal,
             SignalFails, Get, GetFails
    <2>2. result' # "told"
      BY <1>2, <2>1 DEF Request, Sign, SignFails, Put, PutFails, PutTooLarge,
             SignalFails, Get, GetFails, Retry, Return
    <2> QED
      BY <2>2
  <1> QED
    BY <1>1, <1>2

LEMMA RemovalStep ==
    ASSUME TypeOK, CallInv, CurrentInv, ApiInv, RemovalInv, [Next]_vars
    PROVE  RemovalInv'
  <1>1. stored \subseteq stored' /\ told \subseteq told'
    BY StepRefines, HistoryGrows
  <1>2. \A f : TakenAndTold(f) => TakenAndTold(f)'
    BY <1>1 DEF TakenAndTold
  <1>3. CASE ApiStep
    <2>1. result' = "told" => TakenAndTold(file)'
      BY <1>3, RequestStep DEF ApiStep, TypeOK
    <2>2. pc' # "remove"
      BY <1>3 DEF ApiStep, rest, watcher, CurrentInv, Request, Sign, SignFails, Put, PutFails,
                  PutTooLarge, Signal, SignalFails, Get, GetFails
    <2> QED
      BY <2>1, <2>2 DEF RemovalInv
  <1>4. CASE Settled
    <2>1. UNCHANGED <<file, result, stored, told, current>>
      BY <1>4 DEF Settled, apiVars
    <2>2. result = "large" \/ TakenAndTold(current)
      BY <1>4 DEF Settled, RemovalInv, CurrentInv
    <2> QED
      BY <2>1, <2>2, <1>2 DEF RemovalInv, TakenAndTold
  <1>5. CASE result' = "none" /\ pc' # "remove"
    BY <1>5 DEF RemovalInv
  <1>6. CASE UNCHANGED <<file, result, stored, told>> /\ pc' # "remove"
    BY <1>6 DEF RemovalInv, TakenAndTold
  <1>7. CASE UNCHANGED <<file, result, stored, told, pc, current>>
    BY <1>7 DEF RemovalInv, TakenAndTold
  <1> QED
    BY <1>3, <1>4, <1>5, <1>6, <1>7, NextCases
    DEF Tick, Install, Kill, Drop, Restart, RotateLogs, List, Send, SendFile, Sent, SendSignal, Raised,
        Remove, Uploaded, UpdateRules, GetData, UpToDate, OpenRules, WriteRules, CompressLog,
        Sleep, vars, watcher, apiVars

\* Only Remove takes a log away.
LEMMA GoneByRemove ==
    ASSUME TypeOK, RemovalInv, [Next]_vars, NEW f \in Logs, form[f] # "gone", form'[f] = "gone"
    PROVE  result = "large" \/ TakenAndTold(f)
  <1>1. Remove
    BY NextCases
    DEF TypeOK, Tick, Install, ApiStep, rest, Kill, Restart, RotateLogs, List, Send, Sent, Settled, Raised,
        Uploaded, UpdateRules, UpToDate, OpenRules, WriteRules, CompressLog, vars, watcher
  <1>2. f = current
    BY <1>1 DEF Remove, TypeOK
  <1> QED
    BY <1>1, <1>2 DEF Remove, RemovalInv

\* No rotated log leaves the disk before the site took it and was told of it, or
\* refused it as too large, whatever calls raise and whenever the watcher is killed.
THEOREM LogsKept == Spec => NoLogLost
  <1>1. Init => ApiInv /\ RemovalInv
    BY ApiInvInit DEF Init, ApiInit, RemovalInv
  <1>2. ApiInv /\ CurrentInv /\ [Next]_vars => ApiInv'
    BY StepRefines, ApiInvStep
  <1>3. TypeOK /\ RemovalInv /\ [Next]_vars =>
          [\A f \in Logs : form[f] # "gone" /\ form'[f] = "gone" =>
              \/ result = "large"
              \/ \E p \in Paths : <<p, f>> \in stored \intersect told]_vars
    BY GoneByRemove DEF TakenAndTold
  <1> QED
    BY <1>1, <1>2, <1>3, TypeInit, TypeStep, RemovalStep, PTL DEF Spec, NoLogLost
-----------------------------------------------------------------------------
(* The rules of a day were fetched after midnight or shortly before it.    *)

\* What a poll at time t finds of the rules, if f, x and r are fault, torn and rules,
\* and i is installed.
Good(t, f, i, x, r) ==
    /\ Day(t) > 0 /\ f < Midnight(t) - 1
    /\ i # Never /\ i < Midnight(t) - 1
    => ~x /\ r >= Midnight(t) - 1

GoodAt(t) == Good(t, fault, installed, torn, rules)

LEMMA DayIsNat == ASSUME NEW t \in Nat PROVE Day(t) \in Nat
  BY WatcherAssumption DEF Day

LEMMA MidnightIsPast == ASSUME NEW t \in Nat PROVE Midnight(t) \in Nat /\ Midnight(t) <= t
  BY WatcherAssumption DEF Day, Midnight

LEMMA DaysPass == ASSUME NEW s \in Nat, NEW t \in Nat, s <= t PROVE Day(s) <= Day(t)
  BY WatcherAssumption DEF Day

LEMMA MidnightsPass ==
    ASSUME NEW s \in Nat, NEW t \in Nat, s <= t
    PROVE  Midnight(s) <= Midnight(t)
  <1>1. \A x, y \in Nat : x <= y => x * DayLength <= y * DayLength
    BY WatcherAssumption
  <1> QED
    BY <1>1, DayIsNat, DaysPass DEF Midnight

\* Rules that are good for a later poll are good for an earlier one.
LEMMA GoodBefore ==
    ASSUME NEW f \in Int, NEW i \in Int, NEW x, NEW r \in Int,
           NEW s \in Nat, NEW t \in Nat, s <= t, Good(t, f, i, x, r)
    PROVE  Good(s, f, i, x, r)
  <1>1. /\ Day(s) \in Nat /\ Day(t) \in Nat /\ Day(s) <= Day(t)
        /\ Midnight(s) \in Nat /\ Midnight(t) \in Nat /\ Midnight(s) <= Midnight(t)
    BY DayIsNat, DaysPass, MidnightIsPast, MidnightsPass
  <1>2. CASE Day(s) > 0 /\ f < Midnight(s) - 1 /\ i # Never /\ i < Midnight(s) - 1
    <2>1. Day(t) > 0 /\ f < Midnight(t) - 1 /\ i # Never /\ i < Midnight(t) - 1
      BY <1>1, <1>2
    <2>2. ~x /\ r >= Midnight(t) - 1
      BY <2>1 DEF Good
    <2>3. r >= Midnight(s) - 1
      BY <2>2, <1>1
    <2> QED
      BY <2>2, <2>3 DEF Good
  <1> QED
    BY <1>2 DEF Good

\* Whatever was fetched, failed or was installed at time c is good enough for the next
\* interval.
LEMMA GoodNow ==
    ASSUME NEW f \in Int, NEW i \in Int, NEW x, NEW r \in Int, NEW c \in Nat,
           f = c \/ i = c \/ i = Never \/ (~x /\ r = c)
    PROVE  Good(c + 1, f, i, x, r)
  <1>1. Midnight(c + 1) \in Nat /\ Midnight(c + 1) <= c + 1
    BY MidnightIsPast
  <1>2. CASE f = c \/ i = c \/ i = Never
    BY <1>1, <1>2 DEF Good
  <1>3. CASE ~x /\ r = c
    <2>1. r >= Midnight(c + 1) - 1
      BY <1>1, <1>3
    <2> QED
      BY <2>1, <1>3 DEF Good
  <1> QED
    BY <1>2, <1>3

\* A poll finds good rules, and so does the next one, which starts at once if it is
\* due and else when it is.
RulesInv ==
    /\ now <= clock
    /\ pc \in {"list", "next", "send", "sending", "signalling", "remove", "rules"} => GoodAt(now)
    /\ pc = "asleep" => GoodAt(clock) /\ GoodAt(wake) /\ wake <= clock + 1
    /\ pc = "fetched" => rules = clock

LEMMA RulesInvInit == Init => RulesInv
  <1> SUFFICES ASSUME Init PROVE RulesInv
    OBVIOUS
  <1>1. clock = 0 /\ now = 0 /\ wake = 0 /\ pc = "asleep"
    BY DEF Init
  <1>2. Day(0) = 0
    BY WatcherAssumption DEF Day
  <1> QED
    BY <1>1, <1>2 DEF RulesInv, GoodAt, Good

\* A watcher that goes to sleep with rules that are good for the next interval.
LEMMA SleepsWell ==
    ASSUME TypeOK', now' <= clock', pc' = "asleep", wake' <= clock' + 1,
           Good(clock' + 1, fault', installed', torn', rules')
    PROVE  RulesInv'
  <1>1. clock' \in Nat /\ wake' \in Nat /\ rules' \in Int /\ fault' \in Int /\ installed' \in Int
    BY WatcherAssumption DEF TypeOK, Times, Never
  <1>2. \A c \in Nat : c + 1 \in Nat /\ c <= c + 1
    OBVIOUS
  <1>3. Good(clock', fault', installed', torn', rules')
    BY <1>1, <1>2, GoodBefore
  <1>4. Good(wake', fault', installed', torn', rules')
    BY <1>1, <1>2, GoodBefore
  <1> QED
    BY <1>3, <1>4 DEF RulesInv, GoodAt

LEMMA RulesInvStep ==
    ASSUME TypeOK, TypeOK', RulesInv, [Next]_vars
    PROVE  RulesInv'
  <1>t. /\ now \in Nat /\ clock \in Nat /\ wake \in Nat /\ rules \in Int /\ fault \in Int
        /\ now' \in Nat /\ clock' \in Nat /\ wake' \in Nat /\ rules' \in Int /\ fault' \in Int
        /\ installed \in Int /\ installed' \in Int
        /\ MaxClock \in Nat /\ clock <= MaxClock /\ now <= clock
    BY WatcherAssumption DEF TypeOK, Times, Never, RulesInv
  <1>1. CASE Tick
    <2>1. /\ UNCHANGED <<pc, installed, now>> /\ UNCHANGED <<rules, torn, fault>>
          /\ clock <= clock' /\ pc # "fetched"
      BY <1>1, <1>t DEF Tick
    <2>4. now' <= clock'
      BY <2>1, <1>t
    <2>5. GoodAt(now) => GoodAt(now)'
      BY <2>1 DEF GoodAt
    <2>2. CASE pc = "asleep"
      <3>1. clock' <= wake /\ wake' <= wake
        BY <1>1, <1>t, <2>2 DEF Tick
      <3>4. wake' <= clock' + 1
        <4>1. wake <= clock + 1
          BY <2>2 DEF RulesInv
        <4>2. \A c, d, v, w \in Nat : v <= w /\ w <= c + 1 /\ c <= d => v <= d + 1
          OBVIOUS
        <4> QED
          BY <4>1, <4>2, <3>1, <2>1, <1>t
      <3>2. Good(wake, fault, installed, torn, rules)
        BY <2>2 DEF RulesInv, GoodAt
      <3>3. Good(clock', fault, installed, torn, rules) /\ Good(wake', fault, installed, torn, rules)
        BY <3>1, <3>2, <1>t, GoodBefore
      <3> QED
        BY <3>3, <3>4, <2>1, <2>2, <2>4 DEF RulesInv, GoodAt
    <2>3. CASE pc # "asleep"
      BY <2>1, <2>3, <2>4, <2>5 DEF RulesInv
    <2> QED
      BY <2>2, <2>3
  <1>2. CASE RotateLogs
    <2>1. pc = "asleep" /\ now' = clock /\ pc' = "list" /\ UNCHANGED <<clock, installed, rules, torn, fault>>
      BY <1>2 DEF RotateLogs
    <2> QED
      BY <2>1, <1>t DEF RulesInv, GoodAt
  <1>3. CASE Raised
    <2>1. /\ pc' = "asleep" /\ wake' = now + 1 /\ fault' = clock
          /\ UNCHANGED <<clock, installed, now, rules, torn>>
      BY <1>3 DEF Raised, Sleep
    <2>2. Good(clock' + 1, fault', installed', torn', rules')
      BY <2>1, <1>t, GoodNow
    <2> QED
      BY <2>1, <2>2, <1>t, SleepsWell
  <1>4. CASE UpToDate
    <2>1. /\ pc = "rules" /\ pc' = "asleep" /\ wake' = now + 1
          /\ UNCHANGED <<clock, installed, now, rules, torn, fault>>
      BY <1>4 DEF UpToDate, Sleep
    <2>2. CASE installed = Never
      BY <2>1, <2>2, <1>t, GoodNow, SleepsWell
    <2>3. CASE ~ (Day(clock + 1) > Day(now))
      <3>1. Day(clock + 1) = Day(now)
        BY <2>3, <1>t, DaysPass, DayIsNat
      <3>2. Good(clock + 1, fault, installed, torn, rules)
        BY <2>1, <3>1 DEF RulesInv, GoodAt, Good, Midnight
      <3> QED
        BY <2>1, <3>2, <1>t, SleepsWell
    <2> QED
      BY <1>4, <2>2, <2>3 DEF UpToDate, ShouldUpdate
  <1>5. CASE OpenRules
    BY <1>5, <1>t DEF OpenRules, RulesInv
  <1>6. CASE WriteRules
    <2>1. /\ pc = "fetched" /\ pc' = "asleep" /\ wake' = now + 1 /\ ~torn'
          /\ UNCHANGED <<clock, installed, now, rules, fault>>
      BY <1>6 DEF WriteRules, Sleep
    <2>2. Good(clock' + 1, fault', installed', torn', rules')
      BY <2>1, <1>t, GoodNow DEF RulesInv
    <2> QED
      BY <2>1, <2>2, <1>t, SleepsWell
  <1>7. CASE Kill
    BY <1>7, <1>t DEF Kill, RulesInv
  <1>8. CASE Restart
    <2>1. pc' = "asleep" /\ wake' = clock /\ fault' = clock /\ UNCHANGED <<clock, installed, now, rules, torn>>
      BY <1>8 DEF Restart
    <2>2. Good(clock' + 1, fault', installed', torn', rules')
      BY <2>1, <1>t, GoodNow
    <2> QED
      BY <2>1, <2>2, <1>t, SleepsWell
  <1>10. CASE Install
    <2>1. installed' = clock /\ UNCHANGED <<clock, pc, now, wake, rules, torn, fault>>
      BY <1>10 DEF Install, watcher
    <2>2. Good(clock + 1, fault, clock, torn, rules)
      BY <1>t, GoodNow
    <2>3. \A t \in Nat : t <= clock + 1 => GoodAt(t)'
      BY <2>1, <2>2, <1>t, GoodBefore DEF GoodAt
    <2>4. pc = "asleep" => wake <= clock + 1
      BY DEF RulesInv
    <2> QED
      BY <2>1, <2>3, <2>4, <1>t DEF RulesInv
  <1>9. CASE /\ UNCHANGED <<clock, installed, now, rules, torn, fault>>
             /\ \/ pc' = pc /\ wake' = wake
                \/ /\ pc' \in {"next", "send", "sending", "signalling", "remove", "rules"}
                   /\ pc \in {"list", "next", "send", "sending", "signalling", "remove"}
                \/ pc' = "fetching"
    BY <1>9 DEF RulesInv, GoodAt
  <1> QED
    BY <1>1, <1>2, <1>3, <1>4, <1>5, <1>6, <1>7, <1>8, <1>9, <1>10, NextCases
    DEF ApiStep, rest, List, Send, Sent, Settled, Remove, Uploaded, UpdateRules, CompressLog, vars, watcher

\* However long the uploads take, the first poll of a day finds rules that were
\* fetched no earlier than one interval before midnight, unless a call raised, the
\* process was down or the directory of the rules was missing since: for every length
\* of the day.
THEOREM RulesFetchedDaily == Spec => []RulesOfTheDay
  <1>1. RulesInv => RulesOfTheDay
    BY DEF RulesInv, RulesOfTheDay, GoodAt, Good
  <1> QED
    BY <1>1, TypeInit, TypeStep, RulesInvInit, RulesInvStep, PTL DEF Spec
-----------------------------------------------------------------------------
(* As long as nothing raised and nothing was killed, a log that the site   *)
(* was told of is gone, or the one whose call is just over or under way.   *)

Undisturbed == fault = Never /\ kills = 0

\* The kind of request that is under way.
RequestInv ==
    /\ pc = "sending" => call \in {"none", "sign", "put"} /\ result # "told"
    /\ pc = "signalling" => call \in {"none", "signal"}
    /\ pc = "fetching" => call \in {"none", "get"}

\* The logs that are still to be uploaded are there.
TodoInv ==
    /\ \A f \in todo : form[f] = "archived"
    /\ pc \in {"send", "sending", "signalling", "remove"} =>
         current \in Logs /\ form[current] # "gone" /\ current \notin todo

AtHand(f, p) ==
    /\ pc \in {"signalling", "remove"}
    /\ f = current /\ f = file /\ p = path

ToldInv ==
    Undisturbed =>
        /\ \A f \in Logs, p \in Paths : <<p, f>> \in told => form[f] = "gone" \/ AtHand(f, p)
        /\ \A f \in Logs, p, q \in Paths : <<p, f>> \in told /\ <<q, f>> \in told => p = q

OnceInv == RequestInv /\ TodoInv /\ ToldInv

LEMMA OnceInvInit == Init => OnceInv
  <1> SUFFICES ASSUME Init PROVE OnceInv
    OBVIOUS
  <1>1. pc = "asleep" /\ todo = {} /\ told = {}
    BY DEF Init, ApiInit
  <1> QED
    BY <1>1 DEF OnceInv, RequestInv, TodoInv, ToldInv

LEMMA RequestInvStep ==
    ASSUME TypeOK, CallInv, CurrentInv, RequestInv, [Next]_vars
    PROVE  RequestInv'
  <1>1. CASE ApiStep
    <2>1. pc' = pc /\ call # "none" /\ pc \in {"sending", "signalling", "fetching"}
      BY <1>1 DEF ApiStep, rest, watcher, CurrentInv, Request, Sign, SignFails, Put, PutFails,
                  PutTooLarge, Signal, SignalFails, Get, GetFails
    <2> QED
      BY <1>1, <2>1
      DEF ApiStep, RequestInv, CallInv, Request, Sign, SignFails, Put, PutFails, PutTooLarge, Signal,
          SignalFails, Get, GetFails, Retry, Return
  <1>2. CASE Send
    BY <1>2 DEF Send, SendFile, RequestInv
  <1>3. CASE Sent
    BY <1>3 DEF Sent, SendSignal, RequestInv
  <1>4. CASE UpdateRules
    BY <1>4 DEF UpdateRules, GetData, RequestInv
  <1>5. CASE pc' \notin {"sending", "signalling", "fetching"}
    BY <1>5 DEF RequestInv
  <1>6. CASE UNCHANGED <<pc, call, result>>
    BY <1>6 DEF RequestInv
  <1> QED
    BY <1>1, <1>2, <1>3, <1>4, <1>5, <1>6, NextCases
    DEF Tick, Install, Kill, Restart, RotateLogs, List, Settled, Raised, Remove, Uploaded, UpToDate,
        OpenRules, WriteRules, CompressLog, Sleep, vars, watcher, apiVars

LEMMA TodoInvStep ==
    ASSUME TypeOK, CurrentInv, TodoInv, [Next]_vars
    PROVE  TodoInv'
  <1> USE DEF TodoInv
  <1>1. CASE RotateLogs
    BY <1>1 DEF RotateLogs, TypeOK
  <1>2. CASE List
    BY <1>2 DEF List, Glob
  <1>3. CASE \E f \in Logs : CompressLog(f)
    <2>1. PICK f \in Logs : CompressLog(f)
      BY <1>3
    <2>2. \A g \in todo' : form'[g] = form[g]
      BY <2>1 DEF CompressLog, TypeOK
    <2>3. form[f] = "archived" /\ current' = f /\ f \notin todo' /\ pc' = "send"
      BY <2>1 DEF CompressLog
    <2>4. form'[f] # "gone"
      BY <2>1, <2>3 DEF CompressLog, TypeOK
    <2>5. todo' \subseteq todo
      BY <2>1 DEF CompressLog
    <2> QED
      BY <2>2, <2>3, <2>4, <2>5
  <1>4. CASE Remove
    <2>1. \A g \in todo' : form'[g] = form[g]
      BY <1>4 DEF Remove, TypeOK
    <2> QED
      BY <1>4, <2>1 DEF Remove
  <1>5. CASE todo' = {} /\ pc' \in {"asleep", "down"}
    BY <1>5
  <1>6. CASE /\ UNCHANGED <<todo, form, current>>
             /\ pc' \in {"send", "sending", "signalling", "remove"} =>
                  pc \in {"send", "sending", "signalling", "remove"}
    BY <1>6
  <1> QED
    BY <1>1, <1>2, <1>3, <1>4, <1>5, <1>6, NextCases
    DEF Tick, Install, ApiStep, rest, Kill, Restart, Send, Sent, Settled, Raised, Uploaded, UpdateRules,
        UpToDate, OpenRules, WriteRules, Sleep, vars, watcher

\* A signal tells of the log at hand at the path at hand, whichever way it ends.
LEMMA SignalTells ==
    ASSUME TypeOK, CallInv, CurrentInv, RequestInv, TodoInv, ToldInv, ApiStep
    PROVE  ToldInv'
  <1>1. UNCHANGED <<pc, current, form, fault, kills>>
    BY DEF ApiStep, rest, watcher
  <1>2. CASE Signal \/ SignalFails
    <2>1. call = "signal" /\ UNCHANGED <<file, path>> /\ told' \subseteq told \union {<<path, file>>}
      BY <1>2 DEF Signal, SignalFails
    <2>2. pc = "signalling" /\ file = current /\ form[file] # "gone"
      BY <2>1 DEF CurrentInv, RequestInv, TodoInv
    <2>3. ASSUME Undisturbed, NEW f \in Logs, NEW p \in Paths, <<p, f>> \in told'
          PROVE  form[f] = "gone" \/ (f = file /\ p = path)
      BY <2>1, <2>3 DEF ToldInv, AtHand
    <2>4. ASSUME Undisturbed, NEW f \in Logs, NEW p \in Paths, NEW q \in Paths,
                 <<p, f>> \in told', <<q, f>> \in told'
          PROVE  p = q
      <3>1. CASE f = file
        BY <2>2, <2>3, <2>4, <3>1
      <3>2. CASE f # file
        BY <2>1, <2>4, <3>2 DEF ToldInv
      <3> QED
        BY <3>1, <3>2
    <2> QED
      BY <1>1, <2>1, <2>2, <2>3, <2>4 DEF ToldInv, Undisturbed, AtHand
  <1>3. CASE Get \/ GetFails
    BY <1>1, <1>3 DEF Get, GetFails, ToldInv, Undisturbed, AtHand
  <1>4. CASE Sign \/ SignFails \/ Put \/ PutFails \/ PutTooLarge
    <2>1. call \in {"sign", "put"} /\ told' = told
      BY <1>4 DEF Sign, SignFails, Put, PutFails, PutTooLarge
    <2>2. pc = "sending"
      BY <2>1 DEF CurrentInv, RequestInv
    <2> QED
      BY <1>1, <2>1, <2>2 DEF ToldInv, Undisturbed, AtHand
  <1> QED
    BY <1>2, <1>3, <1>4 DEF ApiStep, Request

LEMMA ToldInvStep ==
    ASSUME TypeOK, CallInv, CurrentInv, RequestInv, TodoInv, ToldInv, [Next]_vars
    PROVE  ToldInv'
  <1>1. CASE ApiStep
    BY <1>1, SignalTells
  <1>2. CASE Kill
    <2>1. kills' # 0
      BY <1>2, WatcherAssumption DEF Kill, TypeOK
    <2> QED
      BY <2>1 DEF ToldInv, Undisturbed
  <1>3. CASE Raised \/ Restart
    <2>1. fault' # Never
      BY <1>3 DEF Raised, Restart, TypeOK, Times, Never
    <2> QED
      BY <2>1 DEF ToldInv, Undisturbed
  <1>4. CASE Send
    BY <1>4 DEF Send, SendFile, ToldInv, Undisturbed, AtHand
  <1>5. CASE Sent
    BY <1>5 DEF Sent, SendSignal, ToldInv, Undisturbed, AtHand
  <1>6. CASE UpdateRules
    BY <1>6 DEF UpdateRules, GetData, ToldInv, Undisturbed, AtHand
  <1>7. CASE Settled
    BY <1>7 DEF Settled, ToldInv, Undisturbed, AtHand, apiVars
  <1>8. CASE Remove
    BY <1>8 DEF Remove, ToldInv, Undisturbed, AtHand, TypeOK, apiVars
  <1>9. CASE RotateLogs \/ \E f \in Logs : CompressLog(f)
    <2>1. /\ pc \in {"asleep", "next"} /\ UNCHANGED <<told, fault, kills>>
          /\ \A f \in Logs : form[f] = "gone" => form'[f] = "gone"
      <3>1. CASE RotateLogs
        BY <3>1 DEF RotateLogs, TypeOK, apiVars
      <3>2. ASSUME NEW g \in Logs, CompressLog(g)
            PROVE  /\ pc = "next" /\ UNCHANGED <<told, fault, kills>>
                   /\ \A f \in Logs : form[f] = "gone" => form'[f] = "gone"
        <4>1. form[g] = "archived"
          BY <3>2 DEF CompressLog, TodoInv
        <4> QED
          BY <3>2, <4>1 DEF CompressLog, TypeOK, apiVars
      <3> QED
        BY <1>9, <3>1, <3>2
    <2> QED
      BY <2>1 DEF ToldInv, Undisturbed, AtHand
  <1>10. CASE /\ UNCHANGED <<told, form, fault, kills>>
              /\ \/ pc \notin {"signalling", "remove"}
                 \/ UNCHANGED <<pc, current, file, path>>
    BY <1>10 DEF ToldInv, Undisturbed, AtHand
  <1> QED
    BY <1>1, <1>2, <1>3, <1>4, <1>5, <1>6, <1>7, <1>8, <1>9, <1>10, NextCases
    DEF Tick, Install, List, Uploaded, UpToDate, OpenRules, WriteRules, vars, watcher, apiVars

\* The conjunction of the three is an invariant.
THEOREM OnceInvariant == Spec => []OnceInv
  <1>1. ASSUME TypeOK, CallInv, CurrentInv, OnceInv, [Next]_vars PROVE OnceInv'
    BY <1>1, RequestInvStep, TodoInvStep, ToldInvStep DEF OnceInv
  <1> QED
    BY <1>1, TypeInit, TypeStep, OnceInvInit, PTL DEF Spec

\* A log that the site was told of is never sent again, for every number of logs and
\* polls, as long as no call fails for good and nothing is killed.
THEOREM EachLogSentOnce == Spec => []ToldOnce
  <1>1. ASSUME OnceInv PROVE ToldOnce
    <2> SUFFICES ASSUME Undisturbed, pc = "send", NEW p \in Paths, <<p, current>> \in told
                 PROVE  FALSE
      BY DEF ToldOnce, Undisturbed
    <2>1. current \in Logs /\ form[current] # "gone"
      BY <1>1 DEF OnceInv, TodoInv
    <2> QED
      BY <1>1, <2>1 DEF OnceInv, ToldInv, AtHand
  <1> QED
    BY <1>1, OnceInvariant, PTL

\* And it is told of at one path, though each attempt of send_file may sign another,
\* whatever attempts fail and whatever answers are lost.
OnePathEach ==
    fault = Never /\ kills = 0 =>
        \A f \in Logs, p, q \in Paths : {<<p, f>>, <<q, f>>} \subseteq told => p = q

THEOREM EachLogAtOnePath == Spec => []OnePathEach
  <1>1. OnceInv => OnePathEach
    BY DEF OnceInv, ToldInv, OnePathEach, Undisturbed
  <1> QED
    BY <1>1, OnceInvariant, PTL
=============================================================================
