-------------------------- MODULE SuricataWatcher --------------------------
(***************************************************************************)
(* suricata_alert_watcher.py over Api: every poll asks suricata to rotate  *)
(* eve.json, uploads the rotated logs it finds, removes them, and once a   *)
(* day fetches new rules.  What manage.sh does to the logs is external:    *)
(* a rotation leaves the next of Logs as eve.json.*.archived.  Suricata,   *)
(* and with it the directory of the rules, may be installed later.         *)
(*                                                                         *)
(* Time is counted in poll intervals; a day has DayLength of them.         *)
(***************************************************************************)
EXTENDS Api

CONSTANTS
    DayLength,  \* poll intervals per day
    MaxClock,   \* bound: the clock stops here, the polls go on
    MaxKills    \* bound on kills of the process

Logs == Files

ASSUME WatcherAssumption ==
    DayLength \in Nat \ {0} /\ MaxClock \in Nat /\ MaxKills \in Nat

Never == -1

VARIABLES
    clock,
    form,      \* form[f]: unborn, archived, gz (compressed) or gone
    pc,
    now,       \* the argument of execute()
    wake,      \* when the next execute() is due
    todo,      \* file paths glob still has
    current,   \* file_path
    installed, \* when the directory of the rules was made, Never if there is none
    rules,     \* when downloaded.rules was opened, Never if there is none
    torn,      \* it was opened and not written
    fault,     \* history: when a call last raised or the process was last down
    kills

watcher == <<form, pc, now, wake, todo, current, rules, torn, fault>>
vars == <<apiVars, clock, installed, watcher, kills>>

Times == 0 .. MaxClock

TypeOK ==
    /\ ApiTypeOK
    /\ clock \in Times /\ now \in Times /\ wake \in 0 .. MaxClock + 1
    /\ form \in [Logs -> {"unborn", "archived", "gz", "gone"}]
    /\ pc \in {"down", "asleep", "list", "next", "send", "sending", "signalling", "remove", "rules", "fetching", "fetched"}
    /\ todo \subseteq Logs /\ current \in Logs \union {NoFile}
    /\ installed \in Times \union {Never} /\ rules \in Times \union {Never} /\ torn \in BOOLEAN
    /\ fault \in Times \union {Never} /\ kills \in 0 .. MaxKills

\* An earlier process of the day may have left rules on disk.
Init ==
    /\ ApiInit
    /\ clock = 0 /\ now = 0 /\ wake = 0
    /\ form = [f \in Logs |-> "unborn"]
    /\ pc = "asleep" /\ todo = {} /\ current = NoFile
    /\ installed \in {Never, 0} /\ rules \in {Never, installed} /\ torn = FALSE
    /\ fault = Never /\ kills = 0

-----------------------------------------------------------------------------
\* Time passes; a poll that is due is not delayed, and writing the rules takes no
\* time to speak of.  When the clock stands still at its bound the sleeper is woken
\* there.
Tick ==
    /\ pc # "fetched" /\ (pc = "asleep" => clock < wake)
    /\ IF clock < MaxClock THEN clock' = clock + 1 /\ UNCHANGED wake
                           ELSE clock' = clock /\ wake' = clock
    /\ UNCHANGED <<apiVars, installed, form, pc, now, todo, current, rules, torn, fault, kills>>

\* /opt/suricata/rules is there from now on.
Install ==
    /\ installed = Never
    /\ installed' = clock
    /\ UNCHANGED <<apiVars, clock, watcher, kills>>

Sleep == pc' = "asleep" /\ wake' = now + 1 /\ todo' = {} /\ current' = NoFile

\* execute() starts with _rotate_logs, whose failure is logged.
RotateLogs ==
    /\ pc = "asleep" /\ wake <= clock
    /\ now' = clock /\ pc' = "list"
    /\ \/ \E f \in Logs : form[f] = "unborn" /\ form' = [form EXCEPT ![f] = "archived"]
       \/ UNCHANGED form
    /\ UNCHANGED <<apiVars, clock, installed, wake, todo, current, rules, torn, fault, kills>>

\* Mutant: the pattern is that of compressed logs.
GlobCompressed == {f \in Logs : form[f] = "gz"}

\* glob.iglob('eve.json.*.archived')
Glob == {f \in Logs : form[f] = "archived"}

List ==
    /\ pc = "list"
    /\ todo' = Glob /\ pc' = "next"
    /\ UNCHANGED <<apiVars, clock, installed, form, now, wake, current, rules, torn, fault, kills>>

\* _compress_log: the log stays as it is if gzip fails.
CompressLog(f) ==
    /\ pc = "next" /\ f \in todo
    /\ todo' = todo \ {f} /\ current' = f
    /\ form' \in {form, [form EXCEPT ![f] = "gz"]}
    /\ pc' = "send"
    /\ UNCHANGED <<apiVars, clock, installed, now, wake, rules, torn, fault, kills>>

Send ==
    /\ pc = "send"
    /\ SendFile(current)
    /\ pc' = "sending"
    /\ UNCHANGED <<clock, installed, form, now, wake, todo, current, rules, torn, fault, kills>>

\* Mutant: the file is removed before its path has been signalled.
SentUnsignalled ==
    /\ pc = "sending" /\ call = "none" /\ result = "path"
    /\ pc' = "remove"
    /\ UNCHANGED <<apiVars, clock, installed, form, now, wake, todo, current, rules, torn, fault, kills>>

Sent ==
    /\ pc = "sending" /\ call = "none" /\ result = "path"
    /\ SendSignal
    /\ pc' = "signalling"
    /\ UNCHANGED <<clock, installed, form, now, wake, todo, current, rules, torn, fault, kills>>

\* The signal was taken, or send_file returned None.
Settled ==
    /\ pc \in {"sending", "signalling"} /\ call = "none" /\ result \in {"large", "told"}
    /\ pc' = "remove"
    /\ UNCHANGED <<apiVars, clock, installed, form, now, wake, todo, current, rules, torn, fault, kills>>

\* The exception leaves execute(): neither the other logs nor the rules are
\* looked at.
Raised ==
    /\ pc \in {"sending", "signalling", "fetching"} /\ call = "none" /\ result = "raised"
    /\ Sleep /\ fault' = clock
    /\ UNCHANGED <<apiVars, clock, installed, form, now, rules, torn, kills>>

\* Mutant: it is the compressed log that is removed, also where gzip has failed.
RemoveCompressed ==
    /\ pc = "remove"
    /\ form' = [form EXCEPT ![current] = IF @ = "gz" THEN "gone" ELSE @]
    /\ pc' = "next"
    /\ UNCHANGED <<apiVars, clock, installed, now, wake, todo, current, rules, torn, fault, kills>>

Remove ==
    /\ pc = "remove"
    /\ form' = [form EXCEPT ![current] = "gone"]
    /\ pc' = "next"
    /\ UNCHANGED <<apiVars, clock, installed, now, wake, todo, current, rules, torn, fault, kills>>

Uploaded ==
    /\ pc = "next" /\ todo = {}
    /\ pc' = "rules"
    /\ UNCHANGED <<apiVars, clock, installed, form, now, wake, todo, current, rules, torn, fault, kills>>

Day(t) == t \div DayLength

\* Mutant: the start of execute() is taken for the present.
ShouldUpdateLate == installed # Never /\ (rules = Never \/ Day(now + 1) > Day(now))

\* Without the directory an error is logged and nothing is fetched.  The present is
\* asked for again: "avoid the race condition where we miss midnight".
ShouldUpdate == installed # Never /\ (rules = Never \/ Day(clock + 1) > Day(now))

\* The download is complete before the file is touched.
UpdateRules ==
    /\ pc = "rules" /\ ShouldUpdate
    /\ GetData
    /\ pc' = "fetching"
    /\ UNCHANGED <<clock, installed, form, now, wake, todo, current, rules, torn, fault, kills>>

UpToDate ==
    /\ pc = "rules" /\ ~ShouldUpdate
    /\ Sleep
    /\ UNCHANGED <<apiVars, clock, installed, form, now, rules, torn, fault, kills>>

\* open(SURICATA_RULE_PATH, 'wb')
OpenRules ==
    /\ pc = "fetching" /\ call = "none" /\ result = "data"
    /\ rules' = clock /\ torn' = TRUE
    /\ pc' = "fetched"
    /\ UNCHANGED <<apiVars, clock, installed, form, now, wake, todo, current, fault, kills>>

\* Then suricata is told to reload them, whose failure is logged.
WriteRules ==
    /\ pc = "fetched"
    /\ torn' = FALSE
    /\ Sleep
    /\ UNCHANGED <<apiVars, clock, installed, form, now, rules, fault, kills>>

rest == <<clock, installed, watcher, kills>>
ApiStep == Request /\ UNCHANGED rest

Kill ==
    /\ pc # "down" /\ kills < MaxKills
    /\ kills' = kills + 1
    /\ Drop
    /\ pc' = "down" /\ todo' = {} /\ current' = NoFile
    /\ UNCHANGED <<clock, installed, form, now, wake, rules, torn, fault>>

Restart ==
    /\ pc = "down"
    /\ pc' = "asleep" /\ wake' = clock /\ fault' = clock
    /\ UNCHANGED <<apiVars, clock, installed, form, now, todo, current, rules, torn, kills>>

Execute ==
    \/ RotateLogs \/ List \/ Send \/ Sent \/ Settled \/ Raised \/ Remove
    \/ Uploaded \/ UpdateRules \/ UpToDate \/ OpenRules \/ WriteRules
    \/ \E f \in Logs : CompressLog(f)

Next == Tick \/ Install \/ Execute \/ ApiStep \/ Kill \/ Restart

Spec == Init /\ [][Next]_vars

\* The process runs and is restarted, and the requests of an upload and its signal do
\* not fail for ever; the rules may.
FairSpec ==
    /\ Spec /\ WF_vars(Execute) /\ WF_vars(ApiStep) /\ WF_vars(Restart) /\ WF_vars(Tick)
    /\ SF_vars(Sign /\ UNCHANGED rest) /\ SF_vars(Put /\ UNCHANGED rest)
    /\ SF_vars(Signal /\ UNCHANGED rest)

-----------------------------------------------------------------------------
\* A log that the site was told of is not sent again: unless a call raised or the
\* process was killed, no later poll finds it, whether it was compressed or gzip had
\* failed, and however often signing, upload and signal were retried.
ToldOnce ==
    fault = Never /\ kills = 0 /\ pc = "send" => \A p \in Paths : <<p, current>> \notin told

\* A rotated log is on disk until the site has taken and been told of it, or
\* refused it as too large.
NoLogLost ==
    [][\A f \in Logs : form[f] # "gone" /\ form'[f] = "gone" =>
         \/ result = "large"
         \/ \E p \in Paths : <<p, f>> \in stored \intersect told]_vars

Midnight(t) == Day(t) * DayLength

\* A day's first poll finds rules that are whole and were fetched no earlier than
\* one interval before midnight, however long the uploads took, if the directory of
\* the rules was there, no call raised and the process was not down since the last
\* poll of the day before was due: what a failure earlier in the day left, torn rules
\* too, has been replaced by then.
RulesOfTheDay ==
    /\ pc = "list" /\ Day(now) > 0 /\ fault < Midnight(now) - 1
    /\ installed # Never /\ installed < Midnight(now) - 1
    => ~torn /\ rules >= Midnight(now) - 1

Stranded(f) == form[f] = "gz" /\ pc \in {"asleep", "down"}

\* A rotated log at last leaves the directory, or is stranded: compressed, and
\* left by a call that raised or a kill.
LogsLeave ==
    \A f \in Logs : (form[f] = "archived") ~> (form[f] = "gone" \/ Stranded(f))
=============================================================================
