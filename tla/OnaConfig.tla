----------------------------- MODULE OnaConfig -----------------------------
(***************************************************************************)
(* The configuration loop: ona.py, run once with --update-only by          *)
(* ona-supervisord.sh at start, and then for ever by ona-service.sh, which *)
(* stops supervisord when ona.py ends, so that systemd starts everything   *)
(* again with the environment of the new configuration file.               *)
(*                                                                         *)
(* A configuration maps each key to a value or to Absent.  Sourcing config *)
(* assigns the defaults, then what config.auto has, then what config.local *)
(* has, and leaves the keys that none of them has as they are.  Reading a  *)
(* file back in text mode turns a value with a carriage return, CR, into   *)
(* LF.                                                                     *)
(***************************************************************************)
EXTENDS Integers

CONSTANTS
    Keys, Absent, CR, LF,
    Defaults,        \* what config itself and /etc/environment assign
    Local,           \* config.local, the overrides of the sensor's operator
    SiteConfigs,     \* configurations the site may have, as _build_config renders them
    MaxSiteChanges,  \* bound on changes of the site's configuration
    MaxFaults,       \* bound on changes of the network interfaces, ends of ona.py by
                     \* a signal or an error, and kills of ona-service.sh, together
    MaxRestarts      \* restarts are counted up to here

Empty == [k \in Keys |-> Absent]

ASSUME BoundsAssumption ==
    MaxSiteChanges \in Nat /\ MaxFaults \in Nat /\ MaxRestarts \in Nat

VARIABLES
    site, siteChanges,  \* the site's configuration
    had,                \* history: the configurations it has had
    nics, nicChanges,   \* /sys/class/net
    file,               \* config.auto
    shell,              \* environment of ona-supervisord.sh
    running,            \* environment of supervisord and the services
    up,                 \* supervisord is running
    pc,                 \* where the scripts and ona.py stand
    current,            \* current_config
    seen,               \* network_ifaces
    fetched,            \* site_config
    reload,             \* should_reload
    restarts, crashes, scriptKills

world == <<site, siteChanges, had, nics, nicChanges>>
ona == <<current, seen, fetched, reload>>
counts == <<restarts, crashes, scriptKills>>
vars == <<world, file, shell, running, up, pc, ona, counts>>

Init ==
    /\ site \in SiteConfigs /\ file \in SiteConfigs \union {Empty}
    /\ siteChanges = 0 /\ had = {site} \union ({file} \ {Empty}) /\ nics = 0 /\ nicChanges = 0
    /\ shell = Empty /\ running = Empty /\ up = FALSE /\ pc = "boot"
    /\ current = Empty /\ seen = 0 /\ fetched = site /\ reload = FALSE
    /\ restarts = 0 /\ crashes = 0 /\ scriptKills = 0

-----------------------------------------------------------------------------
ChangeSite ==
    /\ siteChanges < MaxSiteChanges
    /\ siteChanges' = siteChanges + 1
    /\ site' \in SiteConfigs \ {site} /\ had' = had \union {site'}
    /\ UNCHANGED <<nics, nicChanges, file, shell, running, up, pc, ona, counts>>

Faults == nicChanges + crashes + scriptKills

ChangeNics ==
    /\ Faults < MaxFaults
    /\ nicChanges' = nicChanges + 1 /\ nics' = 1 - nics
    /\ UNCHANGED <<site, siteChanges, had, file, shell, running, up, pc, ona, counts>>

\* `. config`: the last assignment to a key wins.
Source(env, f) ==
    [k \in Keys |->
        CASE Local[k] # Absent -> Local[k]
          [] Local[k] = Absent /\ f[k] # Absent -> f[k]
          [] Local[k] = Absent /\ f[k] = Absent /\ Defaults[k] # Absent -> Defaults[k]
          [] OTHER -> env[k]]

\* What a configuration of the site comes to on this sensor, from a fresh start.
Effective(c) == Source(Empty, c)

ReadBack(f) == [k \in Keys |-> IF f[k] = CR THEN LF ELSE f[k]]

\* ona-supervisord.sh sources config before it runs ona.py --update-only.
Boot ==
    /\ pc = "boot"
    /\ shell' = Effective(file)
    /\ pc' = "load"
    /\ UNCHANGED <<world, file, running, up, ona, counts>>

\* ONA.__init__
Load ==
    /\ pc = "load"
    /\ current' = ReadBack(file) /\ seen' = nics /\ reload' = FALSE
    /\ pc' = "poll"
    /\ UNCHANGED <<world, file, shell, running, up, fetched, counts>>

\* Mutant: the site's configuration is always written.
Rewritten(c) == c # Empty

Changed(c) == c # Empty /\ c # current

Retrieve ==
    /\ pc = "poll"
    /\ fetched' = site
    /\ pc' = IF Changed(site) THEN "truncate" ELSE "check"
    /\ UNCHANGED <<world, file, shell, running, up, current, seen, reload, counts>>

\* _retrieve_from_site swallows every exception and returns None.
RetrieveFails ==
    /\ pc = "poll"
    /\ pc' = "check"
    /\ UNCHANGED <<world, file, shell, running, up, ona, counts>>

\* _write_config: open(config_file, 'w'), then write.
Truncate ==
    /\ pc = "truncate"
    /\ file' = Empty
    /\ pc' = "write"
    /\ UNCHANGED <<world, shell, running, up, ona, counts>>

\* Mutant: should_reload is not set.
WriteQuietly ==
    /\ pc = "write"
    /\ file' = fetched
    /\ pc' = "check"
    /\ UNCHANGED <<world, shell, running, up, ona, counts>>

Write ==
    /\ pc = "write"
    /\ file' = fetched /\ reload' = TRUE
    /\ pc' = "check"
    /\ UNCHANGED <<world, shell, running, up, current, seen, fetched, counts>>

\* Interfaces, and then: report when --update-only, exit if anything changed.
Check ==
    /\ pc = "check"
    /\ reload' = (reload \/ nics # seen)
    /\ pc' = IF ~up THEN "report" ELSE IF reload' THEN "exit" ELSE "poll"
    /\ UNCHANGED <<world, file, shell, running, up, current, seen, fetched, counts>>

\* ona.py --update-only ends, with EAGAIN or without.
Report ==
    /\ pc = "report"
    /\ pc' = "source"
    /\ UNCHANGED <<world, file, shell, running, up, ona, counts>>

\* The report raises: Service.run polls again, with the same current_config.
ReportFails ==
    /\ pc = "report"
    /\ pc' = "poll" /\ reload' = FALSE
    /\ UNCHANGED <<world, file, shell, running, up, current, seen, fetched, counts>>

\* config is sourced again into the same shell; supervisord starts, and with it
\* ona-service.sh and its ona.py.
Supervise ==
    /\ pc = "source"
    /\ shell' = Source(shell, file) /\ running' = shell' /\ up' = TRUE
    /\ pc' = "load"
    /\ UNCHANGED <<world, file, ona, counts>>

\* ona.py has ended: ona-service.sh stops supervisord, systemd starts it again.
Exit ==
    /\ pc = "exit"
    /\ up' = FALSE /\ restarts' = IF restarts < MaxRestarts THEN restarts + 1 ELSE restarts
    /\ pc' = "boot"
    /\ UNCHANGED <<world, file, shell, running, ona, crashes, scriptKills>>

\* `timeout 60s`, a signal or an error ends ona.py; the script goes on.
Crash ==
    /\ pc \in {"load", "poll", "truncate", "write", "check", "report"} /\ Faults < MaxFaults
    /\ crashes' = crashes + 1
    /\ pc' = IF up THEN "exit" ELSE "source"
    /\ UNCHANGED <<world, file, shell, running, up, ona, restarts, scriptKills>>

\* ona-service.sh itself is killed: supervisord starts it again.
ScriptKill ==
    /\ up /\ Faults < MaxFaults
    /\ scriptKills' = scriptKills + 1
    /\ pc' = "load"
    /\ UNCHANGED <<world, file, shell, running, up, ona, restarts, crashes>>

Execute ==
    \/ Load \/ Retrieve \/ RetrieveFails \/ Truncate \/ Write \/ Check \/ Report \/ ReportFails

Scripts == Boot \/ Supervise \/ Exit

Next == ChangeSite \/ ChangeNics \/ Execute \/ Scripts \/ Crash \/ ScriptKill

Spec == Init /\ [][Next]_vars

\* The processes run, and the site does not fail for ever.
FairSpec ==
    Spec /\ WF_vars(Execute) /\ WF_vars(Scripts) /\ SF_vars(Retrieve) /\ SF_vars(Report)

-----------------------------------------------------------------------------
\* A configuration is stable if it is read back as it was written: ALLOWED_CHARS
\* admits carriage returns, which are not.
Stable(c) == ReadBack(c) = c

\* Every restart has a cause of its own: the first synchronisation, a change of
\* the site's configuration or of the interfaces, or a crash.
RestartsHaveCauses ==
    (\A c \in had : Stable(c)) => restarts <= 1 + siteChanges + nicChanges + crashes

\* "if any changes from the last check, signal that we need to restart
\* service(s) and apply the change": when the site settles on a configuration,
\* the services at last run with every value it sets and config.local does not
\* override, and with config.local's and the default values of the others, unless
\* ona-service.sh was killed between the writing of the file and the restart.
\* Nothing is said of a key that neither the configuration, nor config.local, nor
\* config itself sets.
SetValuesApplied ==
    \A c \in SiteConfigs :
        <>[](site = c /\ Stable(c) /\ scriptKills = 0)
            => <>[](up /\ \A k \in Keys : Effective(c)[k] # Absent => running[k] = Effective(c)[k])
=============================================================================
