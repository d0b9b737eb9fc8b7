# A TLA+ development of the ONA sensor services

The repository (under `src/`) is the Observable Networks Appliance: a set of
small Python services (`src/scripts/ona_service/`), run by supervisord on a
sensor host, which collect what capture programs and logs produce there and push
it to a cloud site. This directory holds TLA+ modules that model those services,
TLC configurations that check them on small instances, and TLAPS proofs of the
main results. File names below are relative to `src/src/scripts/ona_service/`
unless they say otherwise.

## 1. Inventory

| component | state | operations | interacts with | what is hard |
|---|---|---|---|---|
| Service (`service.py`) | `stop_event`, `poll_seconds` | `run`: execute, swallow `RequestException`, sleep | base class of every service | any other exception ends the process; supervisord restarts it |
| Api (`api.py`) | none across calls | `send_file` (sign, put), `send_signal`, `get_data`, each retried up to 30 times | the site | a call that raises may have had its effect; 413 is not retried and answers `None` |
| Archive pusher (`pusher.py`, `pna_pusher.py`) | files in `input_dir`, archives in `output_dir` | heartbeat, bin, archive, remove, send, expire | capture program, Api | crash between any two file system steps, late files, head-of-line blocking |
| IPFIX pusher (`ipfix_pusher.py`) | the same, plus rewriting of the input files in place | `_process_files`, SiLK pipeline, row filters | SiLK tools | a crash in the rewriting leaves temporary files that match the name format; failing tools are logged and ignored |
| Pcap pushers (`tcpdump_pusher.py`, `eta_pusher.py`, `pdns_pusher.py`) | `.pcap` and `.pcap.gz` files | compress, push, signal | tcpdump, gzip, Api | names reused in a 10-minute window, signals forgotten when a later upload fails |
| Log watcher (`log_watcher.py`) | open file, inode, unsent lines | `check_data`, `flush_data`, `_set_fd` | log writers and logrotate | rotation between read and stat |
| Journal watcher (`log_watcher.py`, `utils.py`) | journalctl, follower thread and queue, unsent lines | `_start_follower`, `check_data`, `flush_data` | journalctl, the other nodes of its watcher | lines dropped or repeated when journalctl is replaced; a node before it that raises |
| AD syslog watcher (`syslog_ad_watcher.py`) | the entry being read, parsed events not yet sent | `flush_data` (parsing), `execute` (formatting, upload) | log file, Api | an entry read across polls, rotations and truncations |
| Notification publisher (`notification_publisher.py`, `utils.py`) | cursor per data type in a JSON file | `get_data`, `publish`, `execute` | site, syslog or SNMP receiver | cursor saved before publishing; torn state file |
| Config updater (`ona.py`) and its shell scripts (`ona-service.sh`, `ona-supervisord.sh`) | configuration file, running environment | `_load_config`, `_build_config`, `_write_config`, `execute` | site, systemd, supervisord | restart loop must converge; crash in the write |
| Flow capture configuration (`flowcap_config.py`, `supervisor_config.py`, `flowcap.sh`) | `sensor.conf`, ipsets, iptables rules, supervisor programs | probes, duplicates, ports | the environment the config updater decides, ipset, flowcap | two programs count the ports of the monitors apart; the firewall is only added to |
| Suricata alert watcher (`suricata_alert_watcher.py`) | `eve.json`, archived logs, rules | compress, upload, update rules | suricata, Api | left-over archives of a failed upload; rules written in place |
| ISE poller (`ise_poller.py`) | configuration and certificates, `last_poll` in a state file | configuration download, session query, upload, state save | pxGrid, Api | at-least-once delivery, fail-over between replicas |
| Kubernetes watcher (`kubernetes_watcher.py`) | none across polls | leader election by pod name, send update | API server, the watchers of other pods | two leaders, or none, while pods come and go |
| Hostname resolver (`hostname_resolver.py`) | none | download, resolve, upload | site, DNS, nmblookup | a missing program ends the process |
| SNMP handler (`snmp_handler.py`) | none | one trap per record | notification publisher | pure output |
| Installation and packaging (`packaging/`, `installation/`, `tools/`) | system files | install, set name | package manager | pure I/O |

Behaviour shared by all services: one thread runs `execute` again and again;
capture programs, log writers and logrotate act at any moment between two of its
steps; supervisord or the kernel may kill the process at any step, and nothing
but the file system survives; each Api call may take up to 30 attempts of up to
300 seconds, so the clock moves far during one `execute`.

What makes each part correct: a pusher keeps what it took in until the site has
it, in spite of failing calls, and never touches a file that is still written;
a watcher neither forgets nor repeats a line it has settled; a poller's cursor
never passes what was not delivered; the configuration loop applies what the
site says and then comes to rest, and the programs it configures agree with one
another; of many watchers one reports; the Api tells the site only of what is
there.

## 2. Modules

| module | models | checked by | proved in |
|---|---|---|---|
| `Delivery` | the abstract promise of a pusher: accepted, held, delivered, discarded | refinement in `pusher_clean` and `tcpdump` | `PusherProofs`, `TcpdumpProofs` |
| `Pusher`, `MCPusher` | `pusher.py` under `Service.run` | `pusher_clean`, `pusher_faults` | `PusherProofs` |
| `IpfixPusher`, `IpfixRows`, `MCIpfixPusher` | `ipfix_pusher.py` on top of `Pusher`; its row filters | `ipfix` | `PusherProofs` |
| `TcpdumpPusher` | `tcpdump_pusher.py`, `eta_pusher.py`, `pdns_pusher.py` | `tcpdump` | `TcpdumpProofs` |
| `Relay` | the abstract promise of a log watcher: written, coming, held, delivered, refused | refinement in `lognode` and `syslog_ad` | `LogNodeProofs` |
| `WatchNode` | `WatchNode` of `log_watcher.py`: collecting and uploading | through `lognode`, `journal` | `LogNodeProofs` |
| `LogFile` | a log with its writer and logrotate, and the `LogNode` that follows it by name | through `lognode`, `syslog_ad` | `LogNodeProofs` |
| `LogNode` | `WatchNode` over `LogFile` | `lognode` | `LogNodeProofs` |
| `JournalNode` | `SystemdJournalNode` behind other nodes, `CommandOutputFollower` of `utils.py` | `journal` | `LogNodeProofs`, as `Journal` |
| `SyslogAdWatcher` | `syslog_ad_watcher.py` over `LogFile` | `syslog_ad` | `LogNodeProofs`, as `SyslogAd` |
| `NotificationPublisher`, `MCNotificationPublisher` | `notification_publisher.py`, `persistent_dict` | `notify` | `NotificationProofs` |
| `OnaConfig` | `ona.py`, `ona-supervisord.sh`, `ona-service.sh` | through `ona` | `FlowProofs` |
| `FlowCapture`, `MCOnaConfig` | `flowcap_config.py`, `supervisor_config.py`, `flowcap.sh`, composed with `OnaConfig` | `ona` | `FlowProofs` |
| `Api` | `send_file`, `send_signal`, `get_data` with their retries | through `suricata` | `SuricataProofs` |
| `SuricataWatcher`, `MCSuricataWatcher` | `suricata_alert_watcher.py`, composed with `Api` | `suricata` | `SuricataProofs` |
| `IsePoller`, `MCIsePoller` | `ise_poller.py`, `persistent_dict` | `ise` | `IseProofs` |
| `KubernetesWatcher` | `kubernetes_watcher.py`, one in each pod | `kubernetes` | `KubernetesProofs` |

Common conventions. Every module has the variables of the code (with the code's
names where it has one), a `pc` that says where `execute` stands, and history
variables, marked as such, that no guard of a service reads. Each action is the
code between two points where another actor can be seen to act: a file system
operation, or a call of the site. A call of the site has the outcomes of
`api.py`: it returns a path (or True), returns None (413), or raises after its
last attempt, in which case its effect may or may not have happened. Raising
ends `execute`, and `Service.run` goes on with the next poll. Operators marked
"Mutant" are faulty variants of the definition that follows them; each property
is violated when one of them takes the place of that definition, which
`PROJECT.json` lists under `mutants`.

**Pusher.** `Heartbeat`, `GetFileBins`, `OpenArchive`, `WriteArchive`,
`RemoveFile`, `ListArchives`, `SkipEmpty`, `Expire`, `Upload...`, `Signal...`,
`RemoveArchive` are the steps of `execute` in their order. `form` and `content`
are the archives in `output_dir`: `partial` between `tar_open` and the close,
`empty` for the zero length that a power cut leaves and the code skips. Time is
counted in 10-minute bins, which is all the code's arithmetic distinguishes;
`MaxBacklog` is the 48 hours of `MAX_BACKLOG_DELTA` in that unit. Capture
programs are the action `Arrive`. `pna_pusher.py` gives only parameters.

**IpfixPusher** EXTENDS `Pusher` and puts `_process_files` before `OpenArchive`:
`Copy`, `Filter`, `Aggregate`, `OpenCsv`, `WriteRows`, `Cleanup` for one file
after another, in the order of the directory. `kind[f]` and `tmp[f]` are what the
input file and its `.tmp` hold, in form only. The contents are in `IpfixRows`:
the generators `_silk_to_csv` chains, written over sequences of rows, with
reference definitions (what `_trim_meraki` emits adds up to the traffic the
counter has seen; reversing commutes with trimming; a zero protocol is filled in
exactly if the reverse flow has one). The assumptions of `MCIpfixPusher`, which
TLC evaluates in the run `ipfix`, compare the two over all sequences of up to
three rows of two end points and of up to five rows of one key.

**TcpdumpPusher.** `service` is chosen at the start, since the two subclasses
differ in their interval and in the signals. `queue` is the sorted list at hand,
first of the `.pcap` files to compress, then of the `.pcap.gz` files to push,
then of the paths to signal. `index` is the counter of `enumerate`.

**LogFile, WatchNode, LogNode.** `text[i]` is the content of inode `i`; `Rename`,
`Reopen` and `Truncate` are logrotate. `SetFd`, `PassUnread` and `CheckInode` are
what the code does to its file object. `Collect` is the part of `flush_data`
before the upload, `Checkpoint` the part after it. `due` stands for `send_delta`
having passed. `LogNode` joins the two: `Open`, `Read`, `Flush`, `Stat` are
`check_data`. `ToRead` is what the node will read if nothing happens to the files
before.

**Relay** is what `LogNode` and `SyslogAdWatcher` implement, of lines and of events.
Its `held` is `self.data`, and the interesting ones of `parsed_data`; `coming` is
`ToRead`, for events with the lines of the poll and the head of the entry that is
put together; `delivered` is what was signalled, of which the watcher may not know.
An item enters `coming` when it is written, leaves it for `held` or is missed, and
cannot come again: so what is sent twice was sent in a batch whose signal was not
confirmed, and nothing that was let go is ever sent. A `JournalNode` is no `Relay`,
since a new journalctl prints its newest line again (`RepeatsHaveCauses`).

**JournalNode.** `journalctl` is the process, `printed` and `queue` what the thread
has taken from it; `Enqueue` runs beside `Execute`, and its steps interleave.
`EarlierDone` and `EarlierRaises` are the nodes before this one in
`LogWatcher.execute`. A new journalctl begins at `Context`, one line back.

**SyslogAdWatcher.** Which lines begin an event, are one, or do not parse is a
constant, so that an entry can be a sequence of lines. `OneLine`, `TailLine` and
`HeadLine` are the three cases of `flush_data`, `Format...`, `Upload...`,
`Signal...` are `execute`.

**NotificationPublisher** and **IsePoller.** The state file is truncated and
then written in two actions, and loaded on a start; a torn one is an empty dict.
`New` is the site's (the node's) answer to a query after the cursor. Messages
and sessions that become visible after one not older are collected in `late`:
no cursor protocol of this kind can see them. `complete` is whether the
configuration in use is valid: `Download` makes it so, and `CertificatesRemoved`
undoes it when the temporary directory is cleaned.

**OnaConfig.** A configuration is a function from keys to values or `Absent`.
`Source` is what sourcing `packaging/root/opt/obsrvbl-ona/config` does to a shell's
environment: it assigns the defaults (`Defaults`), then what `config.auto` has, then
the overrides of `config.local` (`Local`); a key that none of them has stays as it
was. `Effective(c)` is what a configuration of the site comes to in a fresh shell,
and what the properties compare the services' environment with. `ReadBack` is what
Python's text mode does to a carriage return. `shell` is the environment of
`ona-supervisord.sh`, `running` that of supervisord and the services. `Boot`,
`Supervise` and `Exit` are the scripts and systemd's `Restart=always`; the other
actions are `ona.py`, in its update-only run while `up` is false and as a service
afterwards.

**FlowCapture** EXTENDS `OnaConfig`: its steps `Configure` are those of the
configuration loop, and take flowcap with them when supervisord goes down;
`WriteSensorConf`, `OpenPorts` and `RestoreFails` are `flowcap.sh`, which reads
the environment `running`. `ProbeConfig`, `valid_probes`, `SensorConf`, `Ports`
and `Programs` are the pure functions of `flowcap_config.py` and
`supervisor_config.py`, from an environment to probes, ports and programs.

**Api** and **SuricataWatcher.** `Api` has the state of a call and its requests
as actions; its client starts a call and goes on when `call` is `"none"`.
`SuricataWatcher` EXTENDS it: `Send`, `Sent` and `UpdateRules` are joint steps,
`ApiStep` is a request while the watcher waits, so that the watcher takes each step
of `Api` under the guard it has there. `installed` is when the directory of the
rules was made: before it, `ShouldUpdate` is false whatever the day, and the code
logs an error; `Install` makes it, at any moment. The other modules abstract a call
to its outcome.

**KubernetesWatcher.** Pods are numbers in the order of their names. `listed` is
what the API server answers, `pc[p]` where the watcher of pod `p` stands; a pod
is listed before its watcher runs and after it has ended. An hour ends when all
running watchers have polled.

## 3. What the runs check

| run | what is shown | distinct states |
|---|---|---|
| `pusher_clean` | no readable file is lost (`NoFileLost`), the pusher implements `Delivery` (`KeepsLedger`), each readable file of a completed bin is delivered or expires (`EveryFileLeaves`) although the archive of bin 0 is refused for ever and a file beside them cannot be read | 7,284 |
| `pusher_faults` | with a kill, a power cut, late, unreadable and unremovable files: a torso is never sent (`OnlyWholeArchivesSent`), the newest bin is never touched (`NewestBinUntouched`), completed bins are archived even if the site takes nothing (`InputDrains`) | 200,753 |
| `ipfix` | with a kill, late files and, between two sound bins, a file that SiLK may not read and that may not be removable: archives hold converted files only and lose rows only for a cause in their own bin (`LossesHaveCauses`), bins without one drain (`FlowsDrain`); the row filters agree with their references | 285,264 |
| `tcpdump` | the active capture is left alone (`ActiveCaptureUntouched`), a torn `.gz` is made again first (`TornNeverPushed`), the pushers implement `Delivery`, so that a capture leaves the disk only after its whole `.gz` was stored or was refused with a 413 (`KeepsLedger`), eta's signals are complete while nothing raises (`StoredAreSignalled`), captures drain (`CapturesDrain`) | 29,473 |
| `lognode` | batches are exact (`BatchExact`), the node implements `Relay`, so that a line is collected at most once and stays until it was signalled or refused (`RelaysLines`), the lines of the file that stays are settled (`SurvivingLinesSettled`) | 469,484 |
| `journal` | no line read is lost, and what a new journalctl starts after is all that is missed (`LinesAccounted`); repeats are bounded by restarts (`RepeatsHaveCauses`); the newest line is at last sent (`NewestLineSettles`) | 185,554 |
| `syslog_ad` | events consist of their own lines (`EventsWhole`), the watcher implements `Relay`, so that an event is parsed at most once and stays until it was signalled or refused (`RelaysEvents`), all that stay in the log leave (`EventsLeave`) | 216,963 |
| `notify` | no message twice, whatever is killed (`NeverTwice`); without a kill all expected messages are handed over (`EveryMessageForwarded`) | 313,315 |
| `ona` | every restart has its cause (`RestartsHaveCauses`), the values of the site, `config.local` and the defaults reach the services (`SetValuesApplied`), the collector listens to every monitor (`MonitorsHaveReceivers`), the firewall opens nothing but the ports these give to probes (`OpenedHaveCauses`), valid probes are served, those with the default protocol too (`ProbesServed`) | 207,580 |
| `suricata` | signals name stored files (`ToldIsStored`), a log that was told of is not sent again unless a call raised or the process was killed (`ToldOnce`), no log lost (`NoLogLost`), every day begins with whole rules of its own where suricata is installed (`RulesOfTheDay`), logs leave or are stranded (`LogsLeave`) | 630,677 |
| `ise` | the saved cursor covers settled sessions only (`CursorCovered`), no session twice while no signal fails and nothing is killed (`NotTwice`), every session is settled while the first node answers some day (`SessionsSettle`) | 254,813 |
| `kubernetes` | an hour has one winner, and one more per change of the list (`OneWinner`); updates go on once a first pod settles (`UpdatesContinue`) | 9,222 |

### Findings

Places where the code does something else than the repository says of it. Each is
excluded by a condition of the named property, which the run shows to hold with
the condition; without it, it fails.

1. `log_watcher.py:157` (`SurvivingLinesSettled`): lines written between
   `readlines` and the rename are in a file that is closed without another read; a
   test says the first call "should notice that the file has changed, grab the"
   remainder.
2. `ona-supervisord.sh:32` (`SetValuesApplied`): the new configuration is sourced
   over the old environment, so a key that the site removed in an update-only run
   stays set if `config` has no default for it, as it has for none of a probe's keys,
   and nothing restarts the services afterwards.
3. `flowcap_config.py:104` (`ProbesServed`): the message about a port that is no
   number formats the variable that was not set; if the first probe with a known
   type has such a port the script ends and no probe is served, while a test says
   "Invalid port - ignored".
4. `suricata_alert_watcher.py:77` (`LogsLeave`): a log whose upload raised is left
   as `.archived.gz`, which the pattern of the next poll does not match, against
   "maybe the last one failed so we need to pick it up too".
5. `ise_poller.py:265` (`SessionsSettle`): a node that does not answer ends the
   process, at every start, before the next replica is asked.
6. `syslog_ad_watcher.py:124` (`EventsWhole`): an entry is kept across a rotation or
   truncation, and so may be cut short, or continued by the tail of another event,
   against "if we saw the whole thing".

### Conditions

Other properties are stated under a condition that the reader should know.

- A pusher drops a file that cannot be read, and keeps the rest of its bin
  (`pusher.py:151`). It loses files if it is killed between two removals (the bin
  is archived again over the archive that holds the removed ones) or if a file of
  an archived bin comes late (`pusher.py:131,147`).
- The IPFIX pusher may raise on every start in a bin in which a kill left a `.tmp`
  or a half rewritten file, and holds up the bins after it. The bin of an input
  file that cannot be removed is archived anew in every poll, from a file that has
  been converted already, and then without its rows.
- A `push_files` that raises forgets the paths eta has not signalled yet
  (`tcpdump_pusher.py:68`).
- A kill between the saving of a cursor and the publishing loses notifications
  (`notification_publisher.py:217`).
- A kill of `ona-service.sh` after a configuration was written leaves the services
  with the old one (`ona.py:232`), and a carriage return in a value, which
  `ALLOWED_CHARS` admits, restarts them for ever (`ona.py:110`).
- A probe of the site is served as `config.local` leaves it: what the operator sets
  there wins. A PROTOCOL that the shell still has from an earlier configuration
  (finding 2) changes a probe that relies on the default; `ProbesServed` excludes
  just that (`LeftOver`).
- Without its directory no rules are fetched, on any day
  (`suricata_alert_watcher.py:112`); `RulesOfTheDay` speaks of days at whose eve
  the directory was there.
- A probe of the user may have the port of a monitor, and then takes its flows. A
  monitor whose port, counted up from the start, is past the valid ones has no
  receiver.
  A failing ipset leaves probes behind a closed firewall until the next start.
- A log truncated in place can hide new lines.
- A pod that is first in the list and whose watcher does not run, or has no
  access, silences all others.

### Bounds

All bounds are CONSTANTS named `Max...` and appear in guards of the environment,
never of a service; what the environment may do is finite, what the services do
is not cut. Clocks stop at their bound and services go on. The sizes are chosen
so that the cases that matter occur: two files in one bin and two newer bins (an
archive can be partly removed, rewritten, and followed by another); for IPFIX a third
newer bin, so that a sound bin is completed before, and one behind, that of the file
SiLK may not read, the site refuses the first two archives for ever, and none is old
enough to expire (`pusher_clean` has that); three
captures (one active, two finished, one of them too large); three lines over
three inodes; for the AD log six lines over two inodes, which hold two events of
several lines, one of one line whose date does not parse and one that does not
parse at all; three lines of a journal, an end of journalctl and a kill; three
messages of one type and one of another; two logs; two nodes, of which any may be
down, and two sessions of the same time; three pods, one without access.
One kill suffices to reach each state a kill can leave, as a process keeps nothing
across a restart; where faults of several kinds share a bound (`MaxFaults` of
`OnaConfig` and `IsePoller`) the run explores each of them, one at a time.

In `ona`, `config` turns both collectors off, and `config.local` turns IPFIX on and
has a probe of its own. The site has three configurations: one that turns the monitors
on and IPFIX off, which `config.local` overrides, with a probe on the port of a monitor
and another that has its TYPE and PORT from `config.local` and only its PROTOCOL from
the site; one with a single probe of the default protocol; one that is not read back as
written and whose port is no number. The site changes once, from any of them (or from a
file an earlier run left) to any other, so that the environment can hold two of them on
top of each other; a second change doubles the states without another kind of step.
`MaxRestarts` saturates a counter above the bound that `RestartsHaveCauses` compares it
with.

In `suricata` the site signs one path, since a second makes the states too many for
liveness; for any number of paths there are the theorems `ToldStored` and
`EachLogAtOnePath`.

### Fairness

Weak fairness of a service's steps and of its restart: it runs in a loop under
supervisord with `autorestart=true`. Weak fairness of time, of the follower's
thread, and of logrotate creating the file it renamed. Strong fairness of a
successful request (a heartbeat, an upload, a signal, a query), since its
failures come between: a site that is asked again and again answers some day.
This is an assumption on the environment; `pusher_faults` and `ipfix` need only
that of heartbeats, `pusher_clean` lets one archive be refused for ever, and in
`ise` a node that is down is never asked with success: `SessionsSettle` assumes
of the first one only that it is not down. In `suricata` the download of rules
may fail for ever. In `journal` the nodes polled before the one at hand may
raise, but not for ever. In `kubernetes` hours pass when everybody has polled,
and only pods with access are assumed to reach the API server. Kills, rotations,
ends of journalctl, failures of ipset and changes by the site have no fairness.

## 4. What is proved

Every invariant and every action property that the runs check is proved for all
values of the constants that satisfy the assumptions of its module; those ask of
a bound only that it be a number, and of the other constants what their comments
say. Invariants are proved the usual way: TLC confirmed on the small instances that
the stronger invariant holds, then `Init` implies it, every step keeps it, and it
implies the property.

### Pushers

`PusherProofs`, under `FilesAssumption` and `BoundsAssumption` of `Pusher`, for
IPFIX also `NameAssumption` of `IpfixPusher`:

- `TypeCorrect`: TypeOK is inductive.
- `TorsoNeverSent`, `NewestNeverTouched`, under every fault of the model. They
  rest on `TorsoInv`: an archive that is `partial` belongs to a bin whose input
  files are still there together with those of a newer bin, so that the bin is
  in `todo` once `GetFileBins` has run and is written again before
  `ListArchives`. `OnlyWholeArchivesSent` alone says nothing of the state before
  the sending, and is not inductive.
- `NothingLost` and `ImplementsDelivery`, under `Clean` (no kill, power cut, late
  or unremovable file; files that cannot be read are allowed). `CleanInv` adds that
  input files and archives do not overlap except while `removing`, that the list at
  hand is complete, that archives hold the readable files of whole bins older than
  all input, and that an archive about to be removed was signalled.
  `ImplementsDelivery` maps each step to one of `Delivery` or to a stutter.
- `IpfixTorsoNeverSent` and `IpfixNewestNeverTouched`: every step of `IpfixPusher`
  is one of `Pusher`, or ends the process or `execute`, and so keeps `TorsoInv`.
- `RowsLostForCauses`, under every fault. An archive is written in one step, the
  files in it are rewritten in six each, of which any may be the last. `IpfixInv`
  follows each input file (`Traced`): in a bin without a cause it is untouched, or
  the one at hand in the form its stage gives it (`Regular`), or finished and waiting
  for its archive in the same `execute` (`Finished`). `AllConverted` and
  `BatchPresent` say that when the archive is written the loop over the directory
  has passed all files of its bin.

`TcpdumpProofs`, for both services, every number of captures, windows and kills and
every set of captures the site refuses: the three invariants of the run `tcpdump`
and, under every fault of the model, the refinement of `Delivery`. `FilesInv` and
`QueueInv` say that a capture not yet begun has no file, that a torn `.pcap.gz` lies
beside its `.pcap` (which is why it is made again), and that what is listed for gzip
has one, the capture being written excepted. `TornInv` follows the torn files through
the lists. `SignalInv` adds that a capture stored and removed is in `ret` until it is
listed to be signalled.

- `CapturesKept` says that a capture is on disk, or was stored or refused. Its
  `LostInv` adds that the file about to be removed was stored whole or refused, unless
  it is torn.
- `CapturesImplementDelivery` rests on the same invariant. A `.pcap.gz` that is torn
  can be uploaded and removed when gzip failed on it again; this counts neither as
  delivered nor as released, for the `.pcap` file beside it is still there.

### Log watchers

`LogNodeProofs` EXTENDS `LogNode`, and has `JournalNode` and `SyslogAdWatcher` as the
instances `Journal` and `SyslogAd` beside it, so that one set of lemmas serves the
three: `LogStepKeeps`, `FdStepKeeps`, `EndKeeps` and `ReadKeeps` say what a step of a
log, of logrotate or of the node's file object does to `Older(l)`: line l is older
than all that can still be read, which is what is behind the read position in the
open file, or in the file that is opened next. For this to survive a rotation
`FileInv` orders lines within a file and from inode to inode, and `PathInv` says that
the writer has the newest inode.

- `BatchesExact`. `BatchExact` says nothing of lines not yet read; `CollectedInv` adds
  that all that was collected or settled is `Older`. `NothingForgotten`, a
  consequence of the refinement below in the code's own terms, needs the types only.
- `LinesRelayedOnce`. `LogStepToRead`, `FdStepToRead`, `ReadToRead` and
  `RestartToRead` say what each kind of step does to `ToRead`: only a write adds to
  it, and only the new line; a read takes out what it reads; a restart behind the end
  of the file leaves nothing. The last two need `OlderFirst`, that what will be read
  is newer than all that is `Older`, and so `FileInv` and `PathInv`. With these each
  action of `LogNode` is an action of `Relay`, or a stutter: what is renamed or
  truncated is missed, a read is `Meet(Range(Unread))`, a signal that fails may be a
  `Deliver` after which everything is still held.
- `JournalLinesAccounted`. `Consecutive(q, n)` says that a queue holds the lines up to
  n and no gap, so that `Taken(queue, printed)` is the last line that left it;
  `CoverInv` that all lines up to there were read or missed, `KeptInv` that what was
  read is in `lines`, `data` or settled.
- `JournalRepeatsCaused`. `RepeatsInv` adds to the repeats the ones that are owed: one
  that is `Coming` from a queue whose first line was read before, and one by the
  journalctl that will be started for one that has ended. `OnlyNext` says that a queue
  repeats its first line at most.
- `EventsKept`: a parsed entry, interesting or not, is kept until it was sent, refused
  or the process ended.
- `EventsPutTogether`, under `Script`, the part of `ScriptAssumption` that it needs
  (an instance does not bring in the assumptions of its module). `EntryOK` says that
  the lines of a poll are the newest that were read (`LinesInv`), that the entry is
  older than they are (`EntryInv`), and that a complete entry begins with its head and
  has all lines read since, but for one-line events (`CompleteInv`). So when the next
  head comes, a line between the two heads that is not in the entry was not read, and
  cannot be read any more, since all that can still be read comes after that next
  head: it is `Lost`. `EntryWhole` takes the least such line (`LeastOfNaturals`), and
  `LostStays` shows that lost lines stay lost, so that an event parsed long ago keeps
  its excuse.
- `EventsRelayedOnce`, under `Script` and `InterestingAreEvents`, the rest of
  `ScriptAssumption` that matters here. An event is met when it is parsed, which for
  one with a head line is when the next head is read; until then its head is
  `Approaching`, in a file, in `lines` or in `entry`. That it is in no second place,
  so that it is not parsed twice, is `EntryOK`: what was read is not to be read
  (`SeenNotToRead`), the entry is older than the lines of the poll, and these rise
  (`RelayParses`). A poll, which moves lines from the file to `lines`, is a stutter.

### Configuration and flow capture

`FlowProofs` EXTENDS `FlowCapture` and with it `OnaConfig`.

- `RestartsAreCaused`. `RestartInv` counts what the state still owes: one restart for
  a file that is not the site's configuration, one for an `ona.py` about to end; a
  change of the site or of the interfaces, or a crash, adds one to both sides.
  `CurrentIsFile` is what makes a service that has compared its file with the site's
  answer come to rest: it compares what was really read back.
- `FlowImplementsConfig`: the composition implements `OnaConfig`, which carries
  `RestartsAreCaused` over to it (`FlowRestartsAreCaused`).
- `PortsHaveCauses`, for any defaults and any `config.local`. `ValuesInv` says that
  every value in the environment of the scripts and of the services is one that some
  configuration of the site, or none, comes to on this sensor (`Effective`), wherever
  `ona-supervisord.sh` has sourced one over another (`SourceKnown`); a port opened is
  the port of a user's probe in that environment (`PortIsGiven`), and never one of a
  monitor.
- `EveryMonitorIsHeard`, under `ProbesAssumption` and `KeysAssumption`. Both programs
  count the ports from the same start; the first valid probe with a monitor's port and
  protocol is in `sensor.conf`, and is that of the monitor or one of the user
  (`MonitorServed`).

### Watchers and pollers that call the site

`SuricataProofs` begins with `Api`. `ToldStored`, for every client, number of
attempts and set of paths: `ApiInv` adds that a path a call has returned holds the
file, and that a new attempt has forgotten the path of the one before. The lemma
`WatcherIsClient` is that the composition implements `Api`, by which
`ToldLogsAreStored` takes `ToldStored` over to it. `CallInv` relates the watcher's
`pc` to the call under way, `CurrentInv` says that the file of the call is the log
at hand. `LogsKept` rests on `RemovalInv`, by which the answer still remembered in
`result` and then in `pc` says what became of that log. `EachLogSentOnce` and
`EachLogAtOnePath`: `ToldInv` says that, while nothing raised or was killed, a log
that was told of is gone, or is the one at hand and was told of at the path at hand;
`RequestInv` (requests match the step of the watcher) and `TodoInv` (logs still to
be sent, and the one at hand, are on disk) are what it needs. So no later poll finds
it, and no retry of its upload tells of it at another path. `RulesFetchedDaily`, of
hosts where suricata was installed in time: `RulesInv` says that the rules are good
both for the present and for the poll the watcher will wake up for (`GoodAt(wake)`),
which may be the first of the next day; that rules good for a later poll are good
for an earlier one is `GoodBefore`, on the monotonicity of `Day` and `Midnight`.

`NotificationProofs`: `PublishedOnce`. `PublishedInv` says that a published message
is covered by the cursor of its type in memory and, unless the file is torn, on
disk, so that no new process asks for it again; a cursor of a torn file is the
present, which is no earlier than any message published. `BatchInv` says the same of
what is about to be published. `MaxTimeCovers`, that the maximum of a finite set of
times exists and bounds it, is proved from the well-foundedness of the strict subset
ordering, since induction is not to be had; `LeastOfNaturals` in `LogNodeProofs` and
`FlowProofs` is the same argument.

`IseProofs`: `CursorIsCovered` and `SignalledOnce`. A session that becomes visible
below a cursor must be late or passed: `Sourced` gives the cursor a session not older
that is already visible, or says that the cursor was new and passed everything below
it over. `PollInv` says of the sessions at hand that all are newer than the cursor
and that whatever else is newer is late or newer than all of them; without the
second half the new cursor could cover a session that appeared during the upload.

`KubernetesProofs`: `OneWinnerAnHour`. `WinnersInv` counts the pod that is first in
the present list with the winners, so that only a change of the list can add one.

### Only model-checked

All liveness: fairness and ENABLED are outside the prover's reach. So
`EveryFileLeaves`, `InputDrains`, `FlowsDrain`, `CapturesDrain`,
`SurvivingLinesSettled`, `NewestLineSettles`, `EventsLeave`, `EveryMessageForwarded`,
`SetValuesApplied`, `ProbesServed`, `LogsLeave`, `SessionsSettle` and
`UpdatesContinue` are what the runs show on their instances. The row filters of
`IpfixRows` are compared with their references on bounded inputs: what a fold computes
on every sequence needs induction over data, which the prover cannot instantiate.

## 5. What is not modelled

- Formatting of names, heartbeats, log lines and configuration text; the content of
  archives, logs and rules, but for the rows of IPFIX; memory.
- The hostname resolver and the SNMP handler: they keep no state; the handler's
  outcome is that of `Publish` in `NotificationPublisher`. The installation and
  packaging scripts run once, in sequence.
- Of `supervisor_config.py` the programs that have no part in flow capture; of
  `sensor.conf` the quirks of a probe; a reboot, which clears the ipsets and begins
  with the initial state again.
- Of `config` the keys no property speaks of, and its manual mode, in which `ona.py`
  does not ask the site; edits of `config.local` and `/etc/environment` while the
  services run (`Local` and `Defaults` are constant); removal of the directory of the
  Suricata rules, or of the rules, while its watcher runs.
- The capture programs themselves: what they write is an action of the environment.
- A journal that is written faster than every 0.1 s, which keeps `check_data` in its
  loop (`log_watcher.py:194`): how fast lines come is not modelled.
- That remote names of pcap files can be the same in two polls of one window
  (`tcpdump_pusher.py:64`): what the site does with them is not in the repository.
- Which logs a log watcher follows: that is decided once at its start.

## 6. Plan

Done: every component with state of its own is modelled, and section 5 has the rest.
All safety and action properties of the runs are proved, and so are the refinements
of `Delivery` by the pushers and of `Relay` by the watchers of log files. That the
Suricata watcher is a client of `Api`, and flow capture a composition with `OnaConfig`,
follows from how they are composed, and carries the theorems about the parts over.

Open: liveness, should the prover come to handle fairness and ENABLED; the row filters
of the IPFIX pusher for rows of any length, should it come to handle induction over
data; an abstract specification of the cursors that `NotificationPublisher` and
`IsePoller` have in common.
