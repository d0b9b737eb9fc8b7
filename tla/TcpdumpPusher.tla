--------------------------- MODULE TcpdumpPusher ---------------------------
(***************************************************************************)
(* The pcap pushers: tcpdump_pusher.py with its subclasses pdns_pusher.py  *)
(* (polls every window) and eta_pusher.py (polls within a window, signals  *)
(* what was uploaded).                                                     *)
(*                                                                         *)
(* tcpdump writes captures 1, 2, ... in turn; capture `last` is the one it *)
(* is writing.  Each poll compresses all but the newest .pcap file, then   *)
(* uploads and removes every .pcap.gz file.  The remote name of a file is  *)
(* the 10-minute window of the poll and the file's index in the listing.   *)
(***************************************************************************)
EXTENDS Integers, FiniteSets

CONSTANTS
    MaxCaptures,  \* bound: captures 1 .. MaxCaptures
    MaxWindow,    \* bound: the clock stops at this 10-minute window
    Services,     \* the services looked at, of "pdns" and "eta"
    TooLarge,     \* captures the site answers 413 for
    MaxKills      \* bound on kills of the process

Captures == 1 .. MaxCaptures

ASSUME BoundsAssumption ==
    /\ MaxCaptures \in Nat /\ MaxWindow \in Nat /\ MaxKills \in Nat
    /\ Services \subseteq {"pdns", "eta"} /\ TooLarge \subseteq Captures

VARIABLES
    service,    \* which subclass runs
    window,     \* the current 10-minute window
    wake,       \* the window from which the next execute() may start
    last,       \* the capture tcpdump is writing, 0 before the first
    pcap,       \* captures with a .pcap file
    gz,         \* gz[c]: the .pcap.gz file of c: none, torn or whole
    pc,         \* where execute() stands
    ts,         \* the window of `now`
    queue,      \* captures still to be compressed, or to be pushed
    index,      \* enumerate's counter in push_files
    ret,        \* captures whose remote path push_files returns
    stored,     \* history: <<capture, window, index, .pcap.gz file>> of each upload
    signalled,  \* history: captures whose path was signalled
    failures,   \* history: what has failed: gzip, a call of the site, the process
    kills

files == <<last, pcap, gz>>
local == <<ts, queue, index, ret>>
history == <<stored, signalled, failures>>
vars == <<service, window, wake, files, pc, local, history, kills>>

\* poll_seconds in windows: 600 s, and 60 s for eta.
PollWindows == IF service = "pdns" THEN 1 ELSE 0

Init ==
    /\ service \in Services /\ window = 0 /\ wake = 0 /\ last = 0 /\ pcap = {}
    /\ gz = [c \in Captures |-> "none"]
    /\ pc = "asleep" /\ ts = 0 /\ queue = {} /\ index = 0 /\ ret = {}
    /\ stored = {} /\ signalled = {} /\ failures = {} /\ kills = 0

-----------------------------------------------------------------------------
\* Time passes; at its bound the clock stands still.
Tick ==
    /\ window' = IF window < MaxWindow THEN window + 1 ELSE window
    /\ UNCHANGED <<service, wake, files, pc, local, history, kills>>

\* tcpdump closes its file and opens the next.
Capture ==
    /\ last < MaxCaptures
    /\ last' = last + 1
    /\ pcap' = pcap \union {last + 1}
    /\ UNCHANGED <<service, window, wake, gz, pc, local, history, kills>>

First(c) == c \in queue /\ \A d \in queue : c <= d

\* Service.run sleeps until poll_seconds after the start of this execute().
Sleep == pc' = "asleep" /\ wake' = ts + PollWindows /\ queue' = {} /\ ret' = {}

\* Mutants: the newest file too; one file too few; a file with a .gz is skipped.
AllPcaps == pcap
AllButTwo == {c \in pcap : \E d, e \in pcap : e > d /\ d > c}
OnlyWithoutGz == {c \in pcap : gz[c] = "none" /\ \E d \in pcap : d > c}

\* sorted(...)[:-1]
Finished == {c \in pcap : \E d \in pcap : d > c}

CompressPcaps ==
    /\ pc = "asleep" /\ wake <= window
    /\ ts' = window
    /\ queue' = Finished
    /\ pc' = "gzip"
    /\ UNCHANGED <<service, window, wake, files, index, ret, history, kills>>

\* gzip -f replaces the .pcap file with a new .pcap.gz file; when it fails the
\* error is logged and the files stay as they were.
Gzip(c) ==
    /\ pc = "gzip" /\ First(c)
    /\ pcap' = pcap \ {c}
    /\ gz' = [gz EXCEPT ![c] = "whole"]
    /\ queue' = queue \ {c}
    /\ UNCHANGED <<service, window, wake, last, pc, ts, index, ret, history, kills>>

GzipFails(c) ==
    /\ pc = "gzip" /\ First(c)
    /\ queue' = queue \ {c} /\ failures' = failures \union {"gzip"}
    /\ UNCHANGED <<service, window, wake, files, pc, ts, index, ret, stored, signalled, kills>>

PushFiles ==
    /\ pc = "gzip" /\ queue = {}
    /\ queue' = {c \in Captures : gz[c] # "none"}
    /\ index' = 0 /\ ret' = {}
    /\ pc' = "push"
    /\ UNCHANGED <<service, window, wake, files, ts, history, kills>>

SendFile(c) ==
    /\ pc = "push" /\ First(c) /\ c \notin TooLarge
    /\ stored' = stored \union {<<c, ts, index, gz[c]>>}
    /\ ret' = ret \union {c}
    /\ pc' = "remove"
    /\ UNCHANGED <<service, window, wake, files, ts, queue, index, signalled, failures, kills>>

\* send_file returns None, which is appended to ret like a path.
SendFileTooLarge(c) ==
    /\ pc = "push" /\ First(c) /\ c \in TooLarge
    /\ ret' = ret \union {c}
    /\ pc' = "remove"
    /\ UNCHANGED <<service, window, wake, files, ts, queue, index, history, kills>>

\* Mutant: the exception is swallowed and the file is removed.
SendFileIgnored(c) ==
    /\ pc = "push" /\ First(c)
    /\ pc' = "remove"
    /\ UNCHANGED <<service, window, wake, files, local, history, kills>>

\* send_file raises, though the file may have been stored: execute() is left,
\* and ret with it.
SendFileFails(c) ==
    /\ pc = "push" /\ First(c)
    /\ stored' \in {stored, stored \union {<<c, ts, index, gz[c]>>}}
    /\ failures' = failures \union {"call"} /\ Sleep
    /\ UNCHANGED <<service, window, files, ts, index, signalled, kills>>

Remove(c) ==
    /\ pc = "remove" /\ First(c)
    /\ gz' = [gz EXCEPT ![c] = "none"]
    /\ queue' = queue \ {c}
    /\ index' = index + 1
    /\ pc' = "push"
    /\ UNCHANGED <<service, window, wake, last, pcap, ts, ret, history, kills>>

\* Mutant: only the last path is signalled.
PushedLast ==
    /\ pc = "push" /\ queue = {}
    /\ IF service = "eta"
         THEN /\ pc' = "signal" /\ queue' = {c \in ret : \A d \in ret : d <= c}
              /\ UNCHANGED <<wake, ret>>
         ELSE Sleep
    /\ UNCHANGED <<service, window, files, ts, index, history, kills>>

Pushed ==
    /\ pc = "push" /\ queue = {}
    /\ IF service = "eta" THEN pc' = "signal" /\ queue' = ret /\ UNCHANGED <<wake, ret>> ELSE Sleep
    /\ UNCHANGED <<service, window, files, ts, index, history, kills>>

\* EtaPusher.execute signals the returned paths in order.
SendSignal(c) ==
    /\ pc = "signal" /\ First(c)
    /\ signalled' = signalled \union {c}
    /\ queue' = queue \ {c}
    /\ UNCHANGED <<service, window, wake, files, pc, ts, index, ret, stored, failures, kills>>

SendSignalFails(c) ==
    /\ pc = "signal" /\ First(c)
    /\ failures' = failures \union {"call"} /\ Sleep
    /\ UNCHANGED <<service, window, files, ts, index, stored, signalled, kills>>

Signalled ==
    /\ pc = "signal" /\ queue = {}
    /\ Sleep
    /\ UNCHANGED <<service, window, files, ts, index, history, kills>>

\* A kill while gzip runs leaves a torn .pcap.gz file beside the .pcap file.
Kill ==
    /\ pc # "down" /\ kills < MaxKills
    /\ kills' = kills + 1 /\ failures' = failures \union {"kill"}
    /\ gz' \in {gz} \union {[gz EXCEPT ![c] = "torn"] : c \in {d \in queue : pc = "gzip" /\ First(d)}}
    /\ pc' = "down" /\ queue' = {} /\ ret' = {}
    /\ UNCHANGED <<service, window, wake, last, pcap, ts, index, stored, signalled>>

Restart ==
    /\ pc = "down"
    /\ pc' = "asleep" /\ wake' = 0
    /\ UNCHANGED <<service, window, files, local, history, kills>>

Step(c) ==
    \/ Gzip(c) \/ GzipFails(c) \/ SendFile(c) \/ SendFileTooLarge(c) \/ SendFileFails(c)
    \/ Remove(c) \/ SendSignal(c) \/ SendSignalFails(c)

Execute ==
    CompressPcaps \/ PushFiles \/ Pushed \/ Signalled \/ \E c \in Captures : Step(c)

Next == Tick \/ Capture \/ Execute \/ Kill \/ Restart

Spec == Init /\ [][Next]_vars

\* The process runs and is restarted, and neither gzip nor the site fails for
\* ever on a capture they are asked about for ever.
FairSpec ==
    /\ Spec /\ WF_vars(Execute) /\ WF_vars(Restart) /\ WF_vars(Tick)
    /\ \A c \in Captures :
        SF_vars(Gzip(c)) /\ SF_vars(SendFile(c) \/ SendFileTooLarge(c))

-----------------------------------------------------------------------------
\* "Skip the file with the most recent timestamp; it's not finished yet": the
\* capture being written always keeps its .pcap file and is never compressed.
ActiveCaptureUntouched ==
    last > 0 => last \in pcap /\ gz[last] = "none" /\ (pc = "gzip" => last \notin queue)

\* A .pcap.gz file torn by a kill is made again before push_files sees it, so
\* long as gzip itself does not fail.
TornNeverPushed ==
    "gzip" \notin failures /\ pc \in {"push", "remove"} => \A c \in queue : gz[c] = "whole"

\* The ledger of Delivery.tla: a capture is accepted when it is begun, held while its
\* contents are on disk, and discarded when the site refused it and it is removed.
Held == pcap \union {c \in Captures : gz[c] = "whole"}
StoredWhole == {c \in Captures : \E s \in stored : s[1] = c /\ s[4] = "whole"}
Refused == {c \in TooLarge : c <= last} \ Held

Ledger == INSTANCE Delivery
    WITH Files <- Captures, accepted <- 1 .. last, held <- Held,
         delivered <- StoredWhole, discarded <- Refused

\* A capture is on disk until it has been stored, and not only what a kill left of
\* its .pcap.gz file, or refused as too large; and it is not held again after that.
KeepsLedger == Ledger!Spec

\* "Send signal should have been called for each file": while no call has
\* failed, every capture eta_pusher has stored and removed is signalled before
\* it sleeps.
StoredAreSignalled ==
    service = "eta" /\ pc = "asleep" /\ failures \subseteq {"gzip"} =>
        \A s \in stored : gz[s[1]] = "none" => s[1] \in signalled

\* Every finished capture at last leaves the capture directory (stated for eta:
\* the polls of pdns end with the bounded clock).
CapturesDrain ==
    \A c \in Captures : (service = "eta" /\ c < last) ~> (c \notin pcap /\ gz[c] = "none")
=============================================================================
