------------------------------- MODULE Pusher -------------------------------
(***************************************************************************)
(* The archive pusher of ona_service/pusher.py, run by Service.run.        *)
(*                                                                         *)
(* A capture program writes small files into input_dir; every poll the     *)
(* pusher sends a heartbeat, groups the files by the 10-minute bin their   *)
(* name gives, writes one tar archive per bin that is not the newest,      *)
(* removes the archived files, and then sends every archive it finds in    *)
(* output_dir and removes those the site has accepted.                     *)
(*                                                                         *)
(* Time is counted in 10-minute bins.  A file is one of Files and BinOf    *)
(* gives its bin; names that do not match file_fmt are ignored by the code *)
(* and have no counterpart here.  The file system, the site and the        *)
(* process supervisor are the environment.                                 *)
(***************************************************************************)
EXTENDS Integers, FiniteSets

CONSTANTS
    Files,        \* the input files that will ever be written
    BinOf,        \* the 10-minute bin of each file
    LastBin,      \* bound: bins are 0 .. LastBin
    MaxClock,     \* bound: the clock stops at this bin
    MaxBacklog,   \* MAX_BACKLOG_DELTA, in bins
    MaxLag,       \* a file may appear up to MaxLag bins after a newer one
    Unreadable,   \* files tarball.add may fail on with OSError
    Stuck,        \* files and bins (archives) whose removal may fail
    Refused,      \* bins whose archive the site answers with errors for ever
    MaxKills,     \* bound on kills of the process
    MaxPowerCuts  \* bound on power cuts of the host

Bins == 0 .. LastBin

ASSUME FilesAssumption == BinOf \in [Files -> Bins]
ASSUME BoundsAssumption ==
    /\ LastBin \in Nat /\ MaxClock \in Nat /\ MaxBacklog \in Nat
    /\ MaxLag \in Nat /\ MaxKills \in Nat /\ MaxPowerCuts \in Nat

VARIABLES
    clock,      \* the current 10-minute bin
    written,    \* history: files the capture program has written
    input,      \* files in input_dir
    form,       \* form[b]: state of the archive of bin b in output_dir
    content,    \* content[b]: the files that archive holds
    pc,         \* where execute() stands
    now,        \* the `now` argument of the current execute()
    batch,      \* D_archive: the files seen by _get_file_bins
    todo,       \* bins of file_bins still to be archived
    bin,        \* the bin being archived or the archive being sent
    removing,   \* files of file_list still to be removed
    outbox,     \* archives still to be considered by _send_archives
    signalled,  \* history: files whose archive was uploaded and signalled
    expired,    \* history: files whose archive was removed for its age
    kills, powerCuts

disk == <<input, form, content>>
local == <<pc, now, batch, todo, bin, removing, outbox>>
history == <<written, signalled, expired>>
faults == <<kills, powerCuts>>
vars == <<clock, disk, local, history, faults>>

Forms == {"none", "partial", "whole", "empty"}
Steps == {"down", "asleep", "scan", "open", "write", "remove",
          "send", "signal", "unlink"}

TypeOK ==
    /\ clock \in 0 .. MaxClock /\ now \in 0 .. MaxClock
    /\ written \subseteq Files /\ input \subseteq written
    /\ form \in [Bins -> Forms] /\ content \in [Bins -> SUBSET Files]
    /\ pc \in Steps /\ bin \in Bins
    /\ batch \subseteq Files /\ removing \subseteq Files
    /\ todo \subseteq Bins /\ outbox \subseteq Bins
    /\ signalled \subseteq Files /\ expired \subseteq Files
    /\ kills \in 0 .. MaxKills /\ powerCuts \in 0 .. MaxPowerCuts

Init ==
    /\ clock = 0 /\ now = 0
    /\ written = {} /\ input = {} /\ signalled = {} /\ expired = {}
    /\ form = [b \in Bins |-> "none"] /\ content = [b \in Bins |-> {}]
    /\ pc = "asleep" /\ bin = 0
    /\ batch = {} /\ todo = {} /\ removing = {} /\ outbox = {}
    /\ kills = 0 /\ powerCuts = 0

-----------------------------------------------------------------------------
(* The environment: time, and the capture program.                         *)

Tick ==
    /\ clock < MaxClock
    /\ clock' = clock + 1
    /\ UNCHANGED <<disk, local, history, faults>>

\* A file is written once its bin has begun, and at most MaxLag bins after a
\* file of a newer bin: with MaxLag = 0 files appear in the order of their bins.
Arrive(f) ==
    /\ f \notin written
    /\ BinOf[f] <= clock
    /\ \A g \in written : BinOf[g] <= BinOf[f] + MaxLag
    /\ written' = written \union {f}
    /\ input' = input \union {f}
    /\ UNCHANGED <<clock, form, content, local, signalled, expired, faults>>

-----------------------------------------------------------------------------
(* execute(): heartbeat, then the bins of the input files.                 *)

\* Mutant: the exception ends the loop of Service.run.
AbortStops == pc' = "stopped"

\* Any RequestException leaves execute(); Service.run logs it and sleeps.
Abort == pc' = "asleep"

Heartbeat ==
    /\ pc = "asleep"
    /\ now' = clock
    /\ pc' = "scan"
    /\ UNCHANGED <<clock, disk, batch, todo, bin, removing, outbox, history, faults>>

\* send_heartbeat raises after its last attempt: nothing else is done.
HeartbeatFails ==
    /\ pc = "asleep"
    /\ now' = clock
    /\ Abort
    /\ UNCHANGED <<clock, disk, batch, todo, bin, removing, outbox, history, faults>>

\* Mutants: no [:-1], so the newest bin counts as completed; and one bin too few.
BinsOf(S) == {BinOf[f] : f \in S}
BinsButTwo(S) == {b \in BinsOf(S) : \E g, h \in S : BinOf[h] > BinOf[g] /\ BinOf[g] > b}

\* sorted(D_archive.keys())[:-1]: every bin of S but the newest.
CompletedBins(S) ==
    {b \in Bins : /\ \E f \in S : BinOf[f] = b
                  /\ \E g \in S : BinOf[g] > b}

GetFileBins ==
    /\ pc = "scan"
    /\ batch' = input
    /\ todo' = CompletedBins(input)
    /\ pc' = "open"
    /\ UNCHANGED <<clock, disk, now, bin, removing, outbox, history, faults>>

-----------------------------------------------------------------------------
(* _create_archives: bins in ascending order.                              *)

Oldest(S, b) == b \in S /\ \A c \in S : b <= c

FileList(b) == {f \in batch : BinOf[f] = b}

\* tar_open(archive_path, 'w'): an archive of the same name is truncated.
OpenArchive ==
    /\ pc = "open"
    /\ \E b \in todo :
        /\ Oldest(todo, b)
        /\ bin' = b
        /\ todo' = todo \ {b}
        /\ form' = [form EXCEPT ![b] = "partial"]
        /\ content' = [content EXCEPT ![b] = {}]
    /\ pc' = "write"
    /\ UNCHANGED <<clock, input, now, batch, removing, outbox, history, faults>>

\* Mutant: the first file that cannot be added ends the archive.
WriteArchiveStops ==
    /\ pc = "write"
    /\ \E skipped \in SUBSET (FileList(bin) \intersect Unreadable) :
        content' = [content EXCEPT ![bin] = IF skipped = {} THEN FileList(bin) ELSE {}]
    /\ form' = [form EXCEPT ![bin] = "whole"]
    /\ removing' = FileList(bin)
    /\ pc' = "remove"
    /\ UNCHANGED <<clock, input, now, batch, todo, bin, outbox, history, faults>>

\* The files are added and the archive is closed.  A file that cannot be
\* added is skipped with a warning; the whole list is removed afterwards.
WriteArchive ==
    /\ pc = "write"
    /\ \E skipped \in SUBSET (FileList(bin) \intersect Unreadable) :
        content' = [content EXCEPT ![bin] = FileList(bin) \ skipped]
    /\ form' = [form EXCEPT ![bin] = "whole"]
    /\ removing' = FileList(bin)
    /\ pc' = "remove"
    /\ UNCHANGED <<clock, input, now, batch, todo, bin, outbox, history, faults>>

\* _remove_file, one file at a time; an OSError is logged and ignored.
RemoveFile(f) ==
    /\ pc = "remove" /\ f \in removing
    /\ \/ input' = input \ {f}
       \/ f \in Stuck /\ input' = input
    /\ removing' = removing \ {f}
    /\ UNCHANGED <<clock, form, content, pc, now, batch, todo, bin, outbox, history, faults>>

ArchiveDone ==
    /\ pc = "remove" /\ removing = {}
    /\ pc' = "open"
    /\ UNCHANGED <<clock, disk, now, batch, todo, bin, removing, outbox, history, faults>>

-----------------------------------------------------------------------------
(* _send_archives: every archive in output_dir, in ascending order.        *)

\* Mutant: archives are sent while bins still wait to be archived.
ListArchivesEarly ==
    /\ pc = "open"
    /\ outbox' = {b \in Bins : form[b] # "none"}
    /\ pc' = "send"
    /\ UNCHANGED <<clock, disk, now, batch, todo, bin, removing, history, faults>>

ListArchives ==
    /\ pc = "open" /\ todo = {}
    /\ outbox' = {b \in Bins : form[b] # "none"}
    /\ pc' = "send"
    /\ UNCHANGED <<clock, disk, now, batch, todo, bin, removing, history, faults>>

\* A zero-length archive is skipped, and stays.
SkipEmpty(b) ==
    /\ pc = "send" /\ Oldest(outbox, b)
    /\ form[b] = "empty"
    /\ outbox' = outbox \ {b}
    /\ UNCHANGED <<clock, disk, pc, now, batch, todo, bin, removing, history, faults>>

\* Mutant: the backlog is kept for ever.
NeverTooOld(b) == FALSE

TooOld(b) == now - b >= MaxBacklog

\* An archive of MAX_BACKLOG_DELTA or more is removed unsent.
Expire(b) ==
    /\ pc = "send" /\ Oldest(outbox, b)
    /\ form[b] # "empty" /\ TooOld(b)
    /\ outbox' = outbox \ {b}
    /\ \/ /\ form' = [form EXCEPT ![b] = "none"]
          /\ content' = [content EXCEPT ![b] = {}]
          /\ expired' = expired \union content[b]
       \/ b \in Stuck /\ UNCHANGED <<form, content, expired>>
    /\ UNCHANGED <<clock, input, pc, now, batch, todo, bin, removing, written, signalled, faults>>

Sendable(b) ==
    /\ pc = "send" /\ Oldest(outbox, b)
    /\ form[b] # "empty" /\ ~TooOld(b)

\* Mutant: the archive is removed without waiting for its signal.
UploadOnly(b) ==
    /\ Sendable(b) /\ b \notin Refused
    /\ bin' = b
    /\ pc' = "unlink"
    /\ UNCHANGED <<clock, disk, now, batch, todo, removing, outbox, history, faults>>

\* send_file returned a path: the archive is stored, its signal is next.
Upload(b) ==
    /\ Sendable(b) /\ b \notin Refused
    /\ bin' = b
    /\ pc' = "signal"
    /\ UNCHANGED <<clock, disk, now, batch, todo, removing, outbox, history, faults>>

\* send_file returned None (413): the archive is kept, the next one is tried.
UploadTooLarge(b) ==
    /\ Sendable(b) /\ b \notin Refused
    /\ outbox' = outbox \ {b}
    /\ UNCHANGED <<clock, disk, pc, now, batch, todo, bin, removing, history, faults>>

\* send_file raised after its last attempt: the archives after b wait too.
UploadFails(b) ==
    /\ Sendable(b)
    /\ Abort
    /\ outbox' = {}
    /\ UNCHANGED <<clock, disk, now, batch, todo, bin, removing, history, faults>>

Signal ==
    /\ pc = "signal"
    /\ signalled' = signalled \union content[bin]
    /\ pc' = "unlink"
    /\ UNCHANGED <<clock, disk, now, batch, todo, bin, removing, outbox, written, expired, faults>>

\* The signal raises; the site may have received it all the same.
SignalFails ==
    /\ pc = "signal"
    /\ signalled' \in {signalled, signalled \union content[bin]}
    /\ Abort
    /\ outbox' = {}
    /\ UNCHANGED <<clock, disk, now, batch, todo, bin, removing, written, expired, faults>>

RemoveArchive ==
    /\ pc = "unlink"
    /\ \/ /\ form' = [form EXCEPT ![bin] = "none"]
          /\ content' = [content EXCEPT ![bin] = {}]
       \/ bin \in Stuck /\ UNCHANGED <<form, content>>
    /\ outbox' = outbox \ {bin}
    /\ pc' = "send"
    /\ UNCHANGED <<clock, input, now, batch, todo, bin, removing, history, faults>>

Finish ==
    /\ pc = "send" /\ outbox = {}
    /\ pc' = "asleep"
    /\ UNCHANGED <<clock, disk, now, batch, todo, bin, removing, outbox, history, faults>>

-----------------------------------------------------------------------------
(* Faults.  The process keeps nothing across a restart.                    *)

LoseMemory ==
    /\ pc' = "down"
    /\ batch' = {} /\ todo' = {} /\ removing' = {} /\ outbox' = {}
    /\ UNCHANGED <<now, bin>>

Kill ==
    /\ pc # "down" /\ kills < MaxKills
    /\ kills' = kills + 1
    /\ LoseMemory
    /\ UNCHANGED <<clock, disk, history, powerCuts>>

\* Nothing is synced to the disk: after a power cut an archive may be found
\* with no data.
PowerCut ==
    /\ powerCuts < MaxPowerCuts
    /\ powerCuts' = powerCuts + 1
    /\ \E T \in SUBSET {b \in Bins : form[b] # "none"} :
        /\ form' = [b \in Bins |-> IF b \in T THEN "empty" ELSE form[b]]
        /\ content' = [b \in Bins |-> IF b \in T THEN {} ELSE content[b]]
    /\ LoseMemory
    /\ UNCHANGED <<clock, input, history, kills>>

\* supervisord: autorestart=true.
Restart ==
    /\ pc = "down"
    /\ pc' = "asleep"
    /\ UNCHANGED <<clock, disk, now, batch, todo, bin, removing, outbox, history, faults>>

-----------------------------------------------------------------------------
Create ==
    OpenArchive \/ WriteArchive \/ ArchiveDone \/ \E f \in Files : RemoveFile(f)

Send ==
    \/ ListArchives \/ Signal \/ SignalFails \/ RemoveArchive \/ Finish
    \/ \E b \in Bins : \/ SkipEmpty(b) \/ Expire(b) \/ Upload(b)
                       \/ UploadTooLarge(b) \/ UploadFails(b)

Execute == Heartbeat \/ HeartbeatFails \/ GetFileBins \/ Create \/ Send

Environment == Tick \/ \E f \in Files : Arrive(f)

Faults == Kill \/ PowerCut \/ Restart

Next == Execute \/ Environment \/ Faults

Spec == Init /\ [][Next]_vars

\* The process is scheduled and restarted, time passes, and heartbeats do not
\* fail for ever.
HeartbeatSpec ==
    Spec /\ WF_vars(Execute) /\ WF_vars(Restart) /\ WF_vars(Tick) /\ SF_vars(Heartbeat)

\* Also, a site that is asked for ever about an archive it does not refuse
\* accepts it some day.
FairSpec ==
    HeartbeatSpec /\ \A b \in Bins : SF_vars(Upload(b)) /\ SF_vars(bin = b /\ Signal)

-----------------------------------------------------------------------------
(* Properties.                                                             *)

\* What _send_archives is about to send is never the torso of an archive whose
\* writing was cut short: the interrupted bin still has its input files and a
\* newer bin, so _create_archives writes it again before anything is sent.
OnlyWholeArchivesSent ==
    pc \in {"send", "signal", "unlink"} => \A b \in Bins : form[b] # "partial"

\* "Don't touch the most recent 10-minute bin; it may still be active": an
\* input file goes only while a file of a newer bin is there.
NewestBinUntouched ==
    [][\A f \in input \ input' : \E g \in input' : BinOf[g] > BinOf[f]]_vars

\* The files the sensor still has: in input_dir or in a readable archive.
Held == input \union UNION {content[b] : b \in Bins}

\* An unreadable file costs only itself: every other file the capture program
\* wrote is still held, or its archive was uploaded and signalled, or was given
\* up for its age.
NoFileLost == written \ Unreadable \subseteq Held \union signalled \union expired

\* The pusher keeps the ledger of Delivery for the files it can read: what it
\* holds of them shrinks only by files that were signalled before, or that expire
\* in that very step.
Ledger == INSTANCE Delivery WITH
    Files <- Files \ Unreadable, accepted <- written \ Unreadable,
    held <- Held \ Unreadable, delivered <- signalled \ Unreadable,
    discarded <- expired \ Unreadable
KeepsLedger == Ledger!Spec

\* Once a file of a newer bin has been written, a readable file is at last signalled
\* or expired: no heartbeat failure, refused archive or restart blocks it for ever.
Completed(f) == \E g \in written : BinOf[g] > BinOf[f]
EveryFileLeaves ==
    \A f \in Files \ Unreadable :
        (f \in written /\ Completed(f)) ~> (f \in signalled \union expired)

\* Kills, late files and a site that takes no archive cannot wedge the archiver:
\* an input file of a completed bin that can be removed at all is at last taken
\* out of input_dir.
InputDrains ==
    \A f \in Files \ Stuck : (f \in input /\ Completed(f)) ~> (f \notin input)
=============================================================================
