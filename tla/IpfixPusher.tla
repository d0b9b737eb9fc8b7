---------------------------- MODULE IpfixPusher ----------------------------
(***************************************************************************)
(* The IPFIX pusher of ipfix_pusher.py: a Pusher whose _process_files      *)
(* rewrites every input file of a completed bin in place, from SiLK flows  *)
(* to a gzipped CSV file, before the archive of the bin is written.        *)
(*                                                                         *)
(* A file f is worked on through f.tmp in the same directory, whose name   *)
(* begins like that of f: left behind, it is one more input file of the    *)
(* bin.  A file is what it holds, in form only: "flows" of SiLK, text      *)
(* "rows", the finished "csv", one without rows ("header"), the "torn"     *)
(* begin of one, or nothing ("empty").  IpfixRows has the rows.            *)
(***************************************************************************)
EXTENDS Pusher

CONSTANTS
    Name,      \* Name[f]: the place of f in the sorted directory
    Corrupt    \* files the SiLK tools may fail to read

ASSUME NameAssumption ==
    /\ Name \in [Files -> Int]
    /\ \A f, g \in Files : Name[f] = Name[g] => f = g

VARIABLES
    kind,       \* kind[f]: what the input file f holds, or held when it was removed
    tmp,        \* tmp[f]: what f.tmp holds
    stage,      \* where _process_files stands
    item,       \* file_path of _process_files
    processed,  \* the files it has rewritten in this execute()
    strays,     \* the .tmp files among the files of D_archive
    packed,     \* history: what f held when it was last put into an archive
    marred      \* history: files half rewritten, or rewritten, at a kill

work == <<stage, item, processed, strays>>
ipfix == <<kind, tmp, work, packed, marred>>
ipfixVars == <<vars, ipfix>>

IpfixInit ==
    /\ Init
    /\ kind = [f \in Files |-> "flows"] /\ tmp = [f \in Files |-> "none"]
    /\ stage = "next" /\ item \in Files /\ \A f \in Files : Name[item] <= Name[f]
    /\ processed = {} /\ strays = {}
    /\ packed = [f \in Files |-> "none"] /\ marred = {}

-----------------------------------------------------------------------------
(* _process_files, on the files of the oldest bin still to be archived.    *)

At(s) == pc = "open" /\ stage = s
Advance(s) == stage' = s /\ UNCHANGED <<vars, item, strays, packed, marred>>

\* Mutant: the files of every completed bin are rewritten before the first bin
\* is archived.
CopyOfAnyBin(f) ==
    /\ At("next")
    /\ \E b \in todo : f \in FileList(b) \ processed
    /\ \A g \in FileList(BinOf[f]) \ processed : Name[f] <= Name[g]
    /\ item \notin processed \intersect strays
    /\ item' = f /\ tmp' = [tmp EXCEPT ![f] = kind[f]]
    /\ stage' = "filter"
    /\ UNCHANGED <<vars, kind, processed, strays, packed, marred>>

\* copy(file_path, temp_path)
Copy(f) ==
    /\ At("next")
    /\ \E b \in todo : Oldest(todo, b) /\ f \in FileList(b) \ processed
    /\ \A g \in FileList(BinOf[f]) \ processed : Name[f] <= Name[g]
    /\ item \notin processed \intersect strays
    /\ item' = f /\ tmp' = [tmp EXCEPT ![f] = kind[f]]
    /\ stage' = "filter"
    /\ UNCHANGED <<vars, kind, processed, strays, packed, marred>>

\* What a SiLK tool leaves where it was to write: `good` if it can read its
\* input, else what was there or an empty file.
ToolWrites(in, good, old) ==
    (IF in = "flows" THEN {good} ELSE {})
      \union (IF in # "flows" \/ item \in Corrupt THEN {old, "empty"} ELSE {})

\* _filter_silk(temp_path, file_path); a failure is logged and ignored.
Filter ==
    /\ At("filter")
    /\ \E d \in ToolWrites(tmp[item], "flows", kind[item]) : kind' = [kind EXCEPT ![item] = d]
    /\ Advance("aggregate") /\ UNCHANGED <<tmp, processed>>

\* Mutant: the rows go to file_path, too.
AggregateInPlace ==
    /\ At("aggregate")
    /\ \E d \in ToolWrites(kind[item], "rows", tmp[item]) : kind' = [kind EXCEPT ![item] = d]
    /\ Advance("convert") /\ UNCHANGED <<tmp, processed>>

\* _aggregate_silk or _dump_silk(file_path, temp_path), likewise.
Aggregate ==
    /\ At("aggregate")
    /\ \E d \in ToolWrites(kind[item], "rows", tmp[item]) : tmp' = [tmp EXCEPT ![item] = d]
    /\ Advance("convert") /\ UNCHANGED <<kind, processed>>

\* _silk_to_csv: the file is truncated before the first row is read.
OpenCsv ==
    /\ At("convert")
    /\ kind' = [kind EXCEPT ![item] = "torn"]
    /\ Advance("rows") /\ UNCHANGED <<tmp, processed>>

\* Mutant: rows that are not text are skipped.
WriteAnyRows ==
    /\ At("rows")
    /\ kind' = [kind EXCEPT ![item] = IF tmp[item] = "rows" THEN "csv" ELSE "torn"]
    /\ Advance("cleanup") /\ UNCHANGED <<tmp, processed>>

WriteRows ==
    /\ At("rows") /\ tmp[item] \in {"rows", "empty"}
    /\ kind' = [kind EXCEPT ![item] = IF tmp[item] = "rows" THEN "csv" ELSE "header"]
    /\ Advance("cleanup") /\ UNCHANGED <<tmp, processed>>

\* remove(temp_path)
Cleanup ==
    /\ At("cleanup")
    /\ tmp' = [tmp EXCEPT ![item] = "none"]
    /\ processed' = processed \union {item}
    /\ Advance("next") /\ UNCHANGED kind

\* The files of which something is on disk that is not the original.
Touched == {f \in input : kind[f] # "flows" \/ tmp[f] # "none"}

EndOfProcess ==
    /\ stage' = "next" /\ processed' = {} /\ strays' = {}
    /\ UNCHANGED <<kind, tmp, item, packed>>

\* An exception that is not a RequestException ends the process: bytes that are
\* not text (UnicodeDecodeError), or a stray f.tmp, which was listed after f and
\* removed with f's own temporary file (FileNotFoundError).
Raises ==
    /\ \/ At("rows") /\ tmp[item] \notin {"rows", "empty"}
       \/ At("next") /\ item \in processed \intersect strays
    /\ LoseMemory /\ EndOfProcess /\ UNCHANGED marred
    /\ UNCHANGED <<clock, disk, history, faults>>

ProcessFiles ==
    \/ Filter \/ Aggregate \/ OpenCsv \/ WriteRows \/ Cleanup
    \/ \E f \in Files : Copy(f)

-----------------------------------------------------------------------------
(* The steps of Pusher, with what they mean for the files.                 *)

IpfixGetFileBins ==
    /\ GetFileBins
    /\ processed' = {} /\ strays' = {f \in input : tmp[f] # "none"}
    /\ UNCHANGED <<kind, tmp, stage, item, packed, marred>>

IpfixOpenArchive ==
    /\ At("next") /\ item \notin processed \intersect strays
    /\ OpenArchive
    /\ FileList(bin') \subseteq processed
    /\ UNCHANGED ipfix

IpfixWriteArchive ==
    /\ WriteArchive
    /\ packed' = [f \in Files |-> IF f \in content'[bin] THEN kind[f] ELSE packed[f]]
    /\ UNCHANGED <<kind, tmp, work, marred>>

IpfixKill == Kill /\ EndOfProcess /\ marred' = marred \union Touched

IpfixExecute ==
    \/ ProcessFiles \/ Raises \/ IpfixGetFileBins \/ IpfixOpenArchive \/ IpfixWriteArchive
    \/ /\ Heartbeat \/ HeartbeatFails \/ ArchiveDone \/ Send \/ \E f \in Files : RemoveFile(f)
       /\ UNCHANGED ipfix

IpfixNext == IpfixExecute \/ IpfixKill \/ ((Environment \/ Restart) /\ UNCHANGED ipfix)

IpfixSpec == IpfixInit /\ [][IpfixNext]_ipfixVars

\* The process is scheduled and restarted, time passes, and heartbeats do not
\* fail for ever.
IpfixFairSpec ==
    /\ IpfixSpec /\ WF_ipfixVars(IpfixExecute) /\ WF_ipfixVars(Restart /\ UNCHANGED ipfix)
    /\ WF_ipfixVars(Tick /\ UNCHANGED ipfix) /\ SF_ipfixVars(Heartbeat /\ UNCHANGED ipfix)

-----------------------------------------------------------------------------
\* "Combines IPFIX data into 10 minute segments": an archive holds converted
\* files only, whatever fails on the way, and one without its rows only if the
\* SiLK tools could not read a file of that bin, or a file of it can be stuck on the
\* disk after it was archived, or the process was killed while a file of that bin
\* was being rewritten or waited, rewritten, for its archive.
LossesHaveCauses ==
    \A f \in Files :
        /\ packed[f] \in {"none", "csv", "header"}
        /\ packed[f] = "header" =>
             \E g \in marred \union Corrupt \union (Stuck \intersect Files) : BinOf[g] = BinOf[f]

\* Every file of a completed bin is at last archived and removed, unless its bin
\* or an older one holds a file that was marred by a kill, that the SiLK tools
\* cannot read or that cannot be removed: such a bin may raise in every execute(),
\* and hold up all others.
FlowsDrain ==
    \A f \in Files : (f \in input /\ Completed(f)) ~>
        \/ f \notin input
        \/ \E g \in marred \union ((Corrupt \union Stuck) \intersect input) : BinOf[g] <= BinOf[f]
=============================================================================
