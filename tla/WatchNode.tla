----------------------------- MODULE WatchNode -----------------------------
(***************************************************************************)
(* The WatchNode of log_watcher.py: it collects lines and uploads them at  *)
(* most once per SEND_DELTA.  LogNode and JournalNode say where the lines  *)
(* come from; a line is a number.                                          *)
(***************************************************************************)
EXTENDS Integers, Sequences, SequencesExt

VARIABLES
    pc,          \* where check_data stands
    data,        \* self.data: lines collected and not yet checkpointed
    due,         \* send_delta has passed since last_send
    signalled,   \* history: lines uploaded and signalled
    refused,     \* history: lines whose batch was too large
    settled      \* history: lines dropped from self.data by a checkpoint

batch == <<data, due>>
outcome == <<signalled, refused, settled>>
watch == <<pc, batch, outcome>>

WatchInit == pc = "asleep" /\ data = <<>> /\ due = FALSE /\ signalled = {} /\ refused = {} /\ settled = {}

TimePasses == ~due /\ due' = TRUE /\ UNCHANGED <<pc, data, outcome>>

-----------------------------------------------------------------------------
(* flush_data.                                                             *)

\* Collect, and decide.
Collect(lines) ==
    /\ data' = data \o lines
    /\ pc' = IF data' = <<>> \/ ~due THEN "flushed" ELSE "send"
    /\ UNCHANGED <<due, outcome>>

\* Mutant: last_send is set and the data is kept.
CheckpointKeeps == due' = FALSE /\ settled' = settled \union Range(data) /\ UNCHANGED data

Checkpoint == due' = FALSE /\ settled' = settled \union Range(data) /\ data' = <<>>

Upload ==
    /\ pc = "send"
    /\ pc' = "signal"
    /\ UNCHANGED <<batch, outcome>>

\* 413: send_file returns None; there is nothing to signal, and the data goes.
UploadTooLarge ==
    /\ pc = "send"
    /\ refused' = refused \union Range(data)
    /\ Checkpoint
    /\ pc' = "flushed"
    /\ UNCHANGED signalled

\* The exception leaves check_data, and LogWatcher.execute.
UploadFails ==
    /\ pc = "send"
    /\ pc' = "asleep"
    /\ UNCHANGED <<batch, outcome>>

Signal ==
    /\ pc = "signal"
    /\ signalled' = signalled \union Range(data)
    /\ Checkpoint
    /\ pc' = "flushed"
    /\ UNCHANGED refused

\* Mutant: the data is dropped although the signal failed.
SignalFailsDrops ==
    /\ pc = "signal"
    /\ Checkpoint
    /\ pc' = "asleep"
    /\ UNCHANGED <<signalled, refused>>

SignalFails ==
    /\ pc = "signal"
    /\ signalled' \in {signalled, signalled \union Range(data)}
    /\ pc' = "asleep"
    /\ UNCHANGED <<batch, refused, settled>>

FlushData == Upload \/ UploadTooLarge \/ UploadFails \/ Signal \/ SignalFails

\* The process ends: nothing is kept.
Forget == pc' = "down" /\ data' = <<>> /\ due' = FALSE /\ UNCHANGED outcome
=============================================================================
