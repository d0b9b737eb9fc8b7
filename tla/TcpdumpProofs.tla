--------------------------- MODULE TcpdumpProofs ---------------------------
(***************************************************************************)
(* Theorems about TcpdumpPusher, for both services and every number of     *)
(* captures, of windows and of kills.                                      *)
(***************************************************************************)
EXTENDS TcpdumpPusher, TLAPS

\* Every action of the next-state relation, for the case splits below.
LEMMA NextCases ==
    ASSUME [Next]_vars
    PROVE  \/ Tick \/ Capture \/ Kill \/ Restart \/ CompressPcaps \/ PushFiles \/ Pushed \/ Signalled
           \/ \E c \in Captures : \/ Gzip(c) \/ GzipFails(c) \/ SendFile(c) \/ SendFileTooLarge(c)
                                  \/ SendFileFails(c) \/ Remove(c) \/ SendSignal(c)
                                  \/ SendSignalFails(c)
           \/ UNCHANGED vars
  BY DEF Next, Execute, Step

-----------------------------------------------------------------------------
(* The files.  A capture that is not yet begun has none; what is listed    *)
(* for gzip has a .pcap file; a torn .pcap.gz file lies beside one.        *)

FilesInv ==
    /\ last \in 0 .. MaxCaptures /\ pcap \subseteq 1 .. last
    /\ gz \in [Captures -> {"none", "torn", "whole"}]
    /\ \A c \in Captures : c > last => gz[c] = "none"
    /\ \A c \in Captures : gz[c] = "torn" => c \in pcap

QueueInv ==
    /\ queue \subseteq Captures /\ ret \subseteq Captures
    /\ pc = "gzip" => queue \subseteq pcap
    /\ last > 0 => last \in pcap /\ gz[last] = "none" /\ (pc = "gzip" => last \notin queue)

LEMMA FilesInit == Init => FilesInv /\ QueueInv
  BY BoundsAssumption DEF Init, FilesInv, QueueInv, Captures

\* One step per action that touches a file or the list at hand.
LEMMA FilesStep == FilesInv /\ QueueInv /\ [Next]_vars => FilesInv' /\ QueueInv'
  <1> SUFFICES ASSUME FilesInv, QueueInv, [Next]_vars PROVE FilesInv' /\ QueueInv'
    OBVIOUS
  <1>1. /\ last \in 0 .. MaxCaptures /\ MaxCaptures \in Nat
        /\ pcap \subseteq 1 .. last /\ queue \subseteq Captures /\ ret \subseteq Captures
        /\ Captures = 1 .. MaxCaptures
    BY BoundsAssumption DEF FilesInv, QueueInv, Captures
  <1>2. CASE Capture
    <2>1. /\ last < MaxCaptures /\ last' = last + 1 /\ pcap' = pcap \union {last + 1}
          /\ UNCHANGED <<gz, pc, queue, ret>>
      BY <1>2 DEF Capture, local
    <2>2. /\ last' \in 1 .. MaxCaptures /\ pcap' \subseteq 1 .. last' /\ last' \in pcap'
          /\ last' \in Captures /\ last' > last
      BY <1>1, <2>1
    <2>3. pc = "gzip" => last' \notin queue
      BY <1>1, <2>1 DEF QueueInv
    <2>4. \A c \in Captures : c > last' => c > last
      BY <1>1, <2>1
    <2> QED
      BY <1>1, <2>1, <2>2, <2>3, <2>4 DEF FilesInv, QueueInv
  <1>3. CASE CompressPcaps
    <2>1. queue' = Finished /\ UNCHANGED <<last, pcap, gz, ret>>
      BY <1>3 DEF CompressPcaps, files
    <2>2. Finished \subseteq pcap /\ last \notin Finished /\ Finished \subseteq Captures
      <3>1. \A d \in pcap : d \in Captures /\ ~ (d > last)
        BY <1>1
      <3> QED
        BY <3>1 DEF Finished
    <2> QED
      BY <2>1, <2>2 DEF FilesInv, QueueInv
  <1>4. ASSUME NEW c \in Captures, Gzip(c) PROVE FilesInv' /\ QueueInv'
    <2>1. /\ c \in queue /\ pc = "gzip" /\ c \in pcap /\ c <= last
          /\ pcap' = pcap \ {c} /\ gz' = [gz EXCEPT ![c] = "whole"] /\ queue' = queue \ {c}
          /\ UNCHANGED <<last, pc, ret>>
      BY <1>1, <1>4 DEF Gzip, First, QueueInv
    <2>2. last > 0 => last # c
      BY <2>1 DEF QueueInv
    <2> QED
      BY <1>1, <2>1, <2>2 DEF FilesInv, QueueInv
  <1>5. ASSUME NEW c \in Captures, Remove(c) PROVE FilesInv' /\ QueueInv'
    <2>1. /\ gz' = [gz EXCEPT ![c] = "none"] /\ queue' = queue \ {c} /\ pc' = "push"
          /\ UNCHANGED <<last, pcap, ret>>
      BY <1>5 DEF Remove
    <2> QED
      BY <1>1, <2>1 DEF FilesInv, QueueInv
  <1>6. CASE Kill
    <2>1. /\ gz' \in {gz} \union {[gz EXCEPT ![c] = "torn"] : c \in {d \in queue : pc = "gzip" /\ First(d)}}
          /\ queue' = {} /\ ret' = {} /\ pc' = "down" /\ UNCHANGED <<last, pcap>>
      BY <1>6 DEF Kill
    <2>2. CASE gz' = gz
      BY <1>1, <2>1, <2>2 DEF FilesInv, QueueInv
    <2>3. ASSUME NEW c \in queue, pc = "gzip", gz' = [gz EXCEPT ![c] = "torn"]
          PROVE  FilesInv' /\ QueueInv'
      <3>1. c \in pcap /\ c <= last /\ c \in Captures /\ (last > 0 => last # c)
        BY <1>1, <2>3 DEF QueueInv
      <3> QED
        BY <1>1, <2>1, <2>3, <3>1 DEF FilesInv, QueueInv
    <2> QED
      BY <2>1, <2>2, <2>3
  <1>7. CASE /\ UNCHANGED <<last, pcap, gz>> /\ pc' # "gzip" /\ queue' \subseteq Captures /\ ret' \subseteq Captures
    BY <1>7 DEF FilesInv, QueueInv
  <1>8. CASE /\ UNCHANGED <<last, pcap, gz, pc>> /\ queue' \subseteq queue /\ ret' \subseteq Captures
    BY <1>8 DEF FilesInv, QueueInv
  <1>9. CASE PushFiles \/ Pushed \/ Signalled \/ Restart \/ Tick \/ UNCHANGED vars
    BY <1>1, <1>7, <1>8, <1>9
    DEF PushFiles, Pushed, Signalled, Restart, Tick, vars, Sleep, files, local
  <1> QED
    BY <1>1, <1>2, <1>3, <1>4, <1>5, <1>6, <1>7, <1>8, <1>9, NextCases
    DEF GzipFails, SendFile, SendFileTooLarge, SendFileFails, SendSignal, SendSignalFails, Sleep,
        files

\* The capture being written always keeps its .pcap file, and is never compressed.
THEOREM ActiveIsUntouched == Spec => []ActiveCaptureUntouched
  <1>1. QueueInv => ActiveCaptureUntouched
    BY DEF QueueInv, ActiveCaptureUntouched
  <1> QED
    BY <1>1, FilesInit, FilesStep, PTL DEF Spec

-----------------------------------------------------------------------------
(* The torn files.  While gzip does not fail, one that a kill has left is  *)
(* listed again before gzip runs, and is replaced before anything is       *)
(* pushed.                                                                 *)

TornInv ==
    "gzip" \notin failures =>
        /\ pc = "gzip" => \A c \in Captures : gz[c] = "torn" => c \in queue
        /\ pc \in {"push", "remove", "signal"} => \A c \in Captures : gz[c] # "torn"
        /\ pc \in {"push", "remove"} => \A c \in queue : gz[c] # "none"

LEMMA TornStep == FilesInv /\ QueueInv /\ TornInv /\ [Next]_vars => TornInv'
  <1> SUFFICES ASSUME FilesInv, QueueInv, TornInv, [Next]_vars, "gzip" \notin failures' PROVE TornInv'
    BY DEF TornInv
  <1>1. "gzip" \notin failures
    BY NextCases
    DEF Capture, CompressPcaps, PushFiles, Pushed, Signalled, Restart, Tick, Kill, Gzip, GzipFails,
        SendFile, SendFileTooLarge, SendFileFails, Remove, SendSignal, SendSignalFails, vars, history
  <1>2. CASE CompressPcaps
    <2>1. queue' = Finished /\ gz' = gz /\ pc' = "gzip"
      BY <1>2 DEF CompressPcaps, files
    <2>2. ASSUME NEW c \in Captures, gz[c] = "torn" PROVE c \in Finished
      <3>1. c \in pcap /\ c \in 1 .. last /\ last \in Nat
        <4>1. c \in pcap /\ last \in Nat /\ pcap \subseteq 1 .. last
          BY <2>2, BoundsAssumption DEF FilesInv
        <4> QED
          BY <4>1
      <3>2. last \in pcap /\ c # last
        BY <2>2, <3>1 DEF QueueInv
      <3> QED
        BY <3>1, <3>2 DEF Finished
    <2> QED
      BY <2>1, <2>2 DEF TornInv
  <1>3. ASSUME NEW c \in Captures, Gzip(c) PROVE TornInv'
    <2>1. pc = "gzip" /\ gz' = [gz EXCEPT ![c] = "whole"] /\ queue' = queue \ {c} /\ pc' = pc
      BY <1>3 DEF Gzip
    <2> QED
      BY <1>1, <2>1 DEF TornInv, FilesInv
  <1>4. CASE PushFiles
    BY <1>1, <1>4 DEF PushFiles, files, TornInv
  <1>5. ASSUME NEW c \in Captures, Remove(c) PROVE TornInv'
    <2>1. pc = "remove" /\ gz' = [gz EXCEPT ![c] = "none"] /\ queue' = queue \ {c} /\ pc' = "push"
      BY <1>5 DEF Remove
    <2> QED
      BY <1>1, <2>1 DEF TornInv, FilesInv, QueueInv
  <1>6. CASE pc' \in {"asleep", "down"}
    BY <1>6 DEF TornInv
  <1>7. CASE /\ gz' = gz /\ pc \in {"push", "remove", "signal"}
             /\ \/ pc' = "signal"
                \/ pc' \in {"push", "remove"} /\ pc # "signal" /\ queue' = queue
    BY <1>1, <1>7 DEF TornInv
  <1>8. CASE UNCHANGED <<gz, pc, queue>>
    BY <1>1, <1>8 DEF TornInv
  <1> QED
    BY <1>2, <1>3, <1>4, <1>5, <1>6, <1>7, <1>8, NextCases
    DEF Capture, Pushed, Signalled, Restart, Tick, Kill, GzipFails,
        SendFile, SendFileTooLarge, SendFileFails, SendSignal, SendSignalFails, vars, Sleep, files,
        local

\* No .pcap.gz file that a kill has torn is pushed, so long as gzip does not fail.
THEOREM TornIsMadeAgain == Spec => []TornNeverPushed
  <1>1. Init => TornInv
    BY DEF Init, TornInv
  <1>2. FilesInv /\ QueueInv /\ TornInv => TornNeverPushed
    BY DEF FilesInv, QueueInv, TornInv, TornNeverPushed
  <1> QED
    BY <1>1, <1>2, FilesInit, FilesStep, TornStep, PTL DEF Spec

-----------------------------------------------------------------------------
(* What has become of a capture: it is on disk, or with the site, or       *)
(* refused; one about to be removed is no longer needed.                   *)

Delivered(c) == c \in TooLarge \/ \E s \in stored : s[1] = c /\ s[4] = "whole"

NoCaptureLost ==
    \A c \in 1 .. last : c \in pcap \/ gz[c] = "whole" \/ Delivered(c)

LostInv ==
    /\ NoCaptureLost
    /\ pc = "remove" => \A c \in queue : First(c) => gz[c] # "whole" \/ Delivered(c)

LEMMA LostStep == FilesInv /\ QueueInv /\ LostInv /\ [Next]_vars => LostInv'
  <1> SUFFICES ASSUME FilesInv, QueueInv, LostInv, [Next]_vars PROVE LostInv'
    OBVIOUS
  <1>1. /\ last \in Nat /\ \A c \in 1 .. last : c \in Captures
        /\ gz \in [Captures -> {"none", "torn", "whole"}]
    BY BoundsAssumption DEF FilesInv, Captures
  <1>2. stored \subseteq stored'
    BY NextCases
    DEF Capture, CompressPcaps, PushFiles, Pushed, Signalled, Restart, Tick, Kill, Gzip, GzipFails,
        SendFile, SendFileTooLarge, SendFileFails, Remove, SendSignal, SendSignalFails, vars, history
  <1>3. \A c : Delivered(c) => Delivered(c)'
    BY <1>2 DEF Delivered
  <1>4. \A c \in 1 .. last : c \in pcap \/ gz[c] = "whole" \/ Delivered(c)
    BY DEF LostInv, NoCaptureLost, Delivered
  <1>5. NoCaptureLost'
    <2> SUFFICES \A c \in 1 .. last' : c \in pcap' \/ gz'[c] = "whole" \/ Delivered(c)'
      BY DEF NoCaptureLost, Delivered
    <2>1. CASE Capture
      <3>1. last' = last + 1 /\ pcap' = pcap \union {last + 1} /\ gz' = gz
        BY <2>1 DEF Capture
      <3>2. \A c \in 1 .. last' : c = last + 1 \/ c \in 1 .. last
        BY <1>1, <3>1
      <3> QED
        BY <1>3, <1>4, <3>1, <3>2
    <2>2. ASSUME NEW d \in Captures, Gzip(d)
          PROVE  \A c \in 1 .. last' : c \in pcap' \/ gz'[c] = "whole" \/ Delivered(c)'
      <3>1. pcap' = pcap \ {d} /\ gz' = [gz EXCEPT ![d] = "whole"] /\ last' = last
        BY <2>2 DEF Gzip
      <3> QED
        BY <1>1, <1>3, <1>4, <3>1
    <2>3. ASSUME NEW d \in Captures, Remove(d)
          PROVE  \A c \in 1 .. last' : c \in pcap' \/ gz'[c] = "whole" \/ Delivered(c)'
      <3>1. /\ pcap' = pcap /\ gz' = [gz EXCEPT ![d] = "none"] /\ last' = last
            /\ gz[d] # "whole" \/ Delivered(d)
        BY <2>3 DEF Remove, LostInv, First
      <3> QED
        BY <1>1, <1>3, <1>4, <3>1
    <2>4. CASE Kill
      <3>1. /\ gz' \in {gz} \union {[gz EXCEPT ![c] = "torn"] : c \in {d \in queue : pc = "gzip" /\ First(d)}}
            /\ pcap' = pcap /\ last' = last
        BY <2>4 DEF Kill
      <3>2. \A c \in 1 .. last : c \notin pcap => gz'[c] = gz[c]
        BY <1>1, <3>1 DEF QueueInv
      <3> QED
        BY <1>3, <1>4, <3>1, <3>2
    <2>5. CASE UNCHANGED <<last, pcap, gz>>
      BY <1>3, <1>4, <2>5
    <2> QED
      BY <2>1, <2>2, <2>3, <2>4, <2>5, NextCases
      DEF CompressPcaps, PushFiles, Pushed, Signalled, Restart, Tick, GzipFails, SendFile,
          SendFileTooLarge, SendFileFails, SendSignal, SendSignalFails, vars, files
  <1>6. pc' = "remove" => \A c \in queue' : First(c)' => gz'[c] # "whole" \/ Delivered(c)'
    <2>1. ASSUME NEW d \in Captures, SendFile(d) \/ SendFileTooLarge(d)
          PROVE  \A c \in queue' : First(c)' => gz'[c] # "whole" \/ Delivered(c)'
      <3>1. First(d) /\ queue' = queue /\ gz' = gz
        BY <2>1 DEF SendFile, SendFileTooLarge, files
      <3>3. gz[d] # "whole" \/ Delivered(d)'
        <4>1. CASE SendFile(d)
          <5>1. <<d, ts, index, gz[d]>> \in stored'
            BY <4>1 DEF SendFile
          <5> QED
            BY <5>1 DEF Delivered
        <4>2. CASE SendFileTooLarge(d)
          BY <4>2 DEF SendFileTooLarge, Delivered
        <4> QED
          BY <2>1, <4>1, <4>2
      <3>2. \A c \in queue' : First(c)' => c = d
        <4>1. \A c \in queue : c \in Int
          BY BoundsAssumption DEF QueueInv, Captures
        <4> QED
          BY <3>1, <4>1 DEF First
      <3> QED
        BY <3>1, <3>2, <3>3
    <2>2. CASE UNCHANGED <<pc, queue, gz>>
      BY <1>3, <2>2 DEF LostInv, First
    <2>3. CASE pc' # "remove"
      BY <2>3
    <2> QED
      BY <2>1, <2>2, <2>3, NextCases
      DEF Capture, Gzip, Remove, Kill, CompressPcaps, PushFiles, Pushed, Signalled, Restart, Tick,
          GzipFails, SendFileFails, SendSignal, SendSignalFails, vars, Sleep, local, files
  <1> QED
    BY <1>5, <1>6 DEF LostInv

\* Whatever fails and whenever the pusher is killed, a capture is on disk until it has
\* been stored or refused as too large.
THEOREM CapturesKept == Spec => []NoCaptureLost
  <1>1. Init => LostInv
    BY DEF Init, LostInv, NoCaptureLost
  <1>2. LostInv => NoCaptureLost
    BY DEF LostInv
  <1> QED
    BY <1>1, <1>2, FilesInit, FilesStep, LostStep, PTL DEF Spec

-----------------------------------------------------------------------------
(* The signals of eta.  A capture that is stored and removed is signalled, *)
(* or its path is in ret, or it is listed to be signalled.                 *)

Sent == {s[1] : s \in stored}

Promised(c) ==
    \/ c \in signalled
    \/ pc \in {"push", "remove"} /\ c \in ret
    \/ pc = "signal" /\ c \in queue

SignalInv ==
    service = "eta" /\ failures \subseteq {"gzip"} =>
        /\ Sent \subseteq Captures
        /\ \A c \in Sent : gz[c] = "none" => Promised(c)
        /\ pc = "remove" => \A c \in queue : First(c) => c \in ret

LEMMA SignalStep == FilesInv /\ QueueInv /\ SignalInv /\ [Next]_vars => SignalInv'
  <1> SUFFICES ASSUME FilesInv, QueueInv, SignalInv, [Next]_vars,
                      service' = "eta", failures' \subseteq {"gzip"}
               PROVE  SignalInv'
    BY DEF SignalInv
  <1>1. service = "eta" /\ failures \subseteq {"gzip"}
    BY NextCases
    DEF Capture, CompressPcaps, PushFiles, Pushed, Signalled, Restart, Tick, Kill, Gzip, GzipFails,
        SendFile, SendFileTooLarge, SendFileFails, Remove, SendSignal, SendSignalFails, vars, history
  <1>2. gz \in [Captures -> {"none", "torn", "whole"}] /\ queue \subseteq Captures
        /\ \A c \in queue : c \in Int
    BY BoundsAssumption DEF FilesInv, QueueInv, Captures
  <1>3. stored' = stored => Sent' = Sent
    BY DEF Sent
  <1>4. /\ Sent \subseteq Captures
        /\ \A c \in Sent : gz[c] = "none" => Promised(c)
        /\ pc = "remove" => \A c \in queue : First(c) => c \in ret
    BY <1>1 DEF SignalInv
  <1>5. ASSUME NEW c \in Captures, SendFile(c) \/ SendFileTooLarge(c) PROVE SignalInv'
    <2>1. /\ pc = "push" /\ pc' = "remove" /\ First(c) /\ ret' = ret \union {c}
          /\ UNCHANGED <<gz, queue, signalled>>
      BY <1>5 DEF SendFile, SendFileTooLarge, files, history
    <2>2. \A d \in queue : First(d)' => d = c
      BY <1>2, <2>1 DEF First
    <2>3. Sent' \subseteq Sent \union {c}
      <3>1. CASE SendFile(c)
        BY <3>1 DEF SendFile, Sent
      <3>2. CASE SendFileTooLarge(c)
        BY <3>2 DEF SendFileTooLarge, history, Sent
      <3> QED
        BY <1>5, <3>1, <3>2
    <2> QED
      BY <1>4, <2>1, <2>2, <2>3 DEF SignalInv, Promised
  <1>6. ASSUME NEW c \in Captures, Remove(c) PROVE SignalInv'
    <2>1. /\ pc = "remove" /\ pc' = "push" /\ c \in ret /\ gz' = [gz EXCEPT ![c] = "none"]
          /\ UNCHANGED <<ret, stored, signalled>>
      BY <1>4, <1>6 DEF Remove, history, First
    <2>2. \A d \in Captures : d = c \/ gz'[d] = gz[d]
      BY <1>2, <2>1
    <2> QED
      BY <1>3, <1>4, <2>1, <2>2 DEF SignalInv, Promised
  <1>7. ASSUME NEW c \in Captures, Gzip(c) PROVE SignalInv'
    <2>1. /\ pc = "gzip" /\ pc' = pc /\ gz' = [gz EXCEPT ![c] = "whole"]
          /\ UNCHANGED <<stored, signalled>>
      BY <1>7 DEF Gzip, history
    <2>2. \A d \in Captures : gz'[d] = "none" => gz[d] = "none"
      BY <1>2, <2>1
    <2> QED
      BY <1>3, <1>4, <2>1, <2>2 DEF SignalInv, Promised
  <1>8. CASE PushFiles \/ CompressPcaps
    <2>1. /\ pc \in {"gzip", "asleep"} /\ pc' \in {"push", "gzip"}
          /\ UNCHANGED <<gz, stored, signalled>>
      BY <1>8 DEF PushFiles, CompressPcaps, files, history
    <2> QED
      BY <1>3, <1>4, <2>1 DEF SignalInv, Promised
  <1>9. CASE Pushed
    <2>1. /\ pc = "push" /\ pc' = "signal" /\ queue' = ret /\ UNCHANGED <<gz, stored, signalled>>
      BY <1>1, <1>9 DEF Pushed, files, history
    <2> QED
      BY <1>3, <1>4, <2>1 DEF SignalInv, Promised
  <1>10. ASSUME NEW c \in Captures, SendSignal(c) PROVE SignalInv'
    <2>1. /\ pc = "signal" /\ pc' = pc /\ queue' = queue \ {c} /\ signalled' = signalled \union {c}
          /\ UNCHANGED <<gz, stored>>
      BY <1>10 DEF SendSignal, files
    <2> QED
      BY <1>3, <1>4, <2>1 DEF SignalInv, Promised
  <1>11. CASE Signalled \/ Restart
    <2>1. /\ pc \in {"signal", "down"} /\ pc' = "asleep" /\ (pc = "signal" => queue = {})
          /\ UNCHANGED <<gz, stored, signalled>>
      BY <1>11 DEF Signalled, Restart, Sleep, files, history
    <2> QED
      BY <1>3, <1>4, <2>1 DEF SignalInv, Promised
  <1>12. ASSUME NEW c \in Captures, GzipFails(c) PROVE SignalInv'
    <2>1. pc = "gzip" /\ pc' = pc /\ UNCHANGED <<gz, stored, signalled>>
      BY <1>12 DEF GzipFails, files
    <2> QED
      BY <1>3, <1>4, <2>1 DEF SignalInv, Promised
  <1>13. CASE Capture \/ Tick \/ UNCHANGED vars
    <2>1. UNCHANGED <<pc, queue, ret, gz, stored, signalled>>
      BY <1>13 DEF Capture, Tick, vars, files, local, history
    <2> QED
      BY <1>3, <1>4, <2>1 DEF SignalInv, Promised, First
  <1>14. ~Kill /\ \A c \in Captures : ~SendFileFails(c) /\ ~SendSignalFails(c)
    BY DEF Kill, SendFileFails, SendSignalFails
  <1> QED
    BY <1>5, <1>6, <1>7, <1>8, <1>9, <1>10, <1>11, <1>12, <1>13, <1>14, NextCases

\* While nothing but gzip fails, every capture eta_pusher has stored and removed is
\* signalled when it sleeps.
THEOREM StoredSignalled == Spec => []StoredAreSignalled
  <1>1. Init => SignalInv
    BY DEF Init, SignalInv, Sent
  <1>2. SignalInv => StoredAreSignalled
    BY DEF SignalInv, StoredAreSignalled, Sent, Promised
  <1> QED
    BY <1>1, <1>2, FilesInit, FilesStep, SignalStep, PTL DEF Spec

-----------------------------------------------------------------------------
(* The pushers implement the delivery ledger of Delivery.tla: a capture is *)
(* accepted when it is begun and held while its contents are on disk, and  *)
(* one that the site refuses is discarded when it is no longer held.       *)

LEMMA LedgerInit == Init => Ledger!Init
  <1> SUFFICES ASSUME Init PROVE Ledger!Init
    OBVIOUS
  <1>1. last = 0 /\ pcap = {} /\ stored = {} /\ \A c \in Captures : gz[c] = "none"
    BY DEF Init
  <1>2. 1 .. last = {} /\ \A c \in TooLarge : ~ (c <= last)
    BY <1>1, BoundsAssumption DEF Captures
  <1> QED
    BY <1>1, <1>2 DEF Ledger!Init, Held, StoredWhole, Refused

\* A step that stores nothing and leaves the files of the captures begun as they were.
LEMMA LedgerStutters ==
    ASSUME last' = last, Held' = Held, stored' = stored
    PROVE  UNCHANGED Ledger!vars
  BY DEF Ledger!vars, StoredWhole, Refused

LEMMA LedgerStep ==
    ASSUME FilesInv, QueueInv, LostInv, [Next]_vars
    PROVE  [Ledger!Next]_(Ledger!vars)
  <1>1. /\ last \in Nat /\ pcap \subseteq 1 .. last /\ \A c \in 1 .. last : c \in Captures
        /\ gz \in [Captures -> {"none", "torn", "whole"}]
        /\ \A c \in Captures : c \in Nat /\ c > 0
        /\ \A c \in Captures : c > last => gz[c] = "none"
        /\ \A c \in Captures : gz[c] = "torn" => c \in pcap
    BY BoundsAssumption DEF FilesInv, Captures
  <1>2. Held \subseteq Captures /\ TooLarge \subseteq Captures /\ \A c \in Held : c <= last
    <2>1. \A c \in pcap : c \in Captures /\ c <= last
      BY <1>1
    <2>2. \A c \in Captures : gz[c] = "whole" => c <= last
      BY <1>1
    <2> QED
      BY <2>1, <2>2, BoundsAssumption DEF Held
  <1>3. CASE Capture
    <2>1. /\ last < MaxCaptures /\ last' = last + 1 /\ pcap' = pcap \union {last + 1}
          /\ UNCHANGED <<gz, stored>>
      BY <1>3 DEF Capture, history
    <2>2. Held' = Held \union {last + 1} /\ StoredWhole' = StoredWhole
      BY <2>1 DEF Held, StoredWhole
    <2>3. 1 .. last' = 1 .. last \union {last + 1} /\ last + 1 \notin 1 .. last
          /\ last + 1 \in Captures
      BY <1>1, <2>1, BoundsAssumption DEF Captures
    <2>4. \A c \in TooLarge : c <= last' <=> c <= last \/ c = last + 1
      BY <1>1, <1>2, <2>1
    <2>5. \A c \in TooLarge : c <= last => c # last + 1
      BY <1>1, <1>2
    <2>6. Refused' = Refused
      BY <2>2, <2>4, <2>5 DEF Refused
    <2>7. Ledger!Accept(last + 1)
      BY <2>2, <2>3, <2>6 DEF Ledger!Accept
    <2> QED
      BY <2>3, <2>7 DEF Ledger!Next
  <1>4. ASSUME NEW c \in Captures, SendFile(c) \/ SendFileFails(c)
        PROVE  [Ledger!Next]_(Ledger!vars)
    <2>1. stored' \in {stored, stored \union {<<c, ts, index, gz[c]>>}} /\ UNCHANGED <<last, pcap, gz>>
      BY <1>4 DEF SendFile, SendFileFails, files
    <2>2. Held' = Held /\ Refused' = Refused /\ 1 .. last' = 1 .. last
      BY <2>1 DEF Held, Refused
    <2>3. CASE stored' = stored \union {<<c, ts, index, gz[c]>>} /\ gz[c] = "whole"
      <3>1. StoredWhole' = StoredWhole \union {c}
        <4> DEFINE t == <<c, ts, index, gz[c]>>
        <4>1. t[1] = c /\ t[4] = "whole" /\ stored' = stored \union {t}
          BY <2>3
        <4> HIDE DEF t
        <4>2. \A d : (\E s \in stored' : s[1] = d /\ s[4] = "whole") <=>
                      \/ \E s \in stored : s[1] = d /\ s[4] = "whole"
                      \/ d = c
          BY <4>1
        <4> QED
          BY <4>2 DEF StoredWhole
      <3>2. {c} \in SUBSET Held
        BY <2>3 DEF Held
      <3>3. Ledger!Deliver({c})
        BY <2>2, <3>1 DEF Ledger!Deliver
      <3> QED
        BY <3>2, <3>3 DEF Ledger!Next
    <2>4. CASE stored' = stored \union {<<c, ts, index, gz[c]>>} /\ gz[c] # "whole"
      <3>1. StoredWhole' = StoredWhole
        BY <2>4 DEF StoredWhole
      <3> QED
        BY <2>2, <3>1 DEF Ledger!vars
    <2>5. CASE stored' = stored
      BY <2>1, <2>2, <2>5, LedgerStutters
    <2> QED
      BY <2>1, <2>3, <2>4, <2>5
  <1>5. ASSUME NEW c \in Captures, Remove(c) PROVE [Ledger!Next]_(Ledger!vars)
    <2>1. /\ gz' = [gz EXCEPT ![c] = "none"] /\ UNCHANGED <<last, pcap, stored>>
          /\ gz[c] # "whole" \/ Delivered(c)
      BY <1>5 DEF Remove, First, LostInv, history
    <2>2. CASE c \in pcap \/ gz[c] # "whole"
      <3>1. Held' = Held
        BY <1>1, <2>1, <2>2 DEF Held
      <3> QED
        BY <2>1, <3>1, LedgerStutters
    <2>3. CASE c \notin pcap /\ gz[c] = "whole"
      <3>1. /\ Held' = Held \ {c} /\ c \in Held /\ StoredWhole' = StoredWhole
            /\ 1 .. last' = 1 .. last
        BY <1>1, <2>1, <2>3 DEF Held, StoredWhole
      <3>2. CASE c \in TooLarge
        <4>1. Refused' = Refused \union {c}
          BY <1>2, <2>1, <3>1, <3>2 DEF Refused
        <4>2. Ledger!Discard({c})
          BY <3>1, <4>1 DEF Ledger!Discard
        <4> QED
          BY <3>1, <4>2 DEF Ledger!Next
      <3>3. CASE c \notin TooLarge
        <4>1. Refused' = Refused /\ c \in StoredWhole
          BY <2>1, <2>3, <3>1, <3>3 DEF Refused, Delivered, StoredWhole
        <4>2. Ledger!Release({c})
          BY <3>1, <4>1 DEF Ledger!Release
        <4> QED
          BY <3>1, <4>2 DEF Ledger!Next
      <3> QED
        BY <3>2, <3>3
    <2> QED
      BY <2>2, <2>3
  <1>6. ASSUME NEW c \in Captures, Gzip(c) PROVE [Ledger!Next]_(Ledger!vars)
    <2>1. /\ pcap' = pcap \ {c} /\ gz' = [gz EXCEPT ![c] = "whole"] /\ c \in pcap
          /\ UNCHANGED <<last, stored>>
      BY <1>6 DEF Gzip, First, QueueInv, history
    <2>2. Held' = Held
      BY <1>1, <2>1 DEF Held
    <2> QED
      BY <2>1, <2>2, LedgerStutters
  <1>7. CASE Kill
    <2>1. /\ gz' \in {gz} \union {[gz EXCEPT ![c] = "torn"] : c \in {d \in queue : pc = "gzip" /\ First(d)}}
          /\ UNCHANGED <<last, pcap, stored>>
      BY <1>7 DEF Kill
    <2>2. \A c \in Captures : c \in pcap \/ gz'[c] = gz[c]
      BY <1>1, <2>1 DEF QueueInv
    <2>3. Held' = Held
      BY <2>1, <2>2 DEF Held
    <2> QED
      BY <2>1, <2>3, LedgerStutters
  <1>8. CASE UNCHANGED <<last, pcap, gz, stored>>
    <2>1. Held' = Held
      BY <1>8 DEF Held
    <2> QED
      BY <1>8, <2>1, LedgerStutters
  <1> QED
    BY <1>3, <1>4, <1>5, <1>6, <1>7, <1>8, NextCases
    DEF CompressPcaps, PushFiles, Pushed, Signalled, Restart, Tick, GzipFails,
        SendFileTooLarge, SendSignal, SendSignalFails, vars, files, history

\* Whatever fails and whenever the pusher is killed, a capture that was begun is held
\* until it was delivered or refused, and is never held again after that.
THEOREM CapturesImplementDelivery == Spec => KeepsLedger
  <1>1. Init => LostInv
    BY DEF Init, LostInv, NoCaptureLost
  <1>2. FilesInv /\ QueueInv /\ LostInv /\ [Next]_vars => [Ledger!Next]_(Ledger!vars)
    BY LedgerStep
  <1> QED
    BY <1>1, <1>2, LedgerInit, FilesInit, FilesStep, LostStep, PTL DEF Spec, KeepsLedger, Ledger!Spec
=============================================================================
