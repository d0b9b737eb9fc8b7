---------------------------- MODULE PusherProofs ----------------------------
(***************************************************************************)
(* Theorems about Pusher, and about IpfixPusher on top of it, for every    *)
(* set of files and every bound.                                           *)
(***************************************************************************)
EXTENDS IpfixPusher, TLAPS

\* Every action of the next-state relation, for the case splits below.
LEMMA NextCases ==
    ASSUME [Next]_vars
    PROVE  \/ Tick \/ (\E f \in Files : Arrive(f))
           \/ Heartbeat \/ HeartbeatFails \/ GetFileBins
           \/ OpenArchive \/ WriteArchive \/ (\E f \in Files : RemoveFile(f)) \/ ArchiveDone
           \/ ListArchives \/ (\E b \in Bins : SkipEmpty(b)) \/ (\E b \in Bins : Expire(b))
           \/ (\E b \in Bins : Upload(b)) \/ (\E b \in Bins : UploadTooLarge(b))
           \/ (\E b \in Bins : UploadFails(b))
           \/ Signal \/ SignalFails \/ RemoveArchive \/ Finish
           \/ Kill \/ PowerCut \/ Restart \/ UNCHANGED vars
  BY DEF Next, Execute, Environment, Faults, Create, Send

-----------------------------------------------------------------------------
(* Type correctness.                                                       *)

LEMMA TypeInit == Init => TypeOK
  BY BoundsAssumption DEF Init, TypeOK, Bins, Forms, Steps

LEMMA TypeStep == TypeOK /\ [Next]_vars => TypeOK'
  <1> SUFFICES ASSUME TypeOK, [Next]_vars PROVE TypeOK'
    OBVIOUS
  <1> USE BoundsAssumption, FilesAssumption
      DEF TypeOK, Forms, Steps, disk, local, history, faults
  <1>1. CASE Tick
    BY <1>1 DEF Tick
  <1>2. CASE \E f \in Files : Arrive(f)
    BY <1>2 DEF Arrive
  <1>3. CASE Heartbeat
    BY <1>3 DEF Heartbeat
  <1>4. CASE HeartbeatFails
    BY <1>4 DEF HeartbeatFails, Abort
  <1>5. CASE GetFileBins
    BY <1>5 DEF GetFileBins, CompletedBins
  <1>6. CASE OpenArchive
    BY <1>6 DEF OpenArchive, Oldest
  <1>7. CASE WriteArchive
    BY <1>7 DEF WriteArchive, FileList
  <1>8. CASE \E f \in Files : RemoveFile(f)
    BY <1>8 DEF RemoveFile
  <1>9. CASE ArchiveDone
    BY <1>9 DEF ArchiveDone
  <1>10. CASE ListArchives
    BY <1>10 DEF ListArchives
  <1>11. CASE \E b \in Bins : SkipEmpty(b)
    BY <1>11 DEF SkipEmpty
  <1>12. CASE \E b \in Bins : Expire(b)
    BY <1>12 DEF Expire
  <1>13. CASE \E b \in Bins : Upload(b)
    BY <1>13 DEF Upload
  <1>14. CASE \E b \in Bins : UploadTooLarge(b)
    BY <1>14 DEF UploadTooLarge
  <1>15. CASE \E b \in Bins : UploadFails(b)
    BY <1>15 DEF UploadFails, Abort
  <1>16. CASE Signal
    BY <1>16 DEF Signal
  <1>17. CASE SignalFails
    BY <1>17 DEF SignalFails, Abort
  <1>18. CASE RemoveArchive
    BY <1>18 DEF RemoveArchive
  <1>19. CASE Finish
    BY <1>19 DEF Finish
  <1>20. CASE Kill
    BY <1>20 DEF Kill, LoseMemory
  <1>21. CASE PowerCut
    <2>1. PICK T \in SUBSET {b \in Bins : form[b] # "none"} :
            /\ form' = [b \in Bins |-> IF b \in T THEN "empty" ELSE form[b]]
            /\ content' = [b \in Bins |-> IF b \in T THEN {} ELSE content[b]]
      BY <1>21 DEF PowerCut
    <2>2. form' \in [Bins -> Forms] /\ content' \in [Bins -> SUBSET Files]
      BY <2>1
    <2>. QED  BY <1>21, <2>2 DEF PowerCut, LoseMemory
  <1>22. CASE Restart
    BY <1>22 DEF Restart
  <1>23. CASE UNCHANGED vars
    BY <1>23 DEF vars
  <1>. QED
    BY NextCases, <1>1, <1>2, <1>3, <1>4, <1>5, <1>6, <1>7, <1>8, <1>9, <1>10, <1>11,
       <1>12, <1>13, <1>14, <1>15, <1>16, <1>17, <1>18, <1>19, <1>20, <1>21, <1>22, <1>23

\* The variables of the pusher keep their types.
THEOREM TypeCorrect == Spec => []TypeOK
  BY TypeInit, TypeStep, PTL DEF Spec

-----------------------------------------------------------------------------
(* A torso is always written again before anything is sent.               *)

\* Bin b has an input file, and so has a newer bin: _get_file_bins will offer
\* b to _create_archives again.
HasNewer(b) == \E g \in input : BinOf[g] > b
Redo(b) == (\E f \in input : BinOf[f] = b) /\ HasNewer(b)

TodoRedone == pc \in {"open", "write", "remove"} => \A b \in todo : Redo(b)
WritingRedone == pc = "write" => Redo(bin)
CurrentIsOldest ==
    pc \in {"write", "remove"} => HasNewer(bin) /\ \A c \in todo : bin < c
RemovingCurrent == pc = "remove" => \A f \in removing : BinOf[f] = bin
NothingTodoWhenSending == pc \in {"send", "signal", "unlink"} => todo = {}
TorsoRedone ==
    \A b \in Bins : form[b] = "partial" =>
        /\ Redo(b)
        /\ pc \in {"down", "asleep", "scan"} \/ b \in todo \/ (pc = "write" /\ b = bin)

TorsoInv ==
    /\ TypeOK /\ TodoRedone /\ WritingRedone /\ CurrentIsOldest
    /\ RemovingCurrent /\ NothingTodoWhenSending /\ TorsoRedone

LEMMA TorsoInit == Init => TorsoInv
  BY TypeInit
  DEF Init, TorsoInv, TodoRedone, WritingRedone, CurrentIsOldest, RemovingCurrent,
      NothingTodoWhenSending, TorsoRedone

LEMMA TorsoStep == TorsoInv /\ [Next]_vars => TorsoInv'
  <1> SUFFICES ASSUME TorsoInv, [Next]_vars PROVE TorsoInv'
    OBVIOUS
  <1>0. TypeOK /\ TypeOK'
    BY TypeStep DEF TorsoInv
  <1> USE <1>0, BoundsAssumption, FilesAssumption
      DEF TorsoInv, TodoRedone, WritingRedone, CurrentIsOldest, RemovingCurrent,
          NothingTodoWhenSending, TorsoRedone, Redo, HasNewer,
          disk, local, history, faults
  <1>1. CASE Tick
    BY <1>1 DEF Tick, TypeOK, Bins
  <1>2. CASE \E f \in Files : Arrive(f)
    BY <1>2 DEF Arrive, TypeOK, Bins
  <1>3. CASE Heartbeat
    BY <1>3 DEF Heartbeat, TypeOK, Bins
  <1>4. CASE HeartbeatFails
    BY <1>4 DEF HeartbeatFails, Abort, TypeOK, Bins
  <1>5. CASE GetFileBins
    BY <1>5 DEF GetFileBins, CompletedBins, TypeOK, Bins
  <1>6. CASE OpenArchive
    BY <1>6 DEF OpenArchive, Oldest, TypeOK, Bins
  <1>7. CASE WriteArchive
    BY <1>7 DEF WriteArchive, FileList, TypeOK, Bins
  <1>8. CASE \E f \in Files : RemoveFile(f)
    BY <1>8 DEF RemoveFile, TypeOK, Bins
  <1>9. CASE ArchiveDone
    BY <1>9 DEF ArchiveDone, TypeOK, Bins
  <1>10. CASE ListArchives
    BY <1>10 DEF ListArchives, TypeOK, Bins
  <1>11. CASE \E b \in Bins : SkipEmpty(b)
    BY <1>11 DEF SkipEmpty, TypeOK, Bins
  <1>12. CASE \E b \in Bins : Expire(b)
    BY <1>12 DEF Expire, TypeOK, Bins
  <1>13. CASE \E b \in Bins : Upload(b)
    BY <1>13 DEF Upload, Sendable, TypeOK, Bins
  <1>14. CASE \E b \in Bins : UploadTooLarge(b)
    BY <1>14 DEF UploadTooLarge, Sendable, TypeOK, Bins
  <1>15. CASE \E b \in Bins : UploadFails(b)
    BY <1>15 DEF UploadFails, Sendable, Abort, TypeOK, Bins
  <1>16. CASE Signal
    BY <1>16 DEF Signal, TypeOK, Bins
  <1>17. CASE SignalFails
    BY <1>17 DEF SignalFails, Abort, TypeOK, Bins
  <1>18. CASE RemoveArchive
    BY <1>18 DEF RemoveArchive, TypeOK, Bins
  <1>19. CASE Finish
    BY <1>19 DEF Finish, TypeOK, Bins
  <1>20. CASE Kill
    BY <1>20 DEF Kill, LoseMemory, TypeOK, Bins
  <1>21. CASE PowerCut
    BY <1>21 DEF PowerCut, LoseMemory, TypeOK, Bins
  <1>22. CASE Restart
    BY <1>22 DEF Restart, TypeOK, Bins
  <1>23. CASE UNCHANGED vars
    BY <1>23 DEF vars, TypeOK, Bins
  <1>. QED
    BY NextCases, <1>1, <1>2, <1>3, <1>4, <1>5, <1>6, <1>7, <1>8, <1>9, <1>10, <1>11,
       <1>12, <1>13, <1>14, <1>15, <1>16, <1>17, <1>18, <1>19, <1>20, <1>21, <1>22, <1>23

LEMMA TorsoInvariant == Spec => []TorsoInv
  BY TorsoInit, TorsoStep, PTL DEF Spec

\* Whatever the kills, power cuts, late files and failing removals, no archive
\* whose writing was cut short is in output_dir when _send_archives reads it.
THEOREM TorsoNeverSent == Spec => []OnlyWholeArchivesSent
  <1>1. TorsoInv => OnlyWholeArchivesSent
    BY DEF TorsoInv, NothingTodoWhenSending, TorsoRedone, OnlyWholeArchivesSent
  <1>. QED
    BY <1>1, TorsoInvariant, PTL

LEMMA NewestStep ==
    ASSUME TorsoInv, [Next]_vars
    PROVE  \A f \in input \ input' : \E g \in input' : BinOf[g] > BinOf[f]
  <1> USE FilesAssumption DEF disk, local, history, faults
  <1>1. CASE \E f \in Files : RemoveFile(f)
    BY <1>1 DEF RemoveFile, TorsoInv, TypeOK, CurrentIsOldest, HasNewer, RemovingCurrent, Bins
  <1>2. CASE \E f \in Files : Arrive(f)
    BY <1>2 DEF Arrive
  <1>3. CASE input' = input
    BY <1>3
  <1>. QED
    BY NextCases, <1>1, <1>2, <1>3
    DEF Tick, Heartbeat, HeartbeatFails, GetFileBins, OpenArchive, WriteArchive, ArchiveDone,
        ListArchives, SkipEmpty, Expire, Upload, UploadTooLarge, UploadFails, Signal,
        SignalFails, RemoveArchive, Finish, Kill, PowerCut, Restart, vars

\* The most recent bin of input_dir is never touched, faults or not.
THEOREM NewestNeverTouched == Spec => NewestBinUntouched
  <1>1. TorsoInv /\ [Next]_vars =>
          [\A f \in input \ input' : \E g \in input' : BinOf[g] > BinOf[f]]_vars
    BY NewestStep
  <1>. QED
    BY <1>1, TorsoInvariant, PTL DEF Spec, NewestBinUntouched

-----------------------------------------------------------------------------
(* Without faults nothing is lost.                                         *)

\* Files appear in order and can be removed, and the process and the host are
\* not killed.  Files that cannot be read are allowed.
Clean ==
    /\ MaxLag = 0 /\ MaxKills = 0 /\ MaxPowerCuts = 0
    /\ Stuck = {}

\* Bins being worked on, or with an archive, have been completed: with files in
\* order, no further file of theirs appears.
Closed(b) == \E g \in written : BinOf[g] > b

WorkClosed ==
    /\ pc \in {"open", "write", "remove"} => \A b \in todo : Closed(b)
    /\ pc \in {"write", "remove"} => Closed(bin) /\ bin \notin todo
ArchivesClosed ==
    \A b \in Bins : content[b] # {} => Closed(b) /\ \A f \in content[b] : BinOf[f] = b
\* An archive with files has no input files beside it but those being removed.
NoOverlap ==
    \A b \in Bins : content[b] # {} =>
        \A f \in input : BinOf[f] = b => pc = "remove" /\ bin = b /\ f \in removing
\* What is being archived is exactly what input_dir has for its bin.
ListComplete ==
    /\ pc \in {"open", "write", "remove"} =>
         \A b \in todo : /\ content[b] = {}
                         /\ \A f \in Files : BinOf[f] = b => (f \in input <=> f \in batch)
    /\ pc = "write" => /\ content[bin] = {}
                       /\ \A f \in Files : BinOf[f] = bin => (f \in input <=> f \in batch)
RemovingArchived == pc = "remove" => removing \ Unreadable \subseteq content[bin]
\* An archive is removed after its signal went out.
UnlinkSignalled == pc = "unlink" => content[bin] \subseteq signalled

CleanInv ==
    /\ TorsoInv /\ pc # "down"
    /\ WorkClosed /\ ArchivesClosed /\ NoOverlap /\ ListComplete /\ RemovingArchived
    /\ UnlinkSignalled /\ NoFileLost

LEMMA CleanInit == Init => CleanInv
  BY TorsoInit
  DEF Init, CleanInv, WorkClosed, ArchivesClosed, NoOverlap, ListComplete, RemovingArchived,
      UnlinkSignalled, NoFileLost

LEMMA CleanStep ==
    ASSUME Clean, CleanInv, [Next]_vars
    PROVE  CleanInv'
  <1>0. TypeOK /\ TypeOK' /\ TorsoInv /\ TorsoInv'
    BY TypeStep, TorsoStep DEF TorsoInv, CleanInv
  <1> USE <1>0, BoundsAssumption, FilesAssumption
      DEF CleanInv, WorkClosed, ArchivesClosed, NoOverlap, ListComplete, RemovingArchived,
          UnlinkSignalled, NoFileLost, Closed, Held, disk, local, history, faults
  <1>1. CASE Tick
    BY <1>1 DEF Tick, TypeOK, Bins
  <1>2. CASE \E f \in Files : Arrive(f)
    <2>0. PICK f \in Files : Arrive(f)
      BY <1>2
    <2>a. /\ input' = input \union {f} /\ written' = written \union {f}
          /\ UNCHANGED <<content, pc, bin, batch, todo, removing, signalled, expired>>
      BY <2>0 DEF Arrive
    <2>b. \A b \in Bins : Closed(b) => BinOf[f] # b
      BY <2>0 DEF Arrive, Clean, TypeOK, Bins
    <2>1. WorkClosed'
      BY <2>0 DEF Arrive, TypeOK, Bins
    <2>2. ArchivesClosed'
      BY <2>0 DEF Arrive, TypeOK, Bins
    <2>3. NoOverlap'
      BY <2>a, <2>b DEF TypeOK
    <2>4. ListComplete'
      BY <2>a, <2>b DEF TypeOK
    <2>5. RemovingArchived'
      BY <2>0 DEF Arrive, TypeOK, Bins
    <2>6. NoFileLost'
      BY <2>0 DEF Arrive, TypeOK, Bins
    <2>7. UnlinkSignalled'
      BY <2>0 DEF Arrive
    <2>. QED  BY <2>0, <2>1, <2>2, <2>3, <2>4, <2>5, <2>6, <2>7 DEF Arrive
  <1>3. CASE Heartbeat
    BY <1>3 DEF Heartbeat, TypeOK, Bins
  <1>4. CASE HeartbeatFails
    BY <1>4 DEF HeartbeatFails, Abort, TypeOK, Bins
  <1>5. CASE GetFileBins
    BY <1>5 DEF GetFileBins, CompletedBins, TypeOK, Bins
  <1>6. CASE OpenArchive
    <2>0. PICK b \in todo : /\ Oldest(todo, b) /\ bin' = b /\ todo' = todo \ {b}
                            /\ content' = [content EXCEPT ![b] = {}]
      BY <1>6 DEF OpenArchive
    <2>a. content' = content
      BY <1>6, <2>0 DEF OpenArchive, TypeOK
    <2>b. UNCHANGED <<input, batch, removing, written, signalled, expired>> /\ pc' = "write" /\ pc = "open"
      BY <1>6 DEF OpenArchive
    <2>1. WorkClosed'
      BY <1>6 DEF OpenArchive, Oldest, TypeOK, Bins
    <2>2. ArchivesClosed'
      BY <2>a, <2>b
    <2>3. NoOverlap'
      BY <2>a, <2>b
    <2>4. ListComplete'
      BY <1>6 DEF OpenArchive, Oldest, TypeOK, Bins
    <2>5. RemovingArchived'
      BY <1>6 DEF OpenArchive, Oldest, TypeOK, Bins
    <2>6. NoFileLost'
      BY <1>6 DEF OpenArchive, Oldest, TypeOK, Bins
    <2>7. UnlinkSignalled'
      BY <1>6 DEF OpenArchive
    <2>. QED  BY <1>6, <2>1, <2>2, <2>3, <2>4, <2>5, <2>6, <2>7 DEF OpenArchive
  <1>7. CASE WriteArchive
    <2>1. WorkClosed'
      BY <1>7 DEF WriteArchive, FileList, Clean, TypeOK, Bins
    <2>2. ArchivesClosed'
      BY <1>7 DEF WriteArchive, FileList, Clean, TypeOK, Bins
    <2>3. NoOverlap'
      BY <1>7 DEF WriteArchive, FileList, Clean, TypeOK, Bins
    <2>4. ListComplete'
      BY <1>7 DEF WriteArchive, FileList, Clean, TypeOK, Bins
    <2>5. RemovingArchived'
      BY <1>7 DEF WriteArchive, FileList, Clean, TypeOK, Bins
    <2>6. NoFileLost'
      BY <1>7 DEF WriteArchive, FileList, Clean, TypeOK, Bins
    <2>7. UnlinkSignalled'
      BY <1>7 DEF WriteArchive
    <2>. QED  BY <1>7, <2>1, <2>2, <2>3, <2>4, <2>5, <2>6, <2>7 DEF WriteArchive
  <1>8. CASE \E f \in Files : RemoveFile(f)
    <2>0. PICK f \in Files : RemoveFile(f)
      BY <1>8
    <2>1. WorkClosed'
      BY <2>0 DEF RemoveFile, Clean, TypeOK, Bins
    <2>2. ArchivesClosed'
      BY <2>0 DEF RemoveFile, Clean, TypeOK, Bins
    <2>3. NoOverlap'
      BY <2>0 DEF RemoveFile, Clean, TypeOK, Bins
    <2>a. BinOf[f] = bin
      BY <2>0 DEF RemoveFile, TorsoInv, RemovingCurrent
    <2>4. ListComplete'
      BY <2>0, <2>a DEF RemoveFile, Clean, TypeOK, Bins
    <2>5. RemovingArchived'
      BY <2>0 DEF RemoveFile, Clean, TypeOK, Bins
    <2>6. NoFileLost'
      BY <2>0 DEF RemoveFile, Clean, TypeOK, Bins
    <2>7. UnlinkSignalled'
      BY <2>0 DEF RemoveFile
    <2>. QED  BY <2>0, <2>1, <2>2, <2>3, <2>4, <2>5, <2>6, <2>7 DEF RemoveFile
  <1>9. CASE ArchiveDone
    <2>1. WorkClosed'
      BY <1>9 DEF ArchiveDone, TypeOK, Bins
    <2>2. ArchivesClosed'
      BY <1>9 DEF ArchiveDone, TypeOK, Bins
    <2>3. NoOverlap'
      BY <1>9 DEF ArchiveDone, TypeOK, Bins
    <2>4. ListComplete'
      BY <1>9 DEF ArchiveDone, TypeOK, Bins
    <2>5. RemovingArchived'
      BY <1>9 DEF ArchiveDone, TypeOK, Bins
    <2>6. NoFileLost'
      BY <1>9 DEF ArchiveDone, TypeOK, Bins
    <2>7. UnlinkSignalled'
      BY <1>9 DEF ArchiveDone
    <2>. QED  BY <1>9, <2>1, <2>2, <2>3, <2>4, <2>5, <2>6, <2>7 DEF ArchiveDone
  <1>10. CASE ListArchives
    BY <1>10 DEF ListArchives, TypeOK, Bins
  <1>11. CASE \E b \in Bins : SkipEmpty(b)
    BY <1>11 DEF SkipEmpty, TypeOK, Bins
  <1>12. CASE \E b \in Bins : Expire(b)
    <2>0. PICK b \in Bins : Expire(b)
      BY <1>12
    <2>a. /\ content' = [content EXCEPT ![b] = {}] /\ expired' = expired \union content[b]
          /\ UNCHANGED <<input, pc, bin, removing, written, signalled>>
      BY <2>0 DEF Expire, Clean
    <2>b. \A c \in Bins : content'[c] = IF c = b THEN {} ELSE content[c]
      BY <2>a DEF TypeOK
    <2>1. WorkClosed'
      BY <2>0 DEF Expire, TypeOK, Bins
    <2>2. ArchivesClosed'
      BY <2>a, <2>b
    <2>3. NoOverlap'
      BY <2>a, <2>b
    <2>4. ListComplete'
      BY <2>0 DEF Expire, TypeOK, Bins
    <2>5. RemovingArchived'
      BY <2>0 DEF Expire, TypeOK, Bins
    <2>6. NoFileLost'
      BY <2>a, <2>b
    <2>7. UnlinkSignalled'
      BY <2>0 DEF Expire
    <2>. QED  BY <2>0, <2>1, <2>2, <2>3, <2>4, <2>5, <2>6, <2>7 DEF Expire
  <1>13. CASE \E b \in Bins : Upload(b)
    BY <1>13 DEF Upload, Sendable, TypeOK, Bins
  <1>14. CASE \E b \in Bins : UploadTooLarge(b)
    BY <1>14 DEF UploadTooLarge, Sendable, TypeOK, Bins
  <1>15. CASE \E b \in Bins : UploadFails(b)
    BY <1>15 DEF UploadFails, Sendable, Abort, TypeOK, Bins
  <1>16. CASE Signal
    BY <1>16 DEF Signal, TypeOK, Bins
  <1>17. CASE SignalFails
    BY <1>17 DEF SignalFails, Abort, TypeOK, Bins
  <1>18. CASE RemoveArchive
    <2>a. /\ content' = [content EXCEPT ![bin] = {}] /\ content[bin] \subseteq signalled
          /\ pc = "unlink" /\ pc' = "send"
          /\ UNCHANGED <<input, bin, removing, written, signalled, expired>>
      BY <1>18 DEF RemoveArchive, Clean
    <2>b. \A c \in Bins : content'[c] = IF c = bin THEN {} ELSE content[c]
      BY <2>a DEF TypeOK
    <2>1. WorkClosed'
      BY <1>18 DEF RemoveArchive, TypeOK, Bins
    <2>2. ArchivesClosed'
      BY <2>a, <2>b
    <2>3. NoOverlap'
      BY <2>a, <2>b
    <2>4. ListComplete'
      BY <1>18 DEF RemoveArchive, TypeOK, Bins
    <2>5. RemovingArchived'
      BY <1>18 DEF RemoveArchive, TypeOK, Bins
    <2>6. NoFileLost'
      BY <2>a, <2>b
    <2>7. UnlinkSignalled'
      BY <1>18 DEF RemoveArchive
    <2>. QED  BY <1>18, <2>1, <2>2, <2>3, <2>4, <2>5, <2>6, <2>7 DEF RemoveArchive
  <1>19. CASE Finish
    BY <1>19 DEF Finish, TypeOK, Bins
  <1>20. CASE Kill
    BY <1>20 DEF Kill, LoseMemory, Clean, TypeOK, Bins
  <1>21. CASE PowerCut
    BY <1>21 DEF PowerCut, LoseMemory, Clean, TypeOK, Bins
  <1>22. CASE Restart
    BY <1>22 DEF Restart, TypeOK, Bins
  <1>23. CASE UNCHANGED vars
    BY <1>23 DEF vars, TypeOK, Bins
  <1>. QED
    BY NextCases, <1>1, <1>2, <1>3, <1>4, <1>5, <1>6, <1>7, <1>8, <1>9, <1>10, <1>11,
       <1>12, <1>13, <1>14, <1>15, <1>16, <1>17, <1>18, <1>19, <1>20, <1>21, <1>22, <1>23

LEMMA CleanInvariant ==
    ASSUME Clean
    PROVE  Spec => []CleanInv
  <1>1. CleanInv /\ [Next]_vars => CleanInv'
    BY CleanStep
  <1>. QED
    BY <1>1, CleanInit, PTL DEF Spec

\* Without kills, power cuts, late files and failing removals, no file but one
\* that cannot be read is dropped, however heartbeats, uploads and signals fail.
THEOREM NothingLost ==
    ASSUME Clean
    PROVE  Spec => []NoFileLost
  <1>1. CleanInv => NoFileLost
    BY DEF CleanInv
  <1>. QED
    BY <1>1, CleanInvariant, PTL

LEMMA LedgerInit == Init => Ledger!Init
  BY DEF Init, Ledger!Init, Held

\* What the ledger says is held.
HeldReadable == Held \ Unreadable

LEMMA LedgerStep ==
    ASSUME Clean, CleanInv, [Next]_vars
    PROVE  [Ledger!Next]_(Ledger!vars)
  <1>0. TypeOK /\ TypeOK'
    BY TypeStep DEF TorsoInv, CleanInv
  <1> USE <1>0, FilesAssumption DEF disk, local, history, faults
  <1>1. CASE \E f \in Files : Arrive(f)
    <2>1. PICK f \in Files : Arrive(f)
      BY <1>1
    <2>2. /\ f \notin written /\ written' = written \union {f} /\ Held' = Held \union {f}
          /\ UNCHANGED <<signalled, expired>>
      BY <2>1 DEF Arrive, Held
    <2>3. CASE f \in Unreadable
      BY <2>2, <2>3 DEF Ledger!vars
    <2>4. CASE f \notin Unreadable
      <3>1. Ledger!Accept(f)
        BY <2>2, <2>4 DEF Ledger!Accept
      <3>. QED  BY <2>4, <3>1 DEF Ledger!Next
    <2>. QED  BY <2>3, <2>4
  <1>2. CASE OpenArchive
    <2>1. content' = content
      BY <1>2 DEF OpenArchive, CleanInv, ListComplete, TypeOK
    <2>. QED  BY <1>2, <2>1 DEF OpenArchive, Held, Ledger!vars
  <1>3. CASE WriteArchive
    <2>1. PICK skipped \in SUBSET Unreadable :
            content' = [content EXCEPT ![bin] = FileList(bin) \ skipped]
      BY <1>3 DEF WriteArchive
    <2>2. content[bin] = {} /\ FileList(bin) \subseteq input /\ UNCHANGED <<input, history>>
      BY <1>3 DEF WriteArchive, CleanInv, ListComplete, FileList, TypeOK
    <2>3. HeldReadable' = HeldReadable
      BY <2>1, <2>2 DEF HeldReadable, Held, TypeOK
    <2>. QED  BY <2>2, <2>3 DEF Ledger!vars, HeldReadable
  <1>4. CASE \E f \in Files : RemoveFile(f)
    <2>1. PICK f \in Files : RemoveFile(f)
      BY <1>4
    <2>2. f \in Unreadable \/ f \in content[bin]
      BY <2>1 DEF RemoveFile, CleanInv, RemovingArchived
    <2>3. HeldReadable' = HeldReadable
      BY <2>1, <2>2 DEF RemoveFile, HeldReadable, Held, TypeOK
    <2>. QED  BY <2>1, <2>3 DEF RemoveFile, Ledger!vars, HeldReadable
  <1>5. CASE \E b \in Bins : Expire(b)
    <2>1. PICK b \in Bins : Expire(b)
      BY <1>5
    <2>2. /\ content' = [content EXCEPT ![b] = {}] /\ expired' = expired \union content[b]
          /\ pc = "send" /\ UNCHANGED <<input, written, signalled>>
      BY <2>1 DEF Expire, Clean
    <2>3. \A c \in Bins \ {b} : content[c] \intersect content[b] = {}
      BY DEF CleanInv, ArchivesClosed
    <2>4. input \intersect content[b] = {}
      BY <2>2 DEF CleanInv, ArchivesClosed, NoOverlap
    <2>5. Held' = Held \ content[b]
      BY <2>2, <2>3, <2>4 DEF Held, TypeOK
    <2> DEFINE S == content[b] \ Unreadable
    <2>6. S \in SUBSET (Held \ Unreadable)
      BY DEF Held
    <2>7. Ledger!Discard(S)
      BY <2>2, <2>5 DEF Ledger!Discard
    <2>. QED  BY <2>6, <2>7 DEF Ledger!Next
  <1>6. CASE Signal \/ SignalFails
    <2> DEFINE S == content[bin] \ Unreadable
    <2>1. S \in SUBSET (Held \ Unreadable) /\ Held' = Held
      BY <1>6 DEF Signal, SignalFails, Held, TypeOK
    <2>2. Ledger!Deliver(S) \/ UNCHANGED Ledger!vars
      BY <1>6, <2>1 DEF Signal, SignalFails, Ledger!Deliver, Ledger!vars
    <2>. QED  BY <2>1, <2>2 DEF Ledger!Next
  <1>7. CASE RemoveArchive
    <2>1. /\ content' = [content EXCEPT ![bin] = {}] /\ content[bin] \subseteq signalled
          /\ pc = "unlink" /\ UNCHANGED <<input, written, signalled, expired>>
      BY <1>7 DEF RemoveArchive, Clean, CleanInv, UnlinkSignalled
    <2>2. \A c \in Bins \ {bin} : content[c] \intersect content[bin] = {}
      BY DEF CleanInv, ArchivesClosed, TypeOK
    <2>3. input \intersect content[bin] = {}
      BY <2>1 DEF CleanInv, ArchivesClosed, NoOverlap, TypeOK
    <2>4. Held' = Held \ content[bin]
      BY <2>1, <2>2, <2>3 DEF Held, TypeOK
    <2> DEFINE S == content[bin] \ Unreadable
    <2>5. S \in SUBSET (Held \ Unreadable)
      BY DEF Held, TypeOK
    <2>6. Ledger!Release(S)
      BY <2>1, <2>4 DEF Ledger!Release
    <2>. QED  BY <2>5, <2>6 DEF Ledger!Next
  <1>8. CASE UNCHANGED <<input, content, history>>
    BY <1>8 DEF Held, Ledger!vars
  <1>9. ~Kill /\ ~PowerCut
    BY DEF Kill, PowerCut, Clean, TypeOK
  <1>. QED
    BY NextCases, <1>1, <1>2, <1>3, <1>4, <1>5, <1>6, <1>7, <1>8, <1>9
    DEF Tick, Heartbeat, HeartbeatFails, GetFileBins, ArchiveDone, ListArchives, SkipEmpty,
        Upload, UploadTooLarge, UploadFails, Finish, Restart, vars

\* Without faults the pusher implements the delivery ledger: every step of it
\* accepts, delivers, discards or releases files as Delivery allows, or stutters.
THEOREM ImplementsDelivery ==
    ASSUME Clean
    PROVE  Spec => KeepsLedger
  <1>1. CleanInv /\ [Next]_vars => [Ledger!Next]_(Ledger!vars)
    BY LedgerStep
  <1>. QED
    BY <1>1, LedgerInit, CleanInvariant, PTL DEF Spec, KeepsLedger, Ledger!Spec

-----------------------------------------------------------------------------
(* The IPFIX pusher.  What is proved of torsos and of the newest bin holds *)
(* of it too, because a step of its own leaves the state of Pusher as it   *)
(* is or ends the process.                                                 *)

Ends == LoseMemory /\ UNCHANGED <<clock, disk, history, faults>>

LEMMA IpfixCases ==
    ASSUME [IpfixNext]_ipfixVars
    PROVE  \/ Filter \/ Aggregate \/ OpenCsv \/ WriteRows \/ Cleanup \/ (\E f \in Files : Copy(f))
           \/ Raises \/ IpfixGetFileBins \/ IpfixOpenArchive \/ IpfixWriteArchive \/ IpfixKill
           \/ ((\E f \in Files : RemoveFile(f)) /\ UNCHANGED ipfix)
           \/ ((\E f \in Files : Arrive(f)) /\ UNCHANGED ipfix)
           \/ (ArchiveDone /\ UNCHANGED ipfix) \/ (Send /\ UNCHANGED ipfix)
           \/ ((Heartbeat \/ HeartbeatFails \/ Tick \/ Restart) /\ UNCHANGED ipfix)
           \/ UNCHANGED ipfixVars
  BY DEF IpfixNext, IpfixExecute, ProcessFiles, Environment

LEMMA IpfixSteps ==
    ASSUME [IpfixNext]_ipfixVars
    PROVE  [Next]_vars \/ Ends
  <1>1. CASE Filter \/ Aggregate \/ OpenCsv \/ WriteRows \/ Cleanup \/ (\E f \in Files : Copy(f))
    BY <1>1 DEF Filter, Aggregate, OpenCsv, WriteRows, Cleanup, Copy, Advance
  <1>2. CASE Raises
    BY <1>2 DEF Raises, Ends
  <1>3. CASE IpfixGetFileBins \/ IpfixOpenArchive \/ IpfixWriteArchive \/ IpfixKill
    BY <1>3 DEF IpfixGetFileBins, IpfixOpenArchive, IpfixWriteArchive, IpfixKill, Next, Execute,
               Create, Faults
  <1>4. CASE Send \/ ArchiveDone \/ (\E f \in Files : RemoveFile(f)) \/ (\E f \in Files : Arrive(f))
    BY <1>4 DEF Next, Execute, Create, Environment
  <1>5. CASE Heartbeat \/ HeartbeatFails \/ Tick \/ Restart
    BY <1>5 DEF Next, Execute, Environment, Faults
  <1>6. CASE UNCHANGED ipfixVars
    BY <1>6 DEF ipfixVars
  <1> QED
    BY <1>1, <1>2, <1>3, <1>4, <1>5, <1>6, IpfixCases

LEMMA EndsKeepTorso == TorsoInv /\ Ends => TorsoInv'
  <1> SUFFICES ASSUME TorsoInv, Ends PROVE TorsoInv'
    OBVIOUS
  <1>1. /\ pc' = "down" /\ batch' = {} /\ todo' = {} /\ removing' = {} /\ outbox' = {}
        /\ UNCHANGED <<now, bin, clock, disk, history, faults>>
    BY DEF Ends, LoseMemory
  <1>2. TypeOK'
    BY <1>1 DEF TorsoInv, TypeOK, Steps, disk, history, faults
  <1> QED
    BY <1>1, <1>2
    DEF TorsoInv, TodoRedone, WritingRedone, CurrentIsOldest, RemovingCurrent,
        NothingTodoWhenSending, TorsoRedone, Redo, HasNewer, disk, history

LEMMA IpfixTorsoStep == TorsoInv /\ [IpfixNext]_ipfixVars => TorsoInv'
  BY IpfixSteps, TorsoStep, EndsKeepTorso

\* An exception in the conversion of a file leaves no torso to be sent, either.
THEOREM IpfixTorsoNeverSent == IpfixSpec => []OnlyWholeArchivesSent
  <1>1. TorsoInv => OnlyWholeArchivesSent
    BY DEF TorsoInv, NothingTodoWhenSending, TorsoRedone, OnlyWholeArchivesSent
  <1>2. IpfixInit => TorsoInv
    BY TorsoInit DEF IpfixInit
  <1>. QED
    BY <1>1, <1>2, IpfixTorsoStep, PTL DEF IpfixSpec

-----------------------------------------------------------------------------
(* What every file of the IPFIX pusher has gone through.                   *)

Causes == marred \union Corrupt \union (Stuck \intersect Files)
HasCause(b) == \E g \in Causes : BinOf[g] = b

Kinds == {"flows", "csv", "header", "torn", "empty"}

IpfixTypeOK ==
    /\ kind \in [Files -> Kinds] /\ tmp \in [Files -> Kinds \union {"none", "rows"}]
    /\ stage \in {"next", "filter", "aggregate", "convert", "rows", "cleanup"} /\ item \in Files
    /\ processed \subseteq batch /\ batch \subseteq written /\ strays \subseteq Files
    /\ marred \subseteq Files

\* The file at hand is one of the oldest bin to be archived.
AtHand == stage # "next" =>
    pc = "open" /\ item \in batch \ processed /\ Oldest(todo, BinOf[item])

\* The files of bins still to be archived are all there.
BatchPresent ==
    \A f \in batch :
        \/ pc \in {"open", "write", "remove"} /\ BinOf[f] \in todo
        \/ pc = "write" /\ BinOf[f] = bin
        => f \in input

Converted == \A f \in processed : kind[f] \in {"csv", "header"}
JustConverted == stage = "cleanup" => kind[item] \in {"csv", "header"}
AllConverted == pc = "write" => FileList(bin) \subseteq processed

\* Temporary files are left behind by kills and exceptions only.
StraysHaveCauses == \A f \in strays : HasCause(BinOf[f])

\* The archive of a bin is opened only if its last file was no stray.
StrayAtHand == item \in processed \intersect strays => pc = "open" /\ Oldest(todo, BinOf[item])

Untouched(f) == kind[f] = "flows" /\ tmp[f] = "none"

\* The file at hand, in a bin where nothing went wrong.
Regular ==
    \/ stage \in {"filter", "aggregate"} /\ kind[item] = "flows" /\ tmp[item] = "flows"
    \/ stage = "convert" /\ kind[item] = "flows" /\ tmp[item] = "rows"
    \/ stage = "rows" /\ kind[item] = "torn" /\ tmp[item] = "rows"
    \/ stage = "cleanup" /\ kind[item] = "csv" /\ tmp[item] = "rows"

\* A finished file waits for its archive, or for its removal after that.
Finished(f) ==
    /\ f \in processed /\ kind[f] = "csv" /\ tmp[f] = "none"
    /\ \/ pc = "open" /\ Oldest(todo, BinOf[f])
       \/ pc = "write" /\ BinOf[f] = bin
       \/ pc = "remove" /\ f \in removing

Traced(f) ==
    \/ HasCause(BinOf[f])
    \/ stage # "next" /\ f = item /\ Regular
    \/ (stage = "next" \/ f # item) /\ (Untouched(f) \/ Finished(f))

IpfixInv ==
    /\ TorsoInv /\ IpfixTypeOK /\ AtHand /\ BatchPresent /\ Converted /\ AllConverted
    /\ JustConverted /\ StraysHaveCauses /\ StrayAtHand /\ LossesHaveCauses
    /\ \A f \in Files \ written : Untouched(f)
    /\ \A f \in input : Traced(f)
LEMMA IpfixInvInit == IpfixInit => IpfixInv
  <1> SUFFICES ASSUME IpfixInit PROVE IpfixInv
    OBVIOUS
  <1>1. TorsoInv /\ Init
    BY TorsoInit DEF IpfixInit
  <1>2. /\ written = {} /\ input = {} /\ batch = {} /\ todo = {} /\ pc = "asleep"
    BY <1>1 DEF Init
  <1>3. /\ kind = [f \in Files |-> "flows"] /\ tmp = [f \in Files |-> "none"]
        /\ stage = "next" /\ item \in Files
        /\ processed = {} /\ strays = {}
        /\ packed = [f \in Files |-> "none"] /\ marred = {}
    BY DEF IpfixInit
  <1> QED
    BY <1>1, <1>2, <1>3
    DEF IpfixInv, IpfixTypeOK, Kinds, AtHand, BatchPresent, Converted, JustConverted, AllConverted,
        StraysHaveCauses, StrayAtHand, LossesHaveCauses, Untouched

\* The bins of files are numbers, so that the oldest of a set is one bin.
LEMMA OneOldest ==
    ASSUME TypeOK, NEW b \in Bins, NEW c \in Bins, Oldest(todo, b), Oldest(todo, c)
    PROVE  b = c
  <1>1. b <= c /\ c <= b /\ b \in Int /\ c \in Int
    BY DEF Oldest, Bins
  <1> QED
    BY <1>1

LEMMA CausesStay ==
    ASSUME marred \subseteq marred', NEW b, HasCause(b)
    PROVE  HasCause(b)'
  BY DEF HasCause, Causes

\* A step of _process_files on the file at hand.
LEMMA WorkStep ==
    ASSUME IpfixInv, TorsoInv', IpfixTypeOK', JustConverted', stage # "next", stage' # "next",
           UNCHANGED <<vars, item, strays, packed, marred, processed>>,
           \A f \in Files \ {item} : kind'[f] = kind[f] /\ tmp'[f] = tmp[f],
           HasCause(BinOf[item]) \/ (Regular => Regular')
    PROVE  IpfixInv'
  <1> USE DEF vars, disk, local, history
  <1>1. item \in batch \ processed /\ item \in written
    BY DEF IpfixInv, AtHand, IpfixTypeOK
  <1>2. HasCause(BinOf[item])' \/ Regular' \/ ~Traced(item)
    BY CausesStay DEF Traced
  <1>3. item \in input
    BY <1>1 DEF IpfixInv, AtHand, BatchPresent, Oldest
  <1>4. Traced(item)'
    BY <1>2, <1>3 DEF IpfixInv, Traced
  <1>5. ASSUME NEW f \in input', f # item PROVE Traced(f)'
    <2>1. f \in input /\ f \in Files
      BY <1>5 DEF IpfixInv, TorsoInv, TypeOK
    <2>2. HasCause(BinOf[f]) \/ Untouched(f) \/ Finished(f)
      BY <2>1, <1>5 DEF IpfixInv, Traced
    <2>3. kind'[f] = kind[f] /\ tmp'[f] = tmp[f] /\ item' = item
      BY <2>1, <1>5
    <2>4. HasCause(BinOf[f])' \/ Untouched(f)' \/ Finished(f)'
      BY <2>2, <2>3, CausesStay DEF Untouched, Finished
    <2> QED
      BY <2>3, <2>4, <1>5 DEF Traced
  <1>6. \A f \in input' : Traced(f)'
    BY <1>4, <1>5
  <1>7. \A f \in Files \ written' : Untouched(f)'
    BY <1>1 DEF IpfixInv, Untouched
  <1>8. AtHand' /\ BatchPresent' /\ AllConverted' /\ StrayAtHand'
    BY DEF IpfixInv, AtHand, BatchPresent, AllConverted, FileList, StrayAtHand
  <1>9. Converted'
    <2>1. processed \subseteq Files \ {item}
      BY <1>1 DEF IpfixInv, IpfixTypeOK, TorsoInv, TypeOK
    <2> QED
      BY <2>1 DEF IpfixInv, Converted
  <1>10. StraysHaveCauses' /\ LossesHaveCauses'
    BY DEF IpfixInv, StraysHaveCauses, LossesHaveCauses, HasCause, Causes
  <1> QED
    BY <1>6, <1>7, <1>8, <1>9, <1>10 DEF IpfixInv

LEMMA FilterStep == ASSUME IpfixInv, TorsoInv', Filter PROVE IpfixInv'
  <1> USE DEF IpfixInv, IpfixTypeOK
  <1>1. /\ stage = "filter" /\ stage' = "aggregate"
        /\ UNCHANGED <<vars, item, strays, packed, marred, tmp, processed>>
    BY DEF Filter, At, Advance
  <1>2. PICK d \in ToolWrites(tmp[item], "flows", kind[item]) : kind' = [kind EXCEPT ![item] = d]
    BY DEF Filter
  <1>3. d \in Kinds
    BY <1>2 DEF ToolWrites, Kinds
  <1>4. HasCause(BinOf[item]) \/ (Regular => Regular')
    <2>1. CASE item \in Corrupt
      BY <2>1 DEF HasCause, Causes
    <2>2. CASE item \notin Corrupt /\ Regular
      <3>1. tmp[item] = "flows"
        BY <2>2, <1>1 DEF Regular
      <3>2. d = "flows"
        BY <3>1, <2>2, <1>2 DEF ToolWrites
      <3> QED
        BY <3>1, <3>2, <1>1, <1>2 DEF Regular
    <2> QED
      BY <2>1, <2>2
  <1> QED
    BY <1>1, <1>2, <1>3, <1>4, WorkStep DEF JustConverted, vars, local, history

LEMMA AggregateStep == ASSUME IpfixInv, TorsoInv', Aggregate PROVE IpfixInv'
  <1> USE DEF IpfixInv, IpfixTypeOK
  <1>1. /\ stage = "aggregate" /\ stage' = "convert"
        /\ UNCHANGED <<vars, item, strays, packed, marred, kind, processed>>
    BY DEF Aggregate, At, Advance
  <1>2. PICK d \in ToolWrites(kind[item], "rows", tmp[item]) : tmp' = [tmp EXCEPT ![item] = d]
    BY DEF Aggregate
  <1>3. d \in Kinds \union {"none", "rows"}
    BY <1>2 DEF ToolWrites, Kinds
  <1>4. HasCause(BinOf[item]) \/ (Regular => Regular')
    <2>1. CASE item \in Corrupt
      BY <2>1 DEF HasCause, Causes
    <2>2. CASE item \notin Corrupt /\ Regular
      <3>1. kind[item] = "flows"
        BY <2>2, <1>1 DEF Regular
      <3>2. d = "rows"
        BY <3>1, <2>2, <1>2 DEF ToolWrites
      <3> QED
        BY <3>1, <3>2, <1>1, <1>2 DEF Regular
    <2> QED
      BY <2>1, <2>2
  <1> QED
    BY <1>1, <1>2, <1>3, <1>4, WorkStep DEF JustConverted, vars, local, history

LEMMA OpenCsvStep == ASSUME IpfixInv, TorsoInv', OpenCsv PROVE IpfixInv'
  <1> USE DEF IpfixInv, IpfixTypeOK
  <1>1. /\ stage = "convert" /\ stage' = "rows" /\ kind' = [kind EXCEPT ![item] = "torn"]
        /\ UNCHANGED <<vars, item, strays, packed, marred, tmp, processed>>
    BY DEF OpenCsv, At, Advance
  <1>2. Regular => Regular'
    BY <1>1 DEF Regular
  <1> QED
    BY <1>1, <1>2, WorkStep DEF JustConverted, vars, local, history, Kinds

LEMMA WriteRowsStep == ASSUME IpfixInv, TorsoInv', WriteRows PROVE IpfixInv'
  <1> USE DEF IpfixInv, IpfixTypeOK
  <1>1. /\ stage = "rows" /\ stage' = "cleanup"
        /\ kind' = [kind EXCEPT ![item] = IF tmp[item] = "rows" THEN "csv" ELSE "header"]
        /\ UNCHANGED <<vars, item, strays, packed, marred, tmp, processed>>
    BY DEF WriteRows, At, Advance
  <1>2. Regular => Regular'
    BY <1>1 DEF Regular
  <1> QED
    BY <1>1, <1>2, WorkStep DEF JustConverted, vars, local, history, Kinds

LEMMA CopyStep ==
    ASSUME IpfixInv, TorsoInv', NEW f \in Files, Copy(f)
    PROVE  IpfixInv'
  <1> USE DEF IpfixInv, IpfixTypeOK, vars, disk, local, history
  <1>1. /\ pc = "open" /\ stage = "next" /\ item' = f /\ tmp' = [tmp EXCEPT ![f] = kind[f]]
        /\ stage' = "filter" /\ UNCHANGED <<vars, kind, processed, strays, packed, marred>>
    BY DEF Copy, At
  <1>2. PICK b \in todo : Oldest(todo, b) /\ f \in FileList(b) \ processed
    BY DEF Copy
  <1>3. f \in batch /\ f \notin processed /\ BinOf[f] = b /\ f \in input /\ f \in written
    BY <1>1, <1>2 DEF FileList, BatchPresent
  <1>4. Traced(f)'
    <2>1. HasCause(BinOf[f]) \/ Untouched(f)
      BY <1>1, <1>3 DEF Traced, Finished
    <2> QED
      BY <2>1, <1>1, CausesStay DEF Traced, Untouched, Regular
  <1>5. ASSUME NEW g \in input', g # f PROVE Traced(g)'
    <2>1. g \in input /\ g \in Files
      BY <1>1, <1>5 DEF TorsoInv, TypeOK
    <2>2. HasCause(BinOf[g]) \/ Untouched(g) \/ Finished(g)
      BY <2>1, <1>1 DEF Traced
    <2>3. kind'[g] = kind[g] /\ tmp'[g] = tmp[g]
      BY <2>1, <1>1, <1>5
    <2>4. HasCause(BinOf[g])' \/ Untouched(g)' \/ Finished(g)'
      BY <2>2, <2>3, <1>1, CausesStay DEF Untouched, Finished
    <2> QED
      BY <2>4, <1>1, <1>5 DEF Traced
  <1>6. \A g \in input' : Traced(g)'
    BY <1>4, <1>5
  <1>7. \A g \in Files \ written' : Untouched(g)'
    BY <1>1, <1>3 DEF Untouched
  <1>8. AtHand' /\ BatchPresent' /\ AllConverted' /\ StrayAtHand'
    BY <1>1, <1>2, <1>3 DEF AtHand, BatchPresent, AllConverted, FileList, StrayAtHand
  <1>9. Converted' /\ StraysHaveCauses' /\ LossesHaveCauses'
    BY <1>1 DEF Converted, StraysHaveCauses, LossesHaveCauses, HasCause, Causes
  <1>10. IpfixTypeOK' /\ JustConverted'
    BY <1>1, <1>3 DEF JustConverted
  <1> QED
    BY <1>6, <1>7, <1>8, <1>9, <1>10

\* A finished file waits for its archive.
LEMMA CleanupStep == ASSUME IpfixInv, TorsoInv', Cleanup PROVE IpfixInv'
  <1> USE DEF IpfixInv, IpfixTypeOK, vars, disk, local, history
  <1>1. /\ pc = "open" /\ stage = "cleanup" /\ tmp' = [tmp EXCEPT ![item] = "none"]
        /\ processed' = processed \union {item} /\ stage' = "next"
        /\ UNCHANGED <<vars, item, kind, strays, packed, marred>>
    BY DEF Cleanup, At, Advance
  <1>2. item \in batch \ processed /\ Oldest(todo, BinOf[item]) /\ item \in input /\ item \in written
    BY <1>1 DEF AtHand, BatchPresent, Oldest
  <1>3. kind[item] \in {"csv", "header"}
    BY <1>1 DEF JustConverted
  <1>4. Traced(item)'
    <2>1. HasCause(BinOf[item]) \/ kind[item] = "csv"
      BY <1>1, <1>2 DEF Traced, Regular
    <2> QED
      BY <2>1, <1>1, <1>2, CausesStay DEF Traced, Finished
  <1>5. ASSUME NEW g \in input', g # item PROVE Traced(g)'
    <2>1. g \in input /\ g \in Files
      BY <1>1, <1>5 DEF TorsoInv, TypeOK
    <2>2. HasCause(BinOf[g]) \/ Untouched(g) \/ Finished(g)
      BY <2>1, <1>1, <1>5 DEF Traced
    <2>3. kind'[g] = kind[g] /\ tmp'[g] = tmp[g]
      BY <2>1, <1>1, <1>5
    <2>4. HasCause(BinOf[g])' \/ Untouched(g)' \/ Finished(g)'
      BY <2>2, <2>3, <1>1, CausesStay DEF Untouched, Finished
    <2> QED
      BY <2>4, <1>1, <1>5 DEF Traced
  <1>6. \A g \in input' : Traced(g)'
    BY <1>1, <1>4, <1>5
  <1>7. \A g \in Files \ written' : Untouched(g)'
    BY <1>1, <1>2 DEF Untouched
  <1>8. AtHand' /\ BatchPresent' /\ AllConverted' /\ StrayAtHand' /\ JustConverted'
    BY <1>1, <1>2 DEF AtHand, BatchPresent, AllConverted, FileList, StrayAtHand, JustConverted
  <1>9. Converted' /\ StraysHaveCauses' /\ LossesHaveCauses'
    BY <1>1, <1>3 DEF Converted, StraysHaveCauses, LossesHaveCauses, HasCause, Causes
  <1>10. IpfixTypeOK'
    BY <1>1, <1>2
  <1> QED
    BY <1>6, <1>7, <1>8, <1>9, <1>10

\* After an exception or a kill only untouched files are left in bins without a cause.
LEMMA EndStep ==
    ASSUME IpfixInv, TorsoInv', LoseMemory, EndOfProcess, UNCHANGED <<disk, history>>,
           marred \subseteq marred', marred' \subseteq Files,
           \A f \in input : HasCause(BinOf[f])' \/ Untouched(f)
    PROVE  IpfixInv'
  <1> USE DEF IpfixInv, IpfixTypeOK, disk, history
  <1>1. /\ pc' = "down" /\ batch' = {} /\ stage' = "next" /\ processed' = {} /\ strays' = {}
        /\ UNCHANGED <<kind, tmp, item, packed, input, written>>
    BY DEF LoseMemory, EndOfProcess
  <1>2. \A f \in input' : Traced(f)'
    BY <1>1 DEF Traced, Untouched
  <1>3. LossesHaveCauses'
    BY <1>1 DEF LossesHaveCauses
  <1> QED
    BY <1>1, <1>2, <1>3
    DEF AtHand, BatchPresent, Converted, JustConverted, AllConverted, StraysHaveCauses,
        StrayAtHand, Untouched

LEMMA RaisesStep == ASSUME IpfixInv, TorsoInv', Raises PROVE IpfixInv'
  <1> USE DEF IpfixInv, IpfixTypeOK
  <1>1. LoseMemory /\ EndOfProcess /\ UNCHANGED <<disk, history, marred>> /\ pc = "open"
    BY DEF Raises, At
  <1>2. HasCause(BinOf[item]) /\ Oldest(todo, BinOf[item])
    <2>1. CASE At("rows") /\ tmp[item] \notin {"rows", "empty"}
      <3>1. item \in input /\ Oldest(todo, BinOf[item])
        BY <2>1 DEF At, AtHand, BatchPresent, Oldest
      <3>2. Traced(item) /\ ~Regular /\ stage # "next"
        BY <3>1, <2>1 DEF At, Regular
      <3> QED
        BY <3>1, <3>2 DEF Traced
    <2>2. CASE item \in processed \intersect strays
      BY <2>2 DEF StraysHaveCauses, StrayAtHand
    <2> QED
      BY <2>1, <2>2 DEF Raises
  <1>3. ASSUME NEW f \in input PROVE HasCause(BinOf[f]) \/ Untouched(f)
    <2>0. f \in Files /\ BinOf[f] \in Bins /\ BinOf[item] \in Bins /\ TypeOK
      BY FilesAssumption DEF TorsoInv, TypeOK
    <2>1. CASE stage # "next" /\ f = item
      BY <2>1, <1>2
    <2>2. CASE Finished(f)
      <3>1. BinOf[f] = BinOf[item]
        BY <2>0, <2>2, <1>1, <1>2, OneOldest DEF Finished
      <3> QED
        BY <3>1, <1>2
    <2> QED
      BY <2>1, <2>2 DEF Traced
  <1>4. \A f \in input : HasCause(BinOf[f])' \/ Untouched(f)
    BY <1>1, <1>3, CausesStay
  <1> QED
    BY <1>1, <1>4, EndStep

LEMMA KillStep == ASSUME IpfixInv, TorsoInv', IpfixKill PROVE IpfixInv'
  <1> USE DEF IpfixInv, IpfixTypeOK
  <1>1. LoseMemory /\ EndOfProcess /\ UNCHANGED <<disk, history>> /\ marred' = marred \union Touched
    BY DEF IpfixKill, Kill
  <1>2. Touched \subseteq Files
    BY DEF Touched, TorsoInv, TypeOK
  <1>3. ASSUME NEW f \in input PROVE HasCause(BinOf[f])' \/ Untouched(f)
    <2>1. CASE f \in Touched
      BY <2>1, <1>1 DEF HasCause, Causes
    <2>2. CASE f \notin Touched
      BY <2>2 DEF Touched, Untouched
    <2> QED
      BY <2>1, <2>2
  <1> QED
    BY <1>1, <1>2, <1>3, EndStep

-----------------------------------------------------------------------------
(* The steps of Pusher.                                                    *)

\* A step that leaves the files and what is known of them as they are.
LEMMA IdleStep ==
    ASSUME IpfixInv, TorsoInv',
           UNCHANGED <<ipfix, input, batch, written>>,
           \/ UNCHANGED <<pc, todo, bin, removing>>
           \/ /\ pc' \notin {"open", "write", "remove"} /\ todo' = todo
              /\ pc \in {"open", "write", "remove"} => pc = "open" /\ todo = {}
    PROVE  IpfixInv'
  <1> USE DEF IpfixInv, IpfixTypeOK, ipfix, work
  <1>1. ASSUME pc \in {"open", "write", "remove"}, pc' \notin {"open", "write", "remove"}
        PROVE  stage = "next" /\ \A f : ~Finished(f)
    BY <1>1 DEF AtHand, Finished, Oldest
  <1>2. ASSUME NEW f \in input' PROVE Traced(f)'
    <2>1. Traced(f)
      BY <1>2
    <2>2. CASE UNCHANGED <<pc, todo, bin, removing>>
      BY <2>1, <2>2 DEF Traced, HasCause, Causes, Regular, Untouched, Finished
    <2>3. CASE pc' \notin {"open", "write", "remove"}
      <3>1. ~Finished(f) /\ stage = "next"
        BY <1>1, <2>3 DEF Finished, AtHand
      <3>2. HasCause(BinOf[f]) \/ Untouched(f)
        BY <2>1, <3>1 DEF Traced
      <3> QED
        BY <3>1, <3>2 DEF Traced, HasCause, Causes, Untouched
    <2> QED
      BY <2>2, <2>3
  <1>3. AtHand' /\ StrayAtHand'
    BY <1>1 DEF AtHand, StrayAtHand, Oldest
  <1>4. BatchPresent' /\ AllConverted'
    BY DEF BatchPresent, AllConverted, FileList
  <1>5. Converted' /\ JustConverted' /\ StraysHaveCauses' /\ LossesHaveCauses'
    BY DEF Converted, JustConverted, StraysHaveCauses, LossesHaveCauses, HasCause, Causes
  <1>6. \A f \in Files \ written' : Untouched(f)'
    BY DEF Untouched
  <1> QED
    BY <1>2, <1>3, <1>4, <1>5, <1>6

LEMMA SendIdle ==
    ASSUME IpfixInv, TorsoInv', Send, UNCHANGED ipfix
    PROVE  IpfixInv'
  <1>1. UNCHANGED <<input, batch, written>>
    BY DEF Send, ListArchives, SkipEmpty, Expire, Upload, Sendable, UploadTooLarge, UploadFails,
           Signal, SignalFails, RemoveArchive, Finish, disk, history
  <1>2. /\ pc' \notin {"open", "write", "remove"} /\ todo' = todo
        /\ pc \in {"open", "write", "remove"} => pc = "open" /\ todo = {}
    BY DEF Send, ListArchives, SkipEmpty, Expire, Upload, Sendable, UploadTooLarge, UploadFails,
           Signal, SignalFails, RemoveArchive, Finish, Abort
  <1> QED
    BY <1>1, <1>2, IdleStep

LEMMA ArriveStep ==
    ASSUME IpfixInv, TorsoInv', NEW f \in Files, Arrive(f), UNCHANGED ipfix
    PROVE  IpfixInv'
  <1> USE DEF IpfixInv, IpfixTypeOK, ipfix, work
  <1>1. /\ f \notin written /\ written' = written \union {f} /\ input' = input \union {f}
        /\ UNCHANGED <<pc, batch, todo, bin, removing>>
    BY DEF Arrive, local
  <1>2. f # item \/ stage = "next"
    BY <1>1 DEF AtHand
  <1>3. ASSUME NEW g \in input' PROVE Traced(g)'
    <2>1. CASE g \in input
      BY <2>1, <1>1 DEF Traced, HasCause, Causes, Regular, Untouched, Finished
    <2>2. CASE g = f
      BY <2>2, <1>1, <1>2 DEF Traced, Untouched
    <2> QED
      BY <2>1, <2>2, <1>1
  <1>4. AtHand' /\ StrayAtHand' /\ BatchPresent' /\ AllConverted' /\ IpfixTypeOK'
    BY <1>1 DEF AtHand, StrayAtHand, BatchPresent, AllConverted, FileList
  <1>5. Converted' /\ JustConverted' /\ StraysHaveCauses' /\ LossesHaveCauses'
    BY DEF Converted, JustConverted, StraysHaveCauses, LossesHaveCauses, HasCause, Causes
  <1>6. \A g \in Files \ written' : Untouched(g)'
    BY <1>1 DEF Untouched
  <1> QED
    BY <1>3, <1>4, <1>5, <1>6

\* A file that cannot be removed is a cause of what happens to its bin.
LEMMA RemoveStep ==
    ASSUME IpfixInv, TorsoInv', NEW f \in Files, RemoveFile(f), UNCHANGED ipfix
    PROVE  IpfixInv'
  <1> USE DEF IpfixInv, IpfixTypeOK, ipfix, work
  <1>1. /\ pc = "remove" /\ f \in removing /\ removing' = removing \ {f}
        /\ input' = input \ {f} \/ (f \in Stuck /\ input' = input)
        /\ UNCHANGED <<pc, batch, todo, bin, written>>
    BY DEF RemoveFile, history
  <1>2. BinOf[f] = bin /\ \A c \in todo : bin < c
    BY <1>1 DEF TorsoInv, RemovingCurrent, CurrentIsOldest
  <1>3. BinOf[f] \notin todo
    <2>1. bin \in Int
      BY DEF TorsoInv, TypeOK, Bins
    <2> QED
      BY <1>2, <2>1
  <1>4. stage = "next"
    BY <1>1 DEF AtHand
  <1>5. ASSUME NEW g \in input' PROVE Traced(g)'
    <2>1. Traced(g)
      BY <1>1, <1>5
    <2>2. CASE g = f
      <3>1. f \in Stuck
        BY <1>1, <1>5, <2>2
      <3> QED
        BY <3>1, <2>2 DEF Traced, HasCause, Causes
    <2>3. CASE g # f
      BY <2>1, <2>3, <1>1, <1>4 DEF Traced, HasCause, Causes, Untouched, Finished
    <2> QED
      BY <2>2, <2>3
  <1>6. AtHand' /\ StrayAtHand' /\ AllConverted' /\ IpfixTypeOK'
    BY <1>1, <1>4 DEF AtHand, StrayAtHand, AllConverted
  <1>7. BatchPresent'
    BY <1>1, <1>3 DEF BatchPresent
  <1>8. Converted' /\ JustConverted' /\ StraysHaveCauses' /\ LossesHaveCauses'
    BY DEF Converted, JustConverted, StraysHaveCauses, LossesHaveCauses, HasCause, Causes
  <1>9. \A g \in Files \ written' : Untouched(g)'
    BY <1>1 DEF Untouched
  <1> QED
    BY <1>5, <1>6, <1>7, <1>8, <1>9

\* Every file of the archived bin has been removed, or is a cause.
LEMMA DoneStep ==
    ASSUME IpfixInv, TorsoInv', ArchiveDone, UNCHANGED ipfix
    PROVE  IpfixInv'
  <1> USE DEF IpfixInv, IpfixTypeOK, ipfix, work, disk, history
  <1>1. /\ pc = "remove" /\ removing = {} /\ pc' = "open"
        /\ UNCHANGED <<input, batch, todo, bin, removing, written>>
    BY DEF ArchiveDone
  <1>2. stage = "next" /\ \A f : ~Finished(f)
    BY <1>1 DEF AtHand, Finished
  <1>3. \A f \in input' : Traced(f)'
    BY <1>1, <1>2 DEF Traced, HasCause, Causes, Untouched
  <1>4. AtHand' /\ StrayAtHand' /\ AllConverted' /\ BatchPresent'
    BY <1>1, <1>2 DEF AtHand, StrayAtHand, AllConverted, BatchPresent
  <1>5. Converted' /\ JustConverted' /\ StraysHaveCauses' /\ LossesHaveCauses'
    BY DEF Converted, JustConverted, StraysHaveCauses, LossesHaveCauses, HasCause, Causes
  <1>6. \A f \in Files \ written' : Untouched(f)'
    BY <1>1 DEF Untouched
  <1> QED
    BY <1>1, <1>3, <1>4, <1>5, <1>6

LEMMA ScanStep == ASSUME IpfixInv, TorsoInv', IpfixGetFileBins PROVE IpfixInv'
  <1> USE DEF IpfixInv, IpfixTypeOK, disk, history
  <1>1. /\ pc = "scan" /\ pc' = "open" /\ batch' = input
        /\ processed' = {} /\ strays' = {f \in input : tmp[f] # "none"}
        /\ UNCHANGED <<input, written, kind, tmp, stage, item, packed, marred>>
    BY DEF IpfixGetFileBins, GetFileBins
  <1>2. stage = "next" /\ input \subseteq written /\ input \subseteq Files
    BY <1>1 DEF AtHand, TorsoInv, TypeOK
  <1>3. \A f \in input : HasCause(BinOf[f]) \/ Untouched(f)
    BY <1>1, <1>2 DEF Traced, Finished
  <1>4. \A f \in input' : Traced(f)'
    BY <1>1, <1>2, <1>3 DEF Traced, HasCause, Causes, Untouched
  <1>5. StraysHaveCauses'
    BY <1>1, <1>3 DEF StraysHaveCauses, HasCause, Causes, Untouched
  <1>6. /\ AtHand' /\ StrayAtHand' /\ AllConverted' /\ BatchPresent' /\ IpfixTypeOK'
        /\ Converted' /\ JustConverted'
    BY <1>1, <1>2
    DEF AtHand, StrayAtHand, AllConverted, BatchPresent, Converted, JustConverted
  <1>7. LossesHaveCauses' /\ \A f \in Files \ written' : Untouched(f)'
    BY <1>1 DEF LossesHaveCauses, Untouched
  <1> QED
    BY <1>4, <1>5, <1>6, <1>7

LEMMA OpenStep == ASSUME IpfixInv, TorsoInv', IpfixOpenArchive PROVE IpfixInv'
  <1> USE DEF IpfixInv, IpfixTypeOK, ipfix, work, history
  <1>1. /\ pc = "open" /\ pc' = "write" /\ stage = "next" /\ item \notin processed \intersect strays
        /\ FileList(bin') \subseteq processed
        /\ UNCHANGED <<ipfix, input, batch, written>>
    BY DEF IpfixOpenArchive, OpenArchive, At
  <1>2. PICK b \in todo : Oldest(todo, b) /\ bin' = b /\ todo' = todo \ {b}
    BY DEF IpfixOpenArchive, OpenArchive
  <1>3. ASSUME NEW f \in input' PROVE Traced(f)'
    <2>0. f \in Files /\ BinOf[f] \in Bins /\ b \in Bins /\ TypeOK
      BY <1>1, <1>2, <1>3, FilesAssumption DEF TorsoInv, TypeOK
    <2>1. HasCause(BinOf[f]) \/ Untouched(f) \/ Finished(f)
      BY <1>1, <1>3 DEF Traced
    <2>2. CASE Finished(f)
      <3>1. BinOf[f] = b
        BY <2>0, <2>2, <1>1, <1>2, OneOldest DEF Finished
      <3> QED
        BY <3>1, <2>2, <1>1, <1>2 DEF Traced, Finished
    <2> QED
      BY <2>1, <2>2, <1>1 DEF Traced, HasCause, Causes, Untouched
  <1>4. AtHand' /\ StrayAtHand' /\ AllConverted' /\ IpfixTypeOK'
    BY <1>1 DEF AtHand, StrayAtHand, AllConverted, FileList
  <1>5. BatchPresent'
    BY <1>1, <1>2 DEF BatchPresent
  <1>6. Converted' /\ JustConverted' /\ StraysHaveCauses' /\ LossesHaveCauses'
    BY <1>1 DEF Converted, JustConverted, StraysHaveCauses, LossesHaveCauses, HasCause, Causes
  <1>7. \A f \in Files \ written' : Untouched(f)'
    BY <1>1 DEF Untouched
  <1> QED
    BY <1>3, <1>4, <1>5, <1>6, <1>7

\* An archive gets converted files, and one without rows from a bin with a cause only.
LEMMA WriteStep == ASSUME IpfixInv, TorsoInv', IpfixWriteArchive PROVE IpfixInv'
  <1> USE DEF IpfixInv, IpfixTypeOK, ipfix, work, history
  <1>1. /\ pc = "write" /\ pc' = "remove" /\ removing' = FileList(bin)
        /\ UNCHANGED <<input, batch, todo, bin, written, kind, tmp, work, marred>>
    BY DEF IpfixWriteArchive, WriteArchive
  <1>2. packed' = [f \in Files |-> IF f \in content'[bin] THEN kind[f] ELSE packed[f]]
    BY DEF IpfixWriteArchive
  <1>3. content'[bin] \subseteq FileList(bin)
    BY DEF IpfixWriteArchive, WriteArchive, TorsoInv, TypeOK
  <1>4. stage = "next"
    BY <1>1 DEF AtHand
  <1>5. ASSUME NEW f \in FileList(bin)
        PROVE  kind[f] \in {"csv", "header"} /\ (kind[f] = "header" => HasCause(BinOf[f]))
    <2>1. f \in processed /\ f \in input
      BY <1>1 DEF AllConverted, BatchPresent, FileList
    <2>2. kind[f] \in {"csv", "header"} /\ Traced(f)
      BY <2>1 DEF Converted
    <2> QED
      BY <2>2, <1>4 DEF Traced, Untouched, Finished
  <1>6. LossesHaveCauses'
    BY <1>1, <1>2, <1>3, <1>5 DEF LossesHaveCauses, HasCause, Causes
  <1>7. ASSUME NEW f \in input' PROVE Traced(f)'
    <2>1. HasCause(BinOf[f]) \/ Untouched(f) \/ Finished(f)
      BY <1>1, <1>4, <1>7 DEF Traced
    <2>2. Finished(f) => Finished(f)'
      BY <1>1 DEF Finished, FileList
    <2> QED
      BY <2>1, <2>2, <1>1, <1>4 DEF Traced, HasCause, Causes, Untouched
  <1>8. AtHand' /\ StrayAtHand' /\ AllConverted' /\ IpfixTypeOK' /\ BatchPresent'
    BY <1>1, <1>4 DEF AtHand, StrayAtHand, AllConverted, BatchPresent
  <1>9. Converted' /\ JustConverted' /\ StraysHaveCauses'
    BY <1>1 DEF Converted, JustConverted, StraysHaveCauses, HasCause, Causes
  <1>10. \A f \in Files \ written' : Untouched(f)'
    BY <1>1 DEF Untouched
  <1> QED
    BY <1>6, <1>7, <1>8, <1>9, <1>10

LEMMA IpfixInvStep == IpfixInv /\ [IpfixNext]_ipfixVars => IpfixInv'
  <1> SUFFICES ASSUME IpfixInv, [IpfixNext]_ipfixVars PROVE IpfixInv'
    OBVIOUS
  <1>0. TorsoInv'
    BY IpfixTorsoStep DEF IpfixInv
  <1>1. CASE Filter \/ Aggregate \/ OpenCsv \/ WriteRows \/ Cleanup \/ (\E f \in Files : Copy(f))
    BY <1>0, <1>1, FilterStep, AggregateStep, OpenCsvStep, WriteRowsStep, CleanupStep, CopyStep
  <1>2. CASE Raises \/ IpfixKill
    BY <1>0, <1>2, RaisesStep, KillStep
  <1>3. CASE IpfixGetFileBins \/ IpfixOpenArchive \/ IpfixWriteArchive
    BY <1>0, <1>3, ScanStep, OpenStep, WriteStep
  <1>4. CASE (\E f \in Files : RemoveFile(f)) /\ UNCHANGED ipfix
    BY <1>0, <1>4, RemoveStep
  <1>5. CASE (\E f \in Files : Arrive(f)) /\ UNCHANGED ipfix
    BY <1>0, <1>5, ArriveStep
  <1>6. CASE ArchiveDone /\ UNCHANGED ipfix
    BY <1>0, <1>6, DoneStep
  <1>7. CASE Send /\ UNCHANGED ipfix
    BY <1>0, <1>7, SendIdle
  <1>8. CASE (Heartbeat \/ HeartbeatFails \/ Tick \/ Restart) /\ UNCHANGED ipfix
    <2>1. UNCHANGED <<input, batch, written>>
      BY <1>8 DEF Heartbeat, HeartbeatFails, Tick, Restart, disk, local, history
    <2>2. \/ UNCHANGED <<pc, todo, bin, removing>>
          \/ /\ pc' \notin {"open", "write", "remove"} /\ todo' = todo
             /\ pc \in {"open", "write", "remove"} => pc = "open" /\ todo = {}
      BY <1>8 DEF Heartbeat, HeartbeatFails, Abort, Tick, Restart, local
    <2> QED
      BY <2>1, <2>2, <1>0, <1>8, IdleStep
  <1>9. CASE UNCHANGED ipfixVars
    BY <1>0, <1>9, IdleStep DEF ipfixVars, vars, disk, local, history
  <1> QED
    BY <1>1, <1>2, <1>3, <1>4, <1>5, <1>6, <1>7, <1>8, <1>9, IpfixCases

\* Whatever the SiLK tools fail on and whatever is killed, no archive holds anything
\* but converted files, and rows are lost only in the bin of a file that could not
\* be read or removed, or was marred by a kill: an exception in one bin does no
\* harm to another.
THEOREM RowsLostForCauses == IpfixSpec => []LossesHaveCauses
  <1>1. IpfixInv => LossesHaveCauses
    BY DEF IpfixInv
  <1>. QED
    BY <1>1, IpfixInvInit, IpfixInvStep, PTL DEF IpfixSpec

\* Nor does the IPFIX pusher ever take a file of the newest bin.
THEOREM IpfixNewestNeverTouched == IpfixSpec => NewestBinUntouched
  <1>1. TorsoInv /\ [IpfixNext]_ipfixVars =>
          [\A f \in input \ input' : \E g \in input' : BinOf[g] > BinOf[f]]_vars
    BY IpfixSteps, NewestStep DEF Ends, disk
  <1>2. IpfixInit => TorsoInv
    BY TorsoInit DEF IpfixInit
  <1>. QED
    BY <1>1, <1>2, IpfixTorsoStep, PTL DEF IpfixSpec, NewestBinUntouched
=============================================================================
