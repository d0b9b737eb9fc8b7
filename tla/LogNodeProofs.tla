--------------------------- MODULE LogNodeProofs ---------------------------
(***************************************************************************)
(* Theorems about the nodes of a LogWatcher, for every number of lines,    *)
(* rotations, truncations, ends of journalctl and kills: first LogNode,    *)
(* then JournalNode, an instance over the same WatchNode, and then         *)
(* SyslogAdWatcher, an instance over the same LogFile; at the end, that    *)
(* LogNode and SyslogAdWatcher implement Relay.                            *)
(***************************************************************************)
EXTENDS LogNode, FiniteSetTheorems, SequenceTheorems, WellFoundedInduction, TLAPS

\* Every action of the next-state relation, for the case splits below.
LEMMA NextCases ==
    ASSUME [Next]_vars
    PROVE  \/ (Log /\ Write) \/ (Log /\ Rename) \/ (Log /\ Reopen) \/ (Log /\ Truncate)
           \/ Tick \/ Open \/ Read \/ Stat \/ Kill \/ Restart \/ UNCHANGED vars
           \/ (Flush /\ Upload) \/ (Flush /\ UploadTooLarge) \/ (Flush /\ UploadFails)
           \/ (Flush /\ Signal) \/ (Flush /\ SignalFails)
  <1>1. Log => (Log /\ Write) \/ (Log /\ Rename) \/ (Log /\ Reopen) \/ (Log /\ Truncate)
    BY DEF Log, LogStep
  <1>2. Flush => \/ (Flush /\ Upload) \/ (Flush /\ UploadTooLarge) \/ (Flush /\ UploadFails)
                 \/ (Flush /\ Signal) \/ (Flush /\ SignalFails)
    BY DEF Flush, FlushData
  <1> QED
    BY <1>1, <1>2 DEF Next, CheckData

-----------------------------------------------------------------------------
(* Sequences of lines.                                                     *)

Rising(s) == \A i, j \in 1 .. Len(s) : i < j => s[i] < s[j]

\* The elements of two sequences put together.
LEMMA RangeOfConcat ==
    ASSUME NEW S, NEW s \in Seq(S), NEW t \in Seq(S)
    PROVE  Range(s \o t) = Range(s) \union Range(t)
  <1>1. /\ DOMAIN s = 1 .. Len(s) /\ DOMAIN t = 1 .. Len(t) /\ Len(s) \in Nat /\ Len(t) \in Nat
        /\ DOMAIN (s \o t) = 1 .. Len(s) + Len(t)
    BY ConcatProperties, LenProperties
  <1>2. \A i \in 1 .. Len(s) : (s \o t)[i] = s[i] /\ i \in 1 .. Len(s) + Len(t)
    BY <1>1, ConcatProperties
  <1>3. \A i \in 1 .. Len(t) : (s \o t)[Len(s) + i] = t[i] /\ Len(s) + i \in 1 .. Len(s) + Len(t)
    BY <1>1, ConcatProperties
  <1>4. \A i \in 1 .. Len(s) + Len(t) :
          \/ i \in 1 .. Len(s) /\ (s \o t)[i] = s[i]
          \/ i - Len(s) \in 1 .. Len(t) /\ (s \o t)[i] = t[i - Len(s)]
    BY <1>1, ConcatProperties
  <1>5. Range(s) \union Range(t) \subseteq Range(s \o t)
    BY <1>1, <1>2, <1>3 DEF Range
  <1>6. Range(s \o t) \subseteq Range(s) \union Range(t)
    BY <1>1, <1>4 DEF Range
  <1> QED
    BY <1>5, <1>6

\* The elements of a sequence with one more.
LEMMA RangeOfAppend ==
    ASSUME NEW S, NEW s \in Seq(S), NEW e \in S
    PROVE  Range(Append(s, e)) = Range(s) \union {e}
  <1>1. DOMAIN s = 1 .. Len(s) /\ Len(s) \in Nat
    BY LenProperties
  <1> DEFINE t == Append(s, e)
  <1>2. /\ DOMAIN t = 1 .. Len(s) + 1 /\ t[Len(s) + 1] = e
        /\ \A i \in 1 .. Len(s) : t[i] = s[i]
    BY AppendProperties, LenProperties
  <1> HIDE DEF t
  <1>3. 1 .. Len(s) + 1 = 1 .. Len(s) \union {Len(s) + 1}
    BY <1>1
  <1> QED
    BY <1>1, <1>2, <1>3 DEF Range, t

\* The elements of an empty sequence, and of one of lines.
LEMMA RangeOfEmpty == Range(<<>>) = {} /\ Rising(<<>>)
  BY DEF Range, Rising

LEMMA RangeOfLines ==
    ASSUME NEW s \in Seq(Lines)
    PROVE  Range(s) \subseteq Lines
  BY LenProperties, ElementOfSeq DEF Range

\* Lines that come after all others keep a sequence rising.
LEMMA RisingConcat ==
    ASSUME NEW s \in Seq(Lines), NEW t \in Seq(Lines), Rising(s), Rising(t),
           \A k \in Range(s), l \in Range(t) : k < l
    PROVE  Rising(s \o t)
  <1>1. /\ Len(s) \in Nat /\ Len(t) \in Nat /\ Len(s \o t) = Len(s) + Len(t)
        /\ \A i \in 1 .. Len(s) : s[i] \in Range(s)
        /\ \A i \in 1 .. Len(t) : t[i] \in Range(t)
    BY ConcatProperties, LenProperties DEF Range
  <1> SUFFICES ASSUME NEW i \in 1 .. Len(s) + Len(t), NEW j \in 1 .. Len(s) + Len(t), i < j
               PROVE  (s \o t)[i] < (s \o t)[j]
    BY <1>1 DEF Rising
  <1>2. CASE j <= Len(s)
    <2>1. i \in 1 .. Len(s) /\ j \in 1 .. Len(s)
      BY <1>1, <1>2
    <2>2. (s \o t)[i] = s[i] /\ (s \o t)[j] = s[j]
      BY <1>1, <2>1, ConcatProperties
    <2> QED
      BY <2>1, <2>2 DEF Rising
  <1>3. CASE i <= Len(s) /\ j > Len(s)
    <2>1. i \in 1 .. Len(s) /\ j - Len(s) \in 1 .. Len(t)
      BY <1>1, <1>3
    <2>2. (s \o t)[i] = s[i] /\ (s \o t)[j] = t[j - Len(s)]
      BY <1>1, <1>3, <2>1, ConcatProperties
    <2> QED
      BY <1>1, <2>1, <2>2
  <1>4. CASE i > Len(s)
    <2>1. i - Len(s) \in 1 .. Len(t) /\ j - Len(s) \in 1 .. Len(t) /\ i - Len(s) < j - Len(s)
      BY <1>1, <1>4
    <2>2. (s \o t)[i] = t[i - Len(s)] /\ (s \o t)[j] = t[j - Len(s)]
      BY <1>1, <1>4, <2>1, ConcatProperties
    <2> QED
      BY <2>1, <2>2 DEF Rising
  <1> QED
    BY <1>1, <1>2, <1>3, <1>4

\* The unread lines are those of the open file behind the read position.
LEMMA UnreadLines ==
    ASSUME LogTypeOK
    PROVE  /\ Unread \in Seq(Lines) /\ Len(Unread) \in Nat
           /\ fd # 0 => /\ pos + Len(Unread) >= Len(text[fd])
                        /\ \A n \in 1 .. Len(Unread) :
                             pos + n \in pos + 1 .. Len(text[fd]) /\ Unread[n] = text[fd][pos + n]
           /\ fd = 0 => Unread = <<>>
  <1>1. CASE fd = 0
    BY <1>1, EmptySeq DEF Unread
  <1>2. CASE fd # 0
    <2> DEFINE s == text[fd]
    <2>1. s \in Seq(Lines) /\ Len(s) \in Nat /\ pos \in Nat
      BY <1>2, LenProperties DEF LogTypeOK
    <2>2. \A i \in pos + 1 .. Len(s) : s[i] \in Lines
      BY <2>1, ElementOfSeq
    <2>3. Unread = SubSeq(s, pos + 1, Len(s))
      BY <1>2 DEF Unread
    <2> HIDE DEF s
    <2>4. /\ SubSeq(s, pos + 1, Len(s)) \in Seq(Lines)
          /\ Len(SubSeq(s, pos + 1, Len(s))) = IF pos + 1 <= Len(s) THEN Len(s) - (pos + 1) + 1 ELSE 0
          /\ \A i \in 1 .. Len(s) - (pos + 1) + 1 : SubSeq(s, pos + 1, Len(s))[i] = s[pos + 1 + i - 1]
      BY <2>1, <2>2, SubSeqProperties
    <2>5. /\ Len(Unread) \in Nat /\ pos + Len(Unread) >= Len(s)
          /\ \A n \in 1 .. Len(Unread) : n \in 1 .. Len(s) - (pos + 1) + 1
      BY <2>1, <2>3, <2>4
    <2>6. \A n \in 1 .. Len(Unread) : pos + n \in pos + 1 .. Len(s) /\ Unread[n] = s[pos + n]
      <3> SUFFICES ASSUME NEW n \in 1 .. Len(Unread)
                   PROVE  pos + n \in pos + 1 .. Len(s) /\ Unread[n] = s[pos + n]
        OBVIOUS
      <3>1. n \in 1 .. Len(s) - (pos + 1) + 1
        BY <2>5
      <3>2. pos + n \in pos + 1 .. Len(s) /\ pos + 1 + n - 1 = pos + n
        BY <2>1, <3>1
      <3>3. Unread[n] = s[pos + 1 + n - 1]
        BY <2>3, <2>4, <3>1
      <3> QED
        BY <3>2, <3>3
    <2>7. Unread \in Seq(Lines) /\ s = text[fd]
      BY <2>3, <2>4 DEF s
    <2> QED
      BY <1>2, <2>5, <2>6, <2>7
  <1> QED
    BY <1>1, <1>2

-----------------------------------------------------------------------------
(* The log file and the read position.  Whoever reads it, every line that  *)
(* was read is older than all that can still be read: those behind the     *)
(* read position of the open file, or else those of the file that is       *)
(* opened next.                                                            *)

\* There is an inode for every file that logrotate creates, and the writer has the
\* newest one.
PathInv ==
    /\ path \in {0, writer} /\ fd <= writer
    /\ path = 0 => writer < MaxInodes

\* Lines rise within a file and from file to file.
FileInv ==
    /\ \A i \in Inodes : i > writer => text[i] = <<>>
    /\ \A i \in Inodes : Rising(text[i]) /\ \A n \in 1 .. Len(text[i]) : text[i][n] <= lastLine
    /\ \A i, j \in Inodes : i < j =>
         \A m \in 1 .. Len(text[i]), n \in 1 .. Len(text[j]) : text[i][m] < text[j][n]

FileOK == LogTypeOK /\ PathInv /\ FileInv

\* The n-th line of inode i can still be read.
Readable(i, n) ==
    IF fd # 0 THEN i > fd \/ (i = fd /\ n > pos)
    ELSE IF path # 0 THEN i >= path
    ELSE i > writer

\* Line l is older than all lines that can still be read.
Older(l) == \A i \in Inodes : \A n \in 1 .. Len(text[i]) : Readable(i, n) => l < text[i][n]

\* Every line in a file has been written.
LEMMA LineFacts ==
    ASSUME FileOK, NEW i \in Inodes
    PROVE  /\ text[i] \in Seq(Lines) /\ Len(text[i]) \in Nat
           /\ \A n \in 1 .. Len(text[i]) : text[i][n] \in Nat /\ text[i][n] <= lastLine
  <1>1. text[i] \in Seq(Lines)
    BY DEF FileOK, LogTypeOK
  <1>2. Len(text[i]) \in Nat
    BY <1>1, LenProperties
  <1>3. \A n \in 1 .. Len(text[i]) : text[i][n] \in Lines
    BY <1>1, ElementOfSeq
  <1> QED
    BY <1>1, <1>2, <1>3 DEF FileOK, FileInv, Lines

LEMMA PathFacts ==
    ASSUME FileOK
    PROVE  /\ writer \in Inodes /\ fd \in Nat /\ path \in Nat /\ pos \in Nat /\ lastLine \in Nat
           /\ path \in {0, writer} /\ fd <= writer /\ (fd # 0 => fd \in Inodes)
           /\ Inodes \subseteq Nat /\ \A i \in Inodes : i > 0
  BY LogAssumption DEF FileOK, LogTypeOK, PathInv, Inodes

LEMMA FileInit == LogInit => FileOK
  <1> SUFFICES ASSUME LogInit PROVE FileOK
    OBVIOUS
  <1>1. \A i \in Inodes : text[i] = <<>> /\ text[i] \in Seq(Lines) /\ Rising(text[i]) /\ Len(text[i]) = 0
    BY RangeOfEmpty, EmptySeq DEF LogInit
  <1>2. LogTypeOK
    BY <1>1, LogAssumption DEF LogInit, LogTypeOK, Inodes
  <1>3. PathInv
    BY DEF LogInit, PathInv
  <1> QED
    BY <1>1, <1>2, <1>3 DEF FileOK, FileInv

\* A written line is newer than all others.
LEMMA WriteKeeps ==
    ASSUME FileOK, Write, UNCHANGED <<fd, pos>>
    PROVE  FileOK' /\ \A k \in Nat : k <= lastLine => k <= lastLine' /\ (Older(k) => Older(k)')
  <1> DEFINE l == lastLine + 1
  <1> DEFINE s == text[writer]
  <1>1. /\ text' = [text EXCEPT ![writer] = Append(s, l)] /\ lastLine' = l
        /\ UNCHANGED <<path, writer, truncations, fd, pos>>
    BY DEF Write
  <1>2. /\ l \in Nat /\ lastLine \in Nat /\ writer \in Inodes /\ s \in Seq(Lines) /\ Len(s) \in Nat
        /\ l \in Lines /\ l \in 0 .. MaxLines /\ Inodes \subseteq Nat
    BY LogAssumption, LineFacts, PathFacts DEF Write, FileOK, LogTypeOK, Lines
  <1>3. /\ Len(Append(s, l)) = Len(s) + 1 /\ Append(s, l)[Len(s) + 1] = l
        /\ \A n \in 1 .. Len(s) : Append(s, l)[n] = s[n] /\ s[n] \in Lines
    BY <1>2, ElementOfSeq
  <1>4. \A i \in Inodes : i # writer => text'[i] = text[i]
    BY <1>1
  <1>5. text'[writer] = Append(s, l)
    BY <1>1, <1>2 DEF FileOK, LogTypeOK
  \* A line of the new state is one of the old or the new one.
  <1>6. \A i \in Inodes : \A n \in 1 .. Len(text'[i]) :
          \/ n \in 1 .. Len(text[i]) /\ text'[i][n] = text[i][n]
          \/ i = writer /\ n = Len(s) + 1 /\ text'[i][n] = l
    <2>1. \A n \in 1 .. Len(s) + 1 : n \in 1 .. Len(s) \/ n = Len(s) + 1
      BY <1>2
    <2> QED
      BY <1>3, <1>4, <1>5, <2>1
  <1>7. \A i \in Inodes : text[i] \in Seq(Lines) /\ Len(text[i]) \in Nat
                            /\ \A n \in 1 .. Len(text[i]) : text[i][n] \in Nat /\ text[i][n] <= lastLine
    BY LineFacts
  <1>8. FileInv'
    <2>1. \A i \in Inodes : i > writer => text'[i] = <<>>
      BY <1>2, <1>4 DEF FileOK, FileInv, Inodes
    <2>2. \A i \in Inodes : \A n \in 1 .. Len(text'[i]) : text'[i][n] <= lastLine'
      BY <1>1, <1>2, <1>6, <1>7
    <2>3. \A i \in Inodes : Rising(text'[i])
      <3>1. ASSUME NEW i \in Inodes, NEW m \in 1 .. Len(text'[i]), NEW n \in 1 .. Len(text'[i]), m < n
            PROVE  text'[i][m] < text'[i][n]
        <4>1. CASE n \in 1 .. Len(text[i]) /\ text'[i][n] = text[i][n]
          <5>1. ~ (i = writer /\ m = Len(s) + 1)
            BY <1>2, <1>7, <3>1, <4>1
          <5>2. m \in 1 .. Len(text[i]) /\ text'[i][m] = text[i][m]
            BY <1>6, <5>1
          <5> QED
            BY <3>1, <4>1, <5>2 DEF FileOK, FileInv, Rising
        <4>2. CASE i = writer /\ n = Len(s) + 1 /\ text'[i][n] = l
          <5>1. m # Len(s) + 1
            BY <1>2, <3>1, <4>2
          <5>2. m \in 1 .. Len(text[i]) /\ text'[i][m] = text[i][m]
            BY <1>6, <5>1
          <5> QED
            BY <1>2, <1>7, <4>2, <5>2
        <4> QED
          BY <1>6, <4>1, <4>2
      <3> QED
        BY <3>1 DEF Rising
    <2>4. ASSUME NEW i \in Inodes, NEW j \in Inodes, i < j,
                 NEW m \in 1 .. Len(text'[i]), NEW n \in 1 .. Len(text'[j])
          PROVE  text'[i][m] < text'[j][n]
      <3>1. CASE n \in 1 .. Len(text[j]) /\ text'[j][n] = text[j][n]
        <4>1. j <= writer
          BY <1>2, <1>7, <3>1, EmptySeq DEF FileOK, FileInv
        <4>2. i # writer
          BY <1>2, <2>4, <4>1
        <4> QED
          BY <1>6, <2>4, <3>1, <4>2 DEF FileOK, FileInv
      <3>2. CASE j = writer /\ text'[j][n] = l
        <4>1. i # writer
          BY <1>2, <2>4, <3>2
        <4>2. m \in 1 .. Len(text[i]) /\ text'[i][m] = text[i][m]
          BY <1>6, <4>1
        <4>3. text[i][m] \in Nat /\ text[i][m] <= lastLine
          BY <1>7, <4>2
        <4> QED
          BY <1>2, <3>2, <4>2, <4>3
      <3> QED
        BY <1>6, <3>1, <3>2
    <2> QED
      BY <1>1, <2>1, <2>2, <2>3, <2>4 DEF FileInv
  <1>9. LogTypeOK' /\ PathInv'
    <2>1. text' \in [Inodes -> Seq(Lines)]
      <3>1. Append(s, l) \in Seq(Lines)
        BY <1>2, AppendProperties
      <3> QED
        BY <1>1, <3>1 DEF FileOK, LogTypeOK
    <2> QED
      BY <1>1, <1>2, <2>1 DEF FileOK, LogTypeOK, PathInv
  <1>10. ASSUME NEW k \in Nat, k <= lastLine PROVE k <= lastLine' /\ (Older(k) => Older(k)')
    <2>1. k < l /\ k <= lastLine'
      BY <1>1, <1>2, <1>10
    <2>2. ASSUME Older(k), NEW i \in Inodes, NEW n \in 1 .. Len(text'[i]), Readable(i, n)
          PROVE  k < text'[i][n]
      BY <1>6, <1>10, <2>1, <2>2 DEF Older
    <2>3. \A i, n : Readable(i, n)' <=> Readable(i, n)
      BY <1>1 DEF Readable
    <2> QED
      BY <2>1, <2>2, <2>3 DEF Older
  <1> QED
    BY <1>8, <1>9, <1>10 DEF FileOK

\* Truncating a file takes lines away only.
LEMMA TruncateKeeps ==
    ASSUME FileOK, Truncate, UNCHANGED <<fd, pos>>
    PROVE  FileOK' /\ lastLine' = lastLine /\ \A k \in Nat : Older(k) => Older(k)'
  <1>1. /\ text' = [text EXCEPT ![path] = <<>>] /\ truncations' \in 0 .. MaxTruncations
        /\ UNCHANGED <<path, writer, lastLine, fd, pos>>
    BY LogAssumption DEF Truncate, FileOK, LogTypeOK
  <1>2. \A i \in Inodes : \/ text'[i] = text[i]
                          \/ text'[i] = <<>> /\ Len(text'[i]) = 0 /\ Rising(text'[i])
    BY <1>1, RangeOfEmpty DEF FileOK, LogTypeOK
  <1>3. \A i \in Inodes : \A n \in 1 .. Len(text'[i]) : n \in 1 .. Len(text[i]) /\ text'[i][n] = text[i][n]
    BY <1>2
  <1>4. FileInv'
    <2>1. \A i \in Inodes : i > writer => text'[i] = <<>>
      BY <1>2 DEF FileOK, FileInv
    <2>2. \A i \in Inodes : Rising(text'[i]) /\ \A n \in 1 .. Len(text'[i]) : text'[i][n] <= lastLine
      BY <1>2, <1>3 DEF FileOK, FileInv
    <2>3. \A i, j \in Inodes : i < j =>
            \A m \in 1 .. Len(text'[i]), n \in 1 .. Len(text'[j]) : text'[i][m] < text'[j][n]
      BY <1>3 DEF FileOK, FileInv
    <2> QED
      BY <1>1, <2>1, <2>2, <2>3 DEF FileInv
  <1>5. LogTypeOK' /\ PathInv'
    <2>1. text' \in [Inodes -> Seq(Lines)]
      BY <1>1, EmptySeq DEF FileOK, LogTypeOK
    <2> QED
      BY <1>1, <2>1 DEF FileOK, LogTypeOK, PathInv
  <1>6. \A i, n : Readable(i, n)' <=> Readable(i, n)
    BY <1>1 DEF Readable
  <1>7. \A k : Older(k) => Older(k)'
    BY <1>3, <1>6 DEF Older
  <1> QED
    BY <1>1, <1>4, <1>5, <1>7 DEF FileOK

\* A step that writes nothing keeps the older lines older if it makes no more lines
\* readable.
LEMMA QuietKeeps ==
    ASSUME FileOK, LogTypeOK', PathInv', UNCHANGED <<text, lastLine>>, writer <= writer',
           \A i \in Inodes : \A n \in 1 .. Len(text[i]) : Readable(i, n)' => Readable(i, n)
    PROVE  FileOK' /\ \A k \in Nat : Older(k) => Older(k)'
  <1>1. \A i \in Inodes : i > writer' => i > writer
    <2>1. writer \in Nat /\ writer' \in Nat /\ Inodes \subseteq Nat
      BY PathFacts DEF LogTypeOK, Inodes
    <2>2. \A a, b, c \in Nat : a <= b /\ c > b => c > a
      OBVIOUS
    <2> QED
      BY <2>1, <2>2
  <1>2. FileInv'
    BY <1>1 DEF FileOK, FileInv
  <1> QED
    BY <1>2 DEF FileOK, Older

\* The writer, logrotate.
LEMMA LogStepKeeps ==
    ASSUME FileOK, LogStep, UNCHANGED <<fd, pos>>
    PROVE  FileOK' /\ \A k \in Nat : k <= lastLine => k <= lastLine' /\ (Older(k) => Older(k)')
  <1>1. CASE Rename
    <2>1. path' = 0 /\ path = writer /\ path # 0 /\ UNCHANGED <<text, writer, lastLine, truncations>>
      BY <1>1, PathFacts DEF Rename
    <2>2. \A i \in Inodes : \A n : Readable(i, n)' => Readable(i, n)
      BY <2>1, PathFacts DEF Readable
    <2>3. LogTypeOK' /\ PathInv'
      BY <1>1, <2>1, LogAssumption DEF Rename, FileOK, LogTypeOK, PathInv, Inodes
    <2>4. writer <= writer'
      BY <2>1, PathFacts
    <2> QED
      BY <2>1, <2>2, <2>3, <2>4, QuietKeeps
  <1>2. CASE Reopen
    <2>1. /\ path = 0 /\ writer' = writer + 1 /\ path' = writer + 1
          /\ UNCHANGED <<text, lastLine, truncations>>
      BY <1>2 DEF Reopen
    <2>2. \A i \in Inodes : \A n \in 1 .. Len(text[i]) : Readable(i, n)' => Readable(i, n)
      BY <2>1, PathFacts DEF Readable
    <2>3. LogTypeOK' /\ PathInv'
      <3>1. writer + 1 \in Inodes
        BY <2>1, LogAssumption, PathFacts DEF FileOK, PathInv, Inodes
      <3>2. fd <= writer + 1
        BY PathFacts
      <3>3. path' # 0
        BY <2>1, PathFacts
      <3> QED
        BY <2>1, <3>1, <3>2, <3>3 DEF FileOK, LogTypeOK, PathInv
    <2>4. writer <= writer'
      BY <2>1, PathFacts
    <2> QED
      BY <2>1, <2>2, <2>3, <2>4, QuietKeeps
  <1>3. Write => FileOK' /\ \A k \in Nat : k <= lastLine => k <= lastLine' /\ (Older(k) => Older(k)')
    BY WriteKeeps
  <1>4. Truncate => FileOK' /\ lastLine' = lastLine /\ \A k \in Nat : Older(k) => Older(k)'
    BY TruncateKeeps
  <1> QED
    BY <1>1, <1>2, <1>3, <1>4 DEF LogStep

\* The checks of the inode, and the end of the process.
LEMMA FdStepKeeps ==
    ASSUME FileOK, UNCHANGED log, SetFd \/ CheckInode \/ UNCHANGED <<fd, pos>>
    PROVE  FileOK' /\ \A k \in Nat : Older(k) => Older(k)'
  <1>1. UNCHANGED <<text, path, writer, lastLine, truncations>>
    BY DEF log
  <1>2. \/ UNCHANGED <<fd, pos>>
        \/ fd = 0 /\ fd' = path /\ pos' = 0
        \/ path # fd /\ fd' = 0 /\ pos' = 0
    BY DEF SetFd, CheckInode
  <1>3. \A i \in Inodes : \A n \in 1 .. Len(text[i]) : Readable(i, n)' => Readable(i, n)
    BY <1>1, <1>2, PathFacts DEF Readable
  <1>4. LogTypeOK' /\ PathInv'
    BY <1>1, <1>2, PathFacts DEF FileOK, LogTypeOK, PathInv
  <1>5. writer <= writer'
    BY <1>1, PathFacts
  <1> QED
    BY <1>1, <1>3, <1>4, <1>5, QuietKeeps

\* The end of the process, and its start behind the last line.
LEMMA EndKeeps ==
    ASSUME FileOK, UNCHANGED log, (fd' = 0 /\ pos' = 0) \/ SeekToEnd
    PROVE  FileOK' /\ (SeekToEnd => \A k : Older(k)')
  <1>1. UNCHANGED <<text, path, writer, lastLine, truncations>>
    BY DEF log
  <1>2. fd' \in {0, path} /\ pos' \in Nat
    BY LineFacts, PathFacts DEF SeekToEnd
  <1>3. LogTypeOK' /\ PathInv'
    BY <1>1, <1>2, PathFacts DEF FileOK, LogTypeOK, PathInv
  <1>4. FileInv'
    BY <1>1 DEF FileOK, FileInv
  <1>5. ASSUME SeekToEnd PROVE \A i \in Inodes : \A n \in 1 .. Len(text[i]) : ~ Readable(i, n)'
    <2> SUFFICES ASSUME NEW i \in Inodes, NEW n \in 1 .. Len(text[i]), Readable(i, n)' PROVE FALSE
      OBVIOUS
    <2>1. /\ i \in Nat /\ n \in Nat /\ i <= writer /\ writer \in Nat
          /\ Len(text[i]) \in Nat /\ n <= Len(text[i])
      BY LineFacts, PathFacts, EmptySeq DEF FileOK, FileInv
    <2>2. /\ fd' = path /\ path' = path /\ writer' = writer
          /\ pos' = IF path = 0 THEN 0 ELSE Len(text[path])
      BY <1>1, <1>5 DEF SeekToEnd
    <2>3. CASE path = 0
      <3>1. i > writer
        BY <2>2, <2>3 DEF Readable
      <3> QED
        BY <2>1, <3>1
    <2>4. CASE path # 0
      <3>1. writer = path
        BY <2>4, PathFacts
      <3>2. i > writer \/ (i = writer /\ n > Len(text[i]))
        BY <2>2, <2>4, <3>1 DEF Readable
      <3> QED
        BY <2>1, <3>2
    <2> QED
      BY <2>3, <2>4
  <1> QED
    BY <1>1, <1>3, <1>4, <1>5 DEF FileOK, Older

\* The unread lines of the open file rise, and come after all older ones and before
\* those of later files.
LEMMA ReadKeeps ==
    ASSUME FileOK, UNCHANGED log, PassUnread
    PROVE  /\ FileOK' /\ Unread \in Seq(Lines) /\ Rising(Unread)
           /\ \A l \in Range(Unread) : l \in Lines /\ l <= lastLine /\ Older(l)'
           /\ \A k \in Nat : Older(k) => Older(k)' /\ \A l \in Range(Unread) : k < l
  <1>1. /\ fd' = fd /\ pos' = pos + Len(Unread)
        /\ UNCHANGED <<text, path, writer, lastLine, truncations>>
    BY DEF PassUnread, log
  <1>2. Unread \in Seq(Lines) /\ Len(Unread) \in Nat /\ DOMAIN Unread = 1 .. Len(Unread)
    BY UnreadLines, LenProperties DEF FileOK
  <1>3. FileOK'
    <2>1. pos' \in Nat
      BY <1>1, <1>2, PathFacts
    <2>2. LogTypeOK' /\ PathInv'
      BY <1>1, <2>1 DEF FileOK, LogTypeOK, PathInv
    <2>3. FileInv'
      BY <1>1 DEF FileOK, FileInv
    <2> QED
      BY <2>2, <2>3 DEF FileOK
  <1>4. CASE fd = 0
    <2>1. Unread = <<>> /\ Len(Unread) = 0
      BY <1>4, UnreadLines DEF FileOK
    <2>2. pos' = pos /\ Range(Unread) = {} /\ Rising(Unread)
      BY <1>1, <2>1, PathFacts, RangeOfEmpty
    <2>3. \A k : Older(k) => Older(k)'
      BY <1>1, <2>2 DEF Older, Readable
    <2> QED
      BY <1>2, <1>3, <2>2, <2>3
  <1>5. CASE fd # 0
    <2>1. /\ fd \in Inodes /\ pos \in Nat /\ pos + Len(Unread) >= Len(text[fd]) /\ Len(text[fd]) \in Nat
          /\ \A n \in 1 .. Len(Unread) :
               pos + n \in pos + 1 .. Len(text[fd]) /\ Unread[n] = text[fd][pos + n]
      BY <1>5, UnreadLines, LineFacts, PathFacts DEF FileOK
    <2>2. \A n \in 1 .. Len(Unread) : pos + n \in 1 .. Len(text[fd]) /\ Readable(fd, pos + n)
      BY <1>5, <2>1 DEF Readable
    <2>3. Rising(Unread)
      <3>1. ASSUME NEW m \in 1 .. Len(Unread), NEW n \in 1 .. Len(Unread), m < n
            PROVE  Unread[m] < Unread[n]
        <4>1. pos + m \in 1 .. Len(text[fd]) /\ pos + n \in 1 .. Len(text[fd]) /\ pos + m < pos + n
          BY <1>2, <2>1, <2>2, <3>1
        <4>2. text[fd][pos + m] < text[fd][pos + n]
          BY <2>1, <4>1 DEF FileOK, FileInv, Rising
        <4> QED
          BY <2>1, <4>2
      <3> QED
        BY <3>1 DEF Rising
    <2>4. \A k : Older(k) => \A l \in Range(Unread) : k < l
      BY <1>2, <2>1, <2>2 DEF Range, Older
    <2>5. \A l \in Range(Unread) : l \in Lines /\ l <= lastLine
      BY <1>2, <2>1, <2>2, RangeOfLines DEF Range, FileOK, FileInv
    <2>6. ASSUME NEW i \in Inodes, NEW n \in 1 .. Len(text[i]), Readable(i, n)'
          PROVE  i > fd /\ Readable(i, n)
      <3>1. i \in Int /\ n \in Int /\ fd \in Int /\ Len(text[i]) \in Nat
        BY <2>1, LineFacts DEF Inodes
      <3>2. i > fd \/ (i = fd /\ n > pos + Len(Unread))
        BY <1>1, <1>5, <2>6 DEF Readable
      <3>3. i # fd
        BY <1>2, <2>1, <3>1, <3>2
      <3> QED
        BY <1>5, <3>2, <3>3 DEF Readable
    <2>7. \A k : Older(k) => Older(k)'
      BY <1>1, <2>6 DEF Older
    <2>8. ASSUME NEW l \in Range(Unread), NEW i \in Inodes, NEW n \in 1 .. Len(text[i]), Readable(i, n)'
          PROVE  l < text[i][n]
      <3>1. PICK m \in 1 .. Len(Unread) : l = text[fd][pos + m] /\ pos + m \in 1 .. Len(text[fd])
        BY <1>2, <2>1, <2>2 DEF Range
      <3>2. fd < i
        BY <2>1, <2>6, <2>8 DEF Inodes
      <3> QED
        BY <2>1, <3>1, <3>2 DEF FileOK, FileInv
    <2>9. \A l \in Range(Unread) : Older(l)'
      BY <1>1, <2>8 DEF Older
    <2> QED
      BY <1>2, <1>3, <2>3, <2>4, <2>5, <2>7, <2>9
  <1> QED
    BY <1>4, <1>5

-----------------------------------------------------------------------------
(* LogNode: type correctness.                                              *)

LEMMA TypeInit == Init => TypeOK /\ FileOK
  <1> SUFFICES ASSUME Init PROVE TypeOK /\ FileOK
    OBVIOUS
  <1>1. FileOK
    BY FileInit DEF Init
  <1>2. data \in Seq(Lines) /\ due \in BOOLEAN
    BY EmptySeq DEF Init, WatchInit
  <1>3. kills \in 0 .. MaxKills /\ pc = "asleep"
        /\ skipped \subseteq Lines
        /\ signalled \subseteq Lines /\ refused \subseteq Lines /\ settled \subseteq Lines
    BY KillsAssumption DEF Init, WatchInit
  <1> QED
    BY <1>1, <1>2, <1>3 DEF TypeOK, FileOK

LEMMA FileStep == FileOK /\ [Next]_vars => FileOK'
  <1> SUFFICES ASSUME FileOK, [Next]_vars PROVE FileOK'
    OBVIOUS
  <1>1. CASE Log
    BY <1>1, LogStepKeeps DEF Log
  <1>2. CASE Read
    BY <1>2, ReadKeeps DEF Read
  <1>3. CASE Kill \/ Restart
    BY <1>3, EndKeeps DEF Kill, Restart
  <1>4. CASE Open \/ Stat \/ UNCHANGED <<log, fd, pos>>
    BY <1>4, FdStepKeeps DEF Open, Stat
  <1> QED
    BY <1>1, <1>2, <1>3, <1>4 DEF Next, CheckData, Tick, Flush, vars

LEMMA TypeStep == TypeOK /\ FileOK /\ [Next]_vars => TypeOK' /\ FileOK'
  <1> SUFFICES ASSUME TypeOK, FileOK, [Next]_vars PROVE TypeOK'
    BY FileStep
  <1>1. LogTypeOK'
    BY FileStep DEF FileOK
  <1> USE KillsAssumption, <1>1 DEF TypeOK, watch, batch, outcome
  <1>2. CASE Log
    BY <1>2 DEF Log
  <1>3. CASE Tick
    BY <1>3 DEF Tick, TimePasses
  <1>4. CASE Open
    BY <1>4 DEF Open
  <1>5. CASE Read
    <2>1. data' = data \o Unread /\ pc' \in {"flushed", "send"}
      BY <1>5 DEF Read, Collect
    <2>2. data' \in Seq(Lines)
      BY <2>1, UnreadLines, ConcatProperties
    <2> QED
      BY <1>5, <2>1, <2>2 DEF Read, Collect
  <1>6. CASE Stat
    BY <1>6 DEF Stat
  <1>7. CASE Kill
    <2>1. kills' \in 0 .. MaxKills
      BY <1>7 DEF Kill
    <2> QED
      BY <1>7, <2>1, EmptySeq DEF Kill, Forget
  <1>8. CASE Restart
    <2>1. PassedOver \subseteq Lines
      BY RangeOfLines DEF PassedOver, LogTypeOK
    <2> QED
      BY <1>8, <2>1 DEF Restart
  <1>9. CASE (Flush /\ Upload) \/ (Flush /\ UploadFails)
    BY <1>9 DEF Flush, Upload, UploadFails
  <1>10. CASE Flush /\ UploadTooLarge
    BY <1>10, EmptySeq, RangeOfLines DEF Flush, UploadTooLarge, Checkpoint
  <1>11. CASE Flush /\ Signal
    BY <1>11, EmptySeq, RangeOfLines DEF Flush, Signal, Checkpoint
  <1>12. CASE Flush /\ SignalFails
    BY <1>12, RangeOfLines DEF Flush, SignalFails
  <1>13. CASE UNCHANGED vars
    BY <1>13 DEF vars
  <1> QED
    BY <1>2, <1>3, <1>4, <1>5, <1>6, <1>7, <1>8, <1>9, <1>10, <1>11, <1>12, <1>13, NextCases

\* The variables of the log and of the node keep their types.
THEOREM TypeCorrect == Spec => []TypeOK
  BY TypeInit, TypeStep, PTL DEF Spec

-----------------------------------------------------------------------------
(* LogNode: batches are exact because every collected line is older than   *)
(* all that can still be read.                                             *)

CollectedInv ==
    \A l \in Range(data) \union settled : l <= lastLine /\ (pc # "down" => Older(l))

DataInv == Rising(data) /\ Range(data) \intersect settled = {}

BatchInv == CollectedInv /\ DataInv

LEMMA BatchInit == Init => BatchInv
  <1> SUFFICES ASSUME Init PROVE BatchInv
    OBVIOUS
  <1>1. Range(data) = {} /\ settled = {} /\ Rising(data)
    BY RangeOfEmpty DEF Init, WatchInit
  <1> QED
    BY <1>1 DEF BatchInv, CollectedInv, DataInv

\* A step that collects nothing keeps the batch if it keeps older lines older.
LEMMA OlderBatch ==
    ASSUME TypeOK, BatchInv, settled' \subseteq settled \union Range(data),
           \/ data' = data /\ settled' = settled
           \/ data' = <<>>,
           \A k \in Nat : k <= lastLine => k <= lastLine',
           pc' # "down" => \A k \in Nat :
                              k <= lastLine /\ (pc # "down" => Older(k)) => Older(k)'
    PROVE  BatchInv'
  <1>1. Range(data) \subseteq Lines /\ settled \subseteq Lines /\ \A k \in Lines : k \in Nat
    BY RangeOfLines DEF TypeOK, Lines
  <1>2. Range(data') \union settled' \subseteq Range(data) \union settled
    BY RangeOfEmpty
  <1>3. CollectedInv'
    BY <1>1, <1>2 DEF BatchInv, CollectedInv
  <1>4. DataInv'
    BY RangeOfEmpty DEF BatchInv, DataInv
  <1> QED
    BY <1>3, <1>4 DEF BatchInv

LEMMA BatchStep == TypeOK /\ FileOK /\ BatchInv /\ [Next]_vars => BatchInv'
  <1> SUFFICES ASSUME TypeOK, FileOK, BatchInv, [Next]_vars PROVE BatchInv'
    OBVIOUS
  <1> USE DEF watch, batch, outcome
  <1>1. CASE Log
    <2>1. UNCHANGED <<pc, data, settled, fd, pos>> /\ LogStep
      BY <1>1 DEF Log
    <2> QED
      BY <2>1, LogStepKeeps, OlderBatch
  <1>2. CASE Read
    <2>1. /\ data' = data \o Unread /\ settled' = settled /\ pc = "read" /\ pc' # "down"
          /\ PassUnread /\ UNCHANGED log
      BY <1>2 DEF Read, Collect
    <2>2. /\ Unread \in Seq(Lines) /\ Rising(Unread)
          /\ \A l \in Range(Unread) : l \in Lines /\ l <= lastLine /\ Older(l)'
          /\ \A k \in Nat : Older(k) => Older(k)' /\ \A l \in Range(Unread) : k < l
      BY <2>1, ReadKeeps
    <2>3. /\ data \in Seq(Lines) /\ lastLine' = lastLine
          /\ \A k \in Range(data) \union settled : k \in Nat /\ k <= lastLine /\ Older(k)
      <3>1. Range(data) \subseteq Lines /\ settled \subseteq Lines /\ \A k \in Lines : k \in Nat
        BY RangeOfLines DEF TypeOK, Lines
      <3> QED
        BY <2>1, <3>1 DEF TypeOK, BatchInv, CollectedInv, log
    <2>4. Range(data') = Range(data) \union Range(Unread)
      BY <2>1, <2>2, <2>3, RangeOfConcat
    <2>5. CollectedInv'
      BY <2>1, <2>2, <2>3, <2>4 DEF CollectedInv
    <2>6. Rising(data')
      BY <2>1, <2>2, <2>3, RisingConcat DEF BatchInv, DataInv
    <2>7. Range(Unread) \intersect settled = {}
      <3> SUFFICES ASSUME NEW l \in Range(Unread), l \in settled PROVE FALSE
        OBVIOUS
      <3>1. l < l /\ l \in Nat
        BY <2>2, <2>3
      <3> QED
        BY <3>1
    <2> QED
      BY <2>1, <2>4, <2>5, <2>6, <2>7 DEF BatchInv, DataInv
  <1>3. CASE Open \/ Stat \/ Tick \/ (Flush /\ Upload) \/ (Flush /\ UploadFails)
             \/ (Flush /\ SignalFails) \/ UNCHANGED vars
    <2>1. /\ UNCHANGED <<data, settled, log>> /\ (pc' # "down" => pc # "down")
          /\ SetFd \/ CheckInode \/ UNCHANGED <<fd, pos>>
      BY <1>3 DEF Open, Stat, Tick, TimePasses, Flush, Upload, UploadFails, SignalFails, vars
    <2>2. lastLine' = lastLine
      BY <2>1 DEF log
    <2> QED
      BY <2>1, <2>2, FdStepKeeps, OlderBatch
  <1>4. CASE (Flush /\ UploadTooLarge) \/ (Flush /\ Signal)
    <2>1. /\ UNCHANGED <<log, fd, pos>> /\ pc # "down"
          /\ data' = <<>> /\ settled' = settled \union Range(data)
      BY <1>4 DEF Flush, UploadTooLarge, Signal, Checkpoint
    <2>2. lastLine' = lastLine
      BY <2>1 DEF log
    <2> QED
      BY <2>1, <2>2, FdStepKeeps, OlderBatch
  <1>5. CASE Kill
    <2>1. pc' = "down" /\ data' = <<>> /\ settled' = settled /\ lastLine' = lastLine
      BY <1>5 DEF Kill, Forget, log
    <2> QED
      BY <2>1, OlderBatch
  <1>6. CASE Restart
    <2>1. SeekToEnd /\ UNCHANGED <<log, data, settled>>
      BY <1>6 DEF Restart
    <2>2. lastLine' = lastLine
      BY <2>1 DEF log
    <2> QED
      BY <2>1, <2>2, EndKeeps, OlderBatch
  <1> QED
    BY <1>1, <1>2, <1>3, <1>4, <1>5, <1>6, NextCases

\* Whatever is rotated, truncated, killed and refused: a batch is in order, and no
\* line is collected again once it was checkpointed.
THEOREM BatchesExact == Spec => []BatchExact
  <1>1. BatchInv => BatchExact
    BY DEF BatchInv, DataInv, BatchExact, Rising
  <1> QED
    BY <1>1, TypeInit, TypeStep, BatchInit, BatchStep, PTL DEF Spec

\* No line of self.data is forgotten.
NoBatchForgotten ==
    [][\A l \in Range(data) :
         l \in Range(data') \/ l \in signalled' \/ l \in refused' \/ pc' = "down"]_vars

\* A line that is collected leaves data only when it was signalled, when its batch
\* was refused as too large, or when the process is killed.
THEOREM NothingForgotten == Spec => NoBatchForgotten
  <1>1. ASSUME TypeOK, [Next]_vars, NEW l \in Range(data)
        PROVE  l \in Range(data') \/ l \in signalled' \/ l \in refused' \/ pc' = "down"
    <2>1. CASE Read
      <3>1. data' = data \o Unread
        BY <2>1 DEF Read, Collect
      <3>2. Range(data') = Range(data) \union Range(Unread)
        BY <1>1, <3>1, UnreadLines, RangeOfConcat DEF TypeOK
      <3> QED
        BY <3>2
    <2>2. CASE (Flush /\ Signal) \/ (Flush /\ UploadTooLarge) \/ Kill
      BY <2>2 DEF Signal, UploadTooLarge, Kill, Forget
    <2>3. CASE data' = data
      BY <2>3
    <2> QED
      BY <1>1, <2>1, <2>2, <2>3, NextCases
      DEF Log, Tick, TimePasses, Open, Stat, Restart, Flush, Upload, UploadFails, SignalFails, vars,
          watch, batch
  <1>2. TypeOK /\ [Next]_vars =>
          [\A l \in Range(data) :
             l \in Range(data') \/ l \in signalled' \/ l \in refused' \/ pc' = "down"]_vars
    BY <1>1
  <1> QED
    BY <1>2, TypeInit, TypeStep, PTL DEF Spec, NoBatchForgotten

-----------------------------------------------------------------------------
(* JournalNode, over the same WatchNode.                                   *)

CONSTANT MaxEnds
VARIABLES logged, ahead, journalctl, printed, queue, lines, got, missed, repeats, ends

Journal == INSTANCE JournalNode

LEMMA JournalCases ==
    ASSUME [Journal!Next]_(Journal!vars)
    PROVE  \/ Journal!Log \/ Journal!EarlierCollects \/ Journal!Tick \/ Journal!Begin
           \/ Journal!Enqueue \/ Journal!End \/ Journal!Poll \/ Journal!EarlierDone
           \/ Journal!EarlierRaises \/ Journal!CheckProcess \/ Journal!ReadLine
           \/ Journal!ReadNone \/ Journal!Flush \/ Journal!Done \/ Journal!Kill
           \/ Journal!Restart \/ UNCHANGED Journal!vars
  BY DEF Journal!Next, Journal!Follower, Journal!Execute

\* A queue holds the lines up to n, the last that was printed.
Consecutive(q, n) ==
    q \in Seq(Nat) /\ n \in Nat /\ Len(q) <= n /\ \A i \in 1 .. Len(q) : q[i] = n - Len(q) + i

\* The last line that left a queue.
Taken(q, n) == n - Len(q)

LEMMA ConsecutiveEmpty ==
    ASSUME NEW n \in Nat PROVE Consecutive(<<>>, n) /\ Taken(<<>>, n) = n
  <1>1. <<>> \in Seq(Nat) /\ Len(<<>>) = 0
    BY EmptySeq
  <1> QED
    BY <1>1 DEF Consecutive, Taken

LEMMA ConsecutiveAppend ==
    ASSUME NEW q, NEW n, Consecutive(q, n)
    PROVE  Consecutive(Append(q, n + 1), n + 1) /\ Taken(Append(q, n + 1), n + 1) = Taken(q, n)
  <1>1. q \in Seq(Nat) /\ n \in Nat /\ n + 1 \in Nat /\ Len(q) \in Nat /\ Len(q) <= n
    BY LenProperties DEF Consecutive
  <1> DEFINE r == Append(q, n + 1)
  <1>2. /\ r \in Seq(Nat) /\ Len(r) = Len(q) + 1
        /\ \A i \in 1 .. Len(q) : r[i] = q[i]
        /\ r[Len(q) + 1] = n + 1
    BY <1>1, AppendProperties
  <1> HIDE DEF r
  <1>3. \A i \in 1 .. Len(r) : r[i] = n + 1 - Len(r) + i
    <2> SUFFICES ASSUME NEW i \in 1 .. Len(r) PROVE r[i] = n + 1 - Len(r) + i
      OBVIOUS
    <2>1. CASE i \in 1 .. Len(q)
      BY <1>1, <1>2, <2>1 DEF Consecutive
    <2>2. CASE i = Len(q) + 1
      BY <1>1, <1>2, <2>2
    <2> QED
      BY <1>1, <1>2, <2>1, <2>2
  <1>4. Len(r) <= n + 1 /\ n + 1 - Len(r) = n - Len(q)
    BY <1>1, <1>2
  <1> QED
    BY <1>1, <1>2, <1>3, <1>4 DEF Consecutive, Taken, r

LEMMA ConsecutiveTail ==
    ASSUME NEW q, NEW n, Consecutive(q, n), q # <<>>
    PROVE  /\ Head(q) = Taken(q, n) + 1 /\ Head(q) \in 1 .. n /\ Taken(q, n) \in Nat
           /\ Consecutive(Tail(q), n) /\ Taken(Tail(q), n) = Taken(q, n) + 1
  <1>1. q \in Seq(Nat) /\ n \in Nat /\ Len(q) \in Nat \ {0} /\ Len(q) <= n
    BY LenProperties, EmptySeq DEF Consecutive
  <1>2. Head(q) = q[1] /\ q[1] = n - Len(q) + 1
    BY <1>1 DEF Consecutive
  <1>3. /\ Tail(q) \in Seq(Nat) /\ Len(Tail(q)) = Len(q) - 1
        /\ \A i \in 1 .. Len(Tail(q)) : Tail(q)[i] = q[i + 1]
    BY <1>1, HeadTailProperties
  <1>4. \A i \in 1 .. Len(Tail(q)) : Tail(q)[i] = n - Len(Tail(q)) + i
    <2> SUFFICES ASSUME NEW i \in 1 .. Len(Tail(q)) PROVE Tail(q)[i] = n - Len(Tail(q)) + i
      OBVIOUS
    <2>1. i + 1 \in 1 .. Len(q) /\ i \in Nat
      BY <1>1, <1>3
    <2>2. q[i + 1] = n - Len(q) + (i + 1)
      BY <2>1 DEF Consecutive
    <2> QED
      BY <1>1, <1>3, <2>1, <2>2
  <1> QED
    BY <1>1, <1>2, <1>3, <1>4 DEF Consecutive, Taken

\* Taken is a number of a line, and an empty queue has given up all of them.
LEMMA TakenIsNat ==
    ASSUME NEW q, NEW n, Consecutive(q, n)
    PROVE  Taken(q, n) \in 0 .. n /\ n \in Nat
  <1>1. n \in Nat /\ Len(q) \in Nat /\ Len(q) <= n
    BY LenProperties DEF Consecutive
  <1> QED
    BY <1>1 DEF Taken

-----------------------------------------------------------------------------
(* The journal's lines on their way to data.                               *)

JournalTypeOK ==
    /\ logged \in Nat /\ ends \in Nat /\ kills \in Nat /\ repeats \in Nat
    /\ journalctl \in {"starting", "running", "ended"}
    /\ printed <= logged /\ got \subseteq 1 .. logged
    /\ Consecutive(queue, printed) /\ data \in Seq(Nat) /\ lines \in Seq(Nat)

\* Where there is no follower yet, or none any more, nothing is on its way.
PlacesInv ==
    /\ journalctl = "starting" => queue = <<>> /\ printed = 0
    /\ pc = "down" => journalctl = "ended" /\ queue = <<>>
    /\ pc # "drain" => lines = <<>>

LEMMA JournalTypeInit == Journal!Init => JournalTypeOK /\ PlacesInv
  <1> SUFFICES ASSUME Journal!Init PROVE JournalTypeOK /\ PlacesInv
    OBVIOUS
  <1>1. /\ logged = 0 /\ ends = 0 /\ kills = 0 /\ repeats = 0 /\ printed = 0
        /\ queue = <<>> /\ lines = <<>> /\ data = <<>> /\ got = {}
        /\ journalctl = "starting" /\ pc = "asleep"
    BY DEF Journal!Init, Journal!WatchInit
  <1>2. Consecutive(<<>>, 0) /\ <<>> \in Seq(Nat)
    BY ConsecutiveEmpty, EmptySeq
  <1> QED
    BY <1>1, <1>2 DEF JournalTypeOK, PlacesInv

LEMMA JournalTypeStep ==
    ASSUME JournalTypeOK, PlacesInv, [Journal!Next]_(Journal!vars)
    PROVE  JournalTypeOK' /\ PlacesInv'
  <1> USE DEF JournalTypeOK, PlacesInv
  <1> USE DEF Journal!watch, Journal!batch, Journal!outcome, Journal!follower, Journal!history, Journal!faults
  <1>n. <<>> \in Seq(Nat) /\ \A n \in Nat : n + 1 \in Nat
    BY EmptySeq
  <1>1. CASE Journal!Log
    <2>1. logged' = logged + 1 /\ logged' \in Nat /\ printed \in Nat
      BY <1>1, TakenIsNat DEF Journal!Log
    <2>2. printed <= logged' /\ got \subseteq 1 .. logged'
      BY <2>1
    <2> QED
      BY <1>1, <2>1, <2>2 DEF Journal!Log
  <1>2. CASE Journal!EarlierCollects \/ Journal!Tick \/ Journal!Poll \/ Journal!EarlierDone
             \/ Journal!EarlierRaises \/ Journal!Done \/ UNCHANGED Journal!vars
    BY <1>2 DEF Journal!EarlierCollects, Journal!Tick, Journal!TimePasses, Journal!Poll,
                Journal!EarlierDone, Journal!EarlierRaises, Journal!Done, Journal!vars
  <1>3. CASE Journal!Begin
    <2>1. printed' \in Nat /\ printed' <= logged
      BY <1>3 DEF Journal!Begin, Journal!Context
    <2>2. Consecutive(queue', printed')
      BY <1>3, <2>1, ConsecutiveEmpty DEF Journal!Begin
    <2> QED
      BY <1>3, <2>1, <2>2 DEF Journal!Begin
  <1>4. CASE Journal!Enqueue
    <2>1. Consecutive(queue', printed') /\ printed' <= logged
      BY <1>4, ConsecutiveAppend, TakenIsNat DEF Journal!Enqueue
    <2> QED
      BY <1>4, <2>1 DEF Journal!Enqueue
  <1>5. CASE Journal!End
    BY <1>5 DEF Journal!End
  <1>6. CASE Journal!CheckProcess
    BY <1>6, <1>n, ConsecutiveEmpty DEF Journal!CheckProcess, Journal!NewFollower
  <1>7. CASE Journal!ReadLine
    <2>1. /\ queue # <<>> /\ queue' = Tail(queue) /\ printed' = printed /\ journalctl' = journalctl
          /\ got' = got \union {Head(queue)} /\ lines' = Append(lines, Head(queue))
          /\ pc = "drain" /\ pc' = pc
      BY <1>7 DEF Journal!ReadLine, Journal!TakeFromQueue
    <2>2. Consecutive(queue', printed') /\ Head(queue) \in 1 .. printed /\ printed \in Nat
      BY <2>1, ConsecutiveTail, TakenIsNat
    <2>3. Head(queue) \in 1 .. logged /\ Head(queue) \in Nat
      BY <2>2
    <2>4. lines' \in Seq(Nat)
      BY <2>1, <2>3, AppendProperties
    <2>5. repeats' \in Nat
      BY <1>7, <1>n DEF Journal!ReadLine, Journal!TakeFromQueue
    <2> QED
      BY <1>7, <2>1, <2>2, <2>3, <2>4, <2>5 DEF Journal!ReadLine, Journal!TakeFromQueue
  <1>8. CASE Journal!ReadNone
    <2>1. data' \in Seq(Nat)
      BY <1>8, ConcatProperties DEF Journal!ReadNone, Journal!Collect
    <2> QED
      BY <1>8, <1>n, <2>1 DEF Journal!ReadNone, Journal!Collect
  <1>9. CASE Journal!Flush
    <2>1. /\ pc' \in {"signal", "flushed", "asleep"} /\ pc \in {"send", "signal"}
          /\ data' = data \/ data' = <<>>
          /\ UNCHANGED <<logged, journalctl, printed, queue, lines, got, repeats, ends, kills>>
      BY <1>9 DEF Journal!Flush, Journal!FlushData, Journal!Upload, Journal!UploadTooLarge,
                  Journal!UploadFails, Journal!Signal, Journal!SignalFails, Journal!Checkpoint
    <2> QED
      BY <1>n, <2>1
  <1>10. CASE Journal!Kill
    BY <1>10, <1>n, ConsecutiveEmpty DEF Journal!Kill, Journal!Forget
  <1>11. CASE Journal!Restart
    BY <1>11, <1>n, ConsecutiveEmpty DEF Journal!Restart, Journal!NewFollower
  <1> QED
    BY <1>1, <1>2, <1>3, <1>4, <1>5, <1>6, <1>7, <1>8, <1>9, <1>10, <1>11, JournalCases

-----------------------------------------------------------------------------
(* What was read is kept.                                                  *)

\* Every line that has left the queue was read or missed, and lines are read in order.
CoverInv ==
    /\ 1 .. Taken(queue, printed) \subseteq got \union missed
    /\ \A l \in got : 1 .. l \subseteq got \union missed

KeptInv == kills = 0 => got = settled \union Range(data) \union Range(lines)

LEMMA CoverStep ==
    ASSUME JournalTypeOK, CoverInv, [Journal!Next]_(Journal!vars)
    PROVE  CoverInv'
  <1> USE DEF Journal!watch, Journal!follower, Journal!history
  <1>1. CASE Journal!Begin
    <2>1. /\ printed' \in Nat /\ printed' = Journal!Context /\ queue' = queue /\ got' = got
          /\ missed' = missed \union (1 .. printed' \ got)
      BY <1>1 DEF Journal!Begin, Journal!Context, JournalTypeOK
    <2>2. 1 .. Taken(queue', printed') \subseteq 1 .. printed'
      <3>1. Len(queue) \in Nat
        BY LenProperties DEF JournalTypeOK, Consecutive
      <3> QED
        BY <2>1, <3>1 DEF Taken
    <2> QED
      BY <2>1, <2>2 DEF CoverInv
  <1>2. CASE Journal!Enqueue
    <2>1. Taken(queue', printed') = Taken(queue, printed)
      BY <1>2, ConsecutiveAppend DEF Journal!Enqueue, JournalTypeOK
    <2> QED
      BY <1>2, <2>1 DEF Journal!Enqueue, CoverInv
  <1>3. CASE Journal!ReadLine
    <2> DEFINE h == Head(queue)
    <2>1. /\ h = Taken(queue, printed) + 1 /\ Taken(queue, printed) \in Nat
          /\ Taken(queue', printed') = h
      BY <1>3, ConsecutiveTail DEF Journal!ReadLine, Journal!TakeFromQueue, JournalTypeOK
    <2>2. got' = got \union {h} /\ missed' = missed
      BY <1>3 DEF Journal!ReadLine, Journal!TakeFromQueue
    <2>3. 1 .. h = 1 .. Taken(queue, printed) \union {h}
      BY <2>1
    <2> HIDE DEF h
    <2> QED
      BY <2>1, <2>2, <2>3 DEF CoverInv
  <1>4. CASE (queue' = <<>> /\ printed' = 0) \/ UNCHANGED <<queue, printed>>
    <2>1. 1 .. Taken(<<>>, 0) = {}
      BY ConsecutiveEmpty
    <2>2. ASSUME UNCHANGED <<got, missed>> PROVE CoverInv'
      BY <1>4, <2>1, <2>2 DEF CoverInv
    <2> QED
      BY <1>1, <1>2, <1>3, <2>2, JournalCases
      DEF Journal!Log, Journal!EarlierCollects, Journal!Tick, Journal!End, Journal!Poll,
          Journal!EarlierDone, Journal!EarlierRaises, Journal!CheckProcess, Journal!ReadNone,
          Journal!Flush, Journal!Done, Journal!Kill, Journal!Restart, Journal!vars
  <1> QED
    BY <1>1, <1>2, <1>3, <1>4, JournalCases
    DEF Journal!Log, Journal!EarlierCollects, Journal!Tick, Journal!End, Journal!Poll,
        Journal!EarlierDone, Journal!EarlierRaises, Journal!CheckProcess, Journal!NewFollower,
        Journal!ReadNone, Journal!Flush, Journal!Done, Journal!Kill, Journal!Restart, Journal!vars

LEMMA KeptStep ==
    ASSUME JournalTypeOK, PlacesInv, KeptInv, [Journal!Next]_(Journal!vars)
    PROVE  KeptInv'
  <1> USE DEF Journal!watch, Journal!batch, Journal!outcome, Journal!history, Journal!faults
  <1>1. CASE Journal!CheckProcess
    BY <1>1 DEF Journal!CheckProcess, KeptInv, PlacesInv
  <1>2. CASE Journal!ReadLine
    <2>1. Range(lines') = Range(lines) \union {Head(queue)}
      <3>1. lines \in Seq(Nat) /\ printed \in Nat /\ Head(queue) \in 1 .. printed
        BY <1>2, ConsecutiveTail, TakenIsNat
        DEF Journal!ReadLine, Journal!TakeFromQueue, JournalTypeOK
      <3>2. lines' = Append(lines, Head(queue))
        BY <1>2 DEF Journal!ReadLine
      <3>3. Head(queue) \in Nat
        BY <3>1
      <3> QED
        BY <3>1, <3>2, <3>3, RangeOfAppend
    <2>2. got' = got \union {Head(queue)} /\ UNCHANGED <<data, settled, kills>>
      BY <1>2 DEF Journal!ReadLine, Journal!TakeFromQueue
    <2> QED
      BY <2>1, <2>2 DEF KeptInv
  <1>3. CASE Journal!ReadNone
    <2>1. /\ data' = data \o lines /\ lines' = <<>>
          /\ UNCHANGED <<got, settled, kills>>
      BY <1>3 DEF Journal!ReadNone, Journal!Collect
    <2>2. Range(data') = Range(data) \union Range(lines)
      BY <2>1, RangeOfConcat DEF JournalTypeOK
    <2> QED
      BY <2>1, <2>2, RangeOfEmpty DEF KeptInv
  <1>4. CASE Journal!Flush
    <2>1. /\ \/ UNCHANGED <<data, settled>>
             \/ data' = <<>> /\ settled' = settled \union Range(data)
          /\ UNCHANGED <<got, lines, kills>>
      BY <1>4 DEF Journal!Flush, Journal!FlushData, Journal!Upload, Journal!UploadTooLarge,
                  Journal!UploadFails, Journal!Signal, Journal!SignalFails, Journal!Checkpoint,
                  Journal!Range, Range
    <2> QED
      BY <2>1, RangeOfEmpty DEF KeptInv
  <1>5. CASE Journal!Kill
    <2>1. kills' # 0
      BY <1>5 DEF Journal!Kill, JournalTypeOK
    <2> QED
      BY <2>1 DEF KeptInv
  <1>6. CASE UNCHANGED <<got, settled, data, lines, kills>>
    BY <1>6 DEF KeptInv
  <1> QED
    BY <1>1, <1>2, <1>3, <1>4, <1>5, <1>6, JournalCases
    DEF Journal!Log, Journal!EarlierCollects, Journal!Tick, Journal!TimePasses, Journal!Begin,
        Journal!Enqueue, Journal!End, Journal!Poll, Journal!EarlierDone, Journal!EarlierRaises,
        Journal!Done, Journal!Restart, Journal!vars

LEMMA CoverInit == Journal!Init => CoverInv /\ KeptInv
  <1> SUFFICES ASSUME Journal!Init PROVE CoverInv /\ KeptInv
    OBVIOUS
  <1>1. /\ got = {} /\ settled = {} /\ data = <<>> /\ lines = <<>> /\ queue = <<>> /\ printed = 0
    BY DEF Journal!Init, Journal!WatchInit
  <1>2. 1 .. Taken(<<>>, 0) = {}
    BY ConsecutiveEmpty
  <1> QED
    BY <1>1, <1>2, RangeOfEmpty DEF CoverInv, KeptInv

\* JournalNode!LinesAccounted: a line that journalctl printed is not lost between the
\* thread, the queue, the polls and the checkpoints, and none is passed over but those
\* a new journalctl starts after.
THEOREM JournalLinesAccounted == Journal!Spec => []Journal!LinesAccounted
  <1>1. CoverInv /\ KeptInv => Journal!LinesAccounted
    BY DEF CoverInv, KeptInv, Journal!LinesAccounted, Journal!Range, Range
  <1> QED
    BY <1>1, JournalTypeInit, JournalTypeStep, CoverInit, CoverStep, KeptStep, PTL
    DEF Journal!Spec

-----------------------------------------------------------------------------
(* Every repeated line is paid for by an end of journalctl or a kill.      *)

\* A line that is, or will be, on the queue may have been read before: the next one,
\* where a journalctl begins with the newest line there is.
Repeatable == \E l \in got : l > Taken(queue, printed)

Coming ==
    \/ journalctl = "starting" /\ got # {}
    \/ (journalctl = "running" \/ queue # <<>>) /\ Repeatable

OnlyNext ==
    journalctl = "running" \/ queue # <<>> => \A l \in got : l <= Taken(queue, printed) + 1

\* What was owed: a repeat that is coming, and one by the next journalctl.
RepeatsOwed == (IF Coming THEN 1 ELSE 0) + (IF journalctl = "ended" THEN 1 ELSE 0)

RepeatsCauses == ends + kills

RepeatsPaid == repeats + RepeatsOwed <= RepeatsCauses

RepeatsInv == OnlyNext /\ RepeatsPaid

LEMMA RepeatsInit == Journal!Init => RepeatsInv
  <1> SUFFICES ASSUME Journal!Init PROVE RepeatsInv
    OBVIOUS
  <1>1. got = {} /\ journalctl = "starting" /\ repeats = 0 /\ ends = 0 /\ kills = 0
    BY DEF Journal!Init
  <1>2. RepeatsOwed = 0
    BY <1>1 DEF RepeatsOwed, Coming, Repeatable
  <1> QED
    BY <1>1, <1>2 DEF RepeatsInv, OnlyNext, RepeatsPaid, RepeatsCauses

\* What is paid stays paid: no more is owed, or there is one more cause, or what was
\* owed has come.
LEMMA PaidNumbers ==
    ASSUME NEW r \in Nat, NEW o \in Nat, NEW p \in Nat, NEW c \in Nat, r + o <= c
    PROVE  /\ p <= o => r + p <= c
           /\ p <= o + 1 => r + p <= c + 1
           /\ p + 1 <= o => r + 1 + p <= c
  OBVIOUS

LEMMA RepeatsPaidStep ==
    ASSUME JournalTypeOK, RepeatsPaid,
           \/ repeats' = repeats /\ RepeatsCauses' = RepeatsCauses /\ RepeatsOwed' <= RepeatsOwed
           \/ /\ repeats' = repeats /\ RepeatsCauses' = RepeatsCauses + 1
              /\ RepeatsOwed' <= RepeatsOwed + 1
           \/ /\ repeats' = repeats + 1 /\ RepeatsCauses' = RepeatsCauses
              /\ RepeatsOwed' + 1 <= RepeatsOwed
    PROVE  RepeatsPaid'
  <1>1. /\ repeats \in Nat /\ RepeatsCauses \in Nat /\ RepeatsOwed \in Nat
    BY DEF JournalTypeOK, RepeatsOwed, RepeatsCauses
  <1>2. RepeatsOwed' \in Nat
    BY DEF RepeatsOwed
  <1>3. repeats + RepeatsOwed <= RepeatsCauses
    BY DEF RepeatsPaid
  <1>4. /\ RepeatsOwed' <= RepeatsOwed => repeats + RepeatsOwed' <= RepeatsCauses
        /\ RepeatsOwed' <= RepeatsOwed + 1 => repeats + RepeatsOwed' <= RepeatsCauses + 1
        /\ RepeatsOwed' + 1 <= RepeatsOwed => repeats + 1 + RepeatsOwed' <= RepeatsCauses
    BY <1>1, <1>2, <1>3, PaidNumbers
  <1> QED
    BY <1>4 DEF RepeatsPaid

LEMMA RepeatsStep ==
    ASSUME JournalTypeOK, JournalTypeOK', PlacesInv, RepeatsInv, [Journal!Next]_(Journal!vars)
    PROVE  RepeatsInv'
  <1> USE DEF Journal!follower, Journal!history, Journal!faults
  <1>n. ends \in Nat /\ kills \in Nat
    BY DEF JournalTypeOK
  <1>t. journalctl \in {"starting", "running", "ended"}
    BY DEF JournalTypeOK
  <1>1. CASE Journal!Begin
    <2>1. /\ journalctl = "starting" /\ journalctl' = "running" /\ queue = <<>> /\ queue' = <<>>
          /\ printed' = Journal!Context /\ UNCHANGED <<got, repeats, ends, kills>>
      BY <1>1 DEF Journal!Begin, PlacesInv
    <2>2. Taken(queue', printed') = Journal!Context
      <3>1. Journal!Context \in Nat
        BY DEF Journal!Context, JournalTypeOK
      <3> QED
        BY <2>1, <3>1, ConsecutiveEmpty
    <2>3. \A l \in got : l <= Journal!Context + 1
      BY DEF Journal!Context, JournalTypeOK
    <2>4. OnlyNext'
      BY <2>1, <2>2, <2>3 DEF OnlyNext
    <2>5. Coming' => Coming
      BY <2>1 DEF Coming, Repeatable
    <2>6. RepeatsOwed' <= RepeatsOwed
      BY <2>1, <2>5 DEF RepeatsOwed
    <2>7. RepeatsPaid'
      BY <2>1, <2>6, RepeatsPaidStep DEF RepeatsInv, RepeatsCauses
    <2> QED
      BY <2>4, <2>7 DEF RepeatsInv
  <1>2. CASE Journal!Enqueue
    <2>1. /\ journalctl = "running" /\ journalctl' = "running"
          /\ Taken(queue', printed') = Taken(queue, printed) /\ UNCHANGED <<got, repeats, ends, kills>>
      BY <1>2, ConsecutiveAppend DEF Journal!Enqueue, JournalTypeOK
    <2>2. OnlyNext'
      BY <2>1 DEF OnlyNext, RepeatsInv
    <2>3. Coming' => Coming
      BY <2>1 DEF Coming, Repeatable
    <2>4. RepeatsOwed' <= RepeatsOwed
      BY <2>1, <2>3 DEF RepeatsOwed
    <2>5. RepeatsPaid'
      BY <2>1, <2>4, RepeatsPaidStep DEF RepeatsInv, RepeatsCauses
    <2> QED
      BY <2>2, <2>5 DEF RepeatsInv
  <1>3. CASE Journal!ReadLine
    <2> DEFINE h == Head(queue)
    <2>1. /\ h = Taken(queue, printed) + 1 /\ Taken(queue, printed) \in Nat
          /\ Taken(queue', printed') = h /\ queue # <<>>
      BY <1>3, ConsecutiveTail DEF Journal!ReadLine, Journal!TakeFromQueue, JournalTypeOK
    <2>2. /\ got' = got \union {h} /\ UNCHANGED <<journalctl, ends, kills>>
          /\ repeats' = IF h \in got THEN repeats + 1 ELSE repeats
      BY <1>3 DEF Journal!ReadLine, Journal!TakeFromQueue
    <2> HIDE DEF h
    <2>3. \A l \in got : l <= h /\ l \in Nat
      BY <2>1 DEF RepeatsInv, OnlyNext, JournalTypeOK
    <2>4. OnlyNext' /\ ~Repeatable'
      BY <2>1, <2>2, <2>3 DEF OnlyNext, Repeatable
    <2>5. journalctl # "starting"
      BY <2>1 DEF PlacesInv
    <2>6. ~Coming'
      BY <2>2, <2>4, <2>5 DEF Coming
    <2>7. h \in got => Coming
      BY <2>1 DEF Coming, Repeatable
    <2>8. RepeatsPaid'
      <3>1. CASE h \in got
        <4>1. RepeatsOwed' + 1 <= RepeatsOwed
          BY <2>2, <2>6, <2>7, <3>1 DEF RepeatsOwed
        <4> QED
          BY <2>2, <3>1, <4>1, RepeatsPaidStep DEF RepeatsInv, RepeatsCauses
      <3>2. CASE h \notin got
        <4>1. RepeatsOwed' <= RepeatsOwed
          BY <2>2, <2>6 DEF RepeatsOwed
        <4> QED
          BY <2>2, <3>2, <4>1, RepeatsPaidStep DEF RepeatsInv, RepeatsCauses
      <3> QED
        BY <3>1, <3>2
    <2> QED
      BY <2>4, <2>8 DEF RepeatsInv
  <1>4. CASE Journal!End
    <2>1. /\ journalctl # "ended" /\ journalctl' = "ended" /\ ends' = ends + 1
          /\ UNCHANGED <<queue, printed, got, repeats, kills>>
      BY <1>4 DEF Journal!End
    <2>2. OnlyNext'
      BY <2>1 DEF OnlyNext, RepeatsInv
    <2>3. Coming' => Coming
      BY <2>1, <1>t DEF Coming, Repeatable, PlacesInv
    <2>4. RepeatsOwed' <= RepeatsOwed + 1
      BY <2>1, <2>3 DEF RepeatsOwed
    <2>5. RepeatsPaid'
      <3>1. RepeatsCauses' = RepeatsCauses + 1
        BY <2>1, <1>n DEF RepeatsCauses
      <3> QED
        BY <2>1, <2>4, <3>1, RepeatsPaidStep DEF RepeatsInv
    <2> QED
      BY <2>2, <2>5 DEF RepeatsInv
  <1>5. CASE Journal!Kill
    <2>1. /\ journalctl' = "ended" /\ queue' = <<>> /\ kills' = kills + 1
          /\ UNCHANGED <<got, repeats, ends>>
      BY <1>5 DEF Journal!Kill
    <2>2. OnlyNext' /\ ~Coming'
      BY <2>1 DEF OnlyNext, Coming
    <2>3. RepeatsOwed' <= RepeatsOwed + 1
      BY <2>1, <2>2 DEF RepeatsOwed
    <2>4. RepeatsPaid'
      <3>1. RepeatsCauses' = RepeatsCauses + 1
        BY <2>1, <1>n DEF RepeatsCauses
      <3> QED
        BY <2>1, <2>3, <3>1, RepeatsPaidStep DEF RepeatsInv
    <2> QED
      BY <2>2, <2>4 DEF RepeatsInv
  <1>6. ASSUME journalctl = "ended", Journal!NewFollower, UNCHANGED <<got, repeats, ends, kills>>
        PROVE  RepeatsInv'
    <2>1. journalctl' = "starting" /\ queue' = <<>>
      BY <1>6 DEF Journal!NewFollower
    <2>2. OnlyNext'
      BY <2>1 DEF OnlyNext
    <2>3. RepeatsOwed' <= RepeatsOwed
      BY <1>6, <2>1 DEF RepeatsOwed
    <2>4. RepeatsPaid'
      BY <1>6, <2>3, RepeatsPaidStep DEF RepeatsInv, RepeatsCauses
    <2> QED
      BY <2>2, <2>4 DEF RepeatsInv
  <1>7. CASE UNCHANGED <<journalctl, queue, printed, got, repeats, ends, kills>>
    <2>1. OnlyNext' /\ RepeatsOwed' = RepeatsOwed
      BY <1>7 DEF OnlyNext, RepeatsInv, RepeatsOwed, Coming, Repeatable
    <2> QED
      BY <1>7, <2>1 DEF RepeatsInv, RepeatsPaid, RepeatsCauses
  <1>8. Journal!CheckProcess => RepeatsInv'
    BY <1>6, <1>7 DEF Journal!CheckProcess
  <1>9. Journal!Restart => RepeatsInv'
    BY <1>6 DEF Journal!Restart, PlacesInv
  <1> QED
    BY <1>1, <1>2, <1>3, <1>4, <1>5, <1>7, <1>8, <1>9, JournalCases
    DEF Journal!Log, Journal!EarlierCollects, Journal!Tick, Journal!Poll, Journal!EarlierDone,
        Journal!EarlierRaises, Journal!ReadNone, Journal!Flush, Journal!Done, Journal!vars

\* JournalNode!RepeatsHaveCauses: no line is read twice but the first that a journalctl
\* prints which was started after another had ended or the process was killed.
THEOREM JournalRepeatsCaused == Journal!Spec => []Journal!RepeatsHaveCauses
  <1>1. ASSUME JournalTypeOK, RepeatsInv PROVE Journal!RepeatsHaveCauses
    <2>1. repeats \in Nat /\ ends \in Nat /\ kills \in Nat /\ RepeatsOwed \in Nat
      BY <1>1 DEF JournalTypeOK, RepeatsOwed
    <2> QED
      BY <1>1, <2>1 DEF RepeatsInv, RepeatsPaid, RepeatsCauses, Journal!RepeatsHaveCauses
  <1> QED
    BY <1>1, JournalTypeInit, JournalTypeStep, RepeatsInit, RepeatsStep, PTL
    DEF Journal!Spec

-----------------------------------------------------------------------------
(* SyslogAdWatcher, over the same LogFile.                                 *)

CONSTANTS Heads, OneLiners, Malformed, BadDate, Interesting
VARIABLES entry, complete, parsed, seen, raises

SyslogAd == INSTANCE SyslogAdWatcher

\* What SyslogAdWatcher assumes of its constants.
Script == Heads \subseteq Lines /\ OneLiners \subseteq Lines /\ Heads \intersect OneLiners = {}

\* Its log file is the one above.
LEMMA SameFile ==
    /\ SyslogAd!LogInit => LogInit
    /\ SyslogAd!LogStep => LogStep
    /\ SyslogAd!SetFd => SetFd
    /\ SyslogAd!CheckInode => CheckInode
    /\ SyslogAd!SeekToEnd => SeekToEnd
    /\ SyslogAd!PassUnread => PassUnread
    /\ SyslogAd!Unread = Unread /\ SyslogAd!ToRead = ToRead /\ SyslogAd!log = log /\ SyslogAd!Lines = Lines
    /\ \A s : SyslogAd!Range(s) = Range(s)
  <1>1. SyslogAd!LogInit => LogInit
    BY DEF SyslogAd!LogInit, LogInit, SyslogAd!Inodes, Inodes
  <1>2. SyslogAd!LogStep => LogStep
    BY DEF SyslogAd!LogStep, LogStep, SyslogAd!Write, Write, SyslogAd!Rename, Rename,
           SyslogAd!Reopen, Reopen, SyslogAd!Truncate, Truncate
  <1>3. /\ SyslogAd!SetFd => SetFd
        /\ SyslogAd!CheckInode => CheckInode
        /\ SyslogAd!SeekToEnd => SeekToEnd
    BY DEF SyslogAd!SetFd, SetFd, SyslogAd!CheckInode, CheckInode, SyslogAd!SeekToEnd, SeekToEnd
  <1>4. SyslogAd!Unread = Unread /\ SyslogAd!ToRead = ToRead
    <2>1. SyslogAd!Unread = Unread /\ \A s : SyslogAd!Range(s) = Range(s)
      BY DEF SyslogAd!Unread, Unread, SyslogAd!Range, Range
    <2> QED
      BY <2>1 DEF SyslogAd!ToRead, ToRead
  <1>5. SyslogAd!PassUnread => PassUnread
    BY <1>4 DEF SyslogAd!PassUnread, PassUnread
  <1>6. SyslogAd!log = log /\ SyslogAd!Lines = Lines /\ \A s : SyslogAd!Range(s) = Range(s)
    BY DEF SyslogAd!log, log, SyslogAd!Lines, Lines, SyslogAd!Range, Range
  <1> QED
    BY <1>1, <1>2, <1>3, <1>4, <1>5, <1>6

LEMMA EventCases ==
    ASSUME [SyslogAd!Next]_(SyslogAd!vars)
    PROVE  \/ SyslogAd!Log \/ SyslogAd!Open \/ SyslogAd!Read \/ SyslogAd!OneLine
           \/ SyslogAd!TailLine \/ SyslogAd!HeadLine \/ SyslogAd!ParseRaises \/ SyslogAd!Parsed
           \/ SyslogAd!Stat \/ SyslogAd!Format \/ SyslogAd!FormatRaises \/ SyslogAd!Upload
           \/ SyslogAd!UploadTooLarge \/ SyslogAd!UploadFails \/ SyslogAd!Signal
           \/ SyslogAd!SignalFails \/ SyslogAd!Kill \/ SyslogAd!Restart
           \/ UNCHANGED SyslogAd!vars
  BY DEF SyslogAd!Next, SyslogAd!Execute, SyslogAd!CheckData

\* The end of the process, from wherever it comes.
LEMMA EventsEnd ==
    SyslogAd!ParseRaises \/ SyslogAd!FormatRaises \/ SyslogAd!Kill =>
      /\ pc' = "down" /\ fd' = 0 /\ pos' = 0 /\ lines' = <<>> /\ entry' = <<>>
      /\ complete' = FALSE /\ parsed' = {} /\ UNCHANGED <<log, seen>>
  BY DEF SyslogAd!ParseRaises, SyslogAd!FormatRaises, SyslogAd!Kill, SyslogAd!End,
         SyslogAd!log, log

\* No entry of self.parsed_data is forgotten.
NoEventForgotten ==
    [][\A e \in parsed : e \in parsed' \/ SyslogAd!Events({e}) \subseteq signalled' \union refused'
                            \/ pc' = "down"]_(SyslogAd!vars)

\* A parsed event is kept until its upload was signalled, the site refused it as too
\* large, or the process ended.
THEOREM EventsKept == SyslogAd!Spec => NoEventForgotten
  <1>1. ASSUME [SyslogAd!Next]_(SyslogAd!vars), NEW e \in parsed
        PROVE  \/ e \in parsed' \/ SyslogAd!Events({e}) \subseteq signalled' \union refused'
               \/ pc' = "down"
    <2>1. SyslogAd!Events({e}) \subseteq SyslogAd!Events(parsed)
      BY DEF SyslogAd!Events
    <2> QED
      BY <1>1, <2>1, EventCases, EventsEnd
      DEF SyslogAd!Log, SyslogAd!Open, SyslogAd!Read, SyslogAd!OneLine, SyslogAd!TailLine,
          SyslogAd!HeadLine, SyslogAd!Parsed, SyslogAd!Stat, SyslogAd!Format, SyslogAd!Upload,
          SyslogAd!UploadTooLarge, SyslogAd!UploadFails, SyslogAd!Signal, SyslogAd!SignalFails,
          SyslogAd!Restart, SyslogAd!watcher, SyslogAd!vars
  <1>2. [SyslogAd!Next]_(SyslogAd!vars) =>
          [\A e \in parsed : e \in parsed' \/ SyslogAd!Events({e}) \subseteq signalled' \union refused'
                                \/ pc' = "down"]_(SyslogAd!vars)
    BY <1>1
  <1> QED
    BY <1>2, PTL DEF SyslogAd!Spec, NoEventForgotten

-----------------------------------------------------------------------------
(* The lines of a poll, and the entry they are put together to.            *)

EventTypeOK ==
    /\ Script /\ lines \in Seq(Lines) /\ entry \in Seq(Lines) /\ seen \subseteq Lines

SeenInv == \A l \in seen : l <= lastLine /\ (pc # "down" => Older(l))

\* The lines of a poll are the newest that were read.
LinesInv ==
    /\ Rising(lines) /\ Range(lines) \subseteq seen
    /\ pc # "parse" => lines = <<>>
    /\ \A k \in seen, m \in Range(lines) : k > m => k \in Range(lines)

\* The entry is older than they are.
EntryInv == Range(entry) \subseteq seen /\ \A k \in Range(entry), m \in Range(lines) : k < m

\* A head line and lines after it that belong to no other event.
HeadAndTails(e) ==
    /\ e # <<>> /\ e[1] \in Heads
    /\ \A k \in Range(e) : k = e[1] \/ (k > e[1] /\ k \notin Heads \union OneLiners)

\* A complete entry has all lines that were read since its head.
CompleteInv ==
    complete =>
      /\ HeadAndTails(entry)
      /\ \A k \in seen : k > entry[1] => k \in Range(entry) \union OneLiners \union Range(lines)

DownInv == pc = "down" => lines = <<>> /\ entry = <<>> /\ complete = FALSE /\ parsed = {}

EntryOK == EventTypeOK /\ FileOK /\ SeenInv /\ LinesInv /\ EntryInv /\ CompleteInv /\ DownInv

LEMMA EntryInit == Script /\ SyslogAd!Init => EntryOK
  <1> SUFFICES ASSUME Script, SyslogAd!Init PROVE EntryOK
    OBVIOUS
  <1>1. FileOK
    BY FileInit, SameFile DEF SyslogAd!Init
  <1>2. lines = <<>> /\ entry = <<>> /\ complete = FALSE /\ parsed = {} /\ seen = {} /\ pc = "asleep"
    BY DEF SyslogAd!Init
  <1>3. EventTypeOK /\ Range(lines) = {} /\ Range(entry) = {} /\ Rising(lines)
    BY <1>2, RangeOfEmpty, EmptySeq DEF EventTypeOK
  <1> QED
    BY <1>1, <1>2, <1>3 DEF EntryOK, SeenInv, LinesInv, EntryInv, CompleteInv, DownInv

\* The next line, and those after it.
LEMMA NextLine ==
    ASSUME NEW s \in Seq(Lines), Rising(s), Len(s) > 0
    PROVE  /\ s[1] \in Lines /\ Tail(s) \in Seq(Lines) /\ Rising(Tail(s))
           /\ Range(s) = {s[1]} \union Range(Tail(s))
           /\ \A m \in Range(Tail(s)) : s[1] < m
  <1> DEFINE t == Tail(s)
  <1>1. s # <<>> /\ Len(s) \in Nat /\ DOMAIN s = 1 .. Len(s)
    BY EmptySeq, LenProperties
  <1>2. /\ t \in Seq(Lines) /\ Len(t) = Len(s) - 1 /\ s[1] \in Lines
        /\ \A i \in 1 .. Len(t) : t[i] = s[i + 1]
    BY <1>1, HeadTailProperties, ElementOfSeq
  <1> HIDE DEF t
  <1>3. DOMAIN t = 1 .. Len(t)
    BY <1>2, LenProperties
  <1>4. \A i \in 1 .. Len(t) : i + 1 \in 1 .. Len(s) /\ 1 < i + 1
    BY <1>1, <1>2
  <1>5. Range(t) \subseteq Range(s) /\ \A m \in Range(t) : s[1] < m
    <2> SUFFICES ASSUME NEW i \in 1 .. Len(t) PROVE t[i] \in Range(s) /\ s[1] < t[i]
      BY <1>3 DEF Range
    <2>1. i + 1 \in 1 .. Len(s) /\ 1 \in 1 .. Len(s) /\ 1 < i + 1 /\ t[i] = s[i + 1]
      BY <1>1, <1>2, <1>4
    <2> QED
      BY <1>1, <2>1 DEF Range, Rising
  <1>6. Rising(t)
    <2>1. \A i, j \in 1 .. Len(t) : i < j => i + 1 < j + 1
      BY <1>1, <1>2
    <2> QED
      BY <1>2, <1>4, <2>1 DEF Rising
  <1>7. \A i \in 1 .. Len(s) : i = 1 \/ (i - 1 \in 1 .. Len(t) /\ i - 1 + 1 = i)
    BY <1>1, <1>2
  <1>8. Range(s) \subseteq {s[1]} \union Range(t)
    <2> SUFFICES ASSUME NEW i \in 1 .. Len(s) PROVE s[i] = s[1] \/ s[i] \in Range(t)
      BY <1>1 DEF Range
    <2>1. CASE i = 1
      BY <2>1
    <2>2. CASE i - 1 \in 1 .. Len(t) /\ i - 1 + 1 = i
      <3>1. t[i - 1] = s[i]
        BY <1>2, <2>2
      <3> QED
        BY <1>3, <2>2, <3>1 DEF Range
    <2> QED
      BY <1>7, <2>1, <2>2
  <1>9. s[1] \in Range(s)
    BY <1>1 DEF Range
  <1> QED
    BY <1>2, <1>5, <1>6, <1>8, <1>9 DEF t

\* The steps that parse read and seek nothing.
LEMMA ParseSteps ==
    SyslogAd!OneLine \/ SyslogAd!TailLine \/ SyslogAd!HeadLine =>
      /\ UNCHANGED <<log, fd, pos, seen, pc>> /\ pc = "parse" /\ Len(lines) > 0
      /\ lines' = Tail(lines)
  BY DEF SyslogAd!OneLine, SyslogAd!TailLine, SyslogAd!HeadLine, SyslogAd!HasLine,
         SyslogAd!history, SyslogAd!log, log

\* The steps that leave lines and entry alone.
LEMMA OtherSteps ==
    SyslogAd!Parsed \/ SyslogAd!Format \/ SyslogAd!Upload \/ SyslogAd!UploadTooLarge
    \/ SyslogAd!UploadFails \/ SyslogAd!Signal \/ SyslogAd!SignalFails \/ UNCHANGED SyslogAd!vars =>
      /\ UNCHANGED <<log, fd, pos, seen, lines, entry, complete>>
      /\ pc' # "parse" \/ pc' = pc
      /\ (pc' = "down") <=> (pc = "down")
      /\ pc = "parse" => lines = <<>> \/ pc' = pc
      /\ parsed' \subseteq parsed
  BY DEF SyslogAd!Parsed, SyslogAd!Format, SyslogAd!Upload, SyslogAd!UploadTooLarge,
         SyslogAd!UploadFails, SyslogAd!Signal, SyslogAd!SignalFails, SyslogAd!history,
         SyslogAd!watcher, SyslogAd!vars, SyslogAd!log, log

LEMMA OpenSteps ==
    SyslogAd!Open \/ SyslogAd!Stat =>
      /\ SetFd \/ CheckInode
      /\ UNCHANGED <<log, seen, lines, entry, complete, parsed>>
      /\ pc # "down" /\ pc' # "down" /\ pc # "parse" /\ pc' # "parse"
  BY SameFile DEF SyslogAd!Open, SyslogAd!Stat, SyslogAd!history, SyslogAd!log, log

LEMMA ReadStep ==
    SyslogAd!Read =>
      /\ PassUnread /\ UNCHANGED <<log, entry, complete, parsed>>
      /\ lines' = Unread /\ seen' = seen \union Range(Unread)
      /\ pc = "read" /\ pc' = "parse"
  BY SameFile DEF SyslogAd!Read, SyslogAd!log, log

LEMMA RestartStep ==
    SyslogAd!Restart =>
      /\ SeekToEnd /\ pc = "down" /\ pc' = "asleep"
      /\ UNCHANGED <<log, seen, lines, entry, complete, parsed>>
  BY SameFile DEF SyslogAd!Restart, SyslogAd!history, SyslogAd!log, log

LEMMA LogStepOf ==
    SyslogAd!Log => LogStep /\ UNCHANGED <<fd, pos, pc, lines, entry, complete, parsed, seen>>
  BY SameFile DEF SyslogAd!Log, SyslogAd!watcher, SyslogAd!history

\* Old lines stay old, and those that were read stay older than all that follow.
LEMMA SeenStep ==
    ASSUME EntryOK, [SyslogAd!Next]_(SyslogAd!vars)
    PROVE  FileOK' /\ SeenInv'
  <1>1. \A k \in seen : k \in Nat
    BY DEF EntryOK, EventTypeOK, Lines
  <1>2. FileOK /\ \A k \in seen : k <= lastLine /\ (pc # "down" => Older(k))
    BY DEF EntryOK, SeenInv
  <1>3. CASE SyslogAd!Log
    <2>1. FileOK' /\ \A k \in Nat : k <= lastLine => k <= lastLine' /\ (Older(k) => Older(k)')
      BY <1>2, <1>3, LogStepOf, LogStepKeeps
    <2> QED
      BY <1>1, <1>2, <1>3, <2>1, LogStepOf DEF SeenInv
  <1>4. CASE SyslogAd!Read
    <2>1. FileOK' /\ \A l \in Range(Unread) : l <= lastLine /\ Older(l)'
      BY <1>2, <1>4, ReadStep, ReadKeeps
    <2>2. \A k \in Nat : Older(k) => Older(k)'
      BY <1>2, <1>4, ReadStep, ReadKeeps
    <2>3. lastLine' = lastLine
      BY <1>4, ReadStep DEF log
    <2> QED
      BY <1>1, <1>2, <1>4, <2>1, <2>2, <2>3, ReadStep DEF SeenInv
  <1>5. CASE pc' = "down" /\ fd' = 0 /\ pos' = 0 /\ UNCHANGED <<log, seen>>
    <2>1. FileOK' /\ lastLine' = lastLine
      BY <1>2, <1>5, EndKeeps DEF log
    <2> QED
      BY <1>2, <1>5, <2>1 DEF SeenInv
  <1>6. CASE SyslogAd!Restart
    <2>1. FileOK' /\ lastLine' = lastLine /\ \A k : Older(k)'
      BY <1>2, <1>6, RestartStep, EndKeeps DEF log
    <2> QED
      BY <1>2, <1>6, <2>1, RestartStep DEF SeenInv
  <1>7. CASE /\ UNCHANGED <<log, seen>> /\ (pc' # "down" => pc # "down")
             /\ SetFd \/ CheckInode \/ UNCHANGED <<fd, pos>>
    <2>1. FileOK' /\ lastLine' = lastLine /\ \A k \in Nat : Older(k) => Older(k)'
      BY <1>2, <1>7, FdStepKeeps DEF log
    <2> QED
      BY <1>1, <1>2, <1>7, <2>1 DEF SeenInv
  <1>8. SyslogAd!ParseRaises \/ SyslogAd!FormatRaises \/ SyslogAd!Kill => FileOK' /\ SeenInv'
    BY <1>5, EventsEnd
  <1> QED
    BY <1>3, <1>4, <1>6, <1>7, <1>8, EventCases, ParseSteps, OtherSteps, OpenSteps

\* A step that leaves lines and entry alone.
LEMMA EntryKept ==
    ASSUME EntryOK, UNCHANGED <<lines, entry, complete, seen>>,
           pc' # "parse" => lines = <<>>, pc' = "down" => pc = "down", pc = "down" => parsed' \subseteq parsed
    PROVE  EventTypeOK' /\ LinesInv' /\ EntryInv' /\ CompleteInv' /\ DownInv'
  BY DEF EntryOK, EventTypeOK, LinesInv, EntryInv, CompleteInv, DownInv, HeadAndTails

LEMMA EntryStep == EntryOK /\ [SyslogAd!Next]_(SyslogAd!vars) => EntryOK'
  <1> SUFFICES ASSUME EntryOK, [SyslogAd!Next]_(SyslogAd!vars)
               PROVE  EventTypeOK' /\ LinesInv' /\ EntryInv' /\ CompleteInv' /\ DownInv'
    BY SeenStep DEF EntryOK
  <1>1. /\ Script /\ lines \in Seq(Lines) /\ entry \in Seq(Lines) /\ seen \subseteq Lines
        /\ FileOK /\ SeenInv /\ LinesInv /\ EntryInv /\ CompleteInv /\ DownInv
    BY DEF EntryOK, EventTypeOK
  <1>2. \A k \in Lines : k \in Nat
    BY DEF Lines
  <1>3. CASE SyslogAd!Read
    <2>1. /\ lines = <<>> /\ lines' = Unread /\ seen' = seen \union Range(Unread)
          /\ UNCHANGED <<entry, complete>> /\ pc' = "parse" /\ pc = "read"
      BY <1>1, <1>3, ReadStep DEF LinesInv
    <2>2. /\ Unread \in Seq(Lines) /\ Rising(Unread)
          /\ \A k \in Nat : Older(k) => \A l \in Range(Unread) : k < l
      BY <1>1, <1>3, ReadStep, ReadKeeps
    <2>3. Range(Unread) \subseteq Lines
      BY <2>2, RangeOfLines
    <2>4. \A k \in seen : k \in Nat /\ \A l \in Range(Unread) : l \in Nat /\ k < l
      BY <1>1, <1>2, <2>1, <2>2, <2>3 DEF SeenInv
    <2>5. EventTypeOK' /\ DownInv'
      BY <1>1, <2>1, <2>2, <2>3 DEF EventTypeOK, DownInv
    <2>6. \A k \in seen, m \in Range(Unread) : ~ (k > m)
      BY <2>4
    <2>7. LinesInv'
      BY <2>1, <2>2, <2>6 DEF LinesInv
    <2>8. EntryInv'
      BY <1>1, <2>1, <2>4 DEF EntryInv
    <2>9. CompleteInv'
      BY <1>1, <2>1, RangeOfEmpty DEF CompleteInv, HeadAndTails
    <2> QED
      BY <2>5, <2>7, <2>8, <2>9
  <1>4. CASE SyslogAd!OneLine \/ SyslogAd!TailLine \/ SyslogAd!HeadLine
    <2> DEFINE h == lines[1]
    <2>1. /\ pc = "parse" /\ pc' = "parse" /\ seen' = seen /\ Len(lines) > 0
          /\ lines' = Tail(lines)
      BY <1>4, ParseSteps
    <2>2. /\ h \in Lines /\ Tail(lines) \in Seq(Lines) /\ Rising(Tail(lines))
          /\ Range(lines) = {h} \union Range(Tail(lines))
          /\ \A m \in Range(Tail(lines)) : h < m
      BY <1>1, <2>1, NextLine DEF LinesInv
    <2>3. Range(Tail(lines)) \subseteq Lines /\ h \in seen
      BY <1>1, <2>2, RangeOfLines DEF LinesInv
    <2>4. SyslogAd!Line = h
      BY DEF SyslogAd!Line
    <2> HIDE DEF h
    <2>5. LinesInv'
      <3>1. \A m \in Range(Tail(lines)), k \in Lines : k > m => k # h
        BY <1>2, <2>2, <2>3
      <3> QED
        BY <1>1, <2>1, <2>2, <3>1 DEF LinesInv
    <2>6. DownInv'
      BY <2>1 DEF DownInv
    <2>7. CASE SyslogAd!OneLine
      <3>1. h \in OneLiners /\ UNCHANGED <<entry, complete>>
        BY <2>4, <2>7 DEF SyslogAd!OneLine
      <3>2. EventTypeOK' /\ EntryInv'
        BY <1>1, <2>1, <2>2, <3>1 DEF EventTypeOK, EntryInv
      <3>3. CompleteInv'
        BY <1>1, <2>1, <2>2, <3>1 DEF CompleteInv, HeadAndTails
      <3> QED
        BY <2>5, <2>6, <3>2, <3>3
    <2>8. CASE SyslogAd!TailLine
      <3>1. h \notin OneLiners \union Heads /\ entry' = Append(entry, h) /\ complete' = complete
        BY <2>4, <2>8 DEF SyslogAd!TailLine
      <3>2. Append(entry, h) \in Seq(Lines) /\ Range(Append(entry, h)) = Range(entry) \union {h}
        BY <1>1, <2>2, RangeOfAppend, AppendProperties
      <3>3. EventTypeOK'
        BY <1>1, <2>1, <2>2, <3>1, <3>2 DEF EventTypeOK
      <3>4. EntryInv'
        BY <1>1, <2>1, <2>2, <2>3, <3>1, <3>2 DEF EntryInv
      <3>5. ASSUME complete PROVE HeadAndTails(entry') /\ entry'[1] = entry[1]
        <4>1. entry # <<>> /\ 1 \in 1 .. Len(entry)
          BY <1>1, <3>5, EmptySeq, LenProperties DEF CompleteInv, HeadAndTails
        <4>2. entry[1] \in Range(entry)
          BY <1>1, <4>1, LenProperties DEF Range
        <4>3. Append(entry, h) # <<>> /\ Append(entry, h)[1] = entry[1]
          BY <1>1, <2>2, <4>1, AppendProperties
        <4>4. h > entry[1]
          <5>1. entry[1] < h /\ h \in Nat /\ entry[1] \in Nat
            BY <1>1, <1>2, <2>2, <4>2 DEF EntryInv
          <5> QED
            BY <5>1
        <4> QED
          BY <1>1, <3>1, <3>2, <3>5, <4>3, <4>4 DEF CompleteInv, HeadAndTails
      <3>6. CompleteInv'
        BY <1>1, <2>1, <2>2, <3>1, <3>2, <3>5 DEF CompleteInv
      <3> QED
        BY <2>5, <2>6, <3>3, <3>4, <3>6
    <2>9. CASE SyslogAd!HeadLine
      <3>1. h \in Heads /\ entry' = <<h>>
        BY <2>4, <2>9 DEF SyslogAd!HeadLine
      <3>2. <<h>> \in Seq(Lines) /\ Range(<<h>>) = {h} /\ <<h>> # <<>> /\ <<h>>[1] = h
        BY <2>2 DEF Range
      <3>3. EventTypeOK' /\ EntryInv'
        BY <1>1, <2>1, <2>2, <2>3, <3>1, <3>2 DEF EventTypeOK, EntryInv
      <3>4. HeadAndTails(entry')
        BY <3>1, <3>2 DEF HeadAndTails
      <3>5. \A k \in seen : k > h => k \in Range(Tail(lines))
        <4>1. \A k \in seen : k > h => k \in Range(lines) /\ k # h
          BY <1>1, <1>2, <2>2 DEF LinesInv
        <4> QED
          BY <2>2, <4>1
      <3>6. CompleteInv'
        BY <2>1, <3>1, <3>2, <3>4, <3>5 DEF CompleteInv
      <3> QED
        BY <2>5, <2>6, <3>3, <3>6
    <2> QED
      BY <1>4, <2>7, <2>8, <2>9
  <1>5. CASE SyslogAd!ParseRaises \/ SyslogAd!FormatRaises \/ SyslogAd!Kill
    <2>1. /\ lines' = <<>> /\ entry' = <<>> /\ complete' = FALSE /\ parsed' = {}
          /\ pc' = "down" /\ seen' = seen
      BY <1>5, EventsEnd
    <2> QED
      BY <1>1, <2>1, RangeOfEmpty, EmptySeq
      DEF EventTypeOK, LinesInv, EntryInv, CompleteInv, DownInv
  <1>6. CASE \/ SyslogAd!Log \/ SyslogAd!Open \/ SyslogAd!Stat \/ SyslogAd!Restart
             \/ SyslogAd!Parsed \/ SyslogAd!Format \/ SyslogAd!Upload \/ SyslogAd!UploadTooLarge
             \/ SyslogAd!UploadFails \/ SyslogAd!Signal \/ SyslogAd!SignalFails
             \/ UNCHANGED SyslogAd!vars
    <2>1. /\ UNCHANGED <<lines, entry, complete, seen>> /\ parsed' \subseteq parsed
          /\ pc' = "down" => pc = "down" 
      BY <1>6, LogStepOf, OpenSteps, RestartStep, OtherSteps
    <2>2. pc' # "parse" => lines = <<>>
      BY <1>1, <1>6, LogStepOf, OpenSteps, RestartStep, OtherSteps DEF LinesInv
    <2> QED
      BY <2>1, <2>2, EntryKept
  <1> QED
    BY <1>3, <1>4, <1>5, <1>6, EventCases

-----------------------------------------------------------------------------
(* Lost lines stay lost.                                                   *)

\* Line l is in the open file behind the read position, or in the file opened next.
Waiting(l) ==
    \E i \in Inodes : \E n \in 1 .. Len(text[i]) :
      /\ text[i][n] = l
      /\ \/ i = fd /\ n > pos
         \/ i = path /\ path # fd

LinesWait == \A l : Waiting(l) <=> l \in ToRead

LEMMA ToReadLines ==
    \A l : l \in ToRead <=> l \in Range(Unread) \/ (path \notin {0, fd} /\ l \in Range(text[path]))
  <1>1. CASE path \in {0, fd}
    <2>1. ToRead = Range(Unread) \union {}
      BY <1>1 DEF ToRead
    <2> QED
      BY <1>1, <2>1
  <1>2. CASE path \notin {0, fd}
    <2>1. ToRead = Range(Unread) \union Range(text[path])
      BY <1>2 DEF ToRead
    <2> QED
      BY <1>2, <2>1
  <1> QED
    BY <1>1, <1>2

LEMMA WaitingLines ==
    ASSUME FileOK
    PROVE  LinesWait
  <1> SUFFICES ASSUME NEW l
               PROVE  Waiting(l) <=>
                        l \in Range(Unread) \/ (path \notin {0, fd} /\ l \in Range(text[path]))
    BY ToReadLines DEF LinesWait
  <1>1. ASSUME l \in Range(Unread) PROVE Waiting(l)
    <2>1. fd # 0
      BY <1>1, UnreadLines, RangeOfEmpty DEF FileOK
    <2>2. /\ Unread \in Seq(Lines) /\ DOMAIN Unread = 1 .. Len(Unread)
          /\ fd \in Inodes /\ pos \in Nat /\ Len(Unread) \in Nat /\ Len(text[fd]) \in Nat
      BY <2>1, UnreadLines, LenProperties, LineFacts, PathFacts DEF FileOK
    <2>3. PICK n \in 1 .. Len(Unread) : l = Unread[n]
      BY <1>1, <2>2 DEF Range
    <2>4. pos + n \in pos + 1 .. Len(text[fd]) /\ Unread[n] = text[fd][pos + n]
      BY <2>1, UnreadLines DEF FileOK
    <2>5. pos + n \in 1 .. Len(text[fd]) /\ pos + n > pos
      BY <2>2, <2>4
    <2> QED
      BY <2>2, <2>3, <2>4, <2>5 DEF Waiting
  <1>2. ASSUME path \notin {0, fd}, l \in Range(text[path]) PROVE Waiting(l)
    <2>1. path \in Inodes /\ DOMAIN text[path] = 1 .. Len(text[path])
      BY <1>2, LenProperties DEF FileOK, LogTypeOK
    <2> QED
      BY <1>2, <2>1 DEF Waiting, Range
  <1>3. ASSUME Waiting(l) PROVE l \in Range(Unread) \/ (path \notin {0, fd} /\ l \in Range(text[path]))
    <2>1. PICK i \in Inodes, n \in Int :
            n \in 1 .. Len(text[i]) /\ text[i][n] = l /\ ((i = fd /\ n > pos) \/ (i = path /\ path # fd))
      BY <1>3 DEF Waiting
    <2>2. CASE i = fd /\ n > pos
      <3>1. /\ fd # 0 /\ Unread \in Seq(Lines) /\ DOMAIN Unread = 1 .. Len(Unread)
            /\ pos \in Nat /\ Len(Unread) \in Nat /\ Len(text[fd]) \in Nat
            /\ pos + Len(Unread) >= Len(text[fd])
        BY <2>2, UnreadLines, LenProperties, LineFacts, PathFacts DEF FileOK
      <3>2. n - pos \in 1 .. Len(Unread) /\ pos + (n - pos) = n
        BY <2>1, <2>2, <3>1
      <3>3. Unread[n - pos] = l
        BY <2>1, <2>2, <3>1, <3>2, UnreadLines DEF FileOK
      <3> QED
        BY <3>1, <3>2, <3>3 DEF Range
    <2>3. CASE i = path /\ path # fd
      <3>1. path # 0 /\ DOMAIN text[path] = 1 .. Len(text[path])
        BY <2>3, LenProperties, PathFacts DEF FileOK, LogTypeOK
      <3> QED
        BY <2>1, <2>3, <3>1 DEF Range
    <2> QED
      BY <2>1, <2>2, <2>3
  <1> QED
    BY <1>1, <1>2, <1>3

\* What waits can be read.
LEMMA WaitingIsReadable ==
    ASSUME FileOK, NEW l, Waiting(l), NEW k, Older(k)
    PROVE  k < l
  <1>1. PICK i \in Inodes, n \in Int :
          n \in 1 .. Len(text[i]) /\ text[i][n] = l /\ ((i = fd /\ n > pos) \/ (i = path /\ path # fd))
    BY DEF Waiting
  <1>2. Readable(i, n)
    <2>1. i > 0 /\ i \in Nat
      BY PathFacts
    <2>2. CASE i = fd /\ n > pos
      BY <2>1, <2>2 DEF Readable
    <2>3. CASE i = path /\ path # fd
      BY <2>1, <2>3, PathFacts DEF Readable
    <2> QED
      BY <1>1, <2>2, <2>3
  <1> QED
    BY <1>1, <1>2 DEF Older

\* A line that was not read and does not wait is lost.
LEMMA NotLost ==
    ASSUME FileOK, NEW l \in 1 .. lastLine, l \notin SyslogAd!Lost
    PROVE  l \in seen \/ Waiting(l)
  BY WaitingLines, SameFile DEF SyslogAd!Lost, LinesWait

\* The lines that wait are those that waited, or new.
LEMMA LogStepWaits ==
    ASSUME FileOK, LogStep, UNCHANGED <<fd, pos>>, NEW l \in Nat, l <= lastLine, Waiting(l)'
    PROVE  Waiting(l)
  <1>1. PICK i \in Inodes, n \in Int :
          n \in 1 .. Len(text'[i]) /\ text'[i][n] = l /\ ((i = fd' /\ n > pos') \/ (i = path' /\ path' # fd'))
    BY DEF Waiting
  <1>2. \A j \in Inodes : text[j] \in Seq(Lines) /\ Len(text[j]) \in Nat
    BY LineFacts
  <1>3. CASE Write
    <2>1. /\ text' = [text EXCEPT ![writer] = Append(text[writer], lastLine + 1)]
          /\ UNCHANGED <<path, writer>>
      BY <1>3 DEF Write
    <2>2. /\ lastLine + 1 \in Lines /\ lastLine \in Nat /\ writer \in Inodes
      BY <1>3, LogAssumption, PathFacts DEF Write, Lines, FileOK, LogTypeOK
    <2>3. CASE i = writer
      <3>1. text'[i] = Append(text[i], lastLine + 1)
        BY <2>1, <2>3 DEF FileOK, LogTypeOK
      <3>2. /\ Len(text'[i]) = Len(text[i]) + 1 /\ text'[i][Len(text[i]) + 1] = lastLine + 1
            /\ \A m \in 1 .. Len(text[i]) : text'[i][m] = text[i][m]
        BY <1>2, <2>2, <3>1, AppendProperties, LenProperties
      <3>3. n # Len(text[i]) + 1
        BY <1>1, <2>2, <3>2
      <3>4. n \in 1 .. Len(text[i])
        BY <1>1, <1>2, <3>2, <3>3
      <3> QED
        BY <1>1, <2>1, <3>2, <3>4 DEF Waiting
    <2>4. CASE i # writer
      <3>1. text'[i] = text[i]
        BY <2>1, <2>4 DEF FileOK, LogTypeOK
      <3> QED
        BY <1>1, <2>1, <3>1 DEF Waiting
    <2> QED
      BY <2>3, <2>4
  <1>4. CASE Truncate
    <2>1. text' = [text EXCEPT ![path] = <<>>] /\ UNCHANGED path
      BY <1>4 DEF Truncate
    <2>2. Len(<<>>) = 0
      BY EmptySeq
    <2>3. text'[i] = text[i]
      BY <1>1, <2>1, <2>2 DEF FileOK, LogTypeOK
    <2> QED
      BY <1>1, <2>1, <2>3 DEF Waiting
  <1>5. CASE Rename
    <2>1. text' = text /\ path' = 0 /\ path # 0
      BY <1>5 DEF Rename
    <2>2. i # path'
      BY <2>1, PathFacts
    <2> QED
      BY <1>1, <2>1, <2>2 DEF Waiting
  <1>6. CASE Reopen
    <2>1. text' = text /\ path' = writer + 1
      BY <1>6 DEF Reopen
    <2>2. i <= writer
      BY <1>1, <2>1, EmptySeq, PathFacts DEF FileOK, FileInv
    <2>3. i # path'
      BY <2>1, <2>2, PathFacts
    <2> QED
      BY <1>1, <2>1, <2>3 DEF Waiting
  <1> QED
    BY <1>3, <1>4, <1>5, <1>6 DEF LogStep

LEMMA FdStepWaits ==
    ASSUME FileOK, UNCHANGED log, SetFd \/ CheckInode \/ PassUnread \/ UNCHANGED <<fd, pos>>,
           NEW l, Waiting(l)'
    PROVE  Waiting(l)
  <1>1. /\ UNCHANGED <<text, path>> /\ pos \in Nat /\ Len(Unread) \in Nat
        /\ \A i \in Inodes : Len(text[i]) \in Nat /\ i > 0
    BY UnreadLines, LineFacts, PathFacts DEF log, FileOK
  <1>2. PICK i \in Inodes, n \in Int :
          n \in 1 .. Len(text[i]) /\ text[i][n] = l /\ ((i = fd' /\ n > pos') \/ (i = path /\ path # fd'))
    BY <1>1 DEF Waiting
  <1>3. \/ UNCHANGED <<fd, pos>>
        \/ fd = 0 /\ fd' = path /\ pos' = 0
        \/ path # fd /\ fd' = 0 /\ pos' = 0
        \/ fd' = fd /\ pos' = pos + Len(Unread)
    BY DEF SetFd, CheckInode, PassUnread
  <1>4. (i = fd /\ n > pos) \/ (i = path /\ path # fd)
    BY <1>1, <1>2, <1>3
  <1> QED
    BY <1>2, <1>4 DEF Waiting

\* The same in the next state.
LEMMA WaitingLinesNext == FileOK' => LinesWait'
  <1>1. FileOK => LinesWait
    BY WaitingLines
  <1> QED
    BY <1>1, PTL

\* While the process runs, a lost line is never read any more.
LEMMA LostStays ==
    ASSUME EntryOK, [SyslogAd!Next]_(SyslogAd!vars), pc # "down", pc' # "down",
           NEW l \in SyslogAd!Lost
    PROVE  l \in SyslogAd!Lost'
  <1>1. FileOK /\ FileOK'
    BY SeenStep DEF EntryOK
  <1>2. LinesWait /\ LinesWait'
    BY <1>1, WaitingLines, WaitingLinesNext
  <1>3. l \in 1 .. lastLine /\ l \in Nat /\ l \notin seen /\ ~Waiting(l)
    BY <1>1, <1>2, SameFile, PathFacts DEF SyslogAd!Lost, LinesWait
  <1>4. l \notin Range(Unread)
    BY <1>2, <1>3, ToReadLines DEF LinesWait
  <1>5. SUFFICES l <= lastLine' /\ lastLine' \in Nat /\ l \notin seen' /\ ~Waiting(l)'
    <2>1. SyslogAd!ToRead' = ToRead'
      <3>1. SyslogAd!Unread' = Unread' /\ \A t : SyslogAd!Range(t) = Range(t)
        BY DEF SyslogAd!Unread, Unread, SyslogAd!Range, Range
      <3> QED
        BY <3>1 DEF SyslogAd!ToRead, ToRead
    <2>2. ASSUME l <= lastLine', lastLine' \in Nat PROVE l \in 1 .. lastLine'
      BY <1>3, <2>2
    <2> QED
      BY <1>2, <1>5, <2>1, <2>2, SameFile DEF SyslogAd!Lost, LinesWait
  <1>6. lastLine' \in Nat
    BY <1>1 DEF FileOK, LogTypeOK
  <1>7. CASE SyslogAd!Log
    <2>1. FileOK /\ LogStep /\ UNCHANGED <<fd, pos, seen>>
      BY <1>1, <1>7, LogStepOf
    <2>2. \A k \in Nat : k <= lastLine => k <= lastLine'
      BY <2>1, LogStepKeeps
    <2>3. ~Waiting(l)'
      BY <1>3, <2>1, LogStepWaits
    <2>4. l <= lastLine' /\ seen' = seen
      BY <1>3, <2>1, <2>2
    <2> QED
      BY <1>3, <1>6, <2>3, <2>4
  <1>8. CASE ~SyslogAd!Log
    <2>1. /\ UNCHANGED log /\ seen' \subseteq seen \union Range(Unread)
          /\ SetFd \/ CheckInode \/ PassUnread \/ UNCHANGED <<fd, pos>>
      BY <1>8, EventCases, EventsEnd, ParseSteps, OtherSteps, OpenSteps, ReadStep, RestartStep
    <2>2. ~Waiting(l)'
      BY <1>1, <1>3, <2>1, FdStepWaits
    <2>3. lastLine' = lastLine
      BY <2>1 DEF log
    <2> QED
      BY <1>3, <1>4, <1>6, <2>1, <2>2, <2>3
  <1> QED
    BY <1>7, <1>8

-----------------------------------------------------------------------------
(* Every parsed event is whole, or a line of it was lost.                  *)

Whole(e) ==
    /\ e[1] \in Heads \union OneLiners
    /\ \/ Range(e) = SyslogAd!LinesOf(e[1])
       \/ \E l \in SyslogAd!Lost :
            l > e[1] /\ \A k \in Range(e) : k < l => k \in SyslogAd!LinesOf(e[1])

\* Every nonempty set of numbers has a least one: of the sets of its numbers below one of
\* its own, a smallest one is empty.
LEMMA LeastOfNaturals ==
    ASSUME NEW S \in SUBSET Nat, S # {}
    PROVE  \E x \in S : \A y \in S : x <= y
  <1> DEFINE Below(x) == {y \in S : y < x}
  <1> DEFINE T == {Below(x) : x \in S}
  <1>1. T \subseteq FiniteSubsetsOf(S) /\ T # {}
    <2>1. ASSUME NEW x \in S PROVE IsFiniteSet(Below(x))
      <3>1. Below(x) \in SUBSET Nat /\ x \in Nat
        OBVIOUS
      <3>2. \A y \in Below(x) : y <= x
        BY <3>1
      <3> QED
        BY <3>1, <3>2, FS_BoundedSetOfNaturals
    <2> QED
      BY <2>1 DEF FiniteSubsetsOf
  <1>2. PICK M \in T : \A U \in T : ~ (<<U, M>> \in StrictSubsetOrdering(S))
    <2> HIDE DEF T
    <2> QED
      BY <1>1, WFMin, FS_StrictSubsetOrderingWellFounded
  <1>3. PICK x \in S : M = Below(x)
    OBVIOUS
  <1>4. ASSUME NEW y \in S, y < x PROVE FALSE
    <2>1. Below(y) \subseteq Below(x) /\ Below(y) # Below(x)
      <3>1. \A z \in S : z < y => z < x
        BY <1>4
      <3>2. y \in Below(x) /\ y \notin Below(y)
        BY <1>4
      <3> QED
        BY <3>1, <3>2
    <2>2. <<Below(y), Below(x)>> \in StrictSubsetOrdering(S)
      BY <2>1 DEF StrictSubsetOrdering
    <2> QED
      BY <1>2, <1>3, <2>2
  <1>5. \A y \in S : x <= y
    BY <1>4
  <1> QED
    BY <1>5

\* The entry that the next head line ends.
LEMMA EntryWhole ==
    ASSUME EntryOK, complete, pc = "parse", Len(lines) > 0, lines[1] \in Heads
    PROVE  Whole(entry)
  <1> DEFINE h == entry[1]
  <1> DEFINE next == lines[1]
  <1>1. /\ Script /\ lines \in Seq(Lines) /\ entry \in Seq(Lines) /\ seen \subseteq Lines
        /\ FileOK /\ SeenInv /\ LinesInv /\ EntryInv /\ HeadAndTails(entry)
        /\ \A k \in seen : k > h => k \in Range(entry) \union OneLiners \union Range(lines)
    BY DEF EntryOK, EventTypeOK, CompleteInv
  <1>2. /\ next \in Lines /\ next \in Range(lines)
        /\ \A m \in Range(lines) : m = next \/ next < m
    BY <1>1, NextLine DEF LinesInv
  <1>3. next \in seen /\ next <= lastLine /\ Older(next)
    BY <1>1, <1>2 DEF LinesInv, SeenInv
  <1>4. h \in Range(entry)
    <2>1. 1 \in 1 .. Len(entry)
      BY <1>1, EmptySeq, LenProperties DEF HeadAndTails
    <2> QED
      BY <1>1, <2>1, LenProperties DEF Range
  <1>5. /\ h \in Heads
        /\ \A k \in Range(entry) : k = h \/ (k > h /\ k \notin Heads \union OneLiners)
        /\ \A k \in Range(entry) : k < next
    BY <1>1, <1>2 DEF HeadAndTails, EntryInv
  <1> HIDE DEF h, next
  <1>6. \A k \in Lines : k \in Nat /\ k > 0
    BY DEF Lines
  <1>7. Range(entry) \subseteq Lines /\ Range(lines) \subseteq Lines
    BY <1>1, RangeOfLines
  <1>8. h \in Nat /\ next \in Nat /\ h > 0 /\ lastLine \in Nat
    BY <1>1, <1>2, <1>4, <1>6, <1>7, PathFacts
  \* Lines between the two heads that were not lost were read, and are no heads.
  <1>9. ASSUME NEW k \in Nat, h < k, k < next, k \notin SyslogAd!Lost
        PROVE  k \in Range(entry) \union OneLiners /\ k \notin Heads
    <2>1. k \in 1 .. lastLine
      BY <1>3, <1>8, <1>9
    <2>2. k \in seen \/ Waiting(k)
      BY <1>1, <1>9, <2>1, NotLost
    <2>3. ~Waiting(k)
      <3>1. Waiting(k) => next < k
        BY <1>1, <1>3, WaitingIsReadable
      <3> QED
        BY <1>8, <1>9, <3>1
    <2>4. k \notin Range(lines)
      <3>1. k \in Range(lines) => k = next \/ next < k
        BY <1>2
      <3> QED
        BY <1>8, <1>9, <3>1
    <2>5. k \in Range(entry) \union OneLiners
      BY <1>1, <1>9, <2>2, <2>3, <2>4
    <2>6. k # h
      BY <1>8, <1>9
    <2> QED
      BY <1>1, <1>5, <2>5, <2>6 DEF Script
  <1>10. SyslogAd!LinesOf(h) =
           {h} \union {l \in Lines \ (Heads \union OneLiners) :
                         l > h /\ \A k \in h + 1 .. l : k \notin Heads}
    BY <1>1, <1>5, SameFile DEF SyslogAd!LinesOf, Script
  \* A line of the entry before a number up to which nothing was lost is one of the event.
  <1>11. ASSUME NEW b \in Nat, b <= next,
                \A k \in Nat : h < k /\ k < b => k \notin SyslogAd!Lost,
                NEW l \in Range(entry), l < b
         PROVE  l \in SyslogAd!LinesOf(h)
    <2>1. CASE l = h
      BY <1>10, <2>1
    <2>2. CASE l > h /\ l \notin Heads \union OneLiners
      <3>1. l \in Nat /\ l \in Lines
        BY <1>6, <1>7
      <3>2. \A k \in h + 1 .. l : k \in Nat /\ h < k /\ k < b /\ k < next
        BY <1>8, <1>11, <3>1
      <3>3. \A k \in h + 1 .. l : k \notin Heads
        BY <1>9, <1>11, <3>2
      <3> QED
        BY <1>10, <2>2, <3>1, <3>3
    <2> QED
      BY <1>5, <2>1, <2>2
  <1>12. CASE \A k \in Nat : h < k /\ k < next => k \notin SyslogAd!Lost
    <2>1. Range(entry) \subseteq SyslogAd!LinesOf(h)
      <3>1. next <= next
        BY <1>8
      <3> QED
        BY <1>5, <1>8, <1>11, <1>12, <3>1
    <2>2. ASSUME NEW l \in SyslogAd!LinesOf(h), l # h PROVE l \in Range(entry)
      <3>1. l \in Nat /\ l > h /\ l \notin Heads \union OneLiners /\ \A k \in h + 1 .. l : k \notin Heads
        BY <1>6, <1>10, <2>2
      <3>2. next \notin h + 1 .. l
        BY <3>1 DEF next
      <3>3. l < next
        <4>1. h < next
          BY <1>4, <1>5
        <4> QED
          BY <1>8, <3>1, <3>2, <4>1
      <3> QED
        BY <1>9, <1>12, <3>1, <3>3
    <2>3. Range(entry) = SyslogAd!LinesOf(h)
      BY <1>4, <2>1, <2>2
    <2> QED
      BY <1>5, <2>3 DEF Whole, h
  <1>13. CASE \E k \in Nat : h < k /\ k < next /\ k \in SyslogAd!Lost
    <2> DEFINE S == {k \in Nat : h < k /\ k < next /\ k \in SyslogAd!Lost}
    <2>1. PICK b \in S : \A k \in S : b <= k
      BY <1>13, LeastOfNaturals
    <2>2. b \in Nat /\ h < b /\ b < next /\ b \in SyslogAd!Lost /\ b <= next
      BY <1>8, <2>1
    <2>3. \A k \in Nat : h < k /\ k < b => k \notin SyslogAd!Lost
      <3> SUFFICES ASSUME NEW k \in Nat, h < k, k < b, k \in SyslogAd!Lost PROVE FALSE
        OBVIOUS
      <3>1. k < next
        BY <1>8, <2>2
      <3>2. b <= k
        BY <2>1, <3>1
      <3> QED
        BY <2>2, <3>2
    <2>4. \A l \in Range(entry) : l < b => l \in SyslogAd!LinesOf(h)
      BY <1>11, <2>2, <2>3
    <2>5. b > h
      BY <1>8, <2>2
    <2> QED
      BY <1>5, <2>2, <2>4, <2>5 DEF Whole, h
  <1> QED
    BY <1>12, <1>13

LEMMA WholeStep ==
    EntryOK /\ SyslogAd!EventsWhole /\ [SyslogAd!Next]_(SyslogAd!vars) => SyslogAd!EventsWhole'
  <1> SUFFICES ASSUME EntryOK, SyslogAd!EventsWhole, [SyslogAd!Next]_(SyslogAd!vars),
                      NEW e \in parsed'
               PROVE  Whole(e)'
    BY SameFile DEF SyslogAd!EventsWhole, Whole
  <1>1. pc' # "down"
    BY EntryStep DEF EntryOK, DownInv
  <1>2. CASE pc = "down"
    <2>1. parsed = {}
      BY <1>2 DEF EntryOK, DownInv
    <2> QED
      BY <1>1, <1>2, <2>1, EventCases, EventsEnd, ParseSteps, OtherSteps, OpenSteps, ReadStep,
         RestartStep, LogStepOf
  <1>3. CASE pc # "down"
    <2>1. \A l \in SyslogAd!Lost : l \in SyslogAd!Lost'
      BY <1>1, <1>3, LostStays
    <2>2. Whole(e) => Whole(e)'
      BY <2>1 DEF Whole
    <2>3. e \in parsed => Whole(e)
      BY SameFile DEF SyslogAd!EventsWhole, Whole
    <2>4. CASE SyslogAd!OneLine
      <3>1. e \in parsed \/ (e = <<lines[1]>> /\ lines[1] \in OneLiners)
        BY <2>4 DEF SyslogAd!OneLine, SyslogAd!Line
      <3>2. ASSUME NEW l \in OneLiners PROVE Whole(<<l>>)
        <4>1. Range(<<l>>) = {l} /\ <<l>>[1] = l
          BY DEF Range
        <4> QED
          BY <3>2, <4>1 DEF Whole, SyslogAd!LinesOf
      <3> QED
        BY <2>2, <2>3, <3>1, <3>2
    <2>5. CASE SyslogAd!HeadLine
      <3>1. \/ e \in parsed
            \/ e = entry /\ complete /\ pc = "parse" /\ Len(lines) > 0 /\ lines[1] \in Heads
        BY <2>5 DEF SyslogAd!HeadLine, SyslogAd!HasLine, SyslogAd!Line
      <3> QED
        BY <2>2, <2>3, <3>1, EntryWhole
    <2>6. SyslogAd!TailLine => parsed' = parsed
      BY DEF SyslogAd!TailLine
    <2> QED
      BY <1>1, <2>2, <2>3, <2>4, <2>5, <2>6, EventCases, EventsEnd, OtherSteps, OpenSteps, ReadStep,
         RestartStep, LogStepOf
  <1> QED
    BY <1>2, <1>3

\* SyslogAdWatcher!EventsWhole: whatever polls, rotations, restarts and malformed
\* entries come between its lines, a parsed event has exactly its own, unless one of
\* them was lost before it was read.
THEOREM EventsPutTogether == Script /\ SyslogAd!Spec => []SyslogAd!EventsWhole
  <1>1. SyslogAd!Init => SyslogAd!EventsWhole
    BY DEF SyslogAd!Init, SyslogAd!EventsWhole
  <1>2. Script /\ SyslogAd!Init => EntryOK /\ SyslogAd!EventsWhole
    BY <1>1, EntryInit
  <1>3. EntryOK /\ SyslogAd!EventsWhole /\ [SyslogAd!Next]_(SyslogAd!vars) =>
          EntryOK' /\ SyslogAd!EventsWhole'
    BY EntryStep, WholeStep
  <1> QED
    BY <1>2, <1>3, PTL DEF SyslogAd!Spec

-----------------------------------------------------------------------------
(* What will be read, step by step.                                        *)

OlderFirst == \A k, l : Older(k) /\ Waiting(l) => k < l

WrittenWait == \A l : Waiting(l) => l \in Lines /\ l \in Nat /\ l <= lastLine

LEMMA WaitingFacts == FileOK => OlderFirst /\ WrittenWait /\ LinesWait
  <1> SUFFICES ASSUME FileOK PROVE OlderFirst /\ WrittenWait
    BY WaitingLines
  <1>1. OlderFirst
    BY WaitingIsReadable DEF OlderFirst
  <1>2. WrittenWait
    <2> SUFFICES ASSUME NEW l, Waiting(l) PROVE l \in Lines /\ l \in Nat /\ l <= lastLine
      BY DEF WrittenWait
    <2>1. PICK i \in Inodes, n \in Int : n \in 1 .. Len(text[i]) /\ text[i][n] = l
      BY DEF Waiting
    <2>2. text[i] \in Seq(Lines)
      BY DEF FileOK, LogTypeOK
    <2> QED
      BY <2>1, <2>2, LineFacts, ElementOfSeq
  <1> QED
    BY <1>1, <1>2

LEMMA WaitingFactsNext == FileOK' => OlderFirst' /\ WrittenWait' /\ LinesWait'
  <1>1. FileOK => OlderFirst /\ WrittenWait /\ LinesWait
    BY WaitingFacts
  <1> QED
    BY <1>1, PTL

\* The writer adds the new line or does not, and the others add nothing.
LEMMA LogStepToRead ==
    ASSUME FileOK, LogStep, UNCHANGED <<fd, pos>>
    PROVE  \/ lastLine' = lastLine /\ ToRead' \subseteq ToRead
           \/ /\ lastLine' = lastLine + 1 /\ lastLine' \in Lines
              /\ ToRead' \in {ToRead, ToRead \union {lastLine'}}
  <1>1. /\ FileOK' /\ lastLine \in Nat /\ OlderFirst' /\ WrittenWait' /\ LinesWait'
        /\ OlderFirst /\ WrittenWait /\ LinesWait
    BY LogStepKeeps, WaitingFacts, WaitingFactsNext, PathFacts
  <1>2. \A l \in ToRead' : l \in Nat /\ l <= lastLine' /\ (l <= lastLine => l \in ToRead)
    <2> SUFFICES ASSUME NEW l \in ToRead'
                 PROVE  l \in Nat /\ l <= lastLine' /\ (l <= lastLine => l \in ToRead)
      OBVIOUS
    <2>1. Waiting(l)' /\ l \in Nat /\ l <= lastLine'
      BY <1>1 DEF LinesWait, WrittenWait
    <2>2. l <= lastLine => Waiting(l)
      BY <2>1, LogStepWaits
    <2> QED
      BY <1>1, <2>1, <2>2 DEF LinesWait
  <1>3. CASE Rename \/ Reopen \/ Truncate
    <2>1. lastLine' = lastLine
      BY <1>3 DEF Rename, Reopen, Truncate
    <2> QED
      BY <1>2, <2>1
  <1>4. CASE Write
    <2>1. /\ text' = [text EXCEPT ![writer] = Append(text[writer], lastLine + 1)]
          /\ lastLine' = lastLine + 1 /\ UNCHANGED <<path, writer, fd, pos>> /\ lastLine < MaxLines
      BY <1>4 DEF Write
    <2>2. lastLine' \in Lines
      BY <1>1, <2>1, LogAssumption DEF Lines
    <2>3. ASSUME NEW l \in ToRead PROVE l \in ToRead'
      <3>1. PICK i \in Inodes, n \in Int :
              n \in 1 .. Len(text[i]) /\ text[i][n] = l /\ ((i = fd /\ n > pos) \/ (i = path /\ path # fd))
        BY <1>1, <2>3 DEF Waiting, LinesWait
      <3>2. n \in 1 .. Len(text'[i]) /\ text'[i][n] = l
        <4>1. text[i] \in Seq(Lines) /\ Len(text[i]) \in Nat /\ lastLine + 1 \in Lines
          BY <2>1, <2>2, LineFacts
        <4>2. CASE i = writer
          <5>1. text'[i] = Append(text[i], lastLine + 1)
            BY <2>1, <4>2 DEF FileOK, LogTypeOK
          <5>2. /\ Len(text'[i]) = Len(text[i]) + 1
                /\ \A m \in 1 .. Len(text[i]) : text'[i][m] = text[i][m]
            BY <4>1, <5>1, AppendProperties, LenProperties
          <5> QED
            BY <3>1, <4>1, <5>2
        <4>3. CASE i # writer
          <5>1. text'[i] = text[i]
            BY <2>1, <4>3 DEF FileOK, LogTypeOK
          <5> QED
            BY <3>1, <5>1
        <4> QED
          BY <4>2, <4>3
      <3>3. Waiting(l)'
        BY <2>1, <3>1, <3>2 DEF Waiting
      <3> QED
        BY <1>1, <3>3 DEF LinesWait
    <2>4. \A l \in ToRead' : l \in ToRead \/ l = lastLine'
      <3>1. \A l \in Nat : l <= lastLine + 1 => l <= lastLine \/ l = lastLine + 1
        BY <1>1
      <3> QED
        BY <1>2, <2>1, <3>1
    <2>5. ToRead' \in {ToRead, ToRead \union {lastLine'}}
      BY <2>3, <2>4
    <2> QED
      BY <2>1, <2>2, <2>5
  <1> QED
    BY <1>3, <1>4 DEF LogStep

LEMMA FdStepToRead ==
    ASSUME FileOK, UNCHANGED log, SetFd \/ CheckInode \/ UNCHANGED <<fd, pos>>
    PROVE  ToRead' \subseteq ToRead
  <1>1. LinesWait /\ LinesWait'
    BY FdStepKeeps, WaitingFacts, WaitingFactsNext
  <1> QED
    BY <1>1, FdStepWaits DEF LinesWait

\* What is read was to be read, and is not read again.
LEMMA ReadToRead ==
    ASSUME FileOK, UNCHANGED log, PassUnread
    PROVE  Range(Unread) \subseteq ToRead /\ ToRead' = ToRead \ Range(Unread)
  <1>1. /\ FileOK' /\ \A l \in Range(Unread) : Older(l)'
    BY ReadKeeps
  <1>2. LinesWait /\ LinesWait' /\ OlderFirst' /\ WrittenWait'
    BY <1>1, WaitingFacts, WaitingFactsNext
  <1>3. Range(Unread) \subseteq ToRead
    BY ToReadLines
  <1>4. ToRead' \subseteq ToRead
    BY <1>2, FdStepWaits DEF LinesWait
  <1>5. ASSUME NEW l \in ToRead', l \in Range(Unread) PROVE FALSE
    <2>1. Waiting(l)' /\ Older(l)'
      BY <1>1, <1>2, <1>5 DEF LinesWait
    <2>2. l < l /\ l \in Nat
      BY <1>2, <2>1 DEF OlderFirst, WrittenWait
    <2> QED
      BY <2>2
  <1>6. ASSUME NEW l \in ToRead, l \notin Range(Unread) PROVE l \in ToRead'
    <2>1. path \notin {0, fd} /\ l \in Range(text[path])
      BY <1>6, ToReadLines
    <2>2. path' = path /\ fd' = fd /\ text' = text
      BY DEF PassUnread, log
    <2> QED
      BY <2>1, <2>2 DEF ToRead
  <1> QED
    BY <1>3, <1>4, <1>5, <1>6

\* A node that starts passes over all that is there.
LEMMA RestartToRead ==
    ASSUME FileOK, UNCHANGED log, SeekToEnd
    PROVE  ToRead' = {}
  <1>1. FileOK' /\ \A k : Older(k)'
    BY EndKeeps
  <1>2. LinesWait' /\ OlderFirst' /\ WrittenWait'
    BY <1>1, WaitingFactsNext
  <1>3. ASSUME NEW l \in ToRead' PROVE FALSE
    <2>1. l < l /\ l \in Nat
      BY <1>1, <1>2, <1>3 DEF OlderFirst, WrittenWait, LinesWait
    <2> QED
      BY <2>1
  <1> QED
    BY <1>3

LEMMA InitToRead == LogInit => ToRead = {}
  <1> SUFFICES ASSUME LogInit, NEW l \in ToRead PROVE FALSE
    OBVIOUS
  <1>1. Waiting(l)
    BY FileInit, WaitingLines DEF LinesWait
  <1>2. Len(<<>>) = 0
    BY EmptySeq
  <1> QED
    BY <1>1, <1>2 DEF Waiting, LogInit

-----------------------------------------------------------------------------
(* LogNode implements Relay, with ToRead for what is coming.               *)

LEMMA NodeInit == Init => Relayed!Init
  <1> SUFFICES ASSUME Init PROVE Relayed!Init
    OBVIOUS
  <1>1. ToRead = {} /\ Range(data) = {} /\ 1 .. lastLine = {}
    BY InitToRead, RangeOfEmpty DEF Init, LogInit, WatchInit
  <1> QED
    BY <1>1 DEF Relayed!Init, Init, WatchInit

\* Steps of the writer and of the node's file object.
LEMMA NodeMisses ==
    ASSUME UNCHANGED <<pc, data, signalled, refused, lastLine>>, ToRead' \subseteq ToRead
    PROVE  Relayed!Next
  <1>1. CASE pc = "down"
    <2>1. Relayed!Miss({})
      BY <1>1 DEF Relayed!Miss
    <2> QED
      BY <2>1 DEF Relayed!Next
  <1>2. CASE pc # "down"
    <2>1. Relayed!Miss(ToRead \ ToRead')
      BY <1>2 DEF Relayed!Miss
    <2> QED
      BY <1>2, <2>1 DEF Relayed!Next
  <1> QED
    BY <1>1, <1>2

LEMMA NodeStep == TypeOK /\ FileOK /\ [Next]_vars => [Relayed!Next]_(Relayed!vars)
  <1> SUFFICES ASSUME TypeOK, FileOK, [Next]_vars PROVE [Relayed!Next]_(Relayed!vars)
    OBVIOUS
  <1> USE DEF watch, batch, outcome
  <1>1. CASE Log
    <2>1. LogStep /\ UNCHANGED <<fd, pos, pc, data, signalled, refused>>
      BY <1>1 DEF Log
    <2>2. CASE lastLine' = lastLine /\ ToRead' \subseteq ToRead
      BY <2>1, <2>2, NodeMisses
    <2>3. CASE /\ lastLine' = lastLine + 1 /\ lastLine' \in Lines
               /\ ToRead' \in {ToRead, ToRead \union {lastLine'}}
      <3>1. lastLine' \notin 1 .. lastLine /\ 1 .. lastLine' = 1 .. lastLine \union {lastLine'}
        BY <2>3, PathFacts
      <3>2. Relayed!Write(lastLine')
        BY <2>1, <2>3, <3>1 DEF Relayed!Write
      <3> QED
        BY <2>3, <3>2 DEF Relayed!Next
    <2> QED
      BY <2>1, <2>2, <2>3, LogStepToRead
  <1>2. CASE Tick \/ (Flush /\ Upload) \/ (Flush /\ UploadFails) \/ UNCHANGED vars
    <2>1. /\ UNCHANGED <<log, fd, pos, data, signalled, refused>> /\ (pc = "down" <=> pc' = "down")
      BY <1>2 DEF Tick, TimePasses, Flush, Upload, UploadFails, vars
    <2>2. ToRead' = ToRead /\ lastLine' = lastLine
      BY <2>1 DEF ToRead, Unread, log
    <2> QED
      BY <2>1, <2>2 DEF Relayed!vars
  <1>3. CASE Open \/ Stat
    <2>1. /\ UNCHANGED <<log, data, signalled, refused>> /\ pc # "down" /\ pc' # "down"
          /\ SetFd \/ CheckInode
      BY <1>3 DEF Open, Stat
    <2>2. ToRead' \subseteq ToRead /\ lastLine' = lastLine
      BY <2>1, FdStepToRead DEF log
    <2>3. Relayed!Miss(ToRead \ ToRead')
      BY <2>1, <2>2 DEF Relayed!Miss
    <2> QED
      BY <2>1, <2>3 DEF Relayed!Next
  <1>4. CASE Read
    <2>1. /\ data' = data \o Unread /\ pc = "read" /\ pc' # "down"
          /\ PassUnread /\ UNCHANGED <<log, signalled, refused>>
      BY <1>4 DEF Read, Collect
    <2>2. Range(Unread) \subseteq ToRead /\ ToRead' = ToRead \ Range(Unread) /\ lastLine' = lastLine
      BY <2>1, ReadToRead DEF log
    <2>3. Range(data') = Range(data) \union Range(Unread)
      BY <2>1, UnreadLines, RangeOfConcat DEF TypeOK
    <2>4. Relayed!Meet(Range(Unread))
      BY <2>1, <2>2, <2>3 DEF Relayed!Meet
    <2> QED
      BY <2>1, <2>2, <2>4 DEF Relayed!Next
  <1>5. CASE (Flush /\ UploadTooLarge) \/ (Flush /\ Signal) \/ (Flush /\ SignalFails)
    <2>1. /\ UNCHANGED <<log, fd, pos>> /\ pc # "down" /\ pc' # "down"
          /\ \/ refused' = refused \union Range(data) /\ data' = <<>> /\ signalled' = signalled
             \/ signalled' = signalled \union Range(data) /\ data' \in {<<>>, data} /\ refused' = refused
             \/ UNCHANGED <<data, signalled, refused>>
      BY <1>5 DEF Flush, UploadTooLarge, Signal, SignalFails, Checkpoint
    <2>2. ToRead' = ToRead /\ lastLine' = lastLine
      BY <2>1 DEF ToRead, Unread, log
    <2>3. Range(data') = {} \/ data' # <<>>
      BY RangeOfEmpty
    <2>4. CASE refused' = refused \union Range(data) /\ data' = <<>> /\ signalled' = signalled
      <3>1. Relayed!Refuse
        BY <2>1, <2>2, <2>3, <2>4 DEF Relayed!Refuse
      <3> QED
        BY <3>1 DEF Relayed!Next
    <2>5. CASE signalled' = signalled \union Range(data) /\ data' \in {<<>>, data} /\ refused' = refused
      <3>1. Range(data') \in {Range(data), {}}
        BY <2>3, <2>5
      <3>2. Relayed!Deliver
        BY <2>1, <2>2, <2>5, <3>1 DEF Relayed!Deliver
      <3> QED
        BY <3>2 DEF Relayed!Next
    <2>6. CASE UNCHANGED <<data, signalled, refused>>
      BY <2>1, <2>2, <2>6 DEF Relayed!vars
    <2> QED
      BY <2>1, <2>4, <2>5, <2>6
  <1>6. CASE Kill
    <2>1. /\ pc' = "down" /\ data' = <<>> /\ UNCHANGED <<signalled, refused, lastLine>>
      BY <1>6 DEF Kill, Forget, log
    <2>2. Range(data') = {}
      BY <2>1, RangeOfEmpty
    <2>3. Relayed!Crash
      BY <2>1, <2>2 DEF Relayed!Crash
    <2> QED
      BY <2>3 DEF Relayed!Next
  <1>7. CASE Restart
    <2>1. /\ pc = "down" /\ pc' = "asleep" /\ SeekToEnd /\ UNCHANGED <<log, data, signalled, refused>>
      BY <1>7 DEF Restart
    <2>2. ToRead' = {} /\ lastLine' = lastLine
      BY <2>1, RestartToRead DEF log
    <2>3. Relayed!Resume
      BY <2>1, <2>2 DEF Relayed!Resume
    <2> QED
      BY <2>3 DEF Relayed!Next
  <1> QED
    BY <1>1, <1>2, <1>3, <1>4, <1>5, <1>6, <1>7, NextCases

\* Every line is collected at most once and then stays until it was signalled or
\* refused as too large, whatever is renamed, truncated, refused and restarted; the
\* end of the process is the only other loss.
THEOREM LinesRelayedOnce == Spec => RelaysLines
  BY TypeInit, TypeStep, NodeInit, NodeStep, PTL DEF Spec, RelaysLines, Relayed!Spec

-----------------------------------------------------------------------------
(* SyslogAdWatcher implements Relay: an interesting event is coming while  *)
(* its head waits in a file, in the lines of the poll, or in the entry.    *)

InterestingAreEvents == Interesting \subseteq Heads \union OneLiners

Approaching(l) ==
    l \in Interesting /\ (l \in ToRead \/ l \in Range(lines) \/ (complete /\ l = entry[1]))

ComeApproaching == \A l : l \in SyslogAd!ComingEvents <=> Approaching(l)

LEMMA ComingLines == ComeApproaching
  <1>1. SyslogAd!ComingEvents =
          Interesting \intersect (ToRead \union Range(lines) \union (IF complete THEN {entry[1]} ELSE {}))
    BY SameFile DEF SyslogAd!ComingEvents
  <1>2. CASE complete
    <2>1. SyslogAd!ComingEvents = Interesting \intersect (ToRead \union Range(lines) \union {entry[1]})
      BY <1>1, <1>2
    <2> QED
      BY <1>2, <2>1 DEF ComeApproaching, Approaching
  <1>3. CASE ~complete
    <2>1. SyslogAd!ComingEvents = Interesting \intersect (ToRead \union Range(lines))
      BY <1>1, <1>3
    <2> QED
      BY <1>3, <2>1 DEF ComeApproaching, Approaching
  <1> QED
    BY <1>2, <1>3

LEMMA ComingLinesNext == ComeApproaching'
  <1>1. ComeApproaching
    BY ComingLines
  <1> QED
    BY <1>1, PTL

LEMMA RelayInit == SyslogAd!Init => SyslogAd!Relayed!Init
  <1> SUFFICES ASSUME SyslogAd!Init PROVE SyslogAd!Relayed!Init
    OBVIOUS
  <1>1. /\ ToRead = {} /\ Range(lines) = {} /\ complete = FALSE /\ parsed = {} /\ 1 .. lastLine = {}
        /\ pc = "asleep" /\ signalled = {} /\ refused = {}
    BY InitToRead, SameFile, RangeOfEmpty DEF SyslogAd!Init, LogInit
  <1>2. SyslogAd!ComingEvents = {} /\ SyslogAd!Events(parsed) = {}
    BY <1>1, ComingLines DEF ComeApproaching, Approaching, SyslogAd!Events
  <1> QED
    BY <1>1, <1>2 DEF SyslogAd!Relayed!Init

LEMMA RelayStutter ==
    ASSUME UNCHANGED <<signalled, refused, lastLine, parsed>>, (pc' = "down") <=> (pc = "down"),
           pc # "down" => \A l : Approaching(l)' <=> Approaching(l)
    PROVE  [SyslogAd!Relayed!Next]_(SyslogAd!Relayed!vars)
  <1>1. pc # "down" => SyslogAd!ComingEvents' = SyslogAd!ComingEvents
    BY ComingLines, ComingLinesNext DEF ComeApproaching
  <1>2. SyslogAd!Events(parsed') = SyslogAd!Events(parsed)
    OBVIOUS
  <1> QED
    BY <1>1, <1>2 DEF SyslogAd!Relayed!vars

LEMMA RelayMisses ==
    ASSUME UNCHANGED <<signalled, refused, lastLine, parsed>>, (pc' = "down") <=> (pc = "down"),
           UNCHANGED <<lines, entry, complete>>, ToRead' \subseteq ToRead
    PROVE  SyslogAd!Relayed!Next
  <1>1. SyslogAd!ComingEvents' \subseteq SyslogAd!ComingEvents
    BY ComingLines, ComingLinesNext DEF ComeApproaching, Approaching
  <1>2. SyslogAd!Events(parsed') = SyslogAd!Events(parsed)
    OBVIOUS
  <1>3. CASE pc = "down"
    <2>1. SyslogAd!Relayed!Miss({})
      BY <1>2, <1>3 DEF SyslogAd!Relayed!Miss
    <2> QED
      BY <2>1 DEF SyslogAd!Relayed!Next
  <1>4. CASE pc # "down"
    <2>1. SyslogAd!Relayed!Miss(SyslogAd!ComingEvents \ SyslogAd!ComingEvents')
      BY <1>1, <1>2, <1>4 DEF SyslogAd!Relayed!Miss
    <2> QED
      BY <1>4, <2>1 DEF SyslogAd!Relayed!Next
  <1> QED
    BY <1>3, <1>4

\* An entry is parsed whose head was approaching.
LEMMA RelayMeets ==
    ASSUME NEW e, parsed' = parsed \union {e}, pc # "down", pc' # "down",
           UNCHANGED <<signalled, refused, lastLine>>,
           e[1] \in Interesting => Approaching(e[1]),
           \A l : Approaching(l)' <=> Approaching(l) /\ l # e[1]
    PROVE  [SyslogAd!Relayed!Next]_(SyslogAd!Relayed!vars)
  <1>1. SyslogAd!Events(parsed') = SyslogAd!Events(parsed) \union ({e[1]} \intersect Interesting)
    BY DEF SyslogAd!Events
  <1>2. CASE e[1] \in Interesting
    <2>1. e[1] \in SyslogAd!ComingEvents
      BY <1>2, ComingLines DEF ComeApproaching
    <2>2. SyslogAd!ComingEvents' = SyslogAd!ComingEvents \ {e[1]}
      BY ComingLines, ComingLinesNext DEF ComeApproaching
    <2>3. SyslogAd!Events(parsed') = SyslogAd!Events(parsed) \union {e[1]}
      BY <1>1, <1>2
    <2>4. SyslogAd!Relayed!Meet({e[1]})
      BY <2>2, <2>3 DEF SyslogAd!Relayed!Meet
    <2> QED
      BY <2>1, <2>4 DEF SyslogAd!Relayed!Next
  <1>3. CASE e[1] \notin Interesting
    <2>1. ~Approaching(e[1])
      BY <1>3 DEF Approaching
    <2>2. \A l : Approaching(l)' <=> Approaching(l)
      BY <2>1
    <2>3. SyslogAd!ComingEvents' = SyslogAd!ComingEvents
      BY <2>2, ComingLines, ComingLinesNext DEF ComeApproaching
    <2>4. SyslogAd!Events(parsed') = SyslogAd!Events(parsed)
      BY <1>1, <1>3
    <2> QED
      BY <2>3, <2>4 DEF SyslogAd!Relayed!vars
  <1> QED
    BY <1>2, <1>3

\* What was read is not to be read.
LEMMA SeenNotToRead ==
    ASSUME FileOK, SeenInv, pc # "down", NEW l \in seen
    PROVE  l \notin ToRead
  <1> SUFFICES ASSUME l \in ToRead PROVE FALSE
    OBVIOUS
  <1>1. Older(l) /\ Waiting(l)
    BY WaitingFacts DEF SeenInv, LinesWait
  <1>2. l < l /\ l \in Nat
    BY <1>1, WaitingFacts DEF OlderFirst, WrittenWait
  <1> QED
    BY <1>2

LEMMA RelayParses ==
    ASSUME EntryOK, InterestingAreEvents, SyslogAd!OneLine \/ SyslogAd!TailLine \/ SyslogAd!HeadLine
    PROVE  [SyslogAd!Relayed!Next]_(SyslogAd!Relayed!vars)
  <1> DEFINE h == lines[1]
  <1>1. /\ Script /\ lines \in Seq(Lines) /\ entry \in Seq(Lines) /\ seen \subseteq Lines
        /\ FileOK /\ SeenInv /\ LinesInv /\ EntryInv /\ CompleteInv
    BY DEF EntryOK, EventTypeOK
  <1>2. /\ pc = "parse" /\ pc' = "parse" /\ Len(lines) > 0 /\ lines' = Tail(lines)
        /\ UNCHANGED <<log, fd, pos>>
    BY ParseSteps
  <1>3. ToRead' = ToRead /\ UNCHANGED <<signalled, refused, lastLine>>
    BY <1>2 DEF ToRead, Unread, log, SyslogAd!OneLine, SyslogAd!TailLine, SyslogAd!HeadLine,
                SyslogAd!history
  <1>4. /\ h \in Lines /\ Range(lines) = {h} \union Range(Tail(lines))
        /\ \A m \in Range(Tail(lines)) : h < m
    BY <1>1, <1>2, NextLine DEF LinesInv
  <1>5. h \in Nat /\ h \notin Range(Tail(lines)) /\ h \in seen /\ h \notin ToRead
    <2>1. h \in Nat
      BY <1>4 DEF Lines
    <2>2. ~(h < h)
      BY <2>1
    <2>3. h \in seen
      BY <1>1, <1>4 DEF LinesInv
    <2> QED
      BY <1>1, <1>2, <1>4, <2>1, <2>2, <2>3, SeenNotToRead
  <1>6. ASSUME complete
        PROVE  /\ entry # <<>> /\ entry[1] \in Heads /\ entry[1] \notin ToRead
               /\ entry[1] \notin Range(lines) /\ 1 \in 1 .. Len(entry)
    <2>1. entry # <<>> /\ entry[1] \in Heads /\ 1 \in 1 .. Len(entry)
      BY <1>1, <1>6, EmptySeq, LenProperties DEF CompleteInv, HeadAndTails
    <2>2. entry[1] \in Range(entry)
      BY <1>1, <2>1, LenProperties DEF Range
    <2>3. entry[1] \in seen /\ entry[1] \in Nat /\ \A m \in Range(lines) : entry[1] < m
      <3>1. entry[1] \in seen /\ \A m \in Range(lines) : entry[1] < m
        BY <1>1, <2>2 DEF EntryInv
      <3>2. \A k \in Lines : k \in Nat
        BY DEF Lines
      <3> QED
        BY <1>1, <3>1, <3>2
    <2>4. ~(entry[1] < entry[1])
      BY <2>3
    <2> QED
      BY <1>1, <1>2, <2>1, <2>3, <2>4, SeenNotToRead
  <1>7. SyslogAd!Line = h
    BY DEF SyslogAd!Line
  <1> HIDE DEF h
  <1>8. CASE SyslogAd!OneLine
    <2>1. h \in OneLiners /\ parsed' = parsed \union {<<h>>} /\ UNCHANGED <<entry, complete>>
      BY <1>7, <1>8 DEF SyslogAd!OneLine
    <2>2. complete => entry[1] # h
      BY <1>1, <1>6, <2>1 DEF Script
    <2>3. <<h>>[1] = h /\ (h \in Interesting => Approaching(h))
      BY <1>4 DEF Approaching
    <2>4. \A l : Approaching(l)' <=> Approaching(l) /\ l # h
      BY <1>2, <1>3, <1>4, <1>5, <2>1, <2>2 DEF Approaching
    <2>5. pc # "down" /\ pc' # "down"
      BY <1>2
    <2> QED
      BY <1>3, <2>1, <2>3, <2>4, <2>5, RelayMeets
  <1>9. CASE SyslogAd!TailLine
    <2>1. h \notin OneLiners \union Heads /\ entry' = Append(entry, h) /\ UNCHANGED <<complete, parsed>>
      BY <1>7, <1>9 DEF SyslogAd!TailLine
    <2>2. h \notin Interesting
      BY <2>1 DEF InterestingAreEvents
    <2>3. complete => entry'[1] = entry[1]
      BY <1>1, <1>4, <1>6, <2>1, AppendProperties
    <2>4. \A l : Approaching(l)' <=> Approaching(l)
      BY <1>2, <1>3, <1>4, <2>1, <2>2, <2>3 DEF Approaching
    <2> QED
      BY <1>2, <1>3, <2>1, <2>4, RelayStutter
  <1>10. CASE SyslogAd!HeadLine
    <2>1. /\ h \in Heads /\ entry' = <<h>> /\ entry'[1] = h /\ complete' = TRUE
          /\ parsed' = IF complete THEN parsed \union {entry} ELSE parsed
      BY <1>7, <1>10 DEF SyslogAd!HeadLine
    <2>2. CASE ~complete
      <3>1. \A l : Approaching(l)' <=> Approaching(l)
        BY <1>2, <1>3, <1>4, <2>1, <2>2 DEF Approaching
      <3> QED
        BY <1>2, <1>3, <2>1, <2>2, <3>1, RelayStutter
    <2>3. CASE complete
      <3>1. entry[1] # h /\ (entry[1] \in Interesting => Approaching(entry[1]))
        BY <1>4, <1>6, <2>3 DEF Approaching
      <3>2. \A l : Approaching(l)' <=> Approaching(l) /\ l # entry[1]
        BY <1>2, <1>3, <1>4, <1>6, <2>1, <2>3, <3>1 DEF Approaching
      <3>3. pc # "down" /\ pc' # "down" /\ parsed' = parsed \union {entry}
        BY <1>2, <2>1, <2>3
      <3> QED
        BY <1>3, <3>1, <3>2, <3>3, RelayMeets
    <2> QED
      BY <2>2, <2>3
  <1> QED
    BY <1>8, <1>9, <1>10

LEMMA RelayStep ==
    EntryOK /\ InterestingAreEvents /\ [SyslogAd!Next]_(SyslogAd!vars) =>
      [SyslogAd!Relayed!Next]_(SyslogAd!Relayed!vars)
  <1> SUFFICES ASSUME EntryOK, InterestingAreEvents, [SyslogAd!Next]_(SyslogAd!vars)
               PROVE  [SyslogAd!Relayed!Next]_(SyslogAd!Relayed!vars)
    OBVIOUS
  <1>1. FileOK /\ LinesInv /\ DownInv /\ lastLine \in Nat
    BY PathFacts DEF EntryOK
  <1>2. CASE SyslogAd!Log
    <2>1. /\ LogStep /\ UNCHANGED <<fd, pos, pc, lines, entry, complete, parsed>>
          /\ UNCHANGED <<signalled, refused>>
      BY <1>2, LogStepOf DEF SyslogAd!Log, SyslogAd!history
    <2>2. CASE lastLine' = lastLine /\ ToRead' \subseteq ToRead
      BY <2>1, <2>2, RelayMisses
    <2>3. CASE /\ lastLine' = lastLine + 1 /\ lastLine' \in Lines
               /\ ToRead' \in {ToRead, ToRead \union {lastLine'}}
      <3>1. lastLine' \notin 1 .. lastLine /\ 1 .. lastLine' = 1 .. lastLine \union {lastLine'}
        BY <1>1, <2>3
      <3>2. SyslogAd!Events(parsed') = SyslogAd!Events(parsed)
        BY <2>1
      <3>3. CASE lastLine' \in Interesting
        <4>1. \/ SyslogAd!ComingEvents' = SyslogAd!ComingEvents
              \/ SyslogAd!ComingEvents' = SyslogAd!ComingEvents \union {lastLine'}
          <5>1. CASE ToRead' = ToRead
            BY <2>1, <5>1, ComingLines, ComingLinesNext DEF ComeApproaching, Approaching
          <5>2. CASE ToRead' = ToRead \union {lastLine'}
            BY <2>1, <3>3, <5>2, ComingLines, ComingLinesNext DEF ComeApproaching, Approaching
          <5> QED
            BY <2>3, <5>1, <5>2
        <4>2. Interesting \intersect 1 .. lastLine' = (Interesting \intersect 1 .. lastLine) \union {lastLine'}
          BY <3>1, <3>3
        <4>3. SyslogAd!Relayed!Write(lastLine')
          BY <2>1, <3>1, <3>2, <4>1, <4>2 DEF SyslogAd!Relayed!Write
        <4> QED
          BY <3>3, <4>3 DEF SyslogAd!Relayed!Next
      <3>4. CASE lastLine' \notin Interesting
        <4>1. SyslogAd!ComingEvents' = SyslogAd!ComingEvents
          BY <2>1, <2>3, <3>4, ComingLines, ComingLinesNext DEF ComeApproaching, Approaching
        <4>2. Interesting \intersect 1 .. lastLine' = Interesting \intersect 1 .. lastLine
          BY <3>1, <3>4
        <4> QED
          BY <2>1, <3>2, <4>1, <4>2 DEF SyslogAd!Relayed!vars
      <3> QED
        BY <3>3, <3>4
    <2> QED
      BY <1>1, <2>1, <2>2, <2>3, LogStepToRead
  <1>3. CASE SyslogAd!Open \/ SyslogAd!Stat
    <2>1. /\ UNCHANGED <<log, lines, entry, complete, parsed, signalled, refused>>
          /\ (SetFd \/ CheckInode) /\ pc # "down" /\ pc' # "down"
      BY <1>3, OpenSteps DEF SyslogAd!Open, SyslogAd!Stat, SyslogAd!history
    <2>2. ToRead' \subseteq ToRead /\ lastLine' = lastLine
      BY <1>1, <2>1, FdStepToRead DEF log
    <2> QED
      BY <2>1, <2>2, RelayMisses
  <1>4. CASE SyslogAd!Read
    <2>1. /\ PassUnread /\ UNCHANGED <<log, entry, complete, parsed, signalled, refused>>
          /\ lines = <<>> /\ lines' = Unread /\ pc # "down" /\ pc' # "down"
      BY <1>1, <1>4, ReadStep DEF SyslogAd!Read, LinesInv
    <2>2. Range(Unread) \subseteq ToRead /\ ToRead' = ToRead \ Range(Unread) /\ lastLine' = lastLine
      BY <1>1, <2>1, ReadToRead DEF log
    <2>3. \A l : Approaching(l)' <=> Approaching(l)
      BY <2>1, <2>2, RangeOfEmpty DEF Approaching
    <2> QED
      BY <2>1, <2>2, <2>3, RelayStutter
  <1>5. CASE SyslogAd!ParseRaises \/ SyslogAd!FormatRaises \/ SyslogAd!Kill
    <2>1. pc' = "down" /\ parsed' = {} /\ UNCHANGED <<signalled, refused, lastLine>>
      BY <1>5, EventsEnd DEF SyslogAd!ParseRaises, SyslogAd!FormatRaises, SyslogAd!Kill, SyslogAd!End, log
    <2>2. SyslogAd!Events(parsed') = {}
      BY <2>1 DEF SyslogAd!Events
    <2>3. SyslogAd!Relayed!Crash
      BY <2>1, <2>2 DEF SyslogAd!Relayed!Crash
    <2> QED
      BY <2>3 DEF SyslogAd!Relayed!Next
  <1>6. CASE SyslogAd!Restart
    <2>1. /\ SeekToEnd /\ pc = "down" /\ pc' = "asleep"
          /\ UNCHANGED <<log, lines, entry, complete, parsed, signalled, refused>>
      BY <1>6, RestartStep DEF SyslogAd!Restart, SyslogAd!history
    <2>2. ToRead' = {} /\ lastLine' = lastLine
      BY <1>1, <2>1, RestartToRead DEF log
    <2>3. lines' = <<>> /\ ~complete'
      BY <1>1, <2>1 DEF DownInv
    <2>4. SyslogAd!ComingEvents' = {}
      BY <2>2, <2>3, RangeOfEmpty, ComingLinesNext DEF ComeApproaching, Approaching
    <2>5. SyslogAd!Events(parsed') = SyslogAd!Events(parsed)
      BY <2>1
    <2>6. SyslogAd!Relayed!Resume
      BY <2>1, <2>2, <2>4, <2>5 DEF SyslogAd!Relayed!Resume
    <2> QED
      BY <2>6 DEF SyslogAd!Relayed!Next
  <1>7. CASE \/ SyslogAd!Parsed \/ SyslogAd!Format \/ SyslogAd!Upload \/ SyslogAd!UploadTooLarge
             \/ SyslogAd!UploadFails \/ SyslogAd!Signal \/ SyslogAd!SignalFails
             \/ UNCHANGED SyslogAd!vars
    <2>1. UNCHANGED <<log, fd, pos, lines, entry, complete>> /\ ((pc' = "down") <=> (pc = "down"))
      BY <1>7, OtherSteps
    <2>2. ToRead' = ToRead /\ lastLine' = lastLine
      BY <2>1 DEF ToRead, Unread, log
    <2>3. SyslogAd!ComingEvents' = SyslogAd!ComingEvents
      BY <2>1, <2>2, ComingLines, ComingLinesNext DEF ComeApproaching, Approaching
    <2>4. /\ \/ UNCHANGED <<parsed, signalled, refused>>
             \/ refused' = refused \union SyslogAd!Events(parsed) /\ parsed' = {} /\ signalled' = signalled
             \/ /\ signalled' = signalled \union SyslogAd!Events(parsed) /\ refused' = refused
                /\ parsed' \in {parsed, {}}
      BY <1>7 DEF SyslogAd!Parsed, SyslogAd!Format, SyslogAd!Upload, SyslogAd!UploadTooLarge,
         SyslogAd!UploadFails, SyslogAd!Signal, SyslogAd!SignalFails, SyslogAd!history,
         SyslogAd!watcher, SyslogAd!vars
    <2>5. SyslogAd!Events({}) = {}
      BY DEF SyslogAd!Events
    <2>6. CASE UNCHANGED <<parsed, signalled, refused>>
      <3>1. SyslogAd!Events(parsed') = SyslogAd!Events(parsed)
        BY <2>6
      <3> QED
        BY <2>1, <2>2, <2>3, <2>6, <3>1 DEF SyslogAd!Relayed!vars
    <2>7. CASE refused' = refused \union SyslogAd!Events(parsed) /\ parsed' = {} /\ signalled' = signalled
      <3>1. SyslogAd!Events(parsed') = {}
        BY <2>5, <2>7
      <3>2. SyslogAd!Relayed!Refuse
        BY <2>1, <2>2, <2>3, <2>7, <3>1 DEF SyslogAd!Relayed!Refuse
      <3> QED
        BY <3>2 DEF SyslogAd!Relayed!Next
    <2>8. CASE /\ signalled' = signalled \union SyslogAd!Events(parsed) /\ refused' = refused
               /\ parsed' \in {parsed, {}}
      <3>1. SyslogAd!Events(parsed') \in {SyslogAd!Events(parsed), {}}
        BY <2>5, <2>8
      <3>2. SyslogAd!Relayed!Deliver
        BY <2>1, <2>2, <2>3, <2>8, <3>1 DEF SyslogAd!Relayed!Deliver
      <3> QED
        BY <3>2 DEF SyslogAd!Relayed!Next
    <2> QED
      BY <2>4, <2>6, <2>7, <2>8
  <1> QED
    BY <1>2, <1>3, <1>4, <1>5, <1>6, <1>7, EventCases, RelayParses

\* Every interesting event is parsed at most once, however its lines are spread over
\* polls, files and restarts, and then stays until it was signalled or refused as too
\* large; the end of the process is the only other loss.
THEOREM EventsRelayedOnce ==
    Script /\ InterestingAreEvents /\ SyslogAd!Spec => SyslogAd!RelaysEvents
  <1>1. InterestingAreEvents /\ EntryOK /\ [SyslogAd!Next]_(SyslogAd!vars) =>
          [SyslogAd!Relayed!Next]_(SyslogAd!Relayed!vars)
    BY RelayStep
  <1>2. InterestingAreEvents => InterestingAreEvents'
    BY DEF InterestingAreEvents
  <1> QED
    BY <1>1, <1>2, EntryInit, EntryStep, RelayInit, PTL
    DEF SyslogAd!Spec, SyslogAd!RelaysEvents, SyslogAd!Relayed!Spec
=============================================================================
