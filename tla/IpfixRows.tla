----------------------------- MODULE IpfixRows -----------------------------
(***************************************************************************)
(* The rows of a flow file: the generators _silk_to_csv of ipfix_pusher.py *)
(* composes according to the exporter's quirks, and get_index_filter.      *)
(*                                                                         *)
(* An end point is an address with a port; src and dst stand for the       *)
(* 4-tuple.  Protocols and byte counts are numbers here, strings there.    *)
(***************************************************************************)
EXTENDS Integers, Sequences, SequencesExt

Quirks(source) ==
    CASE source = "asa" -> {"fix_zero_protocol"}
      [] source = "sonicwall" -> {"replace_timestamps"}
      [] source = "meraki" -> {"no_aggregation", "fix_meraki_counters",
                               "replace_timestamps", "reverse_directions"}
      [] OTHER -> {}

MapRows(Op(_), rows) == [i \in DOMAIN rows |-> Op(rows[i])]

ChangeTimestamps(row, received) == [row EXCEPT !.start = received, !.end = received]

SwapDirections(row) == [row EXCEPT !.src = row.dst, !.dst = row.src]

\* protocol_map.get((src, dst), '0'): the last row of that key wins.
ProtocolOf(rows, src, dst) ==
    LET known == {i \in DOMAIN rows :
                    rows[i].src = src /\ rows[i].dst = dst /\ rows[i].protocol # 0}
    IN  IF known = {} THEN 0 ELSE rows[CHOOSE i \in known : \A j \in known : j <= i].protocol

MatchZeroProtocol(rows) ==
    [i \in DOMAIN rows |->
        IF rows[i].protocol # 0 THEN rows[i]
        ELSE [rows[i] EXCEPT !.protocol = ProtocolOf(rows, rows[i].dst, rows[i].src)]]

Key(row) == <<row.src, row.dst, row.protocol>>
SameKey(rows, i) == {j \in DOMAIN rows : Key(rows[j]) = Key(rows[i])}

\* The byte count of the next row of the key, or of the dummy after the last.
NextBytes(rows, i) ==
    LET after == {j \in SameKey(rows, i) : j > i}
    IN  IF after = {} THEN 0 ELSE rows[CHOOSE j \in after : \A k \in after : j <= k].bytes

\* Cumulative counters: a row is emitted if the next one seems to follow a reset;
\* the keys come in the order of their first rows.
TrimMeraki(rows) ==
    LET first(i) == CHOOSE j \in SameKey(rows, i) : \A k \in SameKey(rows, i) : j <= k
        before(i, j) == first(i) < first(j) \/ (first(i) = first(j) /\ i < j)
        peaks == {i \in DOMAIN rows : NextBytes(rows, i) < rows[i].bytes}
        order == SetToSortSeq(peaks, before)
    IN  [n \in DOMAIN order |-> rows[order[n]]]

\* The generators in the order in which _silk_to_csv chains them.
SilkToCsv(rows, quirks, received) ==
    LET trimmed == IF "fix_meraki_counters" \in quirks THEN TrimMeraki(rows) ELSE rows
        stamped == IF "replace_timestamps" \in quirks
                   THEN MapRows(LAMBDA r : ChangeTimestamps(r, received), trimmed) ELSE trimmed
        swapped == IF "reverse_directions" \in quirks
                   THEN MapRows(SwapDirections, stamped) ELSE stamped
    IN  IF "fix_zero_protocol" \in quirks THEN MatchZeroProtocol(swapped) ELSE swapped

\* get_index_filter: ranges are pairs; one that is not min < max <= 65535 is
\* passed over.
IndexFilter(ranges) ==
    LET valid == SelectSeq(ranges, LAMBDA r : r[1] < r[2] /\ r[2] <= 65535)
    IN  FlattenSeq([n \in DOMAIN valid |->
            [i \in 1 .. valid[n][2] - valid[n][1] + 1 |-> valid[n][1] + i - 1]])

-----------------------------------------------------------------------------
(* Reference definitions.                                                  *)

Rows(endPoints, protocols, counts, n) ==
    UNION {[1 .. m -> [src : endPoints, dst : endPoints, protocol : protocols,
                       bytes : counts, start : {0}, end : {0}]] : m \in 0 .. n}

SumBytes(rows, k) ==
    FoldLeft(LAMBDA sum, r : IF Key(r) = k THEN sum + r.bytes ELSE sum, 0, rows)

\* The traffic a cumulative counter has seen: every rise, and after a drop the
\* whole count.
Traffic(rows, k) ==
    FoldLeft(LAMBDA acc, r :
               IF Key(r) # k THEN acc
               ELSE IF r.bytes >= acc.last
                    THEN [sum |-> acc.sum + r.bytes - acc.last, last |-> r.bytes]
                    ELSE [sum |-> acc.sum + r.bytes, last |-> r.bytes],
             [sum |-> 0, last |-> 0], rows).sum

\* What _trim_meraki emits for a key adds up to the traffic of that key.
TrimKeepsTraffic(rows) ==
    \A k \in {Key(rows[i]) : i \in DOMAIN rows} :
        SumBytes(TrimMeraki(rows), k) = Traffic(rows, k)

\* Directions may be reversed before or after the counters are trimmed.
TrimThenSwap(rows) ==
    MapRows(SwapDirections, TrimMeraki(rows)) = TrimMeraki(MapRows(SwapDirections, rows))

\* Only rows of protocol 0 change, and they take a protocol the reverse flow has;
\* 0 stays only where the reverse flow has no other.
ZeroMatched(rows) ==
    LET out == MatchZeroProtocol(rows)
        reverse(i) == {rows[j].protocol : j \in {j \in DOMAIN rows :
                         rows[j].src = rows[i].dst /\ rows[j].dst = rows[i].src}}
    IN  \A i \in DOMAIN rows :
            IF rows[i].protocol # 0 THEN out[i] = rows[i]
            ELSE /\ out[i].protocol \in reverse(i) \union {0}
                 /\ out[i].protocol = 0 <=> reverse(i) \subseteq {0}
=============================================================================
