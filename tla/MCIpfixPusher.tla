--------------------------- MODULE MCIpfixPusher ---------------------------
\* An instance of IpfixPusher: the two files of bin 0 are converted and removed
\* without trouble; the file of bin 1 is one the SiLK tools may not read and one
\* that may not be removed; bin 2, clean again, is behind it; bin 3 is the newest.
EXTENDS IpfixPusher, IpfixRows, TLC

CONSTANTS f1, f2, f3, f4, f5

MCFiles == {f1, f2, f3, f4, f5}
MCBinOf == (f1 :> 0) @@ (f2 :> 0) @@ (f3 :> 1) @@ (f4 :> 2) @@ (f5 :> 3)
MCName == (f1 :> 1) @@ (f2 :> 2) @@ (f3 :> 3) @@ (f4 :> 4) @@ (f5 :> 5)

\* The row filters against their reference definitions, for up to three rows of
\* two end points and five of one key, and the example of get_index_filter.
ASSUME \A rows \in Rows({1, 2}, {0, 6}, {1, 2}, 3) :
    TrimKeepsTraffic(rows) /\ TrimThenSwap(rows) /\ ZeroMatched(rows)
ASSUME \A rows \in Rows({1}, {6}, 0 .. 3, 5) : TrimKeepsTraffic(rows)
ASSUME IndexFilter(<<<<0, 5>>, <<7, 10>>>>) = <<0, 1, 2, 3, 4, 5, 7, 8, 9, 10>>
ASSUME IndexFilter(<<<<5, 5>>, <<65534, 65535>>, <<65535, 65536>>>>) = <<65534, 65535>>
=============================================================================
