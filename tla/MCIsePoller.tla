---------------------------- MODULE MCIsePoller ----------------------------
\* Instances of IsePoller: two nodes and three sessions, two of the same time.
EXTENDS IsePoller, TLC

CONSTANTS n1, n2, s1, s2, s3

MCNodes == <<n1, n2>>
MCSessions == {s1, s2, s3}
MCStamp == (s1 :> 1) @@ (s2 :> 2) @@ (s3 :> 2)
=============================================================================
