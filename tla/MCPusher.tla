------------------------------ MODULE MCPusher ------------------------------
\* Instances of Pusher for TLC: two files in bin 0, one in bin 1, one in bin 2.
EXTENDS Pusher, TLC

CONSTANTS f1, f2, f3, f4

MCFiles == {f1, f2, f3, f4}
MCBinOf == (f1 :> 0) @@ (f2 :> 0) @@ (f3 :> 1) @@ (f4 :> 2)
MCStuck == {f1, 1}
MCUnreadable == {f2}
=============================================================================
