------------------------- MODULE MCSuricataWatcher -------------------------
\* An instance of SuricataWatcher with two logs.
EXTENDS SuricataWatcher

CONSTANTS f1, f2, p1
=============================================================================
