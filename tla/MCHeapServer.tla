---------------------------- MODULE MCHeapServer ----------------------------
(* Instances of HeapServer for TLC.                                        *)
EXTENDS HeapServer

TwoHandlers == <<"HeapSnapshotHandler", "LightSnapshotHandler">>

(* One more than the instance's array holds.                               *)
ThreeHandlers == Append(TwoHandlers, "ExtraHandler")
=============================================================================
