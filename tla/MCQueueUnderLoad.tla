--------------------------- MODULE MCQueueUnderLoad ---------------------------
(* Small instances of QueueUnderLoad for TLC: j1 and j3 are one sample. *)
EXTENDS QueueUnderLoad, TLC

CONSTANTS j1, j2, j3, j4, s1, s2, s4, windows

MCShaOf == (j1 :> s1) @@ (j2 :> s2) @@ (j3 :> s1) @@ (j4 :> s4)
MCPlatformOf == [s \in Samples |-> windows]
=============================================================================
