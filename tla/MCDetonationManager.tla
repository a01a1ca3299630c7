------------------------- MODULE MCDetonationManager -------------------------
(* Small instances of DetonationManager for TLC. *)
EXTENDS DetonationManager, TLC

CONSTANTS j1, j2, j3, g1, g2, w1, w2, s1, s2, s3, windows, android

\* j1 and j3 are submissions of one sample, j2 is another sample.
MCShaOf == [j \in Jobs |-> IF j = j2 THEN s2 ELSE s1]
MCPlatformOf == [s \in Samples |-> windows]
MCGuestPlatform == [g \in Guests |-> windows]

\* With j3 of a third sample, for a platform of which there is no guest.
ForeignShaOf == [j \in Jobs |-> IF j = j3 THEN s3 ELSE MCShaOf[j]]
ForeignPlatformOf == [s \in Samples |-> IF s = s3 THEN android ELSE windows]

\* Workers are alike, and so are guests of one platform.
Symmetry == {p @@ q : p \in Permutations(Workers), q \in Permutations(Guests)}
=============================================================================
