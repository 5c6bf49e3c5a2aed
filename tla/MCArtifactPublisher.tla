------------------------ MODULE MCArtifactPublisher ------------------------
\* Small instances of ArtifactPublisher for TLC.
EXTENDS ArtifactPublisher, TLC

CONSTANTS a, b, c1, c2, s1, s2, s3

MCOneEntry == {a}
\* b is called what a would be called after a collision at stamp 1.
MCTwoEntries == {a, b}
MCBase == [e \in Entries |-> IF e = a THEN <<"dcim", "a">> ELSE <<"dcim", "a", <<1>>>>]
MCContents == {c1, c2}
MCTwoSlots == {s1, s2}
MCFolders == {"dcim"}
MCNoFolders == {}

Symmetric == Permutations({s1, s2, s3}) \cup Permutations({c1, c2})
=============================================================================
