------------------------------ MODULE MCStacks ------------------------------
(***************************************************************************)
(* Two cards with the files of one shot, IMG_0001.JPG and IMG_0001.CR2, or *)
(* of another shot of that name.                                           *)
(***************************************************************************)
EXTENDS Stacks

CONSTANTS a, b, j1, j2, r1, r2

MCCards == {a, b}
MCMedia == {j1, j2, r1, r2}
MCExts == {"JPG", "CR2"}
MCPaths == [card : MCCards, ext : MCExts, twin : {0}]
MCKind == [m \in MCMedia |-> IF m \in {j1, j2} THEN "JPG" ELSE "CR2"]
MCRules == {<<"JPG", "CR2">>, << >>}

Holding(jpgA, cr2A, jpgB, cr2B) ==
    [p \in MCPaths |->
       CASE p.card = a /\ p.ext = "JPG" -> jpgA
         [] p.card = a /\ p.ext = "CR2" -> cr2A
         [] p.card = b /\ p.ext = "JPG" -> jpgB
         [] p.card = b /\ p.ext = "CR2" -> cr2B]

World(held, jobs, requests, touches, scansLeft, shotsLeft) ==
    [held |-> held, jobs |-> jobs, requests |-> requests, touches |-> touches,
     scans |-> scansLeft, shots |-> shotsLeft]

Single == Holding(j1, r1, Absent, Absent)   \* one card
Shared == Holding(j1, r1, j1, r2)           \* a JPG that is on both
Empty == Holding(Absent, Absent, Absent, Absent)

\* Two passes under a request and an act of another user, under a scan, or
\* under two requests; one under a scan and a request; one over the shared JPG;
\* the cards and their scans alone.
MCAll == {World(Single, 2, 1, 1, 0, 0), World(Single, 2, 0, 0, 1, 0),
          World(Single, 2, 2, 0, 0, 0), World(Single, 1, 1, 0, 1, 0),
          World(Shared, 1, 1, 0, 0, 0), World(Shared, 0, 0, 0, 2, 2)}

MCRetried == {World(Single, 2, 2, 0, 0, 0)}
MCScanned == {World(Single, 1, 0, 0, 1, 0)}
MCShared == {World(Shared, 0, 0, 0, 1, 1)}

\* For the table of the README: two passes over the shared JPG.
MCSharedTwice == {World(Shared, 2, 0, 0, 0, 0)}

\* For the table of the README: a rule of three extensions, and two cards that
\* share the file of the second one.
MCThreeExts == {"JPG", "CR2", "DNG"}
MCThreeMedia == {"jpg", "cr2", "dng"}
MCThreePaths == [card : MCCards, ext : {"JPG", "CR2", "DNG"}, twin : {0}]
MCThreeKind == [jpg |-> "JPG", cr2 |-> "CR2", dng |-> "DNG"]
MCThreeRules == {<<"JPG", "CR2", "DNG">>}
MCThree ==
    {World([p \in MCThreePaths |->
              CASE p.ext = "CR2" -> "cr2"
                [] p.ext = "JPG" /\ p.card = a -> "jpg"
                [] p.ext = "DNG" /\ p.card = b -> "dng"
                [] OTHER -> Absent], 0, 0, 0, 0, 0)}

\* For the table: the three files on one card, two passes among other users.
MCThreeLost ==
    {World([p \in MCThreePaths |->
              IF p.card = a THEN [JPG |-> "jpg", CR2 |-> "cr2", DNG |-> "dng"][p.ext]
              ELSE Absent], 2, 0, 2, 0, 0)}
=============================================================================
