--------------------------- MODULE MCMergeGroups ---------------------------
\* Small instances of MergeGroups for TLC.
EXTENDS MergeGroups, TLC

\* Three parts of one recording; <<1, 3>> gets the name of <<1, 2, 3>>.
MCJoined == {1, 2}
MCLists == {<<1, 2, 3>>, <<1, 3>>}

Afford(costs) == costs @@ [e \in Expenses |-> 0]

\* Edits and saves against jobs; interrupted publications; uploads and
\* deletions against edits; files that disappear.
MCBudgets == {
    Afford([merge |-> 2, detect |-> 1, edit |-> 2, save |-> 1]),
    Afford([merge |-> 2, edit |-> 2, fault |-> 1, restart |-> 2]),
    Afford([merge |-> 2, edit |-> 2, upload |-> 2, delete |-> 1]),
    Afford([merge |-> 2, edit |-> 2, loss |-> 1, restart |-> 1])}

\* A merged video is deleted, and the process starts again.
MCDeleted == {Afford([merge |-> 1, edit |-> 1, delete |-> 1, restart |-> 1])}
\* The profile is saved while a group is being made.
MCSaved == {Afford([merge |-> 1, edit |-> 1, save |-> 1])}
\* Two publications are interrupted, one of them by an error, and the file of
\* the one that is resumed first is lost.
MCOlder == {Afford([merge |-> 2, edit |-> 2, fault |-> 1, loss |-> 1, restart |-> 1])}
=============================================================================
