------------------------------ MODULE MCUploads ------------------------------
\* Small instances of Uploads for TLC: which of the Expenses a run can afford.
EXTENDS Uploads, TLC

CONSTANTS m1, m2, lib1, lib2, url1, url2

MCOneMedia == {m1}
MCTwoMedia == {m1, m2}
MCOneLibrary == {lib1}
MCLibraries == {lib1, lib2}
MCOneUrl == {url1}
MCUrls == {url1, url2}

\* Libraries and urls are interchangeable.
MCSymmetry == Permutations(MCLibraries) \cup Permutations(MCUrls)

Afford(costs) == costs @@ [e \in Expenses |-> 0]

\* Requests, expiry and a restart against one sender or approval; zone
\* changes and other people against dates.
MCRaces == {
    Afford([job |-> 2, toggle |-> 1, edit |-> 1, group |-> 1, expiry |-> 1,
            restart |-> 1]),
    Afford([job |-> 2, move |-> 2, outside |-> 1, fault |-> 1, expiry |-> 1,
            restart |-> 1])}
\* A library swapped behind its url against an edit; the same, a lost answer,
\* and an asset of ours that somebody deletes and replaces against its date.
MCTargets == {
    Afford([job |-> 2, swap |-> 1, edit |-> 1, outside |-> 1]),
    Afford([job |-> 2, move |-> 1, outside |-> 2, swap |-> 1]),
    Afford([job |-> 1, outside |-> 2, fault |-> 1])}
MCLive == {Afford([job |-> 1, toggle |-> 1, group |-> 2, fault |-> 1])}
\* Each of these leads to a behaviour of the README's table.
MCUnwired == {Afford([job |-> 1, restart |-> 1])}
MCReplaced == {Afford([job |-> 2, move |-> 1, outside |-> 2])}
MCSwapped == {Afford([job |-> 2, move |-> 1, outside |-> 1, swap |-> 1])}
MCStranded == {Afford([job |-> 1, edit |-> 1, move |-> 1])}
MCEdit == {Afford([job |-> 1, edit |-> 1])}
MCPairs == {Afford([job |-> 1, fault |-> 1])}
MCDisabled == {Afford([job |-> 2, outside |-> 1, toggle |-> 1])}
=============================================================================
