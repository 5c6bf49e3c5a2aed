--------------------------- MODULE MCCaptureTimes ---------------------------
(* Two parts, two zones and three revisions of the profile. *)
EXTENDS CaptureTimes

CONSTANTS Home, Away

MCOffset == [z \in {Home, Away} |-> IF z = Home THEN 0 ELSE 1]

\* The zone is corrected, then left to the library, which is told nothing.
MCDefs == <<[zone |-> Home, fixes |-> TRUE], [zone |-> Away, fixes |-> TRUE],
            [zone |-> NoZone, fixes |-> FALSE]>>
\* The second revision begins to write dates back.
MCLateDefs == <<[zone |-> Home, fixes |-> FALSE], [zone |-> Home, fixes |-> TRUE]>>

Spent(S) == [e \in Expenses |-> IF e \in DOMAIN S THEN S[e] ELSE 0]
MCBudgets ==
    {Spent([edit |-> 2, override |-> 2, recompute |-> 1, forget |-> 1, stop |-> 1]),
     Spent([edit |-> 2, override |-> 1, recompute |-> 1, send |-> 1, restart |-> 1]),
     Spent([edit |-> 1, override |-> 1, recompute |-> 1, merge |-> 2, stop |-> 1,
            interrupt |-> 1, restart |-> 1]),
     Spent([edit |-> 1, override |-> 1, recompute |-> 1, merge |-> 1, send |-> 1]),
     Spent([edit |-> 1, recompute |-> 1, merge |-> 1, send |-> 2]),
     Spent([edit |-> 1, override |-> 1, merge |-> 1, send |-> 2, fault |-> 1])}
\* These lead to behaviours of the README's table.
MCPlace == {Spent([edit |-> 1, override |-> 1, recompute |-> 1])}
MCLate  == {Spent([edit |-> 1, override |-> 1, send |-> 1])}
=============================================================================
