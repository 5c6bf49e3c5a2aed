----------------------------- MODULE MCVolumes -----------------------------
(* Two nodes and three cards: c1 and c2 are copies with one identity, c3 is  *)
(* another card, which the first revision of the profile does not recognise. *)
EXTENDS Volumes

CONSTANTS c1, c2, c3, n1, n2

MCId == [c \in {c1, c2, c3} |-> IF c = c3 THEN "b" ELSE "a"]

MCKind == [c \in {c1, c2, c3} |->
              IF c = c3 THEN <<"none", "provisional">> ELSE <<"sure", "sure">>]

\* The roots never change, but c3 is listed below DCIM until it is recognised.
MCRoots == <<1, 1>>
MCRemembered ==
    [i \in {"a", "b"} |-> IF i = "a" THEN [card |-> c1, roots |-> 1] ELSE NoListing]

Row(n, i) == [epoch |-> 0, generation |-> 1, node |-> n, id |-> i]

Empty == [n \in {n1, n2} |-> NoCard]
In == [Empty EXCEPT ![n1] = c1]
Both == [In EXCEPT ![n2] = c2]
Old == {Row(n1, "a")}

Afford(move, fault, brk, app, save, trust, look, run, idle) ==
    [e \in Events |-> CASE e = "move"   -> move
                        [] e = "fault"  -> fault
                        [] e = "broker" -> brk
                        [] e = "app"    -> app
                        [] e = "save"   -> save
                        [] e = "trust"  -> trust
                        [] e = "look"   -> look
                        [] e = "run"    -> run
                        [] e = "idle"   -> idle]

Start(cards, rows, budget) ==
    [at |-> cards, rows |-> rows, trusted |-> {"a"}, left |-> budget]

Unapproved(start) == [start EXCEPT !.trusted = {}]

MCStarts ==
    {Start(Empty, Old, Afford(3, 0, 0, 0, 0, 0, 0, 0, 0)),
     Start(In, {}, Afford(2, 0, 0, 0, 0, 0, 0, 1, 0)),
     Start(Both, Old, Afford(1, 0, 1, 0, 1, 0, 0, 0, 0)),
     Start(In, Old, Afford(1, 0, 0, 1, 0, 0, 0, 1, 0)),
     Start(Empty, {}, Afford(1, 1, 0, 0, 0, 0, 1, 0, 0)),
     Start(In, {}, Afford(0, 1, 0, 0, 0, 0, 1, 1, 1)),
     Unapproved(Start(In, {}, Afford(1, 0, 0, 0, 0, 1, 0, 1, 0)))}

\* The screen looks at the devices while a card is put in.
MCLooking == {Start(Empty, {}, Afford(1, 0, 0, 0, 0, 0, 1, 0, 0))}

\* A card and a stick that is neither exfat nor vfat are put in.
MCForeign == {Start(Empty, {}, Afford(2, 0, 0, 0, 0, 0, 0, 0, 0))}

\* A copy of the card in n1 and such a stick are put in, on three nodes.
MCForeignTwins ==
    {Start([n \in Nodes |-> IF n = n1 THEN c1 ELSE NoCard], {},
           Afford(2, 0, 0, 0, 0, 0, 0, 0, 0))}
=============================================================================
