----------------------------- MODULE StackPairs -----------------------------
(***************************************************************************)
(* Which files are taken for one shot: what the scans of the cards leave   *)
(* in source_entry (jobs/scan.py, the commit of a publication), the rule   *)
(* of the stack pass over it (core/uploads/stacking.py) and the same rule  *)
(* written again in SQL for the list of photos (api/routes_media.py).      *)
(*                                                                         *)
(* Every card holds the files of one shot, IMG_0001.*, so a path is an     *)
(* extension and, on a case-sensitive file system, its twin in the other   *)
(* case.  All media are of one profile, and a scan or an import is one     *)
(* step: no other job runs meanwhile.                                      *)
(***************************************************************************)
EXTENDS Naturals, FiniteSets, Sequences

CONSTANTS Cards, Exts,
          Paths,        \* [card, ext, twin] of the files
          Media, Kind,  \* the contents there may be, the extension of each
          Rules,        \* stack.extensions, << >> when it is not enabled
          Absent, Pending,
          MaxScans      \* bound: scan jobs

ASSUME StackPairsAssumption ==
    /\ Paths \subseteq [card : Cards, ext : Exts, twin : 0..1]
    /\ IsFiniteSet(Paths)
    /\ Kind \in [Media -> Exts]
    /\ Rules \subseteq Seq(Exts)
    /\ Absent # Pending
    /\ {Absent, Pending} \cap Media = {}
    /\ MaxScans \in Nat

VARIABLES
    entries,    \* source_entry: what a path is linked to, its copresent_key
    rule,       \* stack of the profile's current revision
    scans,      \* scan jobs so far; its number is the scan's job_id
    card,       \* what is at a path of the card itself
    shots,      \* changes of the cards left
    met         \* history: media one scan met on one card

cards == <<entries, scans, card, shots, met>>

Entry == [media : Media \cup {Absent, Pending}, mark : Nat]

-----------------------------------------------------------------------------
(* core/uploads/stacking.py                                                *)

Sightings(m) == {p \in Paths : entries[p].media = m}

\* The paths of published files, among the media a destination knows.
Candidates(m, known) ==
    {q \in Paths : /\ entries[q].media \in known \cup {m}
                   /\ \E p \in Sightings(m) : p.card = q.card}

\* proofs: the last row of a key wins, the twin comes after its path.
Proof(m, c) ==
    LET mine == {p \in Sightings(m) : p.card = c}
        last == CHOOSE p \in mine : \A q \in mine : q.twin <= p.twin
    IN  entries[last].mark

InRule(e) == \E i \in DOMAIN rule : rule[i] = e
RankOf(e) == CHOOSE i \in DOMAIN rule : rule[i] = e

Partners(m, known) ==
    IF ~InRule(Kind[m]) THEN {}
    ELSE {entries[q].media : q \in {p \in Candidates(m, known) :
                                       /\ InRule(p.ext)
                                       /\ Proof(m, p.card) # 0
                                       /\ entries[p].mark = Proof(m, p.card)}}
         \ {m}

Ambiguous(m, known) ==
    \E x, y \in Partners(m, known) \cup {m} : x # y /\ Kind[x] = Kind[y]

\* What identity_partners settles for m: itself and its partners, or nothing.
Group(m, known) ==
    IF Partners(m, known) = {} \/ Ambiguous(m, known) THEN {}
    ELSE Partners(m, known) \cup {m}

\* sorted by rule.extensions
Primary(group) ==
    CHOOSE m \in group : \A x \in group : RankOf(Kind[m]) <= RankOf(Kind[x])

-----------------------------------------------------------------------------
(* api/routes_media.py                                                     *)

Marked(m) == {p \in Sightings(m) : entries[p].mark # 0}

\* The rows of published files with the copresent_key of p.
Beside(p) == {q \in Paths : /\ entries[q].media \in Media
                            /\ q.card = p.card
                            /\ entries[q].mark = entries[p].mark}

\* Fault: two files of one extension are looked for within one key only.
AmbiguousOnCard(m) ==
    \E p \in Marked(m) : \E a, b \in Beside(p) :
        entries[a].media # entries[b].media /\ a.ext = b.ext

AmbiguousRow(m) ==
    \E p, q \in Marked(m) : \E a \in Beside(p), b \in Beside(q) :
        entries[a].media # entries[b].media /\ a.ext = b.ext

MembersOf(m) ==
    LET found == {entries[q].media : q \in {a \in UNION {Beside(p) : p \in Marked(m)} :
                                               InRule(a.ext)}}
    IN  IF AmbiguousRow(m) \/ Cardinality(found) < 2 THEN {} ELSE found

\* Fault: a row is hidden whatever its primary declares.
HiddenUnseen(m) ==
    /\ ~AmbiguousRow(m)
    /\ \E p \in Marked(m) : \E q \in Beside(p) :
          /\ InRule(p.ext) /\ InRule(q.ext)
          /\ RankOf(q.ext) < RankOf(p.ext)

\* collapse=stack: a row that is not the first of its stack is left out.
Hidden(m) ==
    /\ ~AmbiguousRow(m)
    /\ \E p \in Marked(m) : \E q \in Beside(p) :
          /\ InRule(p.ext) /\ InRule(q.ext)
          /\ RankOf(q.ext) < RankOf(p.ext)
          /\ entries[q].media # m
          /\ ~AmbiguousRow(entries[q].media)

-----------------------------------------------------------------------------
(* Cards, scans and imports                                                *)

On(c) == {p \in Paths : p.card = c}
Held(c) == {p \in On(c) : card[p] # Absent}

\* What is on the cards was imported; a scan met both kinds of file, or none
\* did that looked for stacks.
CardInit(held, marked) ==
    /\ card = held
    /\ entries = [p \in Paths |->
          [media |-> held[p],
           mark |-> IF marked /\ \E q \in On(p.card) : /\ q.ext # p.ext
                                                      /\ held[q] # Absent
                      THEN scans ELSE 0]]
    /\ met = IF marked THEN UNION {{{held[p], held[q]} : q \in On(p.card)} : p \in Paths}
             ELSE {}

\* Somebody shoots, deletes or copies files.  A content is known by the media
\* file it is imported as.
Shoot ==
    \E p \in Paths : \E m \in {x \in Media : Kind[x] = p.ext} \cup {Absent} :
        /\ shots > 0
        /\ shots' = shots - 1
        /\ m # card[p]
        /\ card' = [card EXCEPT ![p] = m]
        /\ UNCHANGED <<entries, rule, scans, met>>

\* _reconcile_entry.  An entry that waits for its import keeps its mark.
Reconciled(p, redated) ==
    CASE card[p] = Absent -> entries[p]
      [] /\ entries[p].media \in Media
         /\ (entries[p].media # card[p] \/ p \in redated)
           -> [media |-> Pending, mark |-> 0]
      [] entries[p].media = Absent -> [media |-> Pending, mark |-> 0]
      [] OTHER -> entries[p]

\* _sweep_vanished: entries that wait for a file that is gone.
Swept(p, entry) ==
    IF entry.media = Pending /\ card[p] = Absent
      THEN [media |-> Absent, mark |-> 0]
      ELSE entry

\* _mark_copresence
ToMark(c) ==
    LET eligible == {p \in Held(c) : InRule(p.ext)}
    IN  IF \E p, q \in eligible : p.ext # q.ext THEN eligible ELSE {}

\* What the scan of that number makes of an entry.
Scanned(p, redated, marked, number) ==
    LET entry == Swept(p, Reconciled(p, redated))
    IN  [entry EXCEPT !.mark = IF p \in marked THEN number ELSE @]

\* A scan that sees its card to the end.  A file with another time is taken
\* for another file although its content is the same.
Scan ==
    \E c \in Cards : \E redated \in SUBSET On(c) :
        /\ scans < MaxScans
        /\ scans' = scans + 1
        /\ entries' = [p \in Paths |->
               IF p \notin On(c) THEN entries[p]
               ELSE Scanned(p, redated, ToMark(c), scans')]
        /\ met' = met \cup {{card[p], card[q]} : p \in Held(c), q \in Held(c)}
        /\ UNCHANGED <<rule, card, shots>>

\* A scan that is cancelled after some of the files.
ScanCancelled ==
    \E c \in Cards : \E reached \in SUBSET On(c) :
        /\ reached # On(c)
        /\ scans < MaxScans
        /\ scans' = scans + 1
        /\ entries' = [p \in Paths |-> IF p \in reached THEN Reconciled(p, {})
                                       ELSE entries[p]]
        /\ UNCHANGED <<rule, card, shots, met>>

\* The import and the commit of its publication (ArtifactPublisher).
Import ==
    \E p \in Paths :
        /\ entries[p].media = Pending
        /\ card[p] # Absent
        /\ entries' = [entries EXCEPT ![p].media = card[p]]
        /\ UNCHANGED <<rule, scans, card, shots, met>>

-----------------------------------------------------------------------------
(* Properties                                                              *)

\* docs/design.md: the list of photos declares the stacks that the stack
\* pass makes, one rule in two languages.
ListingAgrees == \A m \in Media : MembersOf(m) = Group(m, Media)

\* A row that is hidden behind the first of its stack is found there: no
\* file disappears from the list.
NothingDisappears ==
    \A m \in Media : Hidden(m) =>
        \E x \in Media : ~Hidden(x) /\ m \in MembersOf(x)

\* stacking.py: the group is the same whichever member it is asked for.
SameFromEveryMember ==
    \A m \in Media : \A x \in Group(m, Media) : Group(x, Media) = Group(m, Media)

\* docs/design.md: files are taken for one shot only when one scan has met
\* both of them, as they are, on one card.
PartnersHaveMet ==
    \A m \in Media : \A x \in Partners(m, Media) : {m, x} \in met
=============================================================================
