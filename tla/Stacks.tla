------------------------------- MODULE Stacks -------------------------------
(***************************************************************************)
(* The second pass of an upload job, which stacks the files of one shot on *)
(* the server (jobs/stacker.py), and the comparison of the stacks that the *)
(* recheck makes (jobs/recheck.py).  They share the upload records with    *)
(* the requests of the API and with the recomputation, the evidence with   *)
(* the scans, and the stacks of the server with its other users.           *)
(*                                                                         *)
(* One destination, whose jobs run one at a time.  Sending is one step     *)
(* here; Uploads.tla has its interleavings.  A record is named by its      *)
(* media file, and the pass may take the records in any order: their ids   *)
(* are in the order of the sending requests.                               *)
(***************************************************************************)
EXTENDS StackPairs

CONSTANT
    Worlds          \* what the cards hold at the start, and the bounds of a
                    \* behaviour from there: passes and rechecks, requests of
                    \* the API and moves of a capture date, acts of other
                    \* users, scans, changes of the cards

ASSUME StacksAssumption ==
    /\ Worlds \subseteq [held : [Paths -> Media \cup {Absent}], jobs : Nat,
                         requests : Nat, touches : Nat, scans : 0..MaxScans,
                         shots : Nat]
    /\ \A world \in Worlds : \A p \in Paths :
          world.held[p] # Absent => Kind[world.held[p]] = p.ext

VARIABLES
    rows,       \* upload_record: the valid one of each media file
    revision,   \* current_revision_id of the profile
    usable,     \* the destination is enabled, not archived, of the same epoch
    library,    \* the asset the server holds of each content, 0: none
    stacks,     \* stacks of the server
    serial,     \* assets and stacks made by the server so far
    job,        \* the running job: its position and its local variables
    budget,     \* bounds: jobs, requests and touches left
    lead,       \* history: the first member of each stack recorded
    touched,    \* history: stacks other users made or changed
    fresh,      \* history: those of them since the pass took its record
    torn,       \* history: stacks a retry took one record out of
    late        \* history: records whose evidence came after their refusal

vars == <<cards, rule, rows, revision, usable, library, stacks, serial, job,
          budget, lead, touched, fresh, torn, late>>

local == <<rows, revision, usable>>
server == <<library, stacks, serial>>
history == <<lead, touched, fresh, torn, late>>

States == {"none", "pending", "complete", "needs", "failed"}
Skips == {"local", "remote"}   \* stack_reason: ours, or the server's answer

NoRow == [state |-> "none", asset |-> 0, ours |-> FALSE, stack |-> "none",
          sid |-> 0]

None == Absent
Foreign == 0    \* an asset that mediaferry has not sent
NoStack == [id |-> 0, primary |-> 0]

NoJob == [at |-> "idle", done |-> {}, me |-> None, revision |-> 0,
          why |-> "local", group |-> {}, lead |-> None,
          assets |-> [m \in Media |-> 0], todo |-> {},
          seen |-> [m \in Media |-> NoStack], stack |-> NoStack,
          groups |-> {}]

-----------------------------------------------------------------------------
(* The server (adapters/immich.py)                                         *)

Existing == {library[m] : m \in Media} \ {0}

StackOf(asset) ==
    LET holding == {s \in stacks : asset \in s.members}
    IN  IF holding = {} THEN NoStack
        ELSE LET s == CHOOSE x \in holding : TRUE
             IN  [id |-> s.id, primary |-> s.primary]

\* A stack that loses all assets but one, or its first one, is none.
Without(all, gone) ==
    {s \in {[x EXCEPT !.members = @ \ gone] : x \in all} :
        \/ s \in all
        \/ Cardinality(s.members) > 1 /\ s.primary \in s.members}

\* POST /stacks: the stacks one of the assets leads are taken in whole.
Absorbed(assets) ==
    assets \cup UNION {s.members : s \in {x \in stacks : x.primary \in assets}}

Stacked(assets, primary) ==
    Without(stacks, Absorbed(assets))
        \cup {[id |-> serial + 1, members |-> Absorbed(assets),
               primary |-> primary]}

-----------------------------------------------------------------------------
(* The database (db/uploads.py)                                            *)

Known == {m \in Media : rows[m].state # "none"}

AssetsOf(group) == {job.assets[m] : m \in group}

Current == usable /\ job.revision = revision

\* _reopen_stack_of, for the records whose asset changes.
Reopened(all, moved) ==
    LET gone == {all[m].sid : m \in moved} \ {0}
    IN  [m \in Media |-> IF all[m].sid \in gone
                           THEN [all[m] EXCEPT !.stack = "none", !.sid = 0]
                           ELSE all[m]]

\* _member_moved
MemberMoved ==
    \E m \in job.group :
        \/ rows[m].state # "complete"
        \/ rows[m].asset # job.assets[m]
        \/ rows[m].stack = "stacked"

-----------------------------------------------------------------------------
(* The pass (jobs/stacker.py)                                              *)

\* resolve_group for m: who m is with, and whether all of them may be.
Eligible(group) ==
    /\ group # {}
    /\ \A x \in group : rows[x].ours /\ rows[x].state = "complete"
    /\ \A x, y \in group : rows[x].asset = rows[y].asset => x = y

At(place) == job' = [job EXCEPT !.at = place]

\* Fault: the batch is read from the beginning each time.
RowOverAgain == [NoJob EXCEPT !.at = "take"]

RowOver == [NoJob EXCEPT !.at = "take", !.done = job.done \cup {job.me}]

StartPass ==
    /\ job.at = "idle"
    /\ budget.jobs > 0
    /\ job' = [NoJob EXCEPT !.at = "take"]
    /\ budget' = [budget EXCEPT !.jobs = @ - 1]
    /\ UNCHANGED <<cards, rule, local, server, history>>

\* unstacked_batch: what the pass has not come to.  The code goes through the
\* ids in batches, each read as the cursor stands; here it is any order, and
\* every record is read as it is when its turn comes.
Untried == {m \in Media \ job.done : /\ rows[m].state = "complete"
                                     /\ rows[m].stack = "none"}

\* One record is read, with the current rule and the current evidence.
Take ==
    /\ job.at = "take"
    /\ \E m \in Untried :
         LET group == Group(m, Known)
             taken == [NoJob EXCEPT
                         !.done = job.done, !.me = m, !.revision = revision,
                         !.assets = [x \in Media |-> rows[x].asset]]
         IN  /\ job' = IF Eligible(group)
                         THEN [taken EXCEPT !.at = "guard look",
                                            !.group = group,
                                            !.lead = Primary(group),
                                            !.todo = group]
                         ELSE [taken EXCEPT !.at = "refuse"]
             /\ late' = late \ {m}
    /\ fresh' = {}
    /\ UNCHANGED <<cards, rule, local, server, budget, lead, touched, torn>>

PassOver ==
    /\ job.at = "take"
    /\ Untried = {}
    /\ job' = NoJob
    /\ UNCHANGED <<cards, rule, local, server, budget, history>>

\* mark_skipped.  A destination that changed ends the pass, anything else
\* that changed only this record.
Refuse ==
    /\ job.at = "refuse"
    /\ LET row == rows[job.me]
           kept == /\ Current
                   /\ row.state = "complete"
                   /\ row.asset = job.assets[job.me]
                   /\ row.stack = "none"
       IN  rows' = IF kept THEN [rows EXCEPT ![job.me].stack = job.why]
                   ELSE rows
    /\ job' = IF usable THEN RowOver ELSE NoJob
    /\ UNCHANGED <<cards, rule, revision, usable, server, budget, history>>

Guards == [look |-> "guard look", post |-> "guard post", put |-> "guard put"]

\* _guard, before the first request and before each one that changes anything.
Guard ==
    /\ \E request \in DOMAIN Guards :
         /\ job.at = Guards[request]
         /\ IF ~usable THEN job' = NoJob
            ELSE IF ~Current \/ MemberMoved THEN job' = RowOver
            ELSE At(request)
    /\ UNCHANGED <<cards, rule, local, server, budget, history>>

Rejected == job' = [job EXCEPT !.at = "refuse", !.why = "remote"]

\* Fault: the first answer stands for all of them.
VerdictOfLead(seen) ==
    IF seen[job.lead] = NoStack THEN "guard post"
    ELSE IF seen[job.lead].primary \in AssetsOf(job.group) THEN "find"
    ELSE "refuse"

\* What the answers of all the members amount to.
Verdict(seen) ==
    LET told == {seen[m] : m \in job.group} IN
    IF told = {NoStack} THEN "guard post"
    ELSE IF /\ Cardinality(told) = 1
            /\ \A s \in told : s.primary \in AssetsOf(job.group)
           THEN "find"
           ELSE "refuse"

\* GET /assets/{id}, one member after the other.
Look ==
    /\ job.at = "look"
    /\ \E m \in job.todo :
         IF job.assets[m] \notin Existing THEN Rejected
         ELSE LET seen == [job.seen EXCEPT ![m] = StackOf(job.assets[m])]
                  todo == job.todo \ {m}
              IN  job' = [job EXCEPT
                            !.seen = seen, !.todo = todo, !.why = "remote",
                            !.at = IF todo = {} THEN Verdict(seen) ELSE "look"]
    /\ UNCHANGED <<cards, rule, local, server, budget, history>>

Found(stack) ==
    job' = [job EXCEPT
              !.stack = stack,
              !.at = IF stack.primary = job.assets[job.lead]
                       THEN "record" ELSE "guard put"]

\* GET /stacks?primaryAssetId: the stack is adopted when it is our group.
Find ==
    /\ job.at = "find"
    /\ LET told == job.seen[job.lead]
           ours == {s \in stacks : /\ s.id = told.id
                                   /\ s.primary = told.primary
                                   /\ s.members = AssetsOf(job.group)}
       IN  IF ours = {} THEN Rejected ELSE Found(told)
    /\ UNCHANGED <<cards, rule, local, server, budget, history>>

\* POST /stacks.  The server chooses the first one, and takes in the stacks
\* that were made meanwhile; such an answer is not recorded.
Post ==
    /\ job.at = "post"
    /\ LET assets == AssetsOf(job.group) IN
       IF assets \subseteq Existing
         THEN \E p \in assets :
                /\ stacks' = Stacked(assets, p)
                /\ serial' = serial + 1
                /\ IF Absorbed(assets) = assets
                     THEN Found([id |-> serial', primary |-> p])
                     ELSE Rejected
         ELSE Rejected /\ UNCHANGED <<stacks, serial>>
    /\ UNCHANGED <<cards, rule, local, library, budget, history>>

\* PUT /stacks/{id}
Put ==
    /\ job.at = "put"
    /\ LET wanted == job.assets[job.lead]
           s == {x \in stacks : x.id = job.stack.id /\ wanted \in x.members}
       IN  IF s = {} THEN Rejected /\ UNCHANGED stacks
           ELSE /\ stacks' = (stacks \ s)
                                \cup {[x EXCEPT !.primary = wanted] : x \in s}
                /\ At("read back")
    /\ UNCHANGED <<cards, rule, local, library, serial, budget, history>>

ReadBack ==
    /\ job.at = "read back"
    /\ IF \E s \in stacks : /\ s.id = job.stack.id
                            /\ s.primary = job.assets[job.lead]
                            /\ s.members = AssetsOf(job.group)
         THEN At("record")
         ELSE Rejected
    /\ UNCHANGED <<cards, rule, local, server, budget, history>>

\* Fault: only the members nobody refused yet are recorded.
RecordUntried ==
    /\ job.at = "record"
    /\ IF Current /\ ~MemberMoved
         THEN /\ rows' = [m \in Media |->
                            IF m \in job.group /\ rows[m].stack = "none"
                              THEN [rows[m] EXCEPT !.stack = "stacked",
                                                   !.sid = job.stack.id]
                              ELSE rows[m]]
              /\ lead' = lead \cup {<<job.stack.id, job.assets[job.lead]>>}
         ELSE UNCHANGED <<rows, lead>>
    /\ job' = IF usable THEN RowOver ELSE NoJob
    /\ UNCHANGED <<cards, rule, revision, usable, server, budget, touched,
                   fresh, torn, late>>

\* mark_stacked: every member or none; a refused partner is taken along.
Record ==
    /\ job.at = "record"
    /\ IF Current /\ ~MemberMoved
         THEN /\ rows' = [m \in Media |->
                            IF m \in job.group
                              THEN [rows[m] EXCEPT !.stack = "stacked",
                                                   !.sid = job.stack.id]
                              ELSE rows[m]]
              /\ lead' = lead \cup {<<job.stack.id, job.assets[job.lead]>>}
         ELSE UNCHANGED <<rows, lead>>
    /\ job' = IF usable THEN RowOver ELSE NoJob
    /\ UNCHANGED <<cards, rule, revision, usable, server, budget, touched,
                   fresh, torn, late>>

\* A crash, a cancellation, a lost lease, a server that cannot be reached or
\* no longer accepts the key: what was not recorded stays untried.
Stop ==
    /\ job.at # "idle"
    /\ job' = NoJob
    /\ UNCHANGED <<cards, rule, local, server, budget, history>>

-----------------------------------------------------------------------------
(* The recheck (jobs/recheck.py)                                           *)

StartRecheck ==
    /\ job.at = "idle"
    /\ usable
    /\ budget.jobs > 0
    /\ job' = [NoJob EXCEPT !.at = "stamp"]
    /\ budget' = [budget EXCEPT !.jobs = @ - 1]
    /\ UNCHANGED <<cards, rule, local, server, history>>

\* stamp_many: records the server no longer has become sendable again, those
\* it has as another asset follow it.  With none to ask for, run returns, and
\* the pass follows without a look at the stacks.
Stamp ==
    /\ job.at = "stamp"
    /\ LET sent == {m \in Media : rows[m].state = "complete"}
           moved == {m \in sent : rows[m].asset # library[m]}
           open == Reopened(rows, moved)
       IN  /\ rows' = [m \in Media |->
                         IF m \notin moved THEN open[m]
                         ELSE IF library[m] = 0 THEN NoRow
                         ELSE [open[m] EXCEPT !.asset = library[m]]]
           /\ At(IF sent = {} THEN "take" ELSE "groups")
    /\ UNCHANGED <<cards, rule, revision, usable, server, budget, history>>

\* stacked_groups
Groups ==
    /\ job.at = "groups"
    /\ LET sids == {rows[m].sid : m \in Media} \ {0} IN
       job' = [job EXCEPT
                 !.at = IF sids = {} THEN "take" ELSE "compare",
                 !.groups = {[id |-> i,
                              members |-> {rows[m].asset : m \in
                                             {x \in Media : rows[x].sid = i}}]
                              : i \in sids}]
    /\ UNCHANGED <<cards, rule, local, server, budget, history>>

\* GET /stacks
Compare ==
    /\ job.at = "compare"
    /\ LET live == {[id |-> s.id, members |-> s.members] : s \in stacks} IN
       job' = [job EXCEPT !.at = "reopen", !.groups = @ \ live]
    /\ UNCHANGED <<cards, rule, local, server, budget, history>>

\* reopen_stacks, and the pass begins.
Reopen ==
    /\ job.at = "reopen"
    /\ rows' = [m \in Media |->
                  IF \E g \in job.groups : rows[m].sid = g.id
                    THEN [rows[m] EXCEPT !.stack = "none", !.sid = 0]
                    ELSE rows[m]]
    /\ job' = [NoJob EXCEPT !.at = "take"]
    /\ UNCHANGED <<cards, rule, revision, usable, server, budget, history>>

-----------------------------------------------------------------------------
(* Sending, before the pass of the same job                                *)

\* What the server has already is taken as it is; what was sent by us stays so.
Send ==
    /\ job.at = "idle"
    /\ usable
    /\ budget.jobs > 0     \* bound: nobody looks at the record any more
    /\ \E m \in Media :
         /\ rows[m].state \in {"none", "pending", "needs"}
         /\ m \in {entries[p].media : p \in Paths}
         /\ LET new == library[m] = 0
                asset == IF new THEN serial + 1 ELSE library[m]
                open == IF asset = rows[m].asset THEN rows
                        ELSE Reopened(rows, {m})
                row == open[m]
            IN  /\ library' = [library EXCEPT ![m] = asset]
                /\ serial' = IF new THEN serial + 1 ELSE serial
                /\ rows' = [open EXCEPT ![m] =
                              [row EXCEPT !.state = "complete", !.asset = asset,
                                          !.ours = row.ours \/ new]]
    /\ UNCHANGED <<cards, rule, revision, usable, stacks, job, budget, history>>

SendFails ==
    /\ job.at = "idle"
    /\ usable
    /\ \E m \in Media :
         /\ rows[m].state \in {"pending", "needs"}
         /\ rows' = [rows EXCEPT ![m].state = "failed"]
    /\ UNCHANGED <<cards, rule, revision, usable, server, job, budget, history>>

-----------------------------------------------------------------------------
(* Requests and other jobs                                                 *)

Asked ==
    /\ budget.requests > 0
    /\ budget' = [budget EXCEPT !.requests = @ - 1]

Unskipped(row) == IF row.stack \in Skips THEN [row EXCEPT !.stack = "none"]
                  ELSE row

\* POST /uploads/{id}/retry
Retry ==
    /\ Asked
    /\ \E m \in Media :
         /\ rows[m].state = "failed"
         /\ rows' = [rows EXCEPT ![m].state = "pending", ![m].stack = "none",
                                 ![m].sid = 0]
         /\ torn' = torn \cup ({rows[m].sid} \ {0})
    /\ UNCHANGED <<cards, rule, revision, usable, server, job, lead, touched,
                   fresh, late>>

\* Fault: a new rule leaves the refusals under the old one.
EditProfileOnly ==
    /\ Asked
    /\ rule' \in Rules
    /\ revision' = revision + 1
    /\ UNCHANGED <<cards, rows, usable, server, job, history>>

\* _publish_revision
EditProfile ==
    /\ Asked
    /\ rule' \in Rules
    /\ revision' = revision + 1
    /\ rows' = IF rule' = rule THEN rows
               ELSE [m \in Media |-> Unskipped(rows[m])]
    /\ UNCHANGED <<cards, usable, server, job, history>>

\* The recomputation moves a capture date: requeue_sent where the profile
\* writes dates, and reopen_skipped_stack.
MoveDate ==
    /\ Asked
    /\ \E m \in Media : \E requeue \in BOOLEAN :
         /\ rows[m].state # "none"
         /\ LET row == Unskipped(rows[m])
                state == IF requeue /\ row.state = "complete" THEN "needs"
                         ELSE row.state
            IN  rows' = [rows EXCEPT ![m] = [row EXCEPT !.state = state]]
    /\ UNCHANGED <<cards, rule, revision, usable, server, job, history>>

\* The destination is enabled, disabled, or turned to another library.
SetUsable ==
    /\ Asked
    /\ usable' = ~usable
    /\ UNCHANGED <<cards, rule, rows, revision, server, job, history>>

\* The cards, scans and imports: nobody waits for them.
Evidence ==
    /\ Shoot \/ Scan \/ ScanCancelled \/ Import
    /\ late' = IF entries' = entries THEN late
               ELSE late \cup {m \in Media :
                                 rows[m].stack = "local" \/ m = job.me}
    /\ UNCHANGED <<local, server, job, budget, lead, touched, fresh, torn>>

-----------------------------------------------------------------------------
(* Other users of the server                                               *)

Touch ==
    /\ budget.touches > 0
    /\ budget' = [budget EXCEPT !.touches = @ - 1]
    /\ LET changed == {s.id : s \in (stacks \ stacks') \cup (stacks' \ stacks)}
       IN  /\ touched' = touched \cup changed
           /\ fresh' = fresh \cup changed
    /\ UNCHANGED <<cards, rule, local, job, lead, torn, late>>

UserStacks ==
    /\ \E assets \in SUBSET (Existing \cup {Foreign}) :
         /\ Cardinality(assets) > 1
         /\ \E p \in assets : stacks' = Stacked(assets, p)
    /\ serial' = serial + 1
    /\ UNCHANGED library
    /\ Touch

UserDissolves ==
    /\ \E s \in stacks : stacks' = stacks \ {s}
    /\ UNCHANGED <<library, serial>>
    /\ Touch

UserDeletes ==
    /\ \E m \in Media :
         /\ library[m] # 0
         /\ library' = [library EXCEPT ![m] = 0]
         /\ stacks' = Without(stacks, {library[m]})
    /\ UNCHANGED serial
    /\ Touch

UserUploads ==
    /\ \E m \in Media :
         /\ library[m] = 0
         /\ library' = [library EXCEPT ![m] = serial + 1]
    /\ serial' = serial + 1
    /\ UNCHANGED stacks
    /\ Touch

-----------------------------------------------------------------------------

Init ==
    /\ \E world \in Worlds :
         /\ budget = [jobs |-> world.jobs, requests |-> world.requests,
                      touches |-> world.touches]
         /\ scans = MaxScans - world.scans
         /\ shots = world.shots
         /\ \E marked \in BOOLEAN : CardInit(world.held, marked)
    /\ rule \in Rules
    /\ rows = [m \in Media |-> NoRow]
    /\ revision = 1
    /\ usable = TRUE
    /\ library = [m \in Media |-> 0]
    /\ stacks = {}
    /\ serial = 0
    /\ job = NoJob
    /\ lead = {} /\ touched = {} /\ fresh = {} /\ torn = {} /\ late = {}

Pass == Take \/ PassOver \/ Refuse \/ Guard \/ Look \/ Find \/ Post \/ Put
          \/ ReadBack \/ Record

Recheck == Stamp \/ Groups \/ Compare \/ Reopen

Next ==
    \/ StartPass \/ StartRecheck \/ Stop
    \/ Pass
    \/ Recheck
    \/ Send \/ SendFails
    \/ Retry \/ EditProfile \/ MoveDate \/ SetUsable
    \/ Evidence
    \/ UserStacks \/ UserDissolves \/ UserDeletes \/ UserUploads

Spec == Init /\ [][Next]_vars

\* The worker runs its job; nobody else is obliged to do anything.
FairSpec == Spec /\ WF_vars(Pass \/ Recheck)

-----------------------------------------------------------------------------
(* Properties                                                              *)

\* The types of the variables.
TypeOK ==
    /\ rows \in [Media -> [state : States, asset : Nat, ours : BOOLEAN,
                           stack : {"none", "stacked"} \cup Skips, sid : Nat]]
    /\ \A m \in Media : rows[m].stack = "stacked" <=> rows[m].sid # 0
    /\ rule \in Rules
    /\ revision \in Nat /\ serial \in Nat /\ usable \in BOOLEAN
    /\ library \in [Media -> Nat]
    /\ \A s \in stacks : s.id \in 1..serial /\ s.primary \in s.members
    /\ job.me \in Media \cup {None} /\ job.group \subseteq Media

\* db/uploads.py, mark_stacked: what is recorded as a stack is one on the
\* server, with these assets and the first of the rule's extensions as its
\* primary, unless another user changed it since or a retry tore it.
RecordIsTrue ==
    \A m \in Media :
        rows[m].stack = "stacked" /\ rows[m].sid \notin touched \cup torn =>
            \E s \in stacks :
                /\ s.id = rows[m].sid
                /\ s.members = {rows[x].asset : x \in
                                  {y \in Media : rows[y].sid = s.id}}
                /\ <<s.id, s.primary>> \in lead

\* db/uploads.py, _reopen_stack_of: a stack is one result, the records of its
\* members say the same of it.
OneResult ==
    \A m \in Media :
        rows[m].stack = "stacked" /\ rows[m].sid \notin touched =>
            \E s \in stacks :
                /\ s.id = rows[m].sid
                /\ s.members = {rows[x].asset : x \in
                                  {y \in Media : rows[y].sid = s.id}}

Settled(group) ==
    /\ Eligible(group)
    /\ \A x \in group : rows[x].stack = "local"

\* docs/design.md, 9.11: a refusal means "not now".  No group that could be
\* stacked is left with all its members refused by the local rules, unless
\* the evidence came after the refusal.  It holds where no file is on two cards
\* that two passes meet and no rule names three extensions, as in the worlds of
\* the run: README, section 11.
NoPairForgotten ==
    \A m \in Media : Settled(Group(m, Known)) =>
        Group(m, Known) \cap late # {}

\* The same without the exception.
NoEvidenceIgnored == \A m \in Media : ~Settled(Group(m, Known))

\* docs/design.md, 9.11: a stack of another user that stood when the pass
\* took its record is not changed by the pass.
ForeignStackKept ==
    [][job' # job =>
         \A s \in stacks \ stacks' :
             s.id \in fresh \/ s.members = AssetsOf(job.group)]_vars

\* A pass and a recheck come to their end, whatever changes under them.
PassEnds == job.at # "idle" ~> job.at = "idle"
=============================================================================
