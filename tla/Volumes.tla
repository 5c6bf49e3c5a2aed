------------------------------ MODULE Volumes ------------------------------
(* From a card in the reader to a scan or an import in the job queue:        *)
(* VolumeService (jobs/volumes.py), the watcher that polls the broker        *)
(* (jobs/watcher.py), the rows they write (db/sources.py), the selection a   *)
(* request makes and the opening of a card by the job that runs.             *)
(*                                                                           *)
(* Two VolumeService objects share the database and nothing else: the API's, *)
(* whose lock the job takes as well, and the watcher's.  Each talks to the   *)
(* broker over a connection of its own.                                      *)
EXTENDS MountBroker

CONSTANTS
    Kind,           \* Kind[c][r]: what revision r of the profile says of card c
    MaxRevision,
    Roots,          \* Roots[r]: the scan roots of revision r; 0 is DCIM alone
    Remembered,     \* Remembered[i]: what was listed last of volume i
    Starts          \* [at, rows, trusted, left]: the cards that are in, the rows the
                    \* last process left live, the volumes approved so far, what
                    \* may still happen from outside

AView  == [epoch : Nat, generation : Nat, node : Nodes, id : Ids]
Listing == [card : Cards \cup {NoCard}, roots : Nat]
NoListing == [card |-> NoCard, roots |-> 0]
Events == {"move", "fault", "broker", "app", "save", "trust", "look", "run", "idle"}

ASSUME VolumesAssumption ==
    /\ Clients = {"api", "watcher"}
    /\ MaxRevision \in Nat \ {0}
    /\ Kind \in [Cards -> [1..MaxRevision -> {"none", "provisional", "sure"}]]
    /\ Roots \in [1..MaxRevision -> Nat]
    /\ Remembered \in [Ids -> Listing]
    /\ \A start \in Starts :
           /\ start.at \in [Nodes -> Cards \cup {NoCard}]
           /\ \A n, m \in Nodes : start.at[n] = start.at[m] => n = m \/ start.at[n] = NoCard
           /\ start.rows \subseteq AView
           /\ \A v \in start.rows : v.epoch = 0   \* of a broker that is gone
           /\ start.left \in [Events -> Nat]

VARIABLES
    volume,     \* volume_instance, by identity
    presence,   \* volume_presence: a function on the views that have a row
    revision,   \* the current revision of the profile
    svc,        \* what each VolumeService is doing
    seen,       \* the watcher's token of its last refresh
    queue,      \* the queued scans and imports
    job,        \* the job the worker runs
    left,       \* how often each outside event may still happen
    spent       \* history: the outside events that have happened

appVars == <<volume, presence, revision, svc, seen, queue, job>>
vars == <<brokerVars, appVars, left, spent>>

Services == {"api", "watcher"}

Never == <<>>
Unprobed == [kind |-> "unknown"]
Idle == [pc |-> "idle", for |-> "none", todo |-> {}, defs |-> 0,
         found |-> {}, judged |-> Unprobed]
NoJob == [st |-> "idle"]

Live == {v \in DOMAIN presence : presence[v].live}
Twins(v) == {w \in Live : w.id = v.id /\ w.node # v.node}

Charge(e) ==
    /\ left[e] > 0
    /\ left' = [left EXCEPT ![e] = @ - 1]
Spend(e) == Charge(e) /\ spent' = spent \cup ({e} \cap {"look", "fault"})

Unspent == UNCHANGED <<left, spent>>

\* The API's lock: refresh holds it throughout, and so do open and release.
ApiFree == svc["api"].pc \in {"idle", "chosen"} /\ job.st # "opening"

NewVolume(d, trusted) ==
    [known |-> d # NoListing, digest |-> d, trusted |-> trusted,
     confidence |-> "low", provisional |-> FALSE, rev |-> 0]

Init ==
    /\ BrokerInit({start.at : start \in Starts})
    \* The last process may have ended with a card in: its row is still live.
    /\ \E start \in Starts :
           /\ at = start.at /\ left = start.left
           /\ volume = [i \in Ids |-> NewVolume(Remembered[i], i \in start.trusted)]
           /\ presence = [v \in start.rows |->
                  [live |-> TRUE, scanned |-> FALSE, imported |-> FALSE]]
    /\ revision = 1
    /\ svc = [s \in Services |-> Idle]
    /\ seen = Never
    /\ queue = {}
    /\ job = NoJob
    /\ spent = {}

(* -------------------------- VolumeService.refresh ------------------------ *)

\* One snapshot of the machine, taken outside the transaction that writes it.
RefreshList(s) ==
    /\ svc[s].pc = "refresh"
    /\ List(s)
    /\ svc' = [svc EXCEPT ![s].pc = "listed", ![s].todo = Views(broker')]
    /\ UNCHANGED <<volume, presence, revision, seen, queue, job>> /\ Unspent

\* Fault: a card that is gone keeps its row.
FaultReflected(views) ==
    [v \in DOMAIN presence \cup views |->
        IF v \in DOMAIN presence
        THEN [presence[v] EXCEPT !.live = @ \/ v \in views]
        ELSE [live |-> TRUE, scanned |-> FALSE, imported |-> FALSE]]

\* upsert_device and resolve_volume_instance for each listed volume.
Resolved(views) ==
    [i \in Ids |-> [volume[i] EXCEPT !.known = @ \/ \E v \in views : v.id = i]]

\* sync_presence for each listed volume and detach_absent for the others.
Reflected(views) ==
    [v \in DOMAIN presence \cup views |->
        IF v \in DOMAIN presence
        THEN [presence[v] EXCEPT !.live = v \in views]
        ELSE [live |-> TRUE, scanned |-> FALSE, imported |-> FALSE]]

RefreshReflect(s) ==
    /\ svc[s].pc = "listed"
    /\ presence' = Reflected(svc[s].todo)
    /\ volume' = Resolved(svc[s].todo)
    /\ svc' = [svc EXCEPT ![s].pc = "probing", ![s].defs = revision]
    /\ UNCHANGED <<brokerVars, revision, seen, queue, job>> /\ Unspent

\* Every volume is opened again to be judged: an open handle may show a card
\* that has left.
ProbeOpen(s, v) ==
    /\ svc[s].pc = "probing" /\ v \in svc[s].todo
    /\ Open(s, "probe", v)
    /\ svc' = [svc EXCEPT ![s].pc = "opening", ![s].todo = @ \ {v},
                          ![s].judged = [view |-> v, digest |-> volume[v.id].digest]]
    /\ UNCHANGED <<volume, presence, revision, seen, queue, job>> /\ Unspent

\* Fault: the other connections of the same identity are not looked for.
FaultConfidences(v, remembered, d) ==
    IF remembered = NoListing THEN {"low"}
    ELSE IF remembered = d THEN {"high"}
    ELSE {"high", "low"}

\* Is it the card of last time?  Another listing may still be "high" when enough
\* of the known files are there, or when another card has the same files.
Confidences(v, remembered, d) ==
    IF Twins(v) # {} \/ remembered = NoListing THEN {"low"}
    ELSE IF remembered = d THEN {"high"}
    ELSE {"high", "low"}

\* resolve_profile, with the definitions read when the probing began.
Outcome(c, defs) == Kind[c][defs]

\* _manifest_of: what the roots of the profile that matched, or DCIM, have.  The
\* names themselves stand for the card: one that a camera wrote to is another.
Listed(c, defs) ==
    [card |-> c, roots |-> IF Outcome(c, defs) = "none" THEN 0 ELSE Roots[defs]]

\* The descriptor is closed as soon as the card has been judged.
ProbeJudge(s) ==
    /\ svc[s].pc = "opening" /\ call[s].st = "given"
    /\ LET old == svc[s].judged
           c   == call[s].card
           d   == Listed(c, svc[s].defs)
       IN  \E conf \in Confidences(old.view, old.digest, d) :
               svc' = [svc EXCEPT ![s].pc = "judged", ![s].judged =
                          [view |-> old.view, digest |-> d, confidence |-> conf,
                           kind |-> Outcome(c, svc[s].defs)]]
    /\ Answered(s)
    /\ held' = Released(s, "probe")
    /\ UNCHANGED <<at, broker, up, volume, presence, revision, seen, queue, job>>
    /\ Unspent

\* The verdict is stored with the revision that is current now.
ProbeWrite(s) ==
    /\ svc[s].pc = "judged"
    /\ LET j   == svc[s].judged
           rev == IF j.kind = "none" THEN 0 ELSE revision
       IN  /\ volume' = [volume EXCEPT ![j.view.id] =
                 [@ EXCEPT !.digest = j.digest, !.confidence = j.confidence,
                           !.provisional = (j.kind = "provisional"), !.rev = rev]]
           /\ svc' = [svc EXCEPT ![s].pc = "probing", ![s].judged = Unprobed,
                         ![s].found = IF rev = 0 THEN @ ELSE @ \cup {j.view}]
    /\ UNCHANGED <<brokerVars, presence, revision, seen, queue, job>> /\ Unspent

RefreshDone(s) ==
    /\ svc[s].pc = "probing" /\ svc[s].todo = {}
    /\ svc' = [svc EXCEPT ![s] =
           CASE s = "watcher"       -> [Idle EXCEPT !.pc = "gone"]
             [] svc[s].for = "none" -> Idle
             [] OTHER               -> [svc[s] EXCEPT !.pc = "chosen"]]
    /\ UNCHANGED <<brokerVars, volume, presence, revision, seen, queue, job>> /\ Unspent

\* One open that is refused ends the whole refresh: the cards after it are not
\* judged, and a watcher that was in its tick skips the rest of it.
RefreshAborts(s) ==
    /\ svc[s].pc = "opening" /\ call[s].st = "refused"
    /\ Answered(s)
    /\ svc' = [svc EXCEPT ![s] = Idle]
    /\ UNCHANGED <<at, broker, up, held, volume, presence, revision, seen, queue, job>>
    /\ Unspent

(* ------------------------------- the screen ------------------------------ *)

\* GET /devices, and the first half of POST /volumes/{id}/scan and /import.
Look(for) ==
    /\ svc["api"].pc = "idle" /\ ApiFree
    /\ svc' = [svc EXCEPT !["api"].pc = "refresh", !["api"].for = for]
    /\ Spend("look")
    /\ UNCHANGED <<brokerVars, volume, presence, revision, seen, queue, job>>

Job(type, v) == [type |-> type, view |-> v]

\* selection_for, and the enqueue of the route: exactly one connection of the
\* volume may be there, and the job is pinned to it.
Choose ==
    /\ svc["api"].pc = "chosen"
    /\ LET matches == {v \in svc["api"].found : v.id = svc["api"].for}
       IN  queue' = IF Cardinality(matches) = 1
                    THEN queue \cup {Job("scan", v) : v \in matches}
                    ELSE queue
    /\ svc' = [svc EXCEPT !["api"] = Idle]
    /\ UNCHANGED <<brokerVars, volume, presence, revision, seen, job>> /\ Unspent

Trust(i) ==
    /\ volume[i].known /\ ~volume[i].trusted /\ ApiFree
    /\ volume' = [volume EXCEPT ![i].trusted = TRUE]
    /\ Spend("trust")
    /\ UNCHANGED <<brokerVars, presence, revision, svc, seen, queue, job>>

\* An edit of the profile makes a new revision the current one.
SaveProfile ==
    /\ revision < MaxRevision
    /\ revision' = revision + 1
    /\ Spend("save")
    /\ UNCHANGED <<brokerVars, volume, presence, svc, seen, queue, job>>

(* ------------------------------- the watcher ----------------------------- *)

\* Fault: the revision of the profile is not part of the token.
FaultToken(b) ==
    <<IF b.finger = {} THEN <<>> ELSE <<b.epoch, b.generation>>>>

\* The stamp of the list, or that the list was empty, and the current profiles.
Token(b) ==
    <<IF b.finger = {} THEN <<>> ELSE <<b.epoch, b.generation>>, revision>>

\* The token is remembered before the refresh it calls for.
Tick ==
    /\ svc["watcher"].pc = "idle"
    /\ List("watcher")
    /\ seen' = Token(broker')
    /\ svc' = [svc EXCEPT !["watcher"].pc = IF Token(broker') = seen THEN "gone"
                                                                    ELSE "refresh"]
    /\ UNCHANGED <<volume, presence, revision, queue, job>> /\ Unspent

\* The queued jobs of a connection that is gone are cancelled.
InvalidateGone ==
    /\ svc["watcher"].pc = "gone"
    /\ queue' = {j \in queue : j.view \notin DOMAIN presence \/ presence[j.view].live}
    /\ svc' = [svc EXCEPT !["watcher"].pc = "ready"]
    /\ UNCHANGED <<brokerVars, volume, presence, revision, seen, job>> /\ Unspent

ToCount == {v \in Live : ~presence[v].scanned /\ volume[v.id].rev = revision}

Candidates ==
    {v \in Live : /\ ~presence[v].imported
                  /\ volume[v.id].trusted
                  /\ volume[v.id].confidence = "high"
                  /\ ~volume[v.id].provisional
                  /\ volume[v.id].rev = revision}

\* Marks and jobs in one transaction, from the rows as they are now.
EnqueueReady ==
    /\ svc["watcher"].pc = "ready"
    /\ presence' = [v \in DOMAIN presence |->
           [presence[v] EXCEPT !.scanned = @ \/ v \in ToCount,
                               !.imported = @ \/ v \in Candidates]]
    /\ queue' = queue \cup {Job("scan", v) : v \in ToCount}
                      \cup {Job("import", v) : v \in Candidates}
    /\ svc' = [svc EXCEPT !["watcher"].pc = "idle"]
    /\ UNCHANGED <<brokerVars, volume, revision, seen, job>> /\ Unspent

(* -------------------------------- the job -------------------------------- *)

Claim(j) ==
    /\ job = NoJob /\ j \in queue
    /\ Spend("run")
    /\ queue' = queue \ {j}
    /\ job' = [st |-> "claimed", of |-> j, card |-> NoCard]
    /\ UNCHANGED <<brokerVars, volume, presence, revision, svc, seen>>

\* _match_selection: the connection has to be live and listed as it was when it
\* was selected, stamp included.
MatchSelection ==
    /\ job.st = "claimed" /\ ApiFree
    /\ IF job.of.view \in Live
       THEN /\ List("api")
            /\ job' = IF job.of.view \in Views(broker')
                      THEN [job EXCEPT !.st = "opening"] ELSE NoJob
       ELSE UNCHANGED brokerVars /\ job' = NoJob
    /\ UNCHANGED <<volume, presence, revision, svc, seen, queue>> /\ Unspent

JobOpen ==
    /\ job.st = "opening"
    /\ Open("api", "job", job.of.view)
    /\ UNCHANGED appVars /\ Unspent

JobOpened ==
    /\ job.st = "opening" /\ call["api"].st \in {"given", "refused"}
    /\ job' = IF call["api"].st = "given"
              THEN [job EXCEPT !.st = "holding", !.card = call["api"].card] ELSE NoJob
    /\ Answered("api")
    /\ UNCHANGED <<at, broker, up, held, volume, presence, revision, svc, seen, queue>>
    /\ Unspent

\* The job ends, well or not, and gives its card back.
Release ==
    /\ job.st = "holding" /\ ApiFree
    /\ job' = NoJob
    /\ held' = Released("api", "job")
    /\ UNCHANGED <<at, broker, call, up, volume, presence, revision, svc, seen, queue>>
    /\ Unspent

(* ----------------------------- from the outside -------------------------- *)

\* A card of the listed identity comes back to the node while the mount command,
\* which took another card there, still runs: no look can tell.
Exchanged(n, c) ==
    \E s \in Clients : /\ call[s].st = "mounted"
                       /\ call[s].view.node = n /\ call[s].view.id = Id[c]
                       /\ Id[call[s].card] # Id[c]

Move ==
    /\ \/ \E n \in Nodes, c \in Cards :
              /\ Insert(n, c)
              /\ spent' = IF Exchanged(n, c) THEN spent \cup {"exchange"} ELSE spent
       \/ \E n \in Nodes : Remove(n) /\ UNCHANGED spent
    /\ Charge("move")
    /\ UNCHANGED appVars

\* The mount command of a call fails, or gives no answer in time.
MountGoesWrong(s) ==
    /\ MountFails(s)
    /\ Spend("fault")
    /\ UNCHANGED appVars

\* Without a card it cannot do otherwise.
NothingToMount(s) ==
    /\ MountFails(s)
    /\ at[call[s].view.node] = NoCard
    /\ spent' = spent \cup {"fault"} /\ UNCHANGED left
    /\ UNCHANGED appVars

BrokerStops == BrokerRestarts /\ Spend("broker") /\ UNCHANGED appVars

\* Everything in memory is lost; rows and queued jobs stay.
AppStops ==
    /\ ClientsRestart
    /\ svc' = [s \in Services |-> Idle]
    /\ seen' = Never
    /\ job' = NoJob
    /\ Spend("app")
    /\ UNCHANGED <<volume, presence, revision, queue>>

\* The watcher asks too often to be dropped, the API does not.
GoesIdle ==
    /\ svc["api"].pc = "idle" /\ job = NoJob
    /\ IdleTimeout("api")
    /\ Spend("idle")
    /\ UNCHANGED appVars

(* ------------------------------------------------------------------------- *)

BrokerStep(s) ==
    \/ (Mount(s) \/ Verify(s)) /\ UNCHANGED appVars /\ Unspent
    \/ NothingToMount(s)

ServiceStep(s) ==
    \/ BrokerStep(s)
    \/ RefreshList(s) \/ RefreshReflect(s)
    \/ \E v \in svc[s].todo : ProbeOpen(s, v)
    \/ ProbeJudge(s) \/ ProbeWrite(s) \/ RefreshDone(s) \/ RefreshAborts(s)

WatcherStep == ServiceStep("watcher") \/ Tick \/ InvalidateGone \/ EnqueueReady

ApiStep ==
    \/ ServiceStep("api")
    \/ \E i \in Ids \cup {"none"} : Look(i)
    \/ Choose \/ (\E i \in Ids : Trust(i)) \/ SaveProfile

JobStep ==
    \/ \E j \in queue : Claim(j)
    \/ MatchSelection \/ JobOpen \/ JobOpened \/ Release

Outside ==
    \/ Move \/ (\E s \in Clients : MountGoesWrong(s)) \/ GoesIdle
    \/ BrokerStops \/ AppStops

Next == WatcherStep \/ ApiStep \/ JobStep \/ Outside

Spec == Init /\ [][Next]_vars

\* The watcher is a task that is started again after every error.
FairSpec == Spec /\ WF_vars(WatcherStep)

(* ------------------------------- properties ------------------------------ *)

\* Types of the rows, and that a service waits for the broker exactly in the
\* steps in which its code does.
TypeOK ==
    /\ at \in [Nodes -> Cards \cup {NoCard}]
    /\ \A n, m \in Nodes : at[n] = at[m] /\ at[n] # NoCard => n = m
    /\ Views(broker) \subseteq AView
    /\ DOMAIN presence \subseteq AView
    /\ \A v \in DOMAIN presence :
           presence[v] \in [live : BOOLEAN, scanned : BOOLEAN, imported : BOOLEAN]
    /\ volume \in [Ids -> [known : BOOLEAN, digest : Listing,
                           trusted : BOOLEAN, confidence : {"low", "high"},
                           provisional : BOOLEAN, rev : 0..MaxRevision]]
    /\ \A j \in queue : j.type \in {"scan", "import"} /\ j.view \in DOMAIN presence
    /\ \A s \in Clients : call[s] # NoCall =>
           CASE call[s].use = "probe" -> svc[s].pc = "opening"
             [] call[s].use = "job"   -> s = "api" /\ job.st = "opening"

\* A card that is read is a card of the identity that was asked for: the job
\* gets the volume it was queued for and a verdict is stored for the volume it
\* is about, although cards change places between list, mount and answer.  Only a
\* card that was exchanged and put back within one mount call escapes both looks.
OpenedIsSelected ==
    "exchange" \notin spent =>
    /\ job.st = "holding" => Id[job.card] = job.of.view.id
    /\ \A s \in Services :
           svc[s].pc = "judged" => Id[svc[s].judged.digest.card] = svc[s].judged.view.id

\* The broker keeps no handle that nobody uses: a probe's lives while its call
\* is answered, a job's until the job ends, whichever way either of them ends
\* and whoever restarts in between.  A handle kept pins the card's filesystem.
NothingLeaks ==
    \A s \in Clients :
        /\ "probe" \in held[s] => svc[s].pc = "opening" /\ call[s].st = "given"
        /\ "job" \in held[s] => s = "api" /\ job.st \in {"opening", "holding"}

Undisturbed == spent = {}

\* Two cards of one identity that are in at the same time are never imported by
\* themselves: the watcher judges them after both rows are live, so that neither
\* is taken for the card that was trusted.  A row the broker no longer lists as it
\* is does not count: the job that is queued for it finds no card.  It takes a
\* refresh of the watcher that comes to its end: where the broker refuses a card
\* (Allowed leaves an identity out) or the screen looks in between, a copy may be
\* imported with the verdict of before (README).
TwinsWait ==
    [][\A v \in DOMAIN presence :
          Job("import", v) \in queue' \ queue =>
              Twins(v) = {} \/ v \notin Views(broker) \/ ~Undisturbed]_vars

Counted(n, i) ==
    \E v \in Live : /\ v \in Views(broker) /\ v.node = n /\ v.id = i
                    /\ presence[v].scanned

\* A card the profile knows, once it stays in, has its scan queued for the
\* connection the broker reports now: after any plugging and unplugging, a
\* restart of either process and an edit of the profile.
CardIsCounted ==
    \A n \in Nodes, c \in Cards :
        <>[](at[n] = c /\ Undisturbed /\ Kind[c][revision] # "none")
            => <>[]Counted(n, Id[c])

Alone(c) == \A m \in Nodes : at[m] # NoCard /\ Id[at[m]] = Id[c] => at[m] = c

\* A card that was approved, before or while it is in, only has to be there: as
\* long as no copy of it has been, its import is queued for the connection it
\* stays at, on whichever node it ends up and however often it was moved.  It is
\* the card that was remembered, listed below the same roots ever since: an edit
\* of the roots makes another card of it, which has to be seen once more.
TrustedIsImported ==
    \A n \in Nodes, c \in Cards :
        /\ \A r \in 1..MaxRevision : volume[Id[c]].digest = Listed(c, r)
        /\ []Alone(c)
        /\ <>[](/\ at[n] = c /\ volume[Id[c]].trusted
                /\ Undisturbed /\ Kind[c][revision] = "sure")
        => <>[](\E v \in Live : /\ v \in Views(broker) /\ v.node = n
                               /\ v.id = Id[c] /\ presence[v].imported)

\* CardIsCounted without the exception.
EveryCardIsCounted ==
    \A n \in Nodes, c \in Cards :
        <>[](at[n] = c /\ Id[c] \in Allowed /\ Kind[c][revision] # "none")
            => <>[]Counted(n, Id[c])

\* A connection is marked as gone only when the newest list no longer has it,
\* whoever took that list.
OnlyTheGoneIsDetached ==
    [][\A v \in Live : v \notin Live' => v \notin Views(broker)]_vars

=============================================================================
