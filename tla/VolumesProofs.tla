--------------------------- MODULE VolumesProofs ---------------------------
(***************************************************************************)
(* Proofs about the broker and the volumes: the types, that the card read  *)
(* is the card asked for, and that no handle stays behind.                 *)
(***************************************************************************)
EXTENDS Volumes, TLAPS

-----------------------------------------------------------------------------
(* The inductive invariant                                                 *)

Broker == [epoch : Nat, generation : Nat, looked : BOOLEAN, finger : SUBSET (Nodes \X Ids)]
Volume == [known : BOOLEAN, digest : Listing, trusted : BOOLEAN,
           confidence : {"low", "high"}, provisional : BOOLEAN, rev : 0..MaxRevision]
Presence == [live : BOOLEAN, scanned : BOOLEAN, imported : BOOLEAN]
AJob == [type : {"scan", "import"}, view : AView]

Calls   == [st : {"accepted", "mounted", "given", "refused"}, use : {"probe", "job"},
            view : AView, card : Cards \cup {NoCard}]
Running == [st : {"claimed", "opening", "holding"}, of : AJob, card : Cards \cup {NoCard}]

Kinds   == {"none", "provisional", "sure"}
Probe   == [view : AView, digest : Listing]
OfCard  == [card : Cards, roots : Nat]
Verdict == [view : AView, digest : OfCard, confidence : {"low", "high"}, kind : Kinds]
Service == [pc : {"idle", "refresh", "listed", "probing", "opening", "judged", "chosen",
                  "gone", "ready"},
            for : Ids \cup {"none"}, todo : SUBSET AView, defs : 0..MaxRevision,
            found : SUBSET AView, judged : {Unprobed} \cup Probe \cup Verdict]

MachineFits ==
    /\ at \in [Nodes -> Cards \cup {NoCard}]
    /\ \A n, m \in Nodes : at[n] = at[m] /\ at[n] # NoCard => n = m
    /\ broker \in Broker
    /\ up \in [Clients -> BOOLEAN]
    /\ held \in [Clients -> SUBSET {"probe", "job"}]

RowsFit ==
    /\ volume \in [Ids -> Volume]
    /\ DOMAIN presence \subseteq AView
    /\ \A v \in DOMAIN presence : presence[v] \in Presence
    /\ revision \in 1..MaxRevision
    /\ queue \subseteq AJob
    /\ \A j \in queue : j.view \in DOMAIN presence

\* What a refresh has in hand has rows.
ServiceFits(s) ==
    /\ svc[s] \in Service
    /\ svc[s].found \subseteq DOMAIN presence
    /\ svc[s].pc \in {"probing", "opening", "judged"} =>
           svc[s].defs # 0 /\ svc[s].todo \subseteq DOMAIN presence
    /\ svc[s].pc = "opening" => svc[s].judged \in Probe
    /\ svc[s].pc = "judged" => svc[s].judged \in Verdict
    /\ svc[s].pc \in {"opening", "judged"} => svc[s].judged.view \in DOMAIN presence

ServicesFit == DOMAIN svc = Services /\ \A s \in Services : ServiceFits(s)

\* A call is waited for by whoever made it, for the volume he has in hand.
CallFits(s) ==
    /\ call[s] \in {NoCall} \cup Calls
    /\ call[s].st \in {"mounted", "given"} => call[s].card \in Cards
    /\ call[s] # NoCall /\ call[s].use = "probe" =>
           svc[s].pc = "opening" /\ svc[s].judged.view = call[s].view
    /\ call[s] # NoCall /\ call[s].use = "job" =>
           s = "api" /\ job.st = "opening" /\ job.of.view = call[s].view
    /\ svc[s].pc = "opening" => call[s] # NoCall /\ call[s].use = "probe"

CallsFit == DOMAIN call = Clients /\ \A s \in Clients : CallFits(s)

\* While a job opens its card it has the lock, and the API's service does not.
JobFits ==
    /\ job \in {NoJob} \cup Running
    /\ job.st = "opening" => svc["api"].pc \in {"idle", "chosen"}
    /\ job.st = "holding" => job.card \in Cards

\* The broker keeps a handle for an answer that is under way or a running job.
HandleFits(s) ==
    /\ "probe" \in held[s] => call[s].st = "given" /\ call[s].use = "probe"
    /\ "job" \in held[s] =>
           \/ s = "api" /\ job.st = "holding"
           \/ call[s].st = "given" /\ call[s].use = "job"

HandlesFit == \A s \in Clients : HandleFits(s)

\* A mount of the wrong card is found out by the second look, unless the right
\* one has come back meanwhile.
MountFits(s) ==
    /\ call[s].st = "mounted" /\ Id[call[s].card] # call[s].view.id =>
           at[call[s].view.node] = NoCard \/ Id[at[call[s].view.node]] # call[s].view.id
    /\ call[s].st = "given" => Id[call[s].card] = call[s].view.id

MountsFit == "exchange" \notin spent => \A s \in Clients : MountFits(s)

IInv == /\ MachineFits /\ RowsFit /\ ServicesFit /\ CallsFit /\ JobFits
        /\ HandlesFit /\ MountsFit /\ OpenedIsSelected

-----------------------------------------------------------------------------
(* The broker *)

\* What the broker sees is what is in, whether its stamp moves or not.
LEMMA ObservedFits ==
    ASSUME MachineFits
    PROVE  /\ Observed \in Broker
           /\ Views(Observed) \subseteq AView
           /\ \A v \in Views(Observed) : at[v.node] # NoCard /\ Id[at[v.node]] = v.id
<1>1. Fingerprint \in SUBSET (Nodes \X Ids)
  BY BrokerAssumption DEF MachineFits, Fingerprint
<1>2. Observed \in Broker /\ Observed.finger = Fingerprint
  <2>1. broker \in Broker
    BY DEF MachineFits
  <2>2. CASE broker.looked /\ broker.finger = Fingerprint
    BY <2>1, <2>2 DEF Observed
  <2>3. CASE ~(broker.looked /\ broker.finger = Fingerprint)
    <3>1. Observed = [broker EXCEPT !.looked = TRUE, !.finger = Fingerprint,
                                    !.generation = @ + 1]
      BY <2>3, Zenon DEF Observed
    <3>2. Observed = [epoch |-> broker.epoch, generation |-> broker.generation + 1,
                      looked |-> TRUE, finger |-> Fingerprint]
      BY <2>1, <3>1 DEF Broker
    <3> QED
      BY <1>1, <2>1, <3>2 DEF Broker
  <2> QED
    BY <2>2, <2>3
<1>3. ASSUME NEW v \in Views(Observed)
      PROVE  v \in AView /\ at[v.node] # NoCard /\ Id[at[v.node]] = v.id
  <2>1. PICK f \in Fingerprint :
            v = [epoch |-> Observed.epoch, generation |-> Observed.generation,
                 node |-> f[1], id |-> f[2]]
    BY <1>2 DEF Views
  <2>2. PICK n \in Nodes : at[n] # NoCard /\ f = <<n, Id[at[n]]>>
    BY DEF Fingerprint
  <2>3. Id[at[n]] \in Ids
    BY BrokerAssumption, <2>2 DEF MachineFits
  <2> QED
    BY <1>2, <2>1, <2>2, <2>3 DEF Broker, AView
<1> QED
  BY <1>2, <1>3

\* A list leaves the machine as it is.
LEMMA ListFits ==
    ASSUME MachineFits, NEW s \in Clients, List(s)
    PROVE  MachineFits' /\ Views(broker') \subseteq AView
<1>1. broker' = Observed /\ broker' \in Broker
  BY ObservedFits DEF List
<1>2. Views(broker') \subseteq AView
  BY ObservedFits DEF List, Views
<1>3. up' \in [Clients -> BOOLEAN] /\ UNCHANGED <<at, held>>
  BY DEF MachineFits, List, Reconnected
<1> QED
  BY <1>1, <1>2, <1>3 DEF MachineFits

\* An answer under way changes, for the same volume and the same use.
LEMMA AnswerFits ==
    ASSUME CallsFit, NEW s \in Clients,
           DOMAIN call' = Clients,
           \A t \in Clients : t # s => call'[t] = call[t],
           call[s] # NoCall, call'[s] \in Calls,
           call'[s].use = call[s].use, call'[s].view = call[s].view,
           call'[s].st \in {"mounted", "given"} => call'[s].card \in Cards,
           UNCHANGED <<svc, job>>
    PROVE  CallsFit'
<1>1. call'[s] # NoCall
  BY DEF Calls, NoCall
<1>2. CallFits(s)'
  BY <1>1 DEF CallsFit, CallFits
<1>3. ASSUME NEW t \in Clients, t # s PROVE CallFits(t)'
  BY <1>3 DEF CallsFit, CallFits
<1> QED
  BY <1>2, <1>3 DEF CallsFit

\* The rows, the services and the job do not depend on the machine.
LEMMA RestFits ==
    ASSUME IInv, UNCHANGED appVars
    PROVE  RowsFit' /\ ServicesFit' /\ JobFits'
<1> QED
  BY DEF IInv, appVars, RowsFit, ServicesFit, ServiceFits, JobFits

LEMMA OpenedKept ==
    ASSUME OpenedIsSelected, UNCHANGED <<svc, job>>, spent \subseteq spent'
    PROVE  OpenedIsSelected'
<1> QED
  BY DEF OpenedIsSelected

LEMMA MountStep ==
    ASSUME IInv, NEW s \in Clients, Mount(s), UNCHANGED appVars, Unspent
    PROVE  IInv'
<1>1. call[s] \in Calls /\ call[s] # NoCall
  BY DEF IInv, CallsFit, CallFits, Mount, NoCall
<1>2. PICK n \in Nodes : n = call[s].view.node /\ at[n] \in Cards
  BY <1>1 DEF Calls, AView, Mount, IInv, MachineFits
<1>3. /\ DOMAIN call' = Clients
      /\ \A t \in Clients : t # s => call'[t] = call[t]
      /\ call'[s] \in Calls /\ call'[s].st = "mounted" /\ call'[s].card = at[n]
      /\ call'[s].use = call[s].use /\ call'[s].view = call[s].view
  BY <1>1, <1>2 DEF Mount, Clone, IInv, CallsFit, Calls
<1>4. MachineFits'
  BY DEF IInv, MachineFits, Mount
<1>5. CallsFit'
  BY <1>1, <1>2, <1>3, AnswerFits DEF IInv, appVars
<1>6. HandlesFit'
  BY <1>3 DEF IInv, HandlesFit, HandleFits, Mount, appVars
<1>7. MountsFit'
  <2>1. UNCHANGED <<at, spent>> /\ MountsFit
    BY DEF Mount, Unspent, IInv
  <2>2. MountFits(s)'
    BY <1>2, <1>3, <2>1 DEF MountFits
  <2>3. ASSUME NEW t \in Clients, t # s, MountFits(t) PROVE MountFits(t)'
    BY <1>3, <2>1, <2>3 DEF MountFits
  <2> QED
    BY <2>1, <2>2, <2>3 DEF MountsFit
<1> QED
  BY <1>4, <1>5, <1>6, <1>7, RestFits, OpenedKept DEF IInv, Unspent, appVars

LEMMA VerifyStep ==
    ASSUME IInv, NEW s \in Clients, Verify(s), UNCHANGED appVars, Unspent
    PROVE  IInv'
<1>1. call[s] \in Calls /\ call[s] # NoCall /\ call[s].card \in Cards
  BY DEF IInv, CallsFit, CallFits, Verify, NoCall
<1> DEFINE same == call[s].view \in Views(Observed)
<1>3. /\ DOMAIN call' = Clients
      /\ \A t \in Clients : t # s => call'[t] = call[t]
      /\ call'[s] \in Calls
      /\ call'[s].st = IF same THEN "given" ELSE "refused"
      /\ call'[s].card = call[s].card
      /\ call'[s].use = call[s].use /\ call'[s].view = call[s].view
  BY <1>1 DEF Verify, IInv, CallsFit, Calls
<1>4. /\ DOMAIN held' = Clients
      /\ \A t \in Clients : t # s => held'[t] = held[t]
      /\ held'[s] = IF same THEN held[s] \cup {call[s].use} ELSE held[s]
  BY DEF Verify, IInv, MachineFits
<1>5. MachineFits'
  <2>1. held' \in [Clients -> SUBSET {"probe", "job"}]
    BY <1>1, <1>4 DEF Verify, Calls, IInv, MachineFits
  <2>2. broker' \in Broker
    BY ObservedFits DEF IInv, Verify
  <2> QED
    BY <2>1, <2>2 DEF IInv, MachineFits, Verify
<1>6. CallsFit'
  BY <1>1, <1>3, AnswerFits DEF IInv, appVars
<1>7. HandlesFit'
  BY <1>1, <1>3, <1>4 DEF IInv, HandlesFit, HandleFits, Calls, appVars, Verify
<1>8. MountsFit'
  <2>1. same =>
            /\ at[call[s].view.node] # NoCard
            /\ Id[at[call[s].view.node]] = call[s].view.id
    BY ObservedFits DEF IInv
  <2>2. UNCHANGED <<at, spent>> /\ MountsFit /\ call[s].st = "mounted"
    BY DEF Verify, Unspent, IInv
  <2>3. ASSUME MountFits(s) PROVE MountFits(s)'
    BY <1>3, <2>1, <2>2, <2>3 DEF MountFits
  <2>4. ASSUME NEW t \in Clients, t # s, MountFits(t) PROVE MountFits(t)'
    BY <1>3, <2>2, <2>4 DEF MountFits
  <2> QED
    BY <2>2, <2>3, <2>4 DEF MountsFit
<1> QED
  BY <1>5, <1>6, <1>7, <1>8, RestFits, OpenedKept DEF IInv, Unspent, appVars

LEMMA MountFailsStep ==
    ASSUME IInv, NEW s \in Clients, MountFails(s), UNCHANGED appVars,
           "exchange" \in spent => "exchange" \in spent'
    PROVE  IInv'
<1>1. call[s] \in Calls /\ call[s] # NoCall
  BY DEF IInv, CallsFit, CallFits, MountFails, NoCall
<1>2. /\ DOMAIN call' = Clients
      /\ \A t \in Clients : t # s => call'[t] = call[t]
      /\ call'[s] \in Calls /\ call'[s].st = "refused"
      /\ call'[s].use = call[s].use /\ call'[s].view = call[s].view
  BY <1>1 DEF MountFails, IInv, CallsFit, Calls
<1>3. MachineFits'
  BY DEF IInv, MachineFits, MountFails
<1>4. CallsFit'
  BY <1>1, <1>2, AnswerFits DEF IInv, appVars
<1>5. HandlesFit'
  BY <1>2 DEF IInv, HandlesFit, HandleFits, MountFails, appVars
<1>6. MountsFit'
  BY <1>2 DEF IInv, MountsFit, MountFits, MountFails
<1>7. OpenedIsSelected'
  BY DEF IInv, OpenedIsSelected, appVars
<1> QED
  BY <1>3, <1>4, <1>5, <1>6, <1>7, RestFits DEF IInv

LEMMA MoveStep == ASSUME IInv, Move PROVE IInv'
<1>1. /\ UNCHANGED <<broker, call, up, held, svc, job>> /\ UNCHANGED appVars
      /\ "exchange" \in spent => "exchange" \in spent'
  BY DEF Move, Insert, Remove, appVars
<1>2. MachineFits'
  <2>1. ASSUME NEW n \in Nodes, NEW c \in Cards, Insert(n, c) PROVE MachineFits'
    BY <2>1, <1>1, BrokerAssumption DEF Insert, IInv, MachineFits
  <2>2. ASSUME NEW n \in Nodes, Remove(n) PROVE MachineFits'
    BY <2>2, <1>1 DEF Remove, IInv, MachineFits
  <2> QED
    BY <2>1, <2>2 DEF Move
<1>3. CallsFit' /\ HandlesFit' /\ OpenedIsSelected'
  BY <1>1 DEF IInv, CallsFit, CallFits, HandlesFit, HandleFits, OpenedIsSelected
<1>4. ASSUME NEW n \in Nodes, NEW c \in Cards, Insert(n, c),
             spent' = IF Exchanged(n, c) THEN spent \cup {"exchange"} ELSE spent
      PROVE  MountsFit'
  <2>1. CASE Exchanged(n, c)
    BY <1>4, <2>1 DEF MountsFit
  <2>2. ASSUME ~Exchanged(n, c), NEW s \in Clients, MountFits(s)
        PROVE  MountFits(s)'
    <3>1. /\ at' = [at EXCEPT ![n] = c] /\ at[n] = NoCard
          /\ at \in [Nodes -> Cards \cup {NoCard}] /\ call' = call
      BY <1>4, <1>1 DEF Insert, IInv, MachineFits
    <3>2. call[s].st = "mounted" /\ call[s].view.node = n /\ Id[call[s].card] # Id[c]
              => call[s].view.id # Id[c]
      BY <2>2 DEF Exchanged
    <3> QED
      BY <2>2, <3>1, <3>2 DEF MountFits
  <2> QED
    BY <1>4, <2>1, <2>2 DEF IInv, MountsFit
<1>5. ASSUME NEW n \in Nodes, Remove(n), UNCHANGED spent
      PROVE  MountsFit'
  BY <1>1, <1>5 DEF Remove, IInv, MachineFits, MountsFit, MountFits
<1>6. MountsFit'
  BY <1>4, <1>5 DEF Move
<1> QED
  BY <1>1, <1>2, <1>3, <1>6, RestFits DEF IInv

\* A broker that starts again ends every call that has no answer yet.
LEMMA BrokerStopsStep == ASSUME IInv, BrokerStops PROVE IInv'
<1>1. /\ UNCHANGED <<at, svc, job>> /\ UNCHANGED appVars /\ spent \subseteq spent'
      /\ held' = [s \in Clients |-> {}]
  BY DEF BrokerStops, BrokerRestarts, appVars, Spend
<1>2. DOMAIN call' = Clients
  BY DEF BrokerStops, BrokerRestarts
<1>3. ASSUME NEW s \in Clients
      PROVE  \/ call'[s] = call[s] /\ (call[s] = NoCall \/ call[s].st = "given")
             \/ /\ call[s] \in Calls /\ call'[s] \in Calls /\ call'[s] # NoCall
                /\ call[s] # NoCall
                /\ call'[s].st = "refused"
                /\ call'[s].use = call[s].use /\ call'[s].view = call[s].view
  <2>1. call'[s] = IF call[s] = NoCall \/ call[s].st = "given"
                   THEN call[s] ELSE [call[s] EXCEPT !.st = "refused"]
    BY DEF BrokerStops, BrokerRestarts
  <2>2. CASE call[s] = NoCall \/ call[s].st = "given"
    BY <2>1, <2>2
  <2>3. CASE ~(call[s] = NoCall \/ call[s].st = "given")
    <3>1. call[s] \in Calls
      BY <2>3 DEF IInv, CallsFit, CallFits
    <3>2. /\ call'[s] \in Calls /\ call'[s].st = "refused"
          /\ call'[s].use = call[s].use /\ call'[s].view = call[s].view
      BY <2>1, <2>3, <3>1 DEF Calls
    <3>3. call'[s] # NoCall
      BY <3>2 DEF NoCall
    <3> QED
      BY <2>3, <3>1, <3>2, <3>3
  <2> QED
    BY <2>2, <2>3
<1>4. MachineFits'
  <2>1. broker' \in Broker
    BY DEF BrokerStops, BrokerRestarts, IInv, MachineFits, Broker
  <2>2. up' \in [Clients -> BOOLEAN]
    BY DEF BrokerStops, BrokerRestarts
  <2> QED
    BY <1>1, <2>1, <2>2 DEF IInv, MachineFits
<1>5. ASSUME NEW s \in Clients PROVE CallFits(s)'
  <2>1. CallFits(s)
    BY DEF IInv, CallsFit
  <2> QED
    BY <1>1, <1>3, <2>1 DEF CallFits
<1>6. CallsFit'
  BY <1>2, <1>5 DEF CallsFit
<1>7. HandlesFit'
  BY <1>1 DEF HandlesFit, HandleFits
<1>8. MountsFit'
  <2>1. ASSUME NEW s \in Clients, MountFits(s) PROVE MountFits(s)'
    BY <1>1, <1>3, <2>1 DEF MountFits
  <2> QED
    BY <1>1, <2>1 DEF IInv, MountsFit
<1> QED
  BY <1>1, <1>4, <1>6, <1>7, <1>8, RestFits, OpenedKept DEF IInv

LEMMA IdleFits == Idle \in Service /\ Idle.pc = "idle" /\ Idle.found = {}
<1> QED
  BY VolumesAssumption DEF Idle, Service

\* After a restart of the application nobody waits for anything.
LEMMA AppStopsStep == ASSUME IInv, AppStops PROVE IInv'
<1>1. /\ UNCHANGED <<at, broker, volume, presence, revision, queue>>
      /\ spent \subseteq spent' /\ held' = [s \in Clients |-> {}]
      /\ call' = [s \in Clients |-> NoCall] /\ job' = NoJob
      /\ svc' = [s \in Services |-> Idle] /\ up' = [s \in Clients |-> TRUE]
  BY DEF AppStops, ClientsRestart, Spend
<1>2. MachineFits' /\ RowsFit'
  BY <1>1 DEF IInv, MachineFits, RowsFit
<1>3. ServicesFit'
  BY <1>1, IdleFits DEF ServicesFit, ServiceFits
<1>4. CallsFit'
  BY <1>1, IdleFits, VolumesAssumption DEF CallsFit, CallFits, NoCall, Services
<1>5. JobFits'
  BY <1>1, IdleFits DEF JobFits, NoJob, Services
<1>6. HandlesFit' /\ MountsFit'
  BY <1>1 DEF HandlesFit, HandleFits, MountsFit, MountFits, NoCall
<1>7. OpenedIsSelected'
  BY <1>1, IdleFits DEF OpenedIsSelected, NoJob
<1> QED
  BY <1>2, <1>3, <1>4, <1>5, <1>6, <1>7 DEF IInv

LEMMA GoesIdleStep == ASSUME IInv, GoesIdle PROVE IInv'
<1>1. /\ UNCHANGED <<at, broker, call, held, svc, job>> /\ UNCHANGED appVars
      /\ spent \subseteq spent'
  BY DEF GoesIdle, IdleTimeout, appVars, Spend
<1>2. MachineFits'
  BY <1>1 DEF GoesIdle, IdleTimeout, IInv, MachineFits
<1>3. CallsFit' /\ HandlesFit' /\ MountsFit'
  BY <1>1 DEF IInv, CallsFit, CallFits, HandlesFit, HandleFits, MountsFit, MountFits
<1> QED
  BY <1>1, <1>2, <1>3, RestFits, OpenedKept DEF IInv

-----------------------------------------------------------------------------
(* A refresh *)

\* A service that goes on without a call of its own disturbs nobody.
LEMMA ServiceMoves ==
    ASSUME IInv, NEW s \in Services,
           UNCHANGED <<at, call, held, job>>, spent \subseteq spent',
           DOMAIN svc' = Services,
           \A t \in Services : t # s => svc'[t] = svc[t],
           svc[s].pc # "opening", svc'[s].pc \notin {"opening", "judged"},
           \/ job.st # "opening"
           \/ svc'[s].pc \in {"idle", "chosen"} \/ svc[s].pc \notin {"idle", "chosen"}
           \/ s # "api",
           DOMAIN presence \subseteq DOMAIN presence', ServiceFits(s)'
    PROVE  ServicesFit' /\ CallsFit' /\ JobFits' /\ HandlesFit' /\ MountsFit'
               /\ OpenedIsSelected'
<1>1. ServicesFit'
  <2>1. ASSUME NEW t \in Services, t # s, ServiceFits(t) PROVE ServiceFits(t)'
    BY <2>1 DEF ServiceFits
  <2> QED
    BY <2>1 DEF IInv, ServicesFit
<1>2. CallsFit'
  <2>1. ASSUME NEW t \in Clients, CallFits(t) PROVE CallFits(t)'
    BY <2>1, VolumesAssumption DEF CallFits, Services
  <2> QED
    BY <2>1 DEF IInv, CallsFit
<1>3. JobFits'
  BY DEF IInv, JobFits, Services
<1>4. HandlesFit' /\ MountsFit'
  BY DEF IInv, HandlesFit, HandleFits, MountsFit, MountFits
<1>5. OpenedIsSelected'
  BY DEF IInv, OpenedIsSelected
<1> QED
  BY <1>1, <1>2, <1>3, <1>4, <1>5

LEMMA RefreshListStep ==
    ASSUME IInv, NEW s \in Services, RefreshList(s)
    PROVE  IInv'
<1>1. MachineFits' /\ Views(broker') \subseteq AView
  BY ListFits, VolumesAssumption DEF RefreshList, IInv, Services
<1>2. /\ UNCHANGED <<at, call, held, job>> /\ spent' = spent
      /\ UNCHANGED <<volume, presence, revision, queue>>
      /\ svc[s].pc = "refresh"
  BY DEF RefreshList, List, Unspent
<1>3. svc[s] \in Service /\ ServiceFits(s) /\ DOMAIN svc = Services
  BY DEF IInv, ServicesFit, ServiceFits
<1>4. /\ DOMAIN svc' = Services
      /\ \A t \in Services : t # s => svc'[t] = svc[t]
      /\ svc'[s] = [svc[s] EXCEPT !.pc = "listed", !.todo = Views(broker')]
  BY <1>3 DEF RefreshList
<1>5. /\ svc'[s] \in Service /\ svc'[s].pc = "listed"
      /\ svc'[s].found = svc[s].found
  BY <1>1, <1>3, <1>4 DEF Service
<1>6. RowsFit'
  BY <1>2 DEF IInv, RowsFit
<1>7. ServiceFits(s)'
  BY <1>2, <1>3, <1>5 DEF ServiceFits
<1> QED
  BY <1>1, <1>2, <1>4, <1>5, <1>6, <1>7, ServiceMoves DEF IInv

LEMMA RefreshReflectStep ==
    ASSUME IInv, NEW s \in Services, RefreshReflect(s)
    PROVE  IInv'
<1>1. /\ UNCHANGED <<at, broker, call, up, held, job, revision, queue>> /\ spent' = spent
      /\ svc[s].pc = "listed"
  BY DEF RefreshReflect, Unspent, brokerVars
<1>2. svc[s] \in Service /\ ServiceFits(s) /\ DOMAIN svc = Services
  BY DEF IInv, ServicesFit, ServiceFits
<1>3. svc[s].todo \subseteq AView /\ revision \in 1..MaxRevision /\ MaxRevision \in Nat
  BY <1>2, VolumesAssumption DEF Service, IInv, RowsFit
<1>4. /\ DOMAIN presence' = DOMAIN presence \cup svc[s].todo
      /\ \A v \in DOMAIN presence' : presence'[v] \in Presence
      /\ volume' \in [Ids -> Volume]
  <2>1. DOMAIN presence' = DOMAIN presence \cup svc[s].todo
    BY DEF RefreshReflect, Reflected
  <2>2. ASSUME NEW v \in DOMAIN presence' PROVE presence'[v] \in Presence
    <3>1. CASE v \in DOMAIN presence
      <4>1. presence[v] \in Presence
        BY <3>1 DEF IInv, RowsFit
      <4> DEFINE k == v \in svc[s].todo
      <4>2. presence'[v] = [presence[v] EXCEPT !.live = k]
        BY <2>1, <2>2, <3>1 DEF RefreshReflect, Reflected
      <4>3. k \in BOOLEAN
        OBVIOUS
      <4> HIDE DEF k
      <4> QED
        BY <4>1, <4>2, <4>3 DEF Presence
    <3>2. CASE v \notin DOMAIN presence
      BY <2>1, <2>2, <3>2 DEF RefreshReflect, Reflected, Presence
    <3> QED
      BY <3>1, <3>2
  <2>3. ASSUME NEW i \in Ids PROVE volume'[i] \in Volume
    <3>1. volume[i] \in Volume
      BY DEF IInv, RowsFit
    <3>2. PICK k \in BOOLEAN : volume'[i] = [volume[i] EXCEPT !.known = k]
      <4>1. volume[i].known \in BOOLEAN
        BY <3>1 DEF Volume
      <4> DEFINE k == volume[i].known \/ \E v \in svc[s].todo : v.id = i
      <4>2. k \in BOOLEAN
        BY <4>1
      <4>3. volume'[i] = [volume[i] EXCEPT !.known = k]
        BY DEF RefreshReflect, Resolved
      <4> QED
        BY <4>2, <4>3
    <3> QED
      BY <3>1, <3>2 DEF Volume
  <2>4. volume' = [i \in Ids |-> volume'[i]]
    BY DEF RefreshReflect, Resolved
  <2> QED
    BY <2>1, <2>2, <2>3, <2>4
<1>5. /\ DOMAIN svc' = Services
      /\ \A t \in Services : t # s => svc'[t] = svc[t]
      /\ svc'[s] = [svc[s] EXCEPT !.pc = "probing", !.defs = revision]
  BY <1>2 DEF RefreshReflect
<1>6. /\ svc'[s] \in Service /\ svc'[s].pc = "probing" /\ svc'[s].defs # 0
      /\ svc'[s].found = svc[s].found /\ svc'[s].todo = svc[s].todo
  <2>1. revision \in 0..MaxRevision /\ revision # 0
    BY <1>3
  <2>2. /\ svc'[s].pc = "probing" /\ svc'[s].defs = revision
        /\ svc'[s].found = svc[s].found /\ svc'[s].todo = svc[s].todo
    BY <1>2, <1>5 DEF Service
  <2>3. svc'[s] \in Service
    BY <1>2, <1>5, <2>1 DEF Service
  <2> QED
    BY <2>1, <2>2, <2>3
<1>7. MachineFits'
  BY <1>1 DEF IInv, MachineFits
<1>8. RowsFit'
  BY <1>1, <1>3, <1>4 DEF IInv, RowsFit
<1>9. ServiceFits(s)'
  BY <1>2, <1>4, <1>6 DEF ServiceFits
<1> QED
  BY <1>1, <1>4, <1>5, <1>6, <1>7, <1>8, <1>9, ServiceMoves DEF IInv

LEMMA ProbeWriteStep ==
    ASSUME IInv, NEW s \in Services, ProbeWrite(s)
    PROVE  IInv'
<1>1. /\ UNCHANGED <<at, broker, call, up, held, job, presence, revision, queue>>
      /\ spent' = spent /\ svc[s].pc = "judged"
  BY DEF ProbeWrite, Unspent, brokerVars
<1>2. svc[s] \in Service /\ ServiceFits(s) /\ DOMAIN svc = Services
  BY DEF IInv, ServicesFit, ServiceFits
<1>3. svc[s].judged \in Verdict /\ svc[s].judged.view \in DOMAIN presence
  BY <1>1, <1>2 DEF ServiceFits
<1> DEFINE j   == svc[s].judged
           rev == IF j.kind = "none" THEN 0 ELSE revision
<1>4. /\ j.view \in AView /\ j.view.id \in Ids /\ j.digest \in OfCard /\ OfCard \subseteq Listing
      /\ j.confidence \in {"low", "high"} /\ rev \in 0..MaxRevision
  BY <1>3, VolumesAssumption DEF Verdict, AView, IInv, RowsFit, OfCard, Listing
<1>5. /\ volume' = [volume EXCEPT ![j.view.id] =
              [@ EXCEPT !.digest = j.digest, !.confidence = j.confidence,
                        !.provisional = (j.kind = "provisional"), !.rev = rev]]
      /\ svc' = [svc EXCEPT ![s].pc = "probing", ![s].judged = Unprobed,
                     ![s].found = IF rev = 0 THEN @ ELSE @ \cup {j.view}]
  BY DEF ProbeWrite
<1>6. j.view \in DOMAIN presence
  BY <1>3
<1> HIDE DEF j, rev
<1>7. PICK found \in SUBSET AView :
          /\ found \subseteq DOMAIN presence
          /\ svc'[s] = [svc[s] EXCEPT !.pc = "probing", !.judged = Unprobed,
                                      !.found = found]
  <2>1. svc[s].found \subseteq AView /\ svc[s].found \subseteq DOMAIN presence
    BY <1>2 DEF Service, ServiceFits
  <2>2. svc'[s] = [svc[s] EXCEPT !.pc = "probing", !.judged = Unprobed,
                       !.found = IF rev = 0 THEN svc[s].found
                                 ELSE svc[s].found \cup {j.view}]
    BY <1>2, <1>5
  <2> QED
    BY <2>1, <2>2, <1>4, <1>6
<1>8. /\ DOMAIN svc' = Services
      /\ \A t \in Services : t # s => svc'[t] = svc[t]
  BY <1>2, <1>5
<1>9. /\ svc'[s] \in Service /\ svc'[s].pc = "probing" /\ svc'[s].found = found
      /\ svc'[s].todo = svc[s].todo /\ svc'[s].defs = svc[s].defs
  BY <1>2, <1>7 DEF Service
<1>10. volume' \in [Ids -> Volume]
  <2>1. volume \in [Ids -> Volume]
    BY DEF IInv, RowsFit
  <2>2. ASSUME NEW old \in Volume
        PROVE  [old EXCEPT !.digest = j.digest, !.confidence = j.confidence,
                           !.provisional = (j.kind = "provisional"), !.rev = rev]
                   \in Volume
    BY <1>4 DEF Volume
  <2> QED
    BY <1>4, <1>5, <2>1, <2>2
<1>11. MachineFits' /\ RowsFit'
  BY <1>1, <1>10 DEF IInv, MachineFits, RowsFit
<1>12. ServiceFits(s)'
  BY <1>1, <1>2, <1>7, <1>9 DEF ServiceFits
<1> QED
  BY <1>1, <1>8, <1>9, <1>11, <1>12, ServiceMoves DEF IInv

LEMMA RefreshDoneStep ==
    ASSUME IInv, NEW s \in Services, RefreshDone(s)
    PROVE  IInv'
<1>1. /\ UNCHANGED <<at, broker, call, up, held, job, volume, presence, revision, queue>>
      /\ spent' = spent /\ svc[s].pc = "probing"
  BY DEF RefreshDone, Unspent, brokerVars
<1>2. svc[s] \in Service /\ ServiceFits(s) /\ DOMAIN svc = Services
  BY DEF IInv, ServicesFit, ServiceFits
<1>3. /\ DOMAIN svc' = Services
      /\ \A t \in Services : t # s => svc'[t] = svc[t]
      /\ \/ s = "watcher" /\ svc'[s] = [Idle EXCEPT !.pc = "gone"]
         \/ svc'[s] = Idle
         \/ svc'[s] = [svc[s] EXCEPT !.pc = "chosen"]
  BY <1>2 DEF RefreshDone
<1>4. /\ svc'[s] \in Service /\ svc'[s].found \subseteq DOMAIN presence
      /\ svc'[s].pc \in {"gone", "idle", "chosen"}
      /\ svc'[s].pc = "gone" => s # "api"
  <2>1. svc[s].found \subseteq DOMAIN presence
    BY <1>2 DEF ServiceFits
  <2> QED
    BY <1>2, <1>3, <2>1, IdleFits DEF Service
<1>5. MachineFits' /\ RowsFit'
  BY <1>1 DEF IInv, MachineFits, RowsFit
<1>6. ServiceFits(s)'
  BY <1>1, <1>4 DEF ServiceFits
<1> QED
  BY <1>1, <1>3, <1>4, <1>5, <1>6, ServiceMoves DEF IInv

-----------------------------------------------------------------------------
(* A probe *)

LEMMA OpenFits ==
    ASSUME MachineFits, NEW s \in Clients, NEW use, NEW view, Open(s, use, view)
    PROVE  MachineFits'
<1>1. broker' \in Broker
  BY ObservedFits DEF Open, MachineFits
<1> QED
  BY <1>1 DEF Open, MachineFits

LEMMA OpenCalls ==
    ASSUME NEW s \in Clients, NEW use \in {"probe", "job"}, NEW view \in AView,
           CallsFit, Open(s, use, view)
    PROVE  /\ call[s] = NoCall
           /\ DOMAIN call' = Clients
           /\ \A t \in Clients : t # s => call'[t] = call[t]
           /\ call'[s] \in Calls /\ call'[s] # NoCall
           /\ call'[s].st \in {"accepted", "refused"}
           /\ call'[s].use = use /\ call'[s].view = view
<1>1. /\ call[s] = NoCall /\ DOMAIN call' = Clients
      /\ \A t \in Clients : t # s => call'[t] = call[t]
      /\ call'[s] = [st |-> IF up[s] /\ Accepted(view) THEN "accepted" ELSE "refused",
                     use |-> use, view |-> view, card |-> NoCard]
  BY DEF Open, CallsFit
<1> QED
  BY <1>1 DEF Calls, NoCall

LEMMA ProbeOpenStep ==
    ASSUME IInv, NEW s \in Services, NEW v \in svc[s].todo, ProbeOpen(s, v)
    PROVE  IInv'
<1>1. /\ UNCHANGED <<at, up, held, job, volume, presence, revision, queue>>
      /\ spent' = spent /\ svc[s].pc = "probing" /\ Open(s, "probe", v)
  BY DEF ProbeOpen, Unspent, Open
<1>2. svc[s] \in Service /\ ServiceFits(s) /\ DOMAIN svc = Services /\ s \in Clients
  BY VolumesAssumption DEF IInv, ServicesFit, ServiceFits, Services
<1>3. v \in DOMAIN presence /\ v \in AView /\ svc[s].defs # 0
      /\ svc[s].todo \subseteq DOMAIN presence
  BY <1>1, <1>2 DEF ServiceFits, Service
<1>4. volume[v.id].digest \in Listing
  BY <1>3 DEF AView, Volume, IInv, RowsFit
<1>5. [view |-> v, digest |-> volume[v.id].digest] \in Probe
  BY <1>3, <1>4 DEF Probe
<1>6. /\ DOMAIN svc' = Services
      /\ \A t \in Services : t # s => svc'[t] = svc[t]
      /\ svc'[s] = [svc[s] EXCEPT !.pc = "opening", !.todo = @ \ {v},
                       !.judged = [view |-> v, digest |-> volume[v.id].digest]]
  BY <1>2 DEF ProbeOpen
<1>7. PICK p \in Probe, rest \in SUBSET AView :
          /\ p.view = v /\ rest = svc[s].todo \ {v}
          /\ svc'[s] = [svc[s] EXCEPT !.pc = "opening", !.todo = rest, !.judged = p]
  <2>1. svc[s].todo \ {v} \in SUBSET AView
    BY <1>2 DEF Service
  <2> QED
    BY <1>5, <1>6, <2>1
<1>8. /\ svc'[s] \in Service /\ svc'[s].pc = "opening" /\ svc'[s].judged = p
      /\ svc'[s].todo = rest
      /\ svc'[s].defs = svc[s].defs /\ svc'[s].found = svc[s].found
  BY <1>2, <1>7 DEF Service
<1>9. MachineFits'
  BY <1>1, <1>2, OpenFits DEF IInv
<1>10. RowsFit'
  BY <1>1 DEF IInv, RowsFit
<1>11. ServicesFit'
  <2>1. ServiceFits(s)'
    BY <1>1, <1>2, <1>3, <1>7, <1>8 DEF ServiceFits
  <2>2. ASSUME NEW t \in Services, t # s, ServiceFits(t) PROVE ServiceFits(t)'
    BY <1>1, <1>6, <2>2 DEF ServiceFits
  <2> QED
    BY <1>6, <2>1, <2>2 DEF IInv, ServicesFit
<1>12. /\ call[s] = NoCall /\ DOMAIN call' = Clients
       /\ \A t \in Clients : t # s => call'[t] = call[t]
       /\ call'[s] \in Calls /\ call'[s] # NoCall
       /\ call'[s].st \in {"accepted", "refused"}
       /\ call'[s].use = "probe" /\ call'[s].view = v
  BY <1>1, <1>2, <1>3, OpenCalls DEF IInv
<1>13. CallsFit'
  <2>1. CallFits(s)'
    BY <1>7, <1>8, <1>12 DEF CallFits
  <2>2. ASSUME NEW t \in Clients, t # s, CallFits(t) PROVE CallFits(t)'
    BY <1>1, <1>6, <1>12, <2>2, VolumesAssumption DEF CallFits, Services
  <2> QED
    BY <1>12, <2>1, <2>2 DEF IInv, CallsFit
<1>14. JobFits'
  BY <1>1, <1>6 DEF IInv, JobFits, Services
<1>15. HandlesFit' /\ MountsFit'
  <2>1. ASSUME NEW t \in Clients, HandleFits(t) PROVE HandleFits(t)'
    BY <1>1, <1>12, <2>1 DEF HandleFits, NoCall
  <2>2. ASSUME NEW t \in Clients, MountFits(t) PROVE MountFits(t)'
    BY <1>1, <1>12, <2>2 DEF MountFits, NoCall
  <2> QED
    BY <1>1, <2>1, <2>2 DEF IInv, HandlesFit, MountsFit
<1>16. OpenedIsSelected'
  BY <1>1, <1>6, <1>8 DEF IInv, OpenedIsSelected
<1> QED
  BY <1>9, <1>10, <1>11, <1>13, <1>14, <1>15, <1>16 DEF IInv

\* A call that has been answered, and what is left of it.
LEMMA AnsweredCalls ==
    ASSUME NEW s \in Clients, CallsFit, Answered(s)
    PROVE  /\ DOMAIN call' = Clients
           /\ \A t \in Clients : t # s => call'[t] = call[t]
           /\ call'[s] = NoCall
<1> QED
  BY DEF CallsFit, Answered

LEMMA ReleasedHandles ==
    ASSUME NEW s \in Clients, NEW use, MachineFits, held' = Released(s, use),
           UNCHANGED <<at, broker, up>>
    PROVE  /\ MachineFits'
           /\ \A t \in Clients : t # s => held'[t] = held[t]
           /\ held'[s] = held[s] \ {use}
<1> QED
  BY DEF MachineFits, Released

LEMMA ProbeJudgeStep ==
    ASSUME IInv, NEW s \in Services, ProbeJudge(s)
    PROVE  IInv'
<1>1. /\ UNCHANGED <<at, broker, up, job, volume, presence, revision, queue>>
      /\ spent' = spent /\ svc[s].pc = "opening" /\ call[s].st = "given"
      /\ Answered(s) /\ held' = Released(s, "probe")
  BY DEF ProbeJudge, Unspent
<1>2. svc[s] \in Service /\ ServiceFits(s) /\ DOMAIN svc = Services /\ s \in Clients
  BY VolumesAssumption DEF IInv, ServicesFit, ServiceFits, Services
<1>3. /\ call[s] # NoCall /\ call[s] \in Calls /\ call[s].card \in Cards
      /\ call[s].use = "probe" /\ svc[s].judged.view = call[s].view
  BY <1>1, <1>2 DEF IInv, CallsFit, CallFits
<1>4. /\ svc[s].judged \in Probe /\ svc[s].judged.view \in DOMAIN presence
      /\ svc[s].defs \in 1..MaxRevision
  BY <1>1, <1>2, VolumesAssumption DEF ServiceFits, Service
<1>5. Outcome(call[s].card, svc[s].defs) \in Kinds
  BY <1>3, <1>4, VolumesAssumption DEF Outcome, Kinds
<1> DEFINE d == Listed(call[s].card, svc[s].defs)
<1>5a. d \in OfCard /\ d.card = call[s].card
  BY <1>3, <1>4, VolumesAssumption DEF Listed, OfCard
<1>6. PICK conf \in Confidences(svc[s].judged.view, svc[s].judged.digest, d) :
          svc' = [svc EXCEPT ![s].pc = "judged", ![s].judged =
                     [view |-> svc[s].judged.view, digest |-> d,
                      confidence |-> conf,
                      kind |-> Outcome(call[s].card, svc[s].defs)]]
  BY DEF ProbeJudge
<1> HIDE DEF d
<1>7. conf \in {"low", "high"}
  BY <1>6 DEF Confidences
<1>8. PICK p \in Verdict : /\ p.view = svc[s].judged.view /\ p.digest.card = call[s].card
                           /\ svc' = [svc EXCEPT ![s].pc = "judged", ![s].judged = p]
  <2> DEFINE p == [view |-> svc[s].judged.view, digest |-> d,
                   confidence |-> conf,
                   kind |-> Outcome(call[s].card, svc[s].defs)]
  <2>1. p \in Verdict
    BY <1>3, <1>4, <1>5, <1>7, <1>5a DEF Probe, Verdict
  <2> QED
    BY <1>6, <1>5a, <2>1
<1>9. /\ DOMAIN svc' = Services
      /\ \A t \in Services : t # s => svc'[t] = svc[t]
      /\ svc'[s] = [svc[s] EXCEPT !.pc = "judged", !.judged = p]
  BY <1>2, <1>8
<1>10. /\ svc'[s] \in Service /\ svc'[s].pc = "judged" /\ svc'[s].judged = p
       /\ svc'[s].todo = svc[s].todo
       /\ svc'[s].defs = svc[s].defs /\ svc'[s].found = svc[s].found
  BY <1>2, <1>9 DEF Service
<1>11. /\ DOMAIN call' = Clients /\ call'[s] = NoCall
       /\ \A t \in Clients : t # s => call'[t] = call[t]
  BY <1>1, <1>2, AnsweredCalls DEF IInv
<1>12. /\ MachineFits' /\ held'[s] = held[s] \ {"probe"}
       /\ \A t \in Clients : t # s => held'[t] = held[t]
  BY <1>1, <1>2, ReleasedHandles DEF IInv
<1>13. RowsFit'
  BY <1>1 DEF IInv, RowsFit
<1>14. ServicesFit'
  <2>1. ServiceFits(s)'
    BY <1>1, <1>2, <1>4, <1>8, <1>10 DEF ServiceFits
  <2>2. ASSUME NEW t \in Services, t # s, ServiceFits(t) PROVE ServiceFits(t)'
    BY <1>1, <1>9, <2>2 DEF ServiceFits
  <2> QED
    BY <1>9, <2>1, <2>2 DEF IInv, ServicesFit
<1>15. CallsFit'
  <2>1. CallFits(s)'
    BY <1>10, <1>11 DEF CallFits, NoCall
  <2>2. ASSUME NEW t \in Clients, t # s, CallFits(t) PROVE CallFits(t)'
    BY <1>1, <1>9, <1>11, <2>2, VolumesAssumption DEF CallFits, Services
  <2> QED
    BY <1>11, <2>1, <2>2 DEF IInv, CallsFit
<1>16. JobFits'
  BY <1>1, <1>9, <1>10 DEF IInv, JobFits, Services
<1>17. HandlesFit' /\ MountsFit'
  <2>1. ASSUME NEW t \in Clients, HandleFits(t) PROVE HandleFits(t)'
    BY <1>1, <1>3, <1>11, <1>12, <2>1 DEF HandleFits
  <2>2. ASSUME NEW t \in Clients, MountFits(t) PROVE MountFits(t)'
    BY <1>1, <1>11, <2>2 DEF MountFits, NoCall
  <2> QED
    BY <1>1, <2>1, <2>2 DEF IInv, HandlesFit, MountsFit
<1>18. OpenedIsSelected'
  <2>1. "exchange" \notin spent => Id[call[s].card] = call[s].view.id
    BY <1>1, <1>2 DEF IInv, MountsFit, MountFits
  <2> QED
    BY <1>1, <1>3, <1>8, <1>9, <1>10, <2>1 DEF IInv, OpenedIsSelected
<1> QED
  BY <1>12, <1>13, <1>14, <1>15, <1>16, <1>17, <1>18 DEF IInv

LEMMA RefreshAbortsStep ==
    ASSUME IInv, NEW s \in Services, RefreshAborts(s)
    PROVE  IInv'
<1>1. /\ UNCHANGED <<at, broker, up, held, job, volume, presence, revision, queue>>
      /\ spent' = spent /\ svc[s].pc = "opening" /\ call[s].st = "refused"
      /\ Answered(s) /\ svc' = [svc EXCEPT ![s] = Idle]
  BY DEF RefreshAborts, Unspent
<1>2. DOMAIN svc = Services /\ s \in Clients
  BY VolumesAssumption DEF IInv, ServicesFit, Services
<1>3. /\ DOMAIN svc' = Services /\ svc'[s] = Idle
      /\ \A t \in Services : t # s => svc'[t] = svc[t]
  BY <1>1, <1>2
<1>4. call[s].use = "probe"
  BY <1>1, <1>2 DEF IInv, CallsFit, CallFits
<1>5. /\ DOMAIN call' = Clients /\ call'[s] = NoCall
      /\ \A t \in Clients : t # s => call'[t] = call[t]
  BY <1>1, <1>2, AnsweredCalls DEF IInv
<1>6. MachineFits' /\ RowsFit'
  BY <1>1 DEF IInv, MachineFits, RowsFit
<1>7. ServicesFit'
  <2>1. ServiceFits(s)'
    BY <1>3, IdleFits DEF ServiceFits
  <2>2. ASSUME NEW t \in Services, t # s, ServiceFits(t) PROVE ServiceFits(t)'
    BY <1>1, <1>3, <2>2 DEF ServiceFits
  <2> QED
    BY <1>3, <2>1, <2>2 DEF IInv, ServicesFit
<1>8. CallsFit'
  <2>1. CallFits(s)'
    BY <1>3, <1>5, IdleFits DEF CallFits, NoCall
  <2>2. ASSUME NEW t \in Clients, t # s, CallFits(t) PROVE CallFits(t)'
    BY <1>1, <1>3, <1>5, <2>2, VolumesAssumption DEF CallFits, Services
  <2> QED
    BY <1>5, <2>1, <2>2 DEF IInv, CallsFit
<1>9. JobFits'
  BY <1>1, <1>3, IdleFits DEF IInv, JobFits, Services
<1>10. HandlesFit' /\ MountsFit'
  <2>1. ASSUME NEW t \in Clients, HandleFits(t) PROVE HandleFits(t)'
    BY <1>1, <1>5, <2>1 DEF HandleFits
  <2>2. ASSUME NEW t \in Clients, MountFits(t) PROVE MountFits(t)'
    BY <1>1, <1>5, <2>2 DEF MountFits, NoCall
  <2> QED
    BY <1>1, <2>1, <2>2 DEF IInv, HandlesFit, MountsFit
<1>11. OpenedIsSelected'
  BY <1>1, <1>3, IdleFits DEF IInv, OpenedIsSelected
<1> QED
  BY <1>6, <1>7, <1>8, <1>9, <1>10, <1>11 DEF IInv

-----------------------------------------------------------------------------
(* The screen and the watcher *)

LEMMA LookStep == ASSUME IInv, NEW for \in Ids \cup {"none"}, Look(for) PROVE IInv'
<1>1. /\ UNCHANGED <<at, broker, call, up, held, job, volume, presence, revision, queue>>
      /\ spent \subseteq spent' /\ svc["api"].pc = "idle" /\ job.st # "opening"
  BY DEF Look, Spend, brokerVars, ApiFree
<1>2. svc["api"] \in Service /\ ServiceFits("api") /\ DOMAIN svc = Services
      /\ "api" \in Services
  BY DEF IInv, ServicesFit, ServiceFits, Services
<1>3. /\ DOMAIN svc' = Services
      /\ \A t \in Services : t # "api" => svc'[t] = svc[t]
      /\ svc'["api"] = [svc["api"] EXCEPT !.pc = "refresh", !.for = for]
  BY <1>2 DEF Look
<1>4. /\ svc'["api"] \in Service /\ svc'["api"].pc = "refresh"
      /\ svc'["api"].found = svc["api"].found
  BY <1>2, <1>3 DEF Service
<1>5. MachineFits' /\ RowsFit'
  BY <1>1 DEF IInv, MachineFits, RowsFit
<1>6. ServiceFits("api")'
  BY <1>1, <1>2, <1>4 DEF ServiceFits
<1> QED
  BY <1>1, <1>2, <1>3, <1>4, <1>5, <1>6, ServiceMoves DEF IInv

\* What is chosen was found in this refresh, so its row exists.
LEMMA ChooseStep == ASSUME IInv, Choose PROVE IInv'
<1>1. /\ UNCHANGED <<at, broker, call, up, held, job, volume, presence, revision>>
      /\ spent' = spent /\ svc["api"].pc = "chosen"
      /\ svc' = [svc EXCEPT !["api"] = Idle]
  BY DEF Choose, Unspent, brokerVars
<1>2. svc["api"] \in Service /\ ServiceFits("api") /\ DOMAIN svc = Services
      /\ "api" \in Services
  BY DEF IInv, ServicesFit, ServiceFits, Services
<1>3. /\ DOMAIN svc' = Services /\ svc'["api"] = Idle
      /\ \A t \in Services : t # "api" => svc'[t] = svc[t]
  BY <1>1, <1>2
<1>4. \A k \in queue' : k \in queue \/ \E v \in svc["api"].found : k = Job("scan", v)
  BY DEF Choose
<1>5. svc["api"].found \subseteq DOMAIN presence /\ svc["api"].found \subseteq AView
  BY <1>2 DEF ServiceFits, Service
<1>6. ASSUME NEW k \in queue' PROVE k \in AJob /\ k.view \in DOMAIN presence
  BY <1>4, <1>5 DEF Job, AJob, IInv, RowsFit
<1>7. MachineFits' /\ RowsFit'
  BY <1>1, <1>6 DEF IInv, MachineFits, RowsFit
<1>8. ServiceFits("api")'
  BY <1>3, IdleFits DEF ServiceFits
<1> QED
  BY <1>1, <1>2, <1>3, <1>7, <1>8, IdleFits, ServiceMoves DEF IInv

\* A row changes and nothing else.
LEMMA RowStep ==
    ASSUME IInv, UNCHANGED <<brokerVars, svc, job>>, spent \subseteq spent',
           RowsFit', DOMAIN presence \subseteq DOMAIN presence'
    PROVE  IInv'
<1>1. UNCHANGED <<at, broker, call, up, held>>
  BY DEF brokerVars
<1>2. MachineFits'
  BY <1>1 DEF IInv, MachineFits
<1>3. ServicesFit'
  BY DEF IInv, ServicesFit, ServiceFits
<1>4. CallsFit' /\ JobFits'
  BY <1>1 DEF IInv, CallsFit, CallFits, JobFits
<1>5. HandlesFit' /\ MountsFit'
  BY <1>1 DEF IInv, HandlesFit, HandleFits, MountsFit, MountFits
<1> QED
  BY <1>2, <1>3, <1>4, <1>5, OpenedKept DEF IInv

LEMMA TrustStep == ASSUME IInv, NEW i \in Ids, Trust(i) PROVE IInv'
<1>1. /\ UNCHANGED <<brokerVars, presence, revision, svc, queue, job>>
      /\ spent \subseteq spent' /\ volume' = [volume EXCEPT ![i].trusted = TRUE]
  BY DEF Trust, Spend
<1>2. volume' \in [Ids -> Volume]
  BY <1>1 DEF IInv, RowsFit, Volume
<1>3. RowsFit'
  BY <1>1, <1>2 DEF IInv, RowsFit
<1> QED
  BY <1>1, <1>3, RowStep

LEMMA SaveProfileStep == ASSUME IInv, SaveProfile PROVE IInv'
<1>1. /\ UNCHANGED <<brokerVars, volume, presence, svc, queue, job>>
      /\ spent \subseteq spent' /\ revision < MaxRevision /\ revision' = revision + 1
  BY DEF SaveProfile, Spend
<1>2. RowsFit'
  BY <1>1, VolumesAssumption DEF IInv, RowsFit
<1> QED
  BY <1>1, <1>2, RowStep

LEMMA TickStep == ASSUME IInv, Tick PROVE IInv'
<1>1. MachineFits'
  BY ListFits, VolumesAssumption DEF Tick, IInv
<1>2. /\ UNCHANGED <<at, call, held, job, volume, presence, revision, queue>>
      /\ spent' = spent /\ svc["watcher"].pc = "idle"
  BY DEF Tick, List, Unspent
<1>3. svc["watcher"] \in Service /\ ServiceFits("watcher") /\ DOMAIN svc = Services
      /\ "watcher" \in Services
  BY DEF IInv, ServicesFit, ServiceFits, Services
<1>4. PICK pc \in {"gone", "refresh"} : svc' = [svc EXCEPT !["watcher"].pc = pc]
  BY DEF Tick
<1>5. /\ DOMAIN svc' = Services
      /\ \A t \in Services : t # "watcher" => svc'[t] = svc[t]
      /\ svc'["watcher"] = [svc["watcher"] EXCEPT !.pc = pc]
  BY <1>3, <1>4
<1>6. /\ svc'["watcher"] \in Service /\ svc'["watcher"].pc = pc
      /\ svc'["watcher"].found = svc["watcher"].found
  BY <1>3, <1>5 DEF Service
<1>7. RowsFit'
  BY <1>2 DEF IInv, RowsFit
<1>8. ServiceFits("watcher")'
  BY <1>2, <1>3, <1>4, <1>6 DEF ServiceFits
<1> QED
  BY <1>1, <1>2, <1>3, <1>4, <1>5, <1>6, <1>7, <1>8, ServiceMoves DEF IInv

LEMMA InvalidateGoneStep == ASSUME IInv, InvalidateGone PROVE IInv'
<1>1. /\ UNCHANGED <<at, broker, call, up, held, job, volume, presence, revision>>
      /\ spent' = spent /\ svc["watcher"].pc = "gone" /\ queue' \subseteq queue
  BY DEF InvalidateGone, Unspent, brokerVars
<1>2. svc["watcher"] \in Service /\ ServiceFits("watcher") /\ DOMAIN svc = Services
      /\ "watcher" \in Services
  BY DEF IInv, ServicesFit, ServiceFits, Services
<1>3. /\ DOMAIN svc' = Services
      /\ \A t \in Services : t # "watcher" => svc'[t] = svc[t]
      /\ svc'["watcher"] = [svc["watcher"] EXCEPT !.pc = "ready"]
  BY <1>2 DEF InvalidateGone
<1>4. /\ svc'["watcher"] \in Service /\ svc'["watcher"].pc = "ready"
      /\ svc'["watcher"].found = svc["watcher"].found
  BY <1>2, <1>3 DEF Service
<1>5. MachineFits' /\ RowsFit'
  BY <1>1 DEF IInv, MachineFits, RowsFit
<1>6. ServiceFits("watcher")'
  BY <1>1, <1>2, <1>4 DEF ServiceFits
<1> QED
  BY <1>1, <1>2, <1>3, <1>4, <1>5, <1>6, ServiceMoves DEF IInv

LEMMA EnqueueReadyStep == ASSUME IInv, EnqueueReady PROVE IInv'
<1>1. /\ UNCHANGED <<at, broker, call, up, held, job, volume, revision>>
      /\ spent' = spent /\ svc["watcher"].pc = "ready"
  BY DEF EnqueueReady, Unspent, brokerVars
<1>2. svc["watcher"] \in Service /\ ServiceFits("watcher") /\ DOMAIN svc = Services
      /\ "watcher" \in Services
  BY DEF IInv, ServicesFit, ServiceFits, Services
<1>3. /\ DOMAIN svc' = Services
      /\ \A t \in Services : t # "watcher" => svc'[t] = svc[t]
      /\ svc'["watcher"] = [svc["watcher"] EXCEPT !.pc = "idle"]
  BY <1>2 DEF EnqueueReady
<1>4. /\ svc'["watcher"] \in Service /\ svc'["watcher"].pc = "idle"
      /\ svc'["watcher"].found = svc["watcher"].found
  BY <1>2, <1>3 DEF Service
<1>5. DOMAIN presence' = DOMAIN presence
  BY DEF EnqueueReady
<1>6. ASSUME NEW v \in DOMAIN presence PROVE presence'[v] \in Presence
  <2> DEFINE s == presence[v].scanned \/ v \in ToCount
             i == presence[v].imported \/ v \in Candidates
  <2>1. presence[v] \in Presence
    BY DEF IInv, RowsFit
  <2>2. s \in BOOLEAN /\ i \in BOOLEAN
    BY <2>1 DEF Presence
  <2>3. presence'[v] = [presence[v] EXCEPT !.scanned = s, !.imported = i]
    BY DEF EnqueueReady
  <2> HIDE DEF s, i
  <2> QED
    BY <2>1, <2>2, <2>3 DEF Presence
<1>7. ToCount \cup Candidates \subseteq DOMAIN presence
  BY DEF ToCount, Candidates, Live
<1>8. \A k \in queue' :
          \/ k \in queue
          \/ \E v \in ToCount : k = Job("scan", v)
          \/ \E v \in Candidates : k = Job("import", v)
  BY DEF EnqueueReady
<1>9. ASSUME NEW k \in queue' PROVE k \in AJob /\ k.view \in DOMAIN presence
  BY <1>7, <1>8 DEF Job, AJob, IInv, RowsFit
<1>10. MachineFits'
  BY <1>1 DEF IInv, MachineFits
<1>11. RowsFit'
  BY <1>1, <1>5, <1>6, <1>9 DEF IInv, RowsFit
<1>12. ServiceFits("watcher")'
  BY <1>2, <1>4, <1>5 DEF ServiceFits
<1> QED
  BY <1>1, <1>2, <1>3, <1>4, <1>5, <1>10, <1>11, <1>12, ServiceMoves DEF IInv

-----------------------------------------------------------------------------
(* The job *)

\* A job that has no card open and begins or ends disturbs nobody.
LEMMA JobMoves ==
    ASSUME IInv, UNCHANGED <<call, held, svc>>, spent' = spent, UNCHANGED at,
           job' \in {NoJob} \cup Running,
           job.st \notin {"opening", "holding"},
           job'.st # "holding", job'.st = "opening" => ApiFree
    PROVE  CallsFit' /\ JobFits' /\ HandlesFit' /\ MountsFit' /\ OpenedIsSelected'
<1>1. CallsFit'
  BY DEF IInv, CallsFit, CallFits
<1>2. JobFits'
  BY DEF IInv, JobFits, ApiFree
<1>3. HandlesFit' /\ MountsFit'
  BY DEF IInv, HandlesFit, HandleFits, MountsFit, MountFits
<1>4. OpenedIsSelected'
  BY DEF IInv, OpenedIsSelected
<1> QED
  BY <1>1, <1>2, <1>3, <1>4

LEMMA ClaimStep == ASSUME IInv, NEW j \in queue, Claim(j) PROVE IInv'
<1>1. /\ UNCHANGED <<at, broker, call, up, held, svc, volume, presence, revision>>
      /\ job = NoJob /\ queue' \subseteq queue
      /\ job' = [st |-> "claimed", of |-> j, card |-> NoCard]
      /\ "exchange" \in spent' <=> "exchange" \in spent
  BY DEF Claim, Spend, brokerVars
<1>2. job' \in Running /\ job'.st = "claimed"
  BY <1>1 DEF Running, IInv, RowsFit
<1>3. MachineFits' /\ RowsFit'
  BY <1>1 DEF IInv, MachineFits, RowsFit
<1>4. ServicesFit'
  BY <1>1 DEF IInv, ServicesFit, ServiceFits
<1>5. CallsFit'
  BY <1>1, <1>2 DEF IInv, CallsFit, CallFits, NoJob
<1>6. JobFits'
  BY <1>1, <1>2 DEF IInv, JobFits
<1>7. HandlesFit' /\ MountsFit' /\ OpenedIsSelected'
  BY <1>1, <1>2 DEF IInv, HandlesFit, HandleFits, MountsFit, MountFits,
                    OpenedIsSelected, NoJob
<1> QED
  BY <1>3, <1>4, <1>5, <1>6, <1>7 DEF IInv

LEMMA MatchSelectionStep == ASSUME IInv, MatchSelection PROVE IInv'
<1>1. /\ UNCHANGED <<at, call, held, svc, volume, presence, revision, queue>>
      /\ spent' = spent /\ job.st = "claimed" /\ ApiFree
      /\ job' \in {NoJob, [job EXCEPT !.st = "opening"]}
  BY DEF MatchSelection, Unspent, List, brokerVars
<1>2. job \in Running
  BY <1>1 DEF IInv, JobFits, NoJob
<1>3. /\ job' \in {NoJob} \cup Running
      /\ job'.st = "opening" \/ job' = NoJob
  BY <1>1, <1>2 DEF Running
<1>4. MachineFits'
  <2>1. CASE job.of.view \in Live
    BY <2>1, ListFits, VolumesAssumption DEF MatchSelection, IInv
  <2>2. CASE job.of.view \notin Live
    BY <2>2 DEF MatchSelection, IInv, MachineFits, brokerVars
  <2> QED
    BY <2>1, <2>2
<1>5. RowsFit' /\ ServicesFit'
  BY <1>1 DEF IInv, RowsFit, ServicesFit, ServiceFits
<1> QED
  BY <1>1, <1>3, <1>4, <1>5, JobMoves DEF IInv, NoJob

LEMMA JobOpenStep == ASSUME IInv, JobOpen PROVE IInv'
<1>1. /\ UNCHANGED <<at, up, held>> /\ UNCHANGED appVars
      /\ spent' = spent /\ job.st = "opening" /\ Open("api", "job", job.of.view)
      /\ UNCHANGED <<svc, job>>
  BY DEF JobOpen, Open, Unspent, appVars
<1>2. job \in Running /\ "api" \in Clients
  BY <1>1, VolumesAssumption DEF IInv, JobFits, NoJob
<1>3. job.of.view \in AView
  BY <1>2 DEF Running, AJob
<1>4. /\ call["api"] = NoCall /\ DOMAIN call' = Clients
      /\ \A t \in Clients : t # "api" => call'[t] = call[t]
      /\ call'["api"] \in Calls /\ call'["api"] # NoCall
      /\ call'["api"].st \in {"accepted", "refused"}
      /\ call'["api"].use = "job" /\ call'["api"].view = job.of.view
  BY <1>1, <1>2, <1>3, OpenCalls DEF IInv
<1>5. MachineFits'
  BY <1>1, <1>2, OpenFits DEF IInv
<1>6. CallsFit'
  <2>1. CallFits("api")'
    BY <1>1, <1>4 DEF IInv, JobFits, CallFits
  <2>2. ASSUME NEW t \in Clients, t # "api", CallFits(t) PROVE CallFits(t)'
    BY <1>1, <1>4, <2>2 DEF CallFits
  <2> QED
    BY <1>4, <2>1, <2>2 DEF IInv, CallsFit
<1>7. HandlesFit' /\ MountsFit'
  <2>1. ASSUME NEW t \in Clients, HandleFits(t) PROVE HandleFits(t)'
    BY <1>1, <1>4, <2>1 DEF HandleFits, NoCall
  <2>2. ASSUME NEW t \in Clients, MountFits(t) PROVE MountFits(t)'
    BY <1>1, <1>4, <2>2 DEF MountFits, NoCall
  <2> QED
    BY <1>1, <2>1, <2>2 DEF IInv, HandlesFit, MountsFit
<1> QED
  BY <1>1, <1>5, <1>6, <1>7, RestFits, OpenedKept DEF IInv

\* The answer a job gets is the one to its own call.
LEMMA JobOpenedStep == ASSUME IInv, JobOpened PROVE IInv'
<1>1. /\ UNCHANGED <<at, broker, up, held, svc, volume, presence, revision, queue>>
      /\ spent' = spent /\ job.st = "opening"
      /\ call["api"].st \in {"given", "refused"} /\ Answered("api")
      /\ job' = IF call["api"].st = "given"
                THEN [job EXCEPT !.st = "holding", !.card = call["api"].card] ELSE NoJob
  BY DEF JobOpened, Unspent
<1>2. /\ job \in Running /\ "api" \in Clients
      /\ call["api"] \in Calls /\ call["api"] # NoCall
      /\ call["api"].st = "given" => call["api"].card \in Cards
      /\ svc["api"].pc # "opening"
  BY <1>1, VolumesAssumption DEF IInv, JobFits, NoJob, CallsFit, CallFits, NoCall
<1>3. call["api"].use = "job" /\ job.of.view = call["api"].view
  BY <1>2 DEF IInv, CallsFit, CallFits, Calls
<1>4. /\ DOMAIN call' = Clients /\ call'["api"] = NoCall
      /\ \A t \in Clients : t # "api" => call'[t] = call[t]
  BY <1>1, <1>2, AnsweredCalls DEF IInv
<1>5. ASSUME call["api"].st = "given" PROVE JobFits' /\ OpenedIsSelected'
  <2>1. /\ job' \in Running /\ job'.st = "holding"
        /\ job'.card = call["api"].card /\ job'.of = job.of
    BY <1>1, <1>2, <1>5 DEF Running
  <2>2. JobFits'
    BY <1>2, <1>5, <2>1 DEF JobFits
  <2>3. OpenedIsSelected'
    <3>1. "exchange" \notin spent => Id[call["api"].card] = call["api"].view.id
      BY <1>2, <1>5 DEF IInv, MountsFit, MountFits
    <3> QED
      BY <1>1, <1>3, <2>1, <3>1 DEF IInv, OpenedIsSelected
  <2> QED
    BY <2>1, <2>2, <2>3
<1>6. ASSUME call["api"].st # "given" PROVE JobFits' /\ OpenedIsSelected'
  BY <1>1, <1>6 DEF NoJob, JobFits, IInv, OpenedIsSelected
<1>7. JobFits' /\ OpenedIsSelected'
  BY <1>5, <1>6
<1>8. call["api"].st = "given" => job'.st = "holding"
  BY <1>1, <1>2 DEF Running
<1>9. MachineFits' /\ RowsFit'
  BY <1>1 DEF IInv, MachineFits, RowsFit
<1>10. ServicesFit'
  BY <1>1 DEF IInv, ServicesFit, ServiceFits
<1>11. CallsFit'
  <2>1. CallFits("api")'
    BY <1>1, <1>2, <1>4 DEF CallFits, NoCall
  <2>2. ASSUME NEW t \in Clients, t # "api", CallFits(t) PROVE CallFits(t)'
    BY <1>1, <1>4, <2>2 DEF CallFits
  <2> QED
    BY <1>4, <2>1, <2>2 DEF IInv, CallsFit
<1>12. HandlesFit' /\ MountsFit'
  <2>1. ASSUME NEW t \in Clients, HandleFits(t), CallFits(t) PROVE HandleFits(t)'
    BY <1>1, <1>3, <1>4, <1>8, <2>1 DEF HandleFits, CallFits, NoCall
  <2>2. ASSUME NEW t \in Clients, MountFits(t) PROVE MountFits(t)'
    BY <1>1, <1>4, <2>2 DEF MountFits, NoCall
  <2> QED
    BY <1>1, <2>1, <2>2 DEF IInv, HandlesFit, MountsFit, CallsFit
<1> QED
  BY <1>7, <1>9, <1>10, <1>11, <1>12 DEF IInv

LEMMA ReleaseStep == ASSUME IInv, Release PROVE IInv'
<1>1. /\ UNCHANGED <<at, broker, call, up, svc, volume, presence, revision, queue>>
      /\ spent' = spent /\ job.st = "holding" /\ job' = NoJob
      /\ held' = Released("api", "job")
  BY DEF Release, Unspent
<1>2. /\ MachineFits' /\ held'["api"] = held["api"] \ {"job"}
      /\ \A t \in Clients : t # "api" => held'[t] = held[t]
  BY <1>1, ReleasedHandles, VolumesAssumption DEF IInv
<1>3. RowsFit' /\ ServicesFit'
  BY <1>1 DEF IInv, RowsFit, ServicesFit, ServiceFits
<1>4. CallsFit' /\ JobFits'
  BY <1>1 DEF IInv, CallsFit, CallFits, JobFits, NoJob
<1>5. HandlesFit'
  <2>1. ASSUME NEW t \in Clients, HandleFits(t) PROVE HandleFits(t)'
    BY <1>1, <1>2, <2>1 DEF HandleFits
  <2> QED
    BY <2>1 DEF IInv, HandlesFit
<1>6. MountsFit' /\ OpenedIsSelected'
  BY <1>1 DEF IInv, MountsFit, MountFits, OpenedIsSelected, NoJob
<1> QED
  BY <1>2, <1>3, <1>4, <1>5, <1>6 DEF IInv

-----------------------------------------------------------------------------
(* The theorems *)

LEMMA Start == ASSUME Init PROVE IInv
<1>1. PICK start \in Starts :
          /\ at = start.at /\ left = start.left
          /\ volume = [i \in Ids |-> NewVolume(Remembered[i], i \in start.trusted)]
          /\ presence = [v \in start.rows |->
                 [live |-> TRUE, scanned |-> FALSE, imported |-> FALSE]]
  BY DEF Init
<1>2. /\ broker = [epoch |-> 1, generation |-> 0, looked |-> FALSE, finger |-> {}]
      /\ call = [s \in Clients |-> NoCall] /\ up = [s \in Clients |-> TRUE]
      /\ held = [s \in Clients |-> {}] /\ revision = 1
      /\ svc = [s \in Services |-> Idle] /\ queue = {} /\ job = NoJob /\ spent = {}
  BY DEF Init, BrokerInit
<1>3. MachineFits
  BY <1>1, <1>2, VolumesAssumption DEF MachineFits, Broker
<1>4. volume \in [Ids -> Volume]
  <2>1. ASSUME NEW i \in Ids PROVE volume[i] \in Volume
    <3> DEFINE t == i \in start.trusted
    <3>1. volume[i] = NewVolume(Remembered[i], t) /\ t \in BOOLEAN
      BY <1>1
    <3>2. Remembered[i] \in Listing
      BY VolumesAssumption
    <3> HIDE DEF t
    <3> QED
      BY <3>1, <3>2, VolumesAssumption DEF NewVolume, Volume
  <2>2. volume = [i \in Ids |-> volume[i]]
    BY <1>1
  <2> QED
    BY <2>1, <2>2
<1>5. RowsFit
  BY <1>1, <1>2, <1>4, VolumesAssumption DEF RowsFit, Presence
<1>6. ServicesFit
  BY <1>2, IdleFits DEF ServicesFit, ServiceFits
<1>7. CallsFit
  BY <1>2, IdleFits, VolumesAssumption DEF CallsFit, CallFits, NoCall, Services
<1>8. JobFits
  BY <1>2 DEF JobFits, NoJob
<1>9. HandlesFit /\ MountsFit
  BY <1>2 DEF HandlesFit, HandleFits, MountsFit, MountFits, NoCall
<1>10. OpenedIsSelected
  BY <1>2, IdleFits DEF OpenedIsSelected, NoJob
<1> QED
  BY <1>3, <1>5, <1>6, <1>7, <1>8, <1>9, <1>10 DEF IInv

LEMMA BrokerSteps ==
    ASSUME IInv, NEW s \in Clients, BrokerStep(s) \/ MountGoesWrong(s)
    PROVE  IInv'
<1>1. ASSUME NothingToMount(s) \/ MountGoesWrong(s) PROVE IInv'
  <2>1. MountFails(s) /\ UNCHANGED appVars /\ spent \subseteq spent'
    BY <1>1 DEF NothingToMount, MountGoesWrong, Spend
  <2> QED
    BY <2>1, MountFailsStep
<1> QED
  BY <1>1, MountStep, VerifyStep DEF BrokerStep

LEMMA ServiceSteps == ASSUME IInv, NEW s \in Services, ServiceStep(s) PROVE IInv'
<1>1. s \in Clients
  BY VolumesAssumption DEF Services
<1> QED
  BY <1>1, BrokerSteps, RefreshListStep, RefreshReflectStep, ProbeOpenStep,
     ProbeJudgeStep, ProbeWriteStep, RefreshDoneStep, RefreshAbortsStep DEF ServiceStep

LEMMA Preserved == ASSUME IInv, [Next]_vars PROVE IInv'
<1>1. CASE WatcherStep
  BY <1>1, ServiceSteps, TickStep, InvalidateGoneStep, EnqueueReadyStep
     DEF WatcherStep, Services
<1>2. CASE ApiStep
  BY <1>2, ServiceSteps, LookStep, ChooseStep, TrustStep, SaveProfileStep
     DEF ApiStep, Services
<1>3. CASE JobStep
  BY <1>3, ClaimStep, MatchSelectionStep, JobOpenStep, JobOpenedStep, ReleaseStep
     DEF JobStep
<1>4. CASE Outside
  BY <1>4, MoveStep, BrokerSteps, GoesIdleStep, BrokerStopsStep, AppStopsStep
     DEF Outside
<1>5. CASE UNCHANGED vars
  <2>1. UNCHANGED <<brokerVars, svc, job, volume, presence, revision, queue>>
        /\ spent' = spent
    BY <1>5 DEF vars, appVars
  <2>2. RowsFit'
    BY <2>1 DEF IInv, RowsFit
  <2> QED
    BY <2>1, <2>2, RowStep
<1> QED
  BY <1>1, <1>2, <1>3, <1>4, <1>5 DEF Next

\* The invariant above holds in every state.
THEOREM Inductive == Spec => []IInv
<1>1. Init => IInv
  BY Start
<1>2. IInv /\ [Next]_vars => IInv'
  BY Preserved
<1> QED
  BY <1>1, <1>2, PTL DEF Spec

\* The types of the rows, and that a service or a job waits for the broker exactly
\* in the steps in which its code does.
THEOREM TypeCorrect == Spec => []TypeOK
<1>1. IInv => TypeOK
  <2> SUFFICES ASSUME IInv PROVE TypeOK
    OBVIOUS
  <2>1. Views(broker) \subseteq AView
    BY DEF IInv, MachineFits, Broker, Views, AView
  <2>2. ASSUME NEW j \in queue
        PROVE  j.type \in {"scan", "import"} /\ j.view \in DOMAIN presence
    BY DEF IInv, RowsFit, AJob
  <2>3. ASSUME NEW s \in Clients, call[s] # NoCall
        PROVE  /\ call[s].use \in {"probe", "job"}
               /\ call[s].use = "probe" => svc[s].pc = "opening"
               /\ call[s].use = "job" => s = "api" /\ job.st = "opening"
    BY <2>3 DEF IInv, CallsFit, CallFits, Calls
  <2> QED
    BY <2>1, <2>2, <2>3 DEF TypeOK, IInv, MachineFits, RowsFit, Presence, Volume
<1> QED
  BY <1>1, Inductive, PTL

\* The card a job reads and the card a verdict is about are of the identity that
\* was asked for, for every number of nodes and cards and every order in which
\* they move, unless the card was exchanged and put back within one mount call.
THEOREM OpenedSelected == Spec => []OpenedIsSelected
<1>1. IInv => OpenedIsSelected
  BY DEF IInv
<1> QED
  BY <1>1, Inductive, PTL

\* No handle stays in the broker once the call or the job it was for has ended.
THEOREM NoLeak == Spec => []NothingLeaks
<1>1. IInv => NothingLeaks
  <2>1. ASSUME IInv, NEW s \in Clients
        PROVE  HandleFits(s) /\ CallFits(s)
    BY <2>1 DEF IInv, HandlesFit, CallsFit
  <2> QED
    BY <2>1 DEF NothingLeaks, HandleFits, CallFits, NoCall
<1> QED
  BY <1>1, Inductive, PTL

-----------------------------------------------------------------------------
(* Two cards of one identity                                               *)

\* The broker's list has gone on since it held v.
Past(v) == \/ v.epoch < broker.epoch
           \/ v.epoch = broker.epoch /\ v.generation < broker.generation

Alike(v, w) == v.epoch = w.epoch /\ v.generation = w.generation

\* The watcher's refresh, and what it has still to judge.
Watch == svc["watcher"]
Probing == Watch.pc \in {"probing", "opening", "judged"}
InHand == Watch.todo \cup (IF Watch.pc \in {"opening", "judged"} THEN {Watch.judged.view}
                           ELSE {})

\* The watcher will list the volumes again, and write the rows anew.
Again == \/ Watch.pc \in {"refresh", "listed"}
         \/ Watch.pc = "idle" /\ seen = Never

\* No row and no list is ahead of the broker.
RowsCurrent ==
    /\ \A v \in DOMAIN presence : Past(v) \/ v \in Views(broker)
    /\ \A s \in Services : \A v \in svc[s].todo : Past(v) \/ v \in Views(broker)

\* The rows that are live while the watcher judges are those of its list.
OneList ==
    /\ Watch.pc = "listed" => \A v, w \in Watch.todo : Alike(v, w)
    /\ Probing => \A v \in Live, w \in InHand : Alike(v, w)

\* A list that cannot be opened any more, and a volume that was refused, are past.
RefusedIsPast ==
    /\ Watch.pc = "listed" \/ Probing => up["watcher"] \/ \A v \in InHand : Past(v)
    /\ call["watcher"].st = "refused" => Past(call["watcher"].view)

\* A volume with two cards is low, or is going to be judged, or was not listed.
TwinsLow ==
    /\ \A v \in Live : Twins(v) # {} =>
           \/ volume[v.id].confidence = "low"
           \/ Past(v)
           \/ Again
           \/ Probing /\ v \in InHand
    /\ Watch.pc = "judged" /\ Twins(Watch.judged.view) # {} =>
           Watch.judged.confidence = "low"

Settled == Undisturbed => svc["api"].pc = "idle" /\ OneList /\ RefusedIsPast /\ TwinsLow

\* The broker may mount every card.
AllAllowed == \A c \in Cards : Id[c] \in Allowed

\* A list the broker gave stays past, or the newest.
Grows == /\ \A v \in AView : Past(v) => Past(v)'
         /\ \A v \in AView : v \in Views(broker) => Past(v)' \/ (v \in Views(broker))'

\* A broker that is looked at or starts again goes on.
LEMMA LookedGrows ==
    ASSUME MachineFits, broker' = broker \/ broker' = Observed \/ BrokerRestarts
    PROVE  Grows
<1>1. broker \in Broker
  BY DEF MachineFits
<1>2. CASE broker' = broker
  BY <1>2 DEF Grows, Past, Views
<1>3. ASSUME broker'.epoch = broker.epoch /\ broker'.generation = broker.generation + 1
      PROVE  Grows
  <2>1. ASSUME NEW v \in AView, Past(v) \/ v \in Views(broker) PROVE Past(v)'
    <3>1. CASE Past(v)
      BY <1>1, <1>3, <3>1 DEF Past, Broker, AView
    <3>2. CASE v \in Views(broker)
      <4>1. v.epoch = broker.epoch /\ v.generation = broker.generation
        BY <3>2 DEF Views
      <4> QED
        BY <1>1, <1>3, <4>1 DEF Past, Broker
    <3> QED
      BY <2>1, <3>1, <3>2
  <2> QED
    BY <2>1 DEF Grows
<1>4. CASE broker' = Observed
  <2>1. CASE Observed = broker
    BY <1>2, <1>4, <2>1
  <2>2. CASE Observed # broker
    <3>1. Observed = [broker EXCEPT !.looked = TRUE, !.finger = Fingerprint,
                                    !.generation = @ + 1]
      BY <2>2, Zenon DEF Observed
    <3>2. broker'.epoch = broker.epoch /\ broker'.generation = broker.generation + 1
      BY <1>1, <1>4, <3>1 DEF Broker
    <3> QED
      BY <1>3, <3>2
  <2> QED
    BY <2>1, <2>2
<1>5. CASE BrokerRestarts
  <2>1. broker'.epoch = broker.epoch + 1
    BY <1>5 DEF BrokerRestarts
  <2>2. ASSUME NEW v \in AView, Past(v) \/ v \in Views(broker) PROVE Past(v)'
    <3>1. v.epoch <= broker.epoch
      BY <1>1, <2>2 DEF Past, Views, Broker, AView
    <3> QED
      BY <1>1, <2>1, <3>1 DEF Past, Broker, AView
  <2> QED
    BY <2>2 DEF Grows
<1> QED
  BY <1>2, <1>4, <1>5

\* Whoever asks, the broker looks once or not at all.
LEMMA BrokerGrows == ASSUME IInv, [Next]_vars PROVE Grows
<1>1. MachineFits
  BY DEF IInv
<1>2. ASSUME NEW s, ServiceStep(s) PROVE broker' = broker \/ broker' = Observed
  BY <1>2 DEF ServiceStep, BrokerStep, Mount, Verify, NothingToMount, MountFails, RefreshList,
     List, RefreshReflect, ProbeOpen, Open, ProbeJudge, ProbeWrite, RefreshDone,
     RefreshAborts, brokerVars
<1>3. CASE WatcherStep
  BY <1>1, <1>2, <1>3, LookedGrows DEF WatcherStep, Tick, List, InvalidateGone, EnqueueReady,
     brokerVars
<1>4. CASE ApiStep
  BY <1>1, <1>2, <1>4, LookedGrows DEF ApiStep, Look, Choose, Trust, SaveProfile, brokerVars
<1>5. CASE JobStep
  BY <1>1, <1>5, LookedGrows DEF JobStep, Claim, MatchSelection, List, JobOpen, Open, JobOpened,
     Release, brokerVars
<1>6. CASE Outside
  BY <1>1, <1>6, LookedGrows DEF Outside, Move, Insert, Remove, MountGoesWrong, MountFails,
     GoesIdle, IdleTimeout, BrokerStops, AppStops, ClientsRestart
<1>7. CASE UNCHANGED vars
  BY <1>1, <1>7, LookedGrows DEF vars, brokerVars
<1> QED
  BY <1>3, <1>4, <1>5, <1>6, <1>7 DEF Next

\* The lists and rows at hand are of the broker's lists.
LEMMA RowsStayCurrent == ASSUME IInv, RowsCurrent, [Next]_vars PROVE RowsCurrent'
<1>1. Grows
  BY BrokerGrows
<1>2. /\ DOMAIN presence \subseteq AView
      /\ DOMAIN svc = Services
      /\ \A s \in Services : svc[s] \in Service /\ svc[s].todo \subseteq AView
  BY DEF IInv, RowsFit, ServicesFit, ServiceFits, Service
<1>3. ASSUME \A v \in DOMAIN presence' : \/ v \in DOMAIN presence
                                         \/ \E s \in Services : v \in svc[s].todo,
             \A s \in Services : \A v \in svc'[s].todo :
                 v \in svc[s].todo \/ (v \in Views(broker))'
      PROVE  RowsCurrent'
  BY <1>1, <1>2, <1>3 DEF RowsCurrent, Grows
<1>4. ASSUME DOMAIN presence' = DOMAIN presence, NEW s \in Services,
             \A t \in Services : t # s => svc'[t] = svc[t],
             svc'[s].todo \subseteq svc[s].todo
      PROVE  RowsCurrent'
  BY <1>3, <1>4
<1>5. Idle.todo = {} /\ Idle.pc = "idle"
  BY DEF Idle
<1>6. ASSUME NEW s \in Services, ServiceStep(s) PROVE RowsCurrent'
  <2>1. CASE BrokerStep(s)
    BY <1>3, <2>1 DEF BrokerStep, NothingToMount, appVars
  <2>2. CASE RefreshList(s)
    BY <1>2, <1>3, <2>2 DEF RefreshList
  <2>3. CASE RefreshReflect(s)
    BY <1>2, <1>3, <2>3 DEF RefreshReflect, Reflected
  <2>4. CASE \E v \in svc[s].todo : ProbeOpen(s, v)
    BY <1>2, <1>3, <2>4 DEF ProbeOpen
  <2>5. CASE ProbeJudge(s)
    <3>1. PICK j : svc' = [svc EXCEPT ![s].pc = "judged", ![s].judged = j]
      BY <2>5 DEF ProbeJudge
    <3>2. svc'[s].todo = svc[s].todo /\ \A t \in Services : t # s => svc'[t] = svc[t]
      BY <1>2, <3>1 DEF Service
    <3> QED
      BY <1>4, <2>5, <3>2 DEF ProbeJudge
  <2>6. CASE ProbeWrite(s)
    <3>1. PICK f : svc' = [svc EXCEPT ![s].pc = "probing", ![s].judged = Unprobed,
                                      ![s].found = f]
      BY <1>2, <2>6 DEF ProbeWrite
    <3>2. svc'[s].todo = svc[s].todo /\ \A t \in Services : t # s => svc'[t] = svc[t]
      BY <1>2, <3>1 DEF Service
    <3> QED
      BY <1>4, <2>6, <3>2 DEF ProbeWrite
  <2>7. CASE RefreshDone(s)
    <3>1. /\ [Idle EXCEPT !.pc = "gone"].todo = {}
          /\ [svc[s] EXCEPT !.pc = "chosen"].todo = svc[s].todo
      BY <1>2 DEF Idle, Service
    <3>2. /\ \A t \in Services : t # s => svc'[t] = svc[t]
          /\ \/ svc'[s] = [Idle EXCEPT !.pc = "gone"]
             \/ svc'[s] = Idle
             \/ svc'[s] = [svc[s] EXCEPT !.pc = "chosen"]
      BY <1>2, <2>7 DEF RefreshDone
    <3>3. svc'[s].todo \subseteq svc[s].todo
      BY <1>5, <3>1, <3>2
    <3> QED
      BY <1>4, <2>7, <3>2, <3>3 DEF RefreshDone
  <2>8. CASE RefreshAborts(s)
    BY <1>2, <1>4, <1>5, <2>8 DEF RefreshAborts
  <2> QED
    BY <1>6, <2>1, <2>2, <2>3, <2>4, <2>5, <2>6, <2>7, <2>8 DEF ServiceStep
<1>7. ASSUME NEW s \in Services, NEW pc, NEW for, svc' = [svc EXCEPT ![s].pc = pc, ![s].for = for],
             DOMAIN presence' = DOMAIN presence
      PROVE  RowsCurrent'
  <2>1. svc'[s].todo = svc[s].todo /\ \A t \in Services : t # s => svc'[t] = svc[t]
    BY <1>2, <1>7 DEF Service
  <2> QED
    BY <1>4, <1>7, <2>1
<1>8. ASSUME NEW s \in Services, NEW pc, svc' = [svc EXCEPT ![s].pc = pc],
             DOMAIN presence' = DOMAIN presence
      PROVE  RowsCurrent'
  <2>1. svc'[s].todo = svc[s].todo /\ \A t \in Services : t # s => svc'[t] = svc[t]
    BY <1>2, <1>8 DEF Service
  <2> QED
    BY <1>4, <1>8, <2>1
<1>9. CASE WatcherStep
  <2>1. CASE Tick
    BY <1>8, <2>1 DEF Tick, Services
  <2>2. CASE InvalidateGone \/ EnqueueReady
    BY <1>8, <2>2 DEF InvalidateGone, EnqueueReady, Services
  <2> QED
    BY <1>6, <1>9, <2>1, <2>2 DEF WatcherStep, Services
<1>10. CASE ApiStep
  <2>1. CASE \E i \in Ids \cup {"none"} : Look(i)
    BY <1>7, <2>1 DEF Look, Services
  <2>2. CASE Choose
    BY <1>2, <1>4, <1>5, <2>2 DEF Choose, Services
  <2>3. CASE (\E i \in Ids : Trust(i)) \/ SaveProfile
    BY <1>3, <2>3 DEF Trust, SaveProfile
  <2> QED
    BY <1>6, <1>10, <2>1, <2>2, <2>3 DEF ApiStep, Services
<1>11. CASE JobStep
  BY <1>3, <1>11 DEF JobStep, Claim, MatchSelection, JobOpen, JobOpened, Release, appVars
<1>12. CASE Outside
  <2>1. CASE AppStops
    BY <1>3, <1>5, <2>1 DEF AppStops
  <2> QED
    BY <1>3, <1>12, <2>1 DEF Outside, Move, MountGoesWrong, GoesIdle, BrokerStops, appVars
<1>13. CASE UNCHANGED vars
  BY <1>3, <1>13 DEF vars, appVars
<1> QED
  BY <1>9, <1>10, <1>11, <1>12, <1>13 DEF Next

\* What the invariant says of the watcher's refresh and of the rows, in one place.
LEMMA Typed ==
    ASSUME IInv
    PROVE  /\ Live \subseteq AView /\ InHand \subseteq AView /\ Watch.todo \subseteq AView
           /\ DOMAIN svc = Services /\ Watch \in Service
           /\ volume \in [Ids -> Volume]
           /\ Watch.pc \in {"opening", "judged"} => Watch.judged.view \in DOMAIN presence
           /\ \A v \in AView : v.id \in Ids
<1>1. /\ DOMAIN presence \subseteq AView /\ volume \in [Ids -> Volume]
      /\ DOMAIN svc = Services /\ ServiceFits("watcher")
  BY DEF IInv, RowsFit, ServicesFit, Services
<1>2. Watch \in Service /\ Watch.todo \subseteq AView
  BY <1>1 DEF ServiceFits, Service, Watch
<1>3. Watch.pc \in {"opening", "judged"} => Watch.judged.view \in DOMAIN presence
  BY <1>1 DEF ServiceFits, Watch
<1>4. InHand \subseteq AView
  BY <1>1, <1>2, <1>3 DEF InHand
<1> QED
  BY <1>1, <1>2, <1>3, <1>4 DEF Live, AView

\* While the watcher goes on and the rows stay live, so does what is settled.
LEMMA QuietStep ==
    ASSUME IInv, Settled, Grows, spent \subseteq spent',
           Undisturbed' => svc'["api"].pc = "idle",
           svc'["watcher"] = svc["watcher"], seen' = seen, Live' = Live,
           \A i \in Ids : volume'[i].confidence = volume[i].confidence,
           Undisturbed /\ RefusedIsPast => RefusedIsPast'
    PROVE  Settled'
<1> SUFFICES ASSUME Undisturbed' PROVE (svc["api"].pc = "idle" /\ OneList /\ RefusedIsPast /\ TwinsLow)'
  BY DEF Settled
<1>1. Undisturbed /\ svc["api"].pc = "idle" /\ OneList /\ RefusedIsPast /\ TwinsLow
  BY DEF Undisturbed, Settled
<1>2. Watch' = Watch /\ InHand' = InHand /\ (Probing' <=> Probing) /\ (Again' <=> Again)
      /\ \A v : Twins(v)' = Twins(v)
  BY DEF Watch, InHand, Probing, Again, Twins
<1>3. OneList'
  BY <1>1, <1>2 DEF OneList, Alike
<1>4. TwinsLow'
  <2>1. ASSUME NEW v \in Live, Twins(v) # {}
        PROVE  volume'[v.id].confidence = "low" \/ Past(v)' \/ Again \/ (Probing /\ v \in InHand)
    <3>1. v \in AView /\ v.id \in Ids
      BY Typed
    <3>2. volume[v.id].confidence = "low" \/ Past(v) \/ Again \/ (Probing /\ v \in InHand)
      BY <1>1, <2>1 DEF TwinsLow
    <3> QED
      BY <3>1, <3>2 DEF Grows
  <2>2. Watch.pc = "judged" /\ Twins(Watch.judged.view) # {} => Watch.judged.confidence = "low"
    BY <1>1 DEF TwinsLow
  <2>3. \A v \in Live' : Twins(v)' # {} =>
           \/ volume'[v.id].confidence = "low"
           \/ Past(v)'
           \/ Again'
           \/ Probing' /\ v \in InHand'
    BY <1>2, <2>1
  <2>4. (Watch.pc = "judged" /\ Twins(Watch.judged.view) # {} => Watch.judged.confidence = "low")'
    BY <1>2, <2>2 DEF Twins
  <2> QED
    BY <2>3, <2>4 DEF TwinsLow
<1> QED
  BY <1>1, <1>3, <1>4

\* Neither the watcher's call nor its connection changes.
LEMMA RefusedStays ==
    ASSUME IInv, Grows, RefusedIsPast,
           svc'["watcher"] = svc["watcher"],
           up["watcher"] => up'["watcher"], call'["watcher"] = call["watcher"]
    PROVE  RefusedIsPast'
<1>1. Watch' = Watch /\ InHand' = InHand /\ (Probing' <=> Probing)
  BY DEF Watch, InHand, Probing
<1>2. \A v \in InHand : Past(v) => Past(v)'
  BY Typed DEF Grows
<1>3. call["watcher"].st = "refused" => call["watcher"].view \in AView
  BY VolumesAssumption DEF IInv, CallsFit, CallFits, Calls, NoCall
<1>4. call["watcher"].st = "refused" => Past(call["watcher"].view)'
  BY <1>3 DEF RefusedIsPast, Grows
<1>5. (call["watcher"].st = "refused" => Past(call["watcher"].view))'
  BY <1>4 DEF Past
<1>6. Watch'.pc = "listed" \/ Probing' => up'["watcher"] \/ \A v \in InHand' : Past(v)'
  BY <1>1, <1>2 DEF RefusedIsPast
<1> QED
  BY <1>5, <1>6 DEF RefusedIsPast

\* The api's calls, the job's, and what happens outside.
LEMMA QuietSteps ==
    ASSUME IInv, Settled, Grows,
           \/ JobStep \/ SaveProfile \/ Move \/ GoesIdle
           \/ Mount("api") /\ UNCHANGED appVars /\ Unspent
           \/ Verify("api") /\ UNCHANGED appVars /\ Unspent
           \/ UNCHANGED vars
    PROVE  Settled'
<1>1. /\ UNCHANGED <<svc, seen, volume, presence>> /\ spent \subseteq spent'
      /\ up["watcher"] => up'["watcher"]
      /\ call'["watcher"] = call["watcher"]
  <2>1. "watcher" \in Clients /\ DOMAIN call = Clients /\ up \in [Clients -> BOOLEAN]
    BY VolumesAssumption DEF IInv, CallsFit, MachineFits
  <2>2. CASE JobStep
    BY <2>1, <2>2 DEF JobStep, Claim, MatchSelection, JobOpen, JobOpened, Release, List,
       Reconnected, Open, Answered, Released, appVars, brokerVars, Unspent, Spend
  <2>3. CASE SaveProfile \/ Move \/ GoesIdle
    BY <2>1, <2>3 DEF SaveProfile, Move, Insert, Remove, GoesIdle, IdleTimeout, appVars,
       brokerVars, Spend
  <2>4. CASE (Mount("api") \/ Verify("api")) /\ UNCHANGED appVars /\ Unspent
    BY <2>1, <2>4 DEF Mount, Verify, appVars, Unspent
  <2>5. CASE UNCHANGED vars
    BY <2>1, <2>5 DEF vars, appVars, brokerVars
  <2> QED
    BY <2>2, <2>3, <2>4, <2>5
<1>2. Undisturbed' => svc'["api"].pc = "idle"
  BY <1>1 DEF Undisturbed, Settled
<1>3. RefusedIsPast => RefusedIsPast'
  BY <1>1, RefusedStays
<1> QED
  BY <1>1, <1>2, <1>3, QuietStep DEF Live

\* Steps that end the quiet.
LEMMA DisturbingSteps ==
    ASSUME Settled,
           \/ \E s \in Clients : MountGoesWrong(s) \/ NothingToMount(s)
           \/ \E i \in Ids \cup {"none"} : Look(i)
    PROVE  Settled'
<1>1. "fault" \in spent' \/ "look" \in spent'
  BY DEF MountGoesWrong, NothingToMount, Look, Spend
<1> QED
  BY <1>1 DEF Settled, Undisturbed

\* An approval leaves the confidence as it is.
LEMMA TrustSettles ==
    ASSUME IInv, Settled, Grows, NEW k \in Ids, Trust(k)
    PROVE  Settled'
<1>1. /\ UNCHANGED <<svc, seen, presence, call, up>> /\ spent \subseteq spent'
      /\ volume' = [volume EXCEPT ![k].trusted = TRUE]
  BY DEF Trust, brokerVars, Spend
<1>2. \A i \in Ids : volume'[i].confidence = volume[i].confidence
  <2>1. \A i \in Ids : volume[i] \in Volume
    BY DEF IInv, RowsFit
  <2>2. \A i \in Ids : volume'[i] = IF i = k THEN [volume[i] EXCEPT !.trusted = TRUE]
                                    ELSE volume[i]
    BY <1>1 DEF IInv, RowsFit
  <2> QED
    BY <2>1, <2>2 DEF Volume
<1>3. Undisturbed' => svc'["api"].pc = "idle"
  BY <1>1 DEF Undisturbed, Settled
<1>4. RefusedIsPast => RefusedIsPast'
  BY <1>1, RefusedStays
<1> QED
  BY <1>1, <1>2, <1>3, <1>4, QuietStep DEF Live

\* A broker that starts again leaves every list behind.
LEMMA RestartSettles ==
    ASSUME IInv, RowsCurrent, Settled, Grows, BrokerStops
    PROVE  Settled'
<1>1. /\ UNCHANGED appVars /\ spent \subseteq spent'
      /\ broker'.epoch = broker.epoch + 1
      /\ call' = [s \in Clients |-> IF call[s] = NoCall \/ call[s].st = "given"
                                    THEN call[s] ELSE [call[s] EXCEPT !.st = "refused"]]
  BY DEF BrokerStops, BrokerRestarts, Spend
<1>2. ASSUME NEW v \in AView, Past(v) \/ v \in Views(broker) PROVE Past(v)'
  <2>1. broker \in Broker
    BY DEF IInv, MachineFits
  <2>2. v.epoch <= broker.epoch
    BY <1>2, <2>1 DEF Past, Views, Broker, AView
  <2> QED
    BY <1>1, <2>1, <2>2 DEF Past, Broker, AView
<1>3. UNCHANGED <<svc, seen, volume, presence>>
  BY <1>1 DEF appVars
<1>4. \A v \in DOMAIN presence : Past(v)'
  BY <1>2 DEF RowsCurrent, IInv, RowsFit
<1>5. \A v \in InHand : Past(v)'
  <2>1. \A v \in Watch.todo : Past(v)'
    BY <1>2, Typed DEF RowsCurrent, Watch, Services
  <2> QED
    BY <1>4, <2>1, Typed DEF InHand
<1>6. RefusedIsPast'
  <2>1. InHand' = InHand
    BY <1>3 DEF InHand, Watch
  <2>2. ASSUME (call["watcher"].st = "refused")' PROVE Past(call["watcher"].view)'
    <3>1. "watcher" \in Clients
      BY VolumesAssumption
    <3>2. call["watcher"] # NoCall
      BY <1>1, <2>2, <3>1 DEF NoCall
    <3>3. call["watcher"] \in Calls /\ Watch.pc = "opening"
          /\ Watch.judged.view = call["watcher"].view
      BY <3>1, <3>2 DEF IInv, CallsFit, CallFits, Calls, Watch
    <3>4. call["watcher"].view \in DOMAIN presence
      BY <3>3, Typed
    <3>5. call'["watcher"].view = call["watcher"].view
      BY <1>1, <3>1, <3>3 DEF Calls
    <3>6. ASSUME NEW w \in DOMAIN presence, w = call'["watcher"].view
          PROVE  Past(call["watcher"].view)'
      BY <1>4, <3>6 DEF Past
    <3> QED
      BY <3>4, <3>5, <3>6
  <2>3. (\A v \in InHand : Past(v))'
    BY <1>5, <2>1
  <2> QED
    BY <2>2, <2>3 DEF RefusedIsPast
<1>7. Undisturbed' => svc'["api"].pc = "idle"
  BY <1>1, <1>3 DEF Undisturbed, Settled
<1> QED
  BY <1>1, <1>3, <1>6, <1>7, QuietStep DEF Live

\* An application that starts again lists the volumes again.
LEMMA AppStopsSettles ==
    ASSUME IInv, AppStops
    PROVE  Settled'
<1>1. /\ svc' = [s \in Services |-> Idle] /\ seen' = Never
      /\ call' = [s \in Clients |-> NoCall]
  BY DEF AppStops, ClientsRestart
<1>2. Watch'.pc = "idle" /\ svc'["api"].pc = "idle" /\ call'["watcher"].st # "refused"
  BY <1>1, VolumesAssumption DEF Watch, Services, Idle, NoCall
<1>3. Again' /\ ~Probing'
  BY <1>1, <1>2 DEF Again, Probing
<1>4. OneList' /\ RefusedIsPast' /\ TwinsLow'
  BY <1>2, <1>3 DEF OneList, RefusedIsPast, TwinsLow
<1> QED
  BY <1>2, <1>4 DEF Settled

\* The watcher's own call, up to its answer.
LEMMA MountSettles ==
    ASSUME IInv, RowsCurrent, RowsCurrent', Settled, Grows, UNCHANGED appVars, Unspent,
           Mount("watcher") \/ Verify("watcher")
    PROVE  Settled'
<1>1. /\ UNCHANGED <<svc, seen, volume, presence, up>> /\ spent' = spent
      /\ "watcher" \in Clients /\ DOMAIN call = Clients /\ call["watcher"].st # "none"
  BY VolumesAssumption DEF appVars, Unspent, Mount, Verify, IInv, CallsFit
<1>2. ASSUME RefusedIsPast PROVE RefusedIsPast'
  <2>1. InHand' = InHand /\ Watch' = Watch /\ (Probing' <=> Probing)
    BY <1>1 DEF InHand, Watch, Probing
  <2>2. \A v \in InHand : Past(v) => Past(v)'
    BY Typed DEF Grows
  <2>3. (Watch.pc = "listed" \/ Probing => up["watcher"] \/ \A v \in InHand : Past(v))'
    BY <1>1, <1>2, <2>1, <2>2 DEF RefusedIsPast
  <2>4. /\ call["watcher"] \in Calls /\ Watch.pc = "opening"
        /\ Watch.judged.view = call["watcher"].view
    BY <1>1 DEF IInv, CallsFit, CallFits, Calls, Watch, NoCall
  <2>5. call["watcher"].view \in DOMAIN presence
    BY <2>4, Typed
  <2>6. CASE Mount("watcher")
    <3>1. call'["watcher"].st = "mounted"
      BY <1>1, <2>4, <2>6 DEF Mount, Calls
    <3> QED
      BY <2>3, <3>1 DEF RefusedIsPast
  <2>7. CASE Verify("watcher")
    <3>1. /\ call'["watcher"].view = call["watcher"].view
          /\ call'["watcher"].st = "refused" => call["watcher"].view \notin Views(Observed)
          /\ broker' = Observed
      BY <1>1, <2>4, <2>7 DEF Verify, Calls
    <3>2. ASSUME NEW w \in DOMAIN presence, w = call'["watcher"].view,
                 call'["watcher"].st = "refused"
          PROVE  Past(call["watcher"].view)'
      <4>1. (Past(w) \/ w \in Views(broker))'
        BY <1>1 DEF RowsCurrent
      <4>2. ~(w \in Views(broker))'
        BY <3>1, <3>2 DEF Views
      <4> QED
        BY <3>2, <4>1, <4>2 DEF Past
    <3>3. (call["watcher"].st = "refused" => Past(call["watcher"].view))'
      BY <2>5, <3>1, <3>2
    <3> QED
      BY <2>3, <3>3 DEF RefusedIsPast
  <2> QED
    BY <2>6, <2>7
<1>3. Undisturbed' => svc'["api"].pc = "idle"
  BY <1>1 DEF Undisturbed, Settled
<1> QED
  BY <1>1, <1>2, <1>3, QuietStep DEF Live

\* While it has nothing to ask for, the watcher waits for no answer.
LEMMA NoWatcherCall ==
    ASSUME IInv, Watch.pc # "opening"
    PROVE  call["watcher"].st \notin {"refused", "given"}
<1> QED
  BY VolumesAssumption DEF IInv, CallsFit, CallFits, Calls, NoCall, Watch

\* Between two refreshes the watcher only counts and queues.
LEMMA BetweenSettles ==
    ASSUME IInv, Settled, Grows, Tick \/ InvalidateGone \/ EnqueueReady
    PROVE  Settled'
<1> SUFFICES ASSUME Undisturbed' PROVE (svc["api"].pc = "idle" /\ OneList /\ RefusedIsPast /\ TwinsLow)'
  BY DEF Settled
<1>1. /\ DOMAIN svc = Services /\ Watch \in Service
      /\ volume' = volume /\ spent' = spent /\ call' = call
      /\ svc'["api"] = svc["api"]
  BY Typed DEF Tick, List, InvalidateGone, EnqueueReady, Unspent, brokerVars, Services
<1>2. Undisturbed /\ svc["api"].pc = "idle" /\ TwinsLow
  BY <1>1 DEF Undisturbed, Settled
<1>3. Live' = Live
  <2>1. CASE Tick \/ InvalidateGone
    BY <2>1 DEF Tick, InvalidateGone, Live
  <2>2. CASE EnqueueReady
    <3>1. \A v \in DOMAIN presence : presence[v] \in Presence
      BY DEF IInv, RowsFit
    <3>2. /\ DOMAIN presence' = DOMAIN presence
          /\ \A v \in DOMAIN presence : presence'[v].live = presence[v].live
      BY <2>2, <3>1 DEF EnqueueReady, Presence
    <3> QED
      BY <3>2 DEF Live
  <2> QED
    BY <2>1, <2>2
<1>4. /\ Watch.pc \in {"idle", "gone", "ready"}
      /\ Watch'.pc \in {"refresh", "idle", "gone", "ready"}
      /\ Watch.pc = "idle" /\ seen = Never => Watch'.pc = "refresh"
  <2>1. CASE Tick
    <3>1. Token(broker') # Never
      BY DEF Token, Never
    <3> QED
      BY <1>1, <2>1, <3>1 DEF Tick, Watch, Services, Service
  <2>2. CASE InvalidateGone \/ EnqueueReady
    BY <1>1, <2>2 DEF InvalidateGone, EnqueueReady, Watch, Services, Service
  <2> QED
    BY <2>1, <2>2
<1>5. ~Probing /\ ~Probing' /\ call'["watcher"].st # "refused"
  BY <1>1, <1>4, NoWatcherCall DEF Probing
<1>6. OneList' /\ RefusedIsPast'
  BY <1>4, <1>5 DEF OneList, RefusedIsPast
<1>7. ASSUME NEW v \in Live, Twins(v) # {}
      PROVE  volume[v.id].confidence = "low" \/ Past(v)' \/ Watch'.pc = "refresh"
  <2>1. volume[v.id].confidence = "low" \/ Past(v) \/ Again
    BY <1>2, <1>5, <1>7 DEF TwinsLow
  <2>2. Again => Watch'.pc = "refresh"
    BY <1>4 DEF Again
  <2> QED
    BY <2>1, <2>2, Typed DEF Grows
<1>8. \A v : Twins(v)' = Twins(v)
  BY <1>3 DEF Twins
<1>9. TwinsLow'
  <2>1. \A v \in Live' : Twins(v)' # {} =>
           volume'[v.id].confidence = "low" \/ Past(v)' \/ Again'
    BY <1>1, <1>3, <1>7, <1>8 DEF Again
  <2> QED
    BY <1>4, <2>1 DEF TwinsLow
<1> QED
  BY <1>1, <1>2, <1>6, <1>9

\* A list is of one stamp, and makes the rows.
LEMMA ListSettles ==
    ASSUME IInv, Settled, Grows, RefreshList("watcher") \/ RefreshReflect("watcher")
    PROVE  Settled'
<1> SUFFICES ASSUME Undisturbed' PROVE (svc["api"].pc = "idle" /\ OneList /\ RefusedIsPast /\ TwinsLow)'
  BY DEF Settled
<1>1. /\ DOMAIN svc = Services /\ Watch \in Service
      /\ spent' = spent /\ call' = call
      /\ svc'["api"] = svc["api"]
  BY Typed DEF RefreshList, List, RefreshReflect, Unspent, brokerVars, Services
<1>2. Undisturbed /\ svc["api"].pc = "idle" /\ OneList /\ RefusedIsPast
  BY <1>1 DEF Undisturbed, Settled
<1>3. CASE RefreshList("watcher")
  <2>1. /\ Watch.pc = "refresh" /\ Watch'.pc = "listed" /\ Watch'.todo = Views(broker')
        /\ up'["watcher"] = TRUE /\ Again' /\ ~Probing'
    <3>1. Watch' = [Watch EXCEPT !.pc = "listed", !.todo = Views(broker')] /\ Watch.pc = "refresh"
      BY <1>1, <1>3 DEF RefreshList, Watch, Services
    <3>2. Watch'.pc = "listed" /\ Watch'.todo = Views(broker')
      BY <1>1, <3>1 DEF Service
    <3>3. up'["watcher"] = TRUE
      BY <1>3, VolumesAssumption DEF RefreshList, List, Reconnected, IInv, MachineFits
    <3> QED
      BY <3>1, <3>2, <3>3 DEF Again, Probing
  <2>2. \A v, w \in Watch'.todo : Alike(v, w)
    BY <2>1 DEF Views, Alike
  <2>3. OneList'
    BY <2>1, <2>2 DEF OneList
  <2>4. RefusedIsPast'
    BY <1>1, <2>1, NoWatcherCall DEF RefusedIsPast
  <2>5. TwinsLow'
    BY <2>1 DEF TwinsLow
  <2> QED
    BY <1>1, <1>2, <2>3, <2>4, <2>5
<1>4. CASE RefreshReflect("watcher")
  <2>1. /\ Watch.pc = "listed" /\ Watch'.pc = "probing" /\ Watch'.todo = Watch.todo
        /\ up' = up /\ broker' = broker
    <3>1. Watch' = [Watch EXCEPT !.pc = "probing", !.defs = revision] /\ Watch.pc = "listed"
      BY <1>1, <1>4 DEF RefreshReflect, Watch, Services
    <3> QED
      BY <1>1, <1>4, <3>1 DEF Service, RefreshReflect, brokerVars
  <2>2. InHand' = Watch.todo /\ InHand = Watch.todo /\ Probing'
    BY <2>1 DEF InHand, Probing
  <2>3. Live' = Watch.todo
    <3>1. presence' = Reflected(Watch.todo)
      BY <1>4 DEF RefreshReflect, Watch
    <3>2. \A v \in DOMAIN presence : presence[v] \in Presence
      BY DEF IInv, RowsFit
    <3>3. /\ DOMAIN presence' = DOMAIN presence \cup Watch.todo
          /\ \A v \in DOMAIN presence' : presence'[v].live = (v \in Watch.todo)
      BY <3>1, <3>2 DEF Reflected, Presence
    <3> QED
      BY <3>3 DEF Live
  <2>4. OneList'
    BY <1>2, <2>1, <2>2, <2>3 DEF OneList, Alike
  <2>5. RefusedIsPast'
    BY <1>1, <1>2, <2>1, <2>2, NoWatcherCall DEF RefusedIsPast, Past
  <2>6. TwinsLow'
    BY <2>1, <2>2, <2>3 DEF TwinsLow
  <2> QED
    BY <1>1, <1>2, <2>4, <2>5, <2>6
<1> QED
  BY <1>3, <1>4

\* A volume that cannot be opened is past, as the broker may mount any card.
LEMMA OpenSettles ==
    ASSUME AllAllowed, IInv, RowsCurrent, RowsCurrent', Settled, Grows,
           NEW k \in Watch.todo, ProbeOpen("watcher", k)
    PROVE  Settled'
<1> SUFFICES ASSUME Undisturbed' PROVE (svc["api"].pc = "idle" /\ OneList /\ RefusedIsPast /\ TwinsLow)'
  BY DEF Settled
<1>1. /\ DOMAIN svc = Services /\ Watch \in Service /\ "watcher" \in Clients
      /\ spent' = spent /\ svc'["api"] = svc["api"] /\ presence' = presence /\ volume' = volume
      /\ up' = up
  BY Typed, VolumesAssumption DEF ProbeOpen, Open, Unspent, Services
<1>2. Undisturbed /\ svc["api"].pc = "idle" /\ OneList /\ RefusedIsPast /\ TwinsLow
  BY <1>1 DEF Undisturbed, Settled
<1>3. /\ Watch.pc = "probing" /\ Watch'.pc = "opening" /\ Watch'.todo = Watch.todo \ {k}
      /\ Watch'.judged.view = k
  <2> DEFINE j == [view |-> k, digest |-> volume[k.id].digest]
  <2>1. /\ Watch.pc = "probing"
        /\ Watch' = [Watch EXCEPT !.pc = "opening", !.todo = Watch.todo \ {k}, !.judged = j]
    BY <1>1 DEF ProbeOpen, Watch, Services
  <2>2. j.view = k
    OBVIOUS
  <2> HIDE DEF j
  <2> QED
    BY <1>1, <2>1, <2>2 DEF Service
<1>4. InHand' = InHand /\ Probing /\ Probing' /\ InHand = Watch.todo
  BY <1>3 DEF InHand, Probing
<1>5. Live' = Live /\ \A v : Twins(v)' = Twins(v)
  BY <1>1 DEF Live, Twins
<1>6. /\ k \in DOMAIN presence /\ k \in AView
      /\ \A v \in InHand : v \in AView
  BY <1>1, <1>3, Typed DEF IInv, ServicesFit, ServiceFits, Services, Watch
<1>7. OneList'
  BY <1>2, <1>3, <1>4, <1>5 DEF OneList, Alike
<1>8. /\ call'["watcher"].view = k
      /\ call'["watcher"].st = "refused" => ~up["watcher"] \/ ~Accepted(k)
      /\ up["watcher"] => broker' = Observed
  BY <1>1 DEF ProbeOpen, Open, IInv, CallsFit
<1>9. \A v \in InHand : Past(v) => Past(v)'
  BY <1>6 DEF Grows
<1>10. ASSUME call'["watcher"].st = "refused" PROVE Past(k)'
  <2>1. CASE ~up["watcher"]
    BY <1>2, <1>4, <1>9, <2>1 DEF RefusedIsPast
  <2>2. CASE up["watcher"]
    <3>1. k \notin Views(Observed)
      <4>1. k \notin Views(Observed) \/ k.id \notin Allowed
        BY <1>8, <1>10, <2>2 DEF Accepted
      <4>2. k \in Views(Observed) => k.id \in Allowed
        <5>1. k \in Views(Observed) => at[k.node] # NoCard /\ Id[at[k.node]] = k.id
          BY ObservedFits DEF IInv
        <5>2. k.node \in Nodes /\ at \in [Nodes -> Cards \cup {NoCard}]
          BY <1>6 DEF AView, IInv, MachineFits
        <5> QED
          BY <5>1, <5>2 DEF AllAllowed
      <4> QED
        BY <4>1, <4>2
    <3>2. ~(k \in Views(broker))'
      BY <1>8, <2>2, <3>1 DEF Views
    <3>3. (Past(k) \/ k \in Views(broker))'
      BY <1>1, <1>6 DEF RowsCurrent
    <3> QED
      BY <3>2, <3>3
  <2> QED
    BY <2>1, <2>2
<1>11. RefusedIsPast'
  <2>1. (call["watcher"].st = "refused" => Past(call["watcher"].view))'
    BY <1>8, <1>10 DEF Past
  <2>2. up'["watcher"] \/ \A v \in InHand' : Past(v)'
    BY <1>1, <1>2, <1>4, <1>9 DEF RefusedIsPast
  <2> QED
    BY <2>1, <2>2 DEF RefusedIsPast
<1>12. TwinsLow'
  <2>1. \A v \in Live : Twins(v) # {} =>
           volume[v.id].confidence = "low" \/ Past(v) \/ v \in InHand
    BY <1>2, <1>3 DEF TwinsLow, Again
  <2>2. \A v \in Live : Past(v) => Past(v)'
    BY Typed DEF Grows
  <2>3. \A v \in Live' : Twins(v)' # {} =>
           volume'[v.id].confidence = "low" \/ Past(v)' \/ (Probing' /\ v \in InHand')
    BY <1>1, <1>4, <1>5, <2>1, <2>2
  <2> QED
    BY <1>3, <2>3 DEF TwinsLow
<1> QED
  BY <1>1, <1>2, <1>7, <1>11, <1>12

\* A verdict is low when there is another card.
LEMMA JudgeSettles ==
    ASSUME IInv, Settled, Grows, ProbeJudge("watcher")
    PROVE  Settled'
<1> SUFFICES ASSUME Undisturbed' PROVE (svc["api"].pc = "idle" /\ OneList /\ RefusedIsPast /\ TwinsLow)'
  BY DEF Settled
<1>1. /\ DOMAIN svc = Services /\ Watch \in Service /\ "watcher" \in Clients
      /\ spent' = spent /\ svc'["api"] = svc["api"] /\ presence' = presence /\ volume' = volume
      /\ up' = up /\ broker' = broker
  BY Typed, VolumesAssumption DEF ProbeJudge, Unspent, Services
<1>2. Undisturbed /\ svc["api"].pc = "idle" /\ OneList /\ RefusedIsPast /\ TwinsLow
  BY <1>1 DEF Undisturbed, Settled
<1>3. /\ Watch.pc = "opening" /\ Watch'.pc = "judged" /\ Watch'.todo = Watch.todo
      /\ Watch'.judged.view = Watch.judged.view
      /\ Watch'.judged.confidence
             \in Confidences(Watch.judged.view, Watch.judged.digest,
                             Listed(call["watcher"].card, Watch.defs))
  <2>1. PICK conf \in Confidences(Watch.judged.view, Watch.judged.digest,
                                  Listed(call["watcher"].card, Watch.defs)) :
          Watch' = [Watch EXCEPT !.pc = "judged", !.judged =
              [view |-> Watch.judged.view,
               digest |-> Listed(call["watcher"].card, Watch.defs),
               confidence |-> conf, kind |-> Outcome(call["watcher"].card, Watch.defs)]]
    BY <1>1 DEF ProbeJudge, Watch, Services
  <2>2. Watch.pc = "opening"
    BY DEF ProbeJudge, Watch
  <2> QED
    BY <1>1, <2>1, <2>2 DEF Service
<1>4. InHand' = InHand /\ Probing /\ Probing'
  BY <1>3 DEF InHand, Probing
<1>5. Live' = Live /\ \A v : Twins(v)' = Twins(v) /\ Past(v)' = Past(v)
  BY <1>1 DEF Live, Twins, Past
<1>6. OneList'
  BY <1>2, <1>3, <1>4, <1>5 DEF OneList, Alike
<1>7. call'["watcher"].st # "refused"
  BY <1>1 DEF ProbeJudge, Answered, NoCall, IInv, CallsFit
<1>8. RefusedIsPast'
  BY <1>1, <1>2, <1>4, <1>5, <1>7 DEF RefusedIsPast
<1>9. Twins(Watch.judged.view) # {} => Watch'.judged.confidence = "low"
  BY <1>3 DEF Confidences
<1>10. TwinsLow'
  <2>1. \A v \in Live : Twins(v) # {} =>
           volume[v.id].confidence = "low" \/ Past(v) \/ v \in InHand
    BY <1>2, <1>3 DEF TwinsLow, Again
  <2>2. (Watch.pc = "judged" /\ Twins(Watch.judged.view) # {} =>
            Watch.judged.confidence = "low")'
    BY <1>3, <1>5, <1>9 DEF Twins
  <2>3. \A v \in Live' : Twins(v)' # {} =>
           volume'[v.id].confidence = "low" \/ Past(v)' \/ (Probing' /\ v \in InHand')
    BY <1>1, <1>4, <1>5, <2>1
  <2> QED
    BY <2>2, <2>3 DEF TwinsLow
<1> QED
  BY <1>1, <1>2, <1>6, <1>8, <1>10

\* The verdict about one of two cards is stored for both.
LEMMA WriteSettles ==
    ASSUME IInv, Settled, Grows, ProbeWrite("watcher")
    PROVE  Settled'
<1> SUFFICES ASSUME Undisturbed' PROVE (svc["api"].pc = "idle" /\ OneList /\ RefusedIsPast /\ TwinsLow)'
  BY DEF Settled
<1>1. /\ DOMAIN svc = Services /\ Watch \in Service /\ "watcher" \in Clients
      /\ spent' = spent /\ svc'["api"] = svc["api"] /\ presence' = presence
      /\ up' = up /\ broker' = broker /\ call' = call
  BY Typed, VolumesAssumption DEF ProbeWrite, Unspent, Services, brokerVars
<1>2. Undisturbed /\ svc["api"].pc = "idle" /\ OneList /\ RefusedIsPast /\ TwinsLow
  BY <1>1 DEF Undisturbed, Settled
<1> DEFINE j == Watch.judged
<1>3. /\ Watch.pc = "judged" /\ Watch'.pc = "probing" /\ Watch'.todo = Watch.todo
  <2>1. PICK f : Watch' = [Watch EXCEPT !.pc = "probing", !.judged = Unprobed, !.found = f]
    BY <1>1 DEF ProbeWrite, Watch, Services
  <2>2. Watch.pc = "judged"
    BY DEF ProbeWrite, Watch
  <2> QED
    BY <1>1, <2>1, <2>2 DEF Service
<1>4. j \in Verdict /\ j.view.id \in Ids
  BY <1>3, Typed, VolumesAssumption DEF IInv, ServicesFit, ServiceFits, Services, Watch, Verdict
<1>5. /\ volume'[j.view.id].confidence = j.confidence
      /\ \A i \in Ids : i # j.view.id => volume'[i] = volume[i]
  <2>1. PICK p, r : volume' = [volume EXCEPT ![j.view.id] =
            [@ EXCEPT !.digest = j.digest, !.confidence = j.confidence,
                      !.provisional = p, !.rev = r]]
    BY DEF ProbeWrite, Watch
  <2>2. volume \in [Ids -> Volume]
    BY Typed
  <2> QED
    BY <1>4, <2>1, <2>2 DEF Volume
<1>6. /\ InHand = Watch.todo \cup {j.view} /\ InHand' = Watch.todo /\ Probing /\ Probing'
  BY <1>3 DEF InHand, Probing
<1>7. Live' = Live /\ \A v : Twins(v)' = Twins(v) /\ Past(v)' = Past(v)
  BY <1>1 DEF Live, Twins, Past
<1>8. OneList'
  BY <1>2, <1>3, <1>6, <1>7 DEF OneList, Alike
<1>9. RefusedIsPast'
  BY <1>1, <1>2, <1>3, <1>6, <1>7, NoWatcherCall DEF RefusedIsPast
<1>10. ASSUME NEW v \in Live, Twins(v) # {}
       PROVE  volume'[v.id].confidence = "low" \/ Past(v) \/ v \in Watch.todo
  <2>1. v.id \in Ids
    BY Typed
  <2>2. CASE v.id = j.view.id
    <3>1. PICK w \in Live : w.id = v.id /\ w.node # v.node
      BY <1>10 DEF Twins
    <3>2. Twins(j.view) # {}
      BY <2>2, <3>1 DEF Twins
    <3> QED
      BY <1>2, <1>3, <1>5, <2>2, <3>2 DEF TwinsLow
  <2>3. CASE v.id # j.view.id
    <3>1. volume[v.id].confidence = "low" \/ Past(v) \/ v \in InHand
      BY <1>2, <1>3, <1>10 DEF TwinsLow, Again
    <3> QED
      BY <1>5, <1>6, <2>1, <2>3, <3>1
  <2> QED
    BY <2>2, <2>3
<1>11. TwinsLow'
  <2>1. \A v \in Live' : Twins(v)' # {} =>
           volume'[v.id].confidence = "low" \/ Past(v)' \/ (Probing' /\ v \in InHand')
    BY <1>6, <1>7, <1>10
  <2> QED
    BY <1>3, <2>1 DEF TwinsLow
<1> QED
  BY <1>1, <1>2, <1>8, <1>9, <1>11

\* A refresh that ends leaves nothing to judge, or nothing of the newest list.
LEMMA EndSettles ==
    ASSUME IInv, Settled, Grows, RefreshDone("watcher") \/ RefreshAborts("watcher")
    PROVE  Settled'
<1> SUFFICES ASSUME Undisturbed' PROVE (svc["api"].pc = "idle" /\ OneList /\ RefusedIsPast /\ TwinsLow)'
  BY DEF Settled
<1>1. /\ DOMAIN svc = Services /\ "watcher" \in Clients
      /\ spent' = spent /\ svc'["api"] = svc["api"] /\ presence' = presence /\ volume' = volume
      /\ broker' = broker
  BY Typed, VolumesAssumption DEF RefreshDone, RefreshAborts, Unspent, Services, brokerVars
<1>2. Undisturbed /\ svc["api"].pc = "idle" /\ OneList /\ RefusedIsPast /\ TwinsLow
  BY <1>1 DEF Undisturbed, Settled
<1>3. Watch'.pc \in {"gone", "idle"}
  BY <1>1 DEF RefreshDone, RefreshAborts, Watch, Services, Idle
<1>4. call'["watcher"].st # "refused"
  <2>1. CASE RefreshDone("watcher")
    BY <2>1, NoWatcherCall DEF RefreshDone, brokerVars, Watch
  <2>2. CASE RefreshAborts("watcher")
    BY <1>1, <2>2 DEF RefreshAborts, Answered, NoCall, IInv, CallsFit
  <2> QED
    BY <2>1, <2>2
<1>5. OneList' /\ RefusedIsPast'
  BY <1>3, <1>4 DEF OneList, RefusedIsPast, Probing
<1>6. Live' = Live /\ \A v : Twins(v)' = Twins(v) /\ Past(v)' = Past(v)
  BY <1>1 DEF Live, Twins, Past
<1>7. ASSUME NEW v \in Live, Twins(v) # {}
      PROVE  volume[v.id].confidence = "low" \/ Past(v)
  <2>1. CASE RefreshDone("watcher")
    <3>1. Watch.pc = "probing" /\ Watch.todo = {}
      BY <2>1 DEF RefreshDone, Watch
    <3> QED
      BY <1>2, <1>7, <3>1 DEF TwinsLow, InHand, Again
  <2>2. CASE RefreshAborts("watcher")
    <3>1. Watch.pc = "opening" /\ call["watcher"].st = "refused"
      BY <2>2 DEF RefreshAborts, Watch
    <3>2. Watch.judged.view = call["watcher"].view /\ Watch.judged.view \in InHand /\ Probing
      BY <1>1, <3>1 DEF IInv, CallsFit, CallFits, NoCall, Watch, InHand, Probing
    <3>3. Alike(v, call["watcher"].view) /\ Past(call["watcher"].view)
      BY <1>2, <1>7, <3>1, <3>2 DEF OneList, RefusedIsPast
    <3> QED
      BY <3>3 DEF Alike, Past
  <2> QED
    BY <2>1, <2>2
<1>8. TwinsLow'
  <2>1. \A v \in Live' : Twins(v)' # {} => volume'[v.id].confidence = "low" \/ Past(v)'
    BY <1>1, <1>6, <1>7
  <2> QED
    BY <1>3, <2>1 DEF TwinsLow
<1> QED
  BY <1>1, <1>2, <1>5, <1>8

\* Every step, with a broker that may mount every card.
LEMMA StepSettles ==
    ASSUME AllAllowed, IInv, RowsCurrent, Settled, [Next]_vars
    PROVE  Settled'
<1>1. Grows /\ RowsCurrent'
  BY BrokerGrows, RowsStayCurrent
<1>2. "api" \in Clients /\ "watcher" \in Clients
  BY VolumesAssumption
<1>3. CASE ServiceStep("watcher")
  <2>1. CASE (Mount("watcher") \/ Verify("watcher")) /\ UNCHANGED appVars /\ Unspent
    BY <1>1, <2>1, MountSettles
  <2>2. CASE NothingToMount("watcher")
    BY <1>2, <2>2, DisturbingSteps
  <2>3. CASE \E v \in svc["watcher"].todo : ProbeOpen("watcher", v)
    BY <1>1, <2>3, OpenSettles DEF Watch
  <2> QED
    BY <1>1, <1>3, <2>1, <2>2, <2>3, ListSettles, JudgeSettles, WriteSettles, EndSettles
       DEF ServiceStep, BrokerStep
<1>4. CASE ServiceStep("api")
  <2>1. CASE (Mount("api") \/ Verify("api")) /\ UNCHANGED appVars /\ Unspent
    BY <1>1, <2>1, QuietSteps
  <2>2. CASE NothingToMount("api")
    BY <1>2, <2>2, DisturbingSteps
  <2>3. CASE ~BrokerStep("api")
    <3>1. svc["api"].pc # "idle" /\ spent' = spent
      BY <1>4, <2>3 DEF ServiceStep, RefreshList, RefreshReflect, ProbeOpen, ProbeJudge,
         ProbeWrite, RefreshDone, RefreshAborts, Unspent
    <3> QED
      BY <3>1 DEF Settled, Undisturbed
  <2> QED
    BY <2>1, <2>2, <2>3 DEF BrokerStep
<1>5. CASE WatcherStep
  BY <1>1, <1>3, <1>5, BetweenSettles DEF WatcherStep
<1>6. CASE ApiStep
  <2>1. CASE Choose
    <3>1. svc["api"].pc # "idle" /\ spent' = spent
      BY <2>1 DEF Choose, Unspent
    <3> QED
      BY <3>1 DEF Settled, Undisturbed
  <2>2. CASE \E i \in Ids \cup {"none"} : Look(i)
    BY <2>2, DisturbingSteps
  <2>3. CASE \E i \in Ids : Trust(i)
    BY <1>1, <2>3, TrustSettles
  <2>4. CASE SaveProfile
    BY <1>1, <2>4, QuietSteps
  <2> QED
    BY <1>4, <1>6, <2>1, <2>2, <2>3, <2>4 DEF ApiStep
<1>7. CASE JobStep \/ UNCHANGED vars
  BY <1>1, <1>7, QuietSteps
<1>8. CASE Outside
  <2>1. CASE Move \/ GoesIdle
    BY <1>1, <2>1, QuietSteps
  <2>2. CASE \E s \in Clients : MountGoesWrong(s)
    BY <2>2, DisturbingSteps
  <2>3. CASE BrokerStops
    BY <1>1, <2>3, RestartSettles
  <2>4. CASE AppStops
    BY <2>4, AppStopsSettles
  <2> QED
    BY <1>8, <2>1, <2>2, <2>3, <2>4 DEF Outside
<1> QED
  BY <1>5, <1>6, <1>7, <1>8 DEF Next

\* At the start no list was taken, and the rows are of a broker that is gone.
LEMMA StartSettles == ASSUME Init PROVE RowsCurrent /\ Settled
<1>1. /\ svc = [s \in Services |-> Idle] /\ seen = Never
      /\ call = [s \in Clients |-> NoCall]
      /\ broker.epoch = 1
  BY DEF Init, BrokerInit
<1>2. PICK start \in Starts :
          presence = [v \in start.rows |->
                         [live |-> TRUE, scanned |-> FALSE, imported |-> FALSE]]
  BY DEF Init
<1>3. \A v \in DOMAIN presence : Past(v)
  <2>1. \A v \in start.rows : v.epoch = 0
    BY <1>2, VolumesAssumption
  <2> QED
    BY <1>1, <1>2, <2>1 DEF Past
<1>4. \A s \in Services : svc[s].todo = {}
  BY <1>1 DEF Idle
<1>5. Watch.pc = "idle" /\ svc["api"].pc = "idle" /\ call["watcher"].st # "refused"
  BY <1>1, VolumesAssumption DEF Watch, Services, Idle, NoCall
<1>6. Again /\ ~Probing
  BY <1>1, <1>5 DEF Again, Probing
<1>7. OneList /\ RefusedIsPast /\ TwinsLow
  BY <1>5, <1>6 DEF OneList, RefusedIsPast, TwinsLow
<1> QED
  BY <1>3, <1>4, <1>5, <1>7 DEF RowsCurrent, Settled

\* The rows are those of the broker's lists, and two cards of one identity are low
\* or will be listed again, as long as nobody interferes.
THEOREM TwinsInductive ==
    ASSUME AllAllowed
    PROVE  Spec => [](RowsCurrent /\ Settled)
<1>1. Init => RowsCurrent /\ Settled
  BY StartSettles
<1>2. IInv /\ (RowsCurrent /\ Settled) /\ [Next]_vars => (RowsCurrent /\ Settled)'
  BY RowsStayCurrent, StepSettles
<1> QED
  BY <1>1, <1>2, Inductive, PTL DEF Spec

\* Two cards of one identity are not imported by themselves, where the broker may
\* mount every card: one that is refused ends the refresh before it has judged them.
THEOREM TwinsSafe ==
    ASSUME AllAllowed
    PROVE  Spec => TwinsWait
<1> DEFINE Waits == \A v \in DOMAIN presence :
          Job("import", v) \in queue' \ queue =>
              Twins(v) = {} \/ v \notin Views(broker) \/ ~Undisturbed
<1>1. ASSUME IInv, RowsCurrent /\ Settled, [Next]_vars PROVE [Waits]_vars
  <2> SUFFICES ASSUME NEW v \in DOMAIN presence, Job("import", v) \in queue' \ queue,
                      Twins(v) # {}, v \in Views(broker), Undisturbed
               PROVE  FALSE
    OBVIOUS
  <2>1. EnqueueReady
    <3>1. CASE Choose
      <4>1. Job("import", v) \in {Job("scan", w) : w \in {x \in svc["api"].found :
                                                           x.id = svc["api"].for}}
        BY <3>1 DEF Choose
      <4> QED
        BY <4>1 DEF Job
    <3>2. CASE ~Choose
      BY <1>1, <3>2 DEF Next, vars, WatcherStep, ApiStep, JobStep, Outside, ServiceStep, BrokerStep,
         NothingToMount, RefreshList, RefreshReflect, ProbeOpen, ProbeJudge, ProbeWrite,
         RefreshDone, RefreshAborts, Tick, InvalidateGone, Look, Trust, SaveProfile, Claim,
         MatchSelection, JobOpen, JobOpened, Release, Move, MountGoesWrong, GoesIdle,
         BrokerStops, AppStops, appVars
    <3> QED
      BY <3>1, <3>2
  <2>2. v \in Candidates
    <3>1. \/ Job("import", v) \in {Job("scan", w) : w \in ToCount}
          \/ Job("import", v) \in {Job("import", w) : w \in Candidates}
      BY <2>1 DEF EnqueueReady
    <3> QED
      BY <3>1 DEF Job
  <2>3. v \in Live /\ volume[v.id].confidence = "high"
    BY <2>2 DEF Candidates
  <2>4. Watch.pc = "ready"
    BY <2>1 DEF EnqueueReady, Watch
  <2>5. Past(v)
    BY <1>1, <2>3, <2>4 DEF Settled, TwinsLow, Again, Probing
  <2>6. broker \in Broker
    BY <1>1 DEF IInv, MachineFits
  <2> QED
    BY <2>5, <2>6 DEF Past, Views, Broker
<1>2. QED
  BY <1>1, Inductive, TwinsInductive, PTL DEF Spec, TwinsWait
=============================================================================
