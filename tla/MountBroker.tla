---------------------------- MODULE MountBroker ----------------------------
(* mountd, the privileged process that lists the USB volumes and hands out   *)
(* read-only directory descriptors of them, and the connection each of its   *)
(* clients keeps to it (mountd/server.py, mountd/mounts.py, devices.py,      *)
(* nsmount.py, adapters/broker_client.py).                                   *)
(*                                                                           *)
(* The hardware moves on its own: a card enters or leaves a device node      *)
(* between any two steps.  The broker does not hear of it; it only sees what *)
(* it finds when it is asked, and stamps its list with the epoch of the      *)
(* process and a generation that grows when two lists in a row differ.  A    *)
(* card is seen through its identity (UUID, type, size), which two cards     *)
(* may share.                                                                *)
EXTENDS Integers, FiniteSets

CONSTANTS
    Clients,        \* the connections: one per BrokerClient
    Nodes,          \* the device nodes, major:minor, reused by whatever comes
    Cards,
    NoCard,
    Ids,            \* what blkid and sysfs tell of a card
    Id,             \* Id[c]: the identity of card c
    Allowed         \* the identities whose filesystem is exfat or vfat

ASSUME BrokerAssumption ==
    /\ Id \in [Cards -> Ids]
    /\ Allowed \subseteq Ids
    /\ NoCard \notin Cards

VARIABLES
    at,         \* at[n]: the card behind node n
    broker,     \* the epoch, the generation and the last observed set
    call,       \* call[s]: the open_volume request client s waits for
    up,         \* up[s]: the socket of client s still reaches the broker
    held        \* held[s]: the handles the broker keeps for client s

brokerVars == <<at, broker, call, up, held>>

NoCall == [st |-> "none"]

Fingerprint == {<<n, Id[at[n]]>> : n \in {m \in Nodes : at[m] # NoCard}}

\* The broker after it has looked at the machine once more.
Observed ==
    IF broker.looked /\ broker.finger = Fingerprint
    THEN broker
    ELSE [broker EXCEPT !.looked = TRUE, !.finger = Fingerprint,
                        !.generation = @ + 1]

\* The volumes of an observation, as the client receives them and as it states
\* them again in the expect of an open.
Views(b) ==
    {[epoch |-> b.epoch, generation |-> b.generation, node |-> f[1], id |-> f[2]] :
         f \in b.finger}

BrokerInit(arrangements) ==
    /\ at \in arrangements
    /\ broker = [epoch |-> 1, generation |-> 0, looked |-> FALSE, finger |-> {}]
    /\ call = [s \in Clients |-> NoCall]
    /\ up = [s \in Clients |-> TRUE]
    /\ held = [s \in Clients |-> {}]

(* ------------------------------ the hardware ----------------------------- *)

Insert(n, c) ==
    /\ at[n] = NoCard
    /\ \A m \in Nodes : at[m] # c
    /\ at' = [at EXCEPT ![n] = c]
    /\ UNCHANGED <<broker, call, up, held>>

Remove(n) ==
    /\ at[n] # NoCard
    /\ at' = [at EXCEPT ![n] = NoCard]
    /\ UNCHANGED <<broker, call, up, held>>

(* ------------------------------ the requests ----------------------------- *)

Reconnected(s) == [up EXCEPT ![s] = TRUE]

\* list_volumes.  The one request that is sent again on a new connection.
List(s) ==
    /\ broker' = Observed
    /\ up' = Reconnected(s)
    /\ UNCHANGED <<at, call, held>>

\* The broker's first look: the volume is there, its filesystem is one the
\* kernel may be given, and it matches the expect in every field.
Accepted(view) == view \in Views(Observed) /\ view.id \in Allowed

\* open_volume, up to the mount command.  The request is never repeated, so on a
\* dead connection it is lost.
Open(s, use, view) ==
    /\ call[s] = NoCall
    /\ broker' = IF up[s] THEN Observed ELSE broker
    /\ call' = [call EXCEPT ![s] =
           [st |-> IF up[s] /\ Accepted(view) THEN "accepted" ELSE "refused",
            use |-> use, view |-> view, card |-> NoCard]]
    /\ UNCHANGED <<at, up, held>>

\* A clone of the mounted tree, detached from every path at once: the card it
\* shows never changes again.
Clone(n) == at[n]

\* The mount command takes whatever card is behind the node now.
Mount(s) ==
    /\ call[s].st = "accepted"
    /\ at[call[s].view.node] # NoCard
    /\ call' = [call EXCEPT ![s].st = "mounted", ![s].card = Clone(call[s].view.node)]
    /\ UNCHANGED <<at, broker, up, held>>

MountFails(s) ==
    /\ call[s].st = "accepted"
    /\ call' = [call EXCEPT ![s].st = "refused"]
    /\ UNCHANGED <<at, broker, up, held>>

\* Fault: the mount is trusted because the volume matched before it.
FaultVerify(s) ==
    /\ call[s].st = "mounted"
    /\ broker' = Observed
    /\ call' = [call EXCEPT ![s].st = "given"]
    /\ held' = [held EXCEPT ![s] = @ \cup {call[s].use}]
    /\ UNCHANGED <<at, up>>

\* The second look.  Only now is the clone recorded and its descriptor sent.
Verify(s) ==
    /\ call[s].st = "mounted"
    /\ broker' = Observed
    /\ LET same == call[s].view \in Views(Observed)
       IN  /\ call' = [call EXCEPT ![s].st = IF same THEN "given" ELSE "refused"]
           /\ held' = [held EXCEPT ![s] = IF same THEN @ \cup {call[s].use} ELSE @]
    /\ UNCHANGED <<at, up>>

\* The client takes the answer it waits for, under the lock of the connection.
Answered(s) == call' = [call EXCEPT ![s] = NoCall]

\* Fault: the client closes its own descriptor and does not tell the broker.
FaultReleased(s, use) == held

\* close_volume: the client's descriptor first, then the broker's.  On a dead
\* connection there is nothing left to release.
Released(s, use) == [held EXCEPT ![s] = @ \ {use}]

(* ------------------------------ breaking off ----------------------------- *)

\* A broker that starts again: a new random epoch, the generation from zero,
\* and none of the handles of the old process.
BrokerRestarts ==
    /\ broker' = [epoch |-> broker.epoch + 1, generation |-> 0,
                  looked |-> FALSE, finger |-> {}]
    /\ call' = [s \in Clients |->
           IF call[s] = NoCall \/ call[s].st = "given"
           THEN call[s] ELSE [call[s] EXCEPT !.st = "refused"]]
    /\ up' = [s \in Clients |-> FALSE]
    /\ held' = [s \in Clients |-> {}]
    /\ UNCHANGED at

\* The clients end: each connection is closed and its thread in the broker
\* releases every handle it had given out.
ClientsRestart ==
    /\ call' = [s \in Clients |-> NoCall]
    /\ up' = [s \in Clients |-> TRUE]
    /\ held' = [s \in Clients |-> {}]
    /\ UNCHANGED <<at, broker>>

\* A connection without a handle and without a request is dropped when idle.
IdleTimeout(s) ==
    /\ up[s] /\ held[s] = {} /\ call[s] = NoCall
    /\ up' = [up EXCEPT ![s] = FALSE]
    /\ UNCHANGED <<at, broker, call, held>>

=============================================================================
