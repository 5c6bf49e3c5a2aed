---------------------------- MODULE Publication ----------------------------
(***************************************************************************)
(* What the publication of artifacts promises, without the file system and *)
(* the job that carries it out: an artifact is prepared, then either       *)
(* dropped or staged; once it is staged its bytes are fixed, it can only   *)
(* be published, and publishing adds to the catalogue without replacing    *)
(* anything in it (docs/design.md 9.3).                                    *)
(***************************************************************************)
CONSTANTS Slots,     \* the artifacts
          Contents,  \* what a file can contain
          Names,     \* places in the library
          Nothing

VARIABLES phase, bytes, shelf

vars == <<phase, bytes, shelf>>

Init == /\ phase = [s \in Slots |-> "free"]
        /\ bytes = [s \in Slots |-> Nothing]
        /\ shelf = [n \in Names |-> Nothing]

Move(s, from, to) == /\ phase[s] = from
                     /\ phase' = [phase EXCEPT ![s] = to]

Prepare(s) == Move(s, "free", "writing") /\ UNCHANGED <<bytes, shelf>>

Drop(s) == Move(s, "writing", "gone") /\ UNCHANGED <<bytes, shelf>>

Stage(s) == /\ Move(s, "writing", "staged")
            /\ \E c \in Contents : bytes' = [bytes EXCEPT ![s] = c]
            /\ UNCHANGED shelf

Publish(s) == /\ Move(s, "staged", "published")
              /\ \E n \in Names :
                    /\ shelf[n] \in {Nothing, bytes[s]}
                    /\ shelf' = [shelf EXCEPT ![n] = bytes[s]]
              /\ UNCHANGED bytes

Next == \E s \in Slots : Prepare(s) \/ Drop(s) \/ Stage(s) \/ Publish(s)

Spec == Init /\ [][Next]_vars
=============================================================================
