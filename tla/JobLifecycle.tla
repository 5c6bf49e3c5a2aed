---------------------------- MODULE JobLifecycle ----------------------------
(***************************************************************************)
(* What the job queue promises to the rest of mediaferry, with no leases,  *)
(* tokens, processes or connections in it: a job is handed to a handler at *)
(* most once and to one handler at a time in the whole installation, it    *)
(* ends exactly once, never while its handler is still running, and once   *)
(* a cancellation has been acknowledged no fenced side effect of the job   *)
(* takes place any more.  JobQueue implements this specification.          *)
(***************************************************************************)
EXTENDS Naturals

CONSTANTS Jobs, NoJob

VARIABLES phase,      \* what a reader of the job table sees of each job
          executing,  \* the job whose handler is running, or NoJob
          handed,     \* the jobs a handler has ever been called for
          effects     \* how many fenced side effects each job has had

vars == <<phase, executing, handed, effects>>

Live  == {"running", "cancelling"}
Final == {"succeeded", "failed", "cancelled", "interrupted", "deleted"}

\* The final states a live job may end in.
Outcomes(p) == IF p = "running"
               THEN {"succeeded", "failed", "interrupted"}
               ELSE {"cancelled", "failed", "interrupted"}

Init == /\ phase = [j \in Jobs |-> "absent"]
        /\ executing = NoJob
        /\ handed = {}
        /\ effects = [j \in Jobs |-> 0]

Submit(j) == /\ phase[j] = "absent"
             /\ phase' = [phase EXCEPT ![j] = "queued"]
             /\ UNCHANGED <<executing, handed, effects>>

Claim(j) == /\ phase[j] = "queued"
            /\ phase' = [phase EXCEPT ![j] = "running"]
            /\ UNCHANGED <<executing, handed, effects>>

AskCancel(j) == /\ \/ /\ phase[j] = "queued"
                      /\ phase' = [phase EXCEPT ![j] = "cancelled"]
                   \/ /\ phase[j] = "running"
                      /\ phase' = [phase EXCEPT ![j] = "cancelling"]
                /\ UNCHANGED <<executing, handed, effects>>

Execute(j) == /\ executing = NoJob
              /\ j \notin handed
              /\ phase[j] \in Live
              /\ executing' = j
              /\ handed' = handed \cup {j}
              /\ UNCHANGED <<phase, effects>>

Effect(j) == /\ executing = j
             /\ phase[j] = "running"
             /\ effects' = [effects EXCEPT ![j] = @ + 1]
             /\ UNCHANGED <<phase, executing, handed>>

\* The handler returns, raises, or dies with its process.
Leave == /\ executing # NoJob
         /\ executing' = NoJob
         /\ UNCHANGED <<phase, handed, effects>>

\* One job settles, or a sweep interrupts several at once.
End(S) == /\ S # {}
          /\ executing \notin S
          /\ \A j \in S : phase[j] \in Live
          /\ \E o \in [S -> Final] :
                /\ \A j \in S : o[j] \in Outcomes(phase[j])
                /\ phase' = [j \in Jobs |-> IF j \in S THEN o[j] ELSE phase[j]]
          /\ UNCHANGED <<executing, handed, effects>>

\* A reset erases the history, only when nothing is live.
Erase == /\ \A j \in Jobs : phase[j] \notin Live
         /\ phase' = [j \in Jobs |->
                        IF phase[j] = "absent" THEN "absent" ELSE "deleted"]
         /\ UNCHANGED <<executing, handed, effects>>

Next == \/ \E j \in Jobs : \/ Submit(j) \/ Claim(j) \/ AskCancel(j)
                           \/ Execute(j) \/ Effect(j)
        \/ \E S \in SUBSET Jobs : End(S)
        \/ Leave
        \/ Erase

Spec == Init /\ [][Next]_vars
=============================================================================
