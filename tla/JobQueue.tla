------------------------------ MODULE JobQueue ------------------------------
(* What a pool of workers promises of the jobs it is given: each is begun  *)
(* at most once, in the order submitted, and ends finished or -- when the  *)
(* pool is stopped or cleaned up -- lost.                                  *)
EXTENDS Naturals, Sequences, SequencesExt

CONSTANT Jobs

VARIABLES waiting, running, finished, lost

jobVars == <<waiting, running, finished, lost>>

Known == ToSet(waiting) \cup running \cup finished \cup lost

JobInit == waiting = <<>> /\ running = {} /\ finished = {} /\ lost = {}

Submit(j) == /\ j \notin Known
             /\ waiting' = Append(waiting, j)
             /\ UNCHANGED <<running, finished, lost>>

Begin == /\ waiting # <<>>
         /\ waiting' = Tail(waiting) /\ running' = running \cup {Head(waiting)}
         /\ UNCHANGED <<finished, lost>>

End(j) == /\ j \in running
          /\ running' = running \ {j} /\ finished' = finished \cup {j}
          /\ UNCHANGED <<waiting, lost>>

Abandon(j) == /\ j \in running
              /\ running' = running \ {j} /\ lost' = lost \cup {j}
              /\ UNCHANGED <<waiting, finished>>

Discard == /\ waiting' = <<>> /\ lost' = lost \cup ToSet(waiting)
           /\ UNCHANGED <<running, finished>>

JobNext == Begin \/ Discard \/ \E j \in Jobs : Submit(j) \/ End(j) \/ Abandon(j)

JobSpec == JobInit /\ [][JobNext]_jobVars
=============================================================================
