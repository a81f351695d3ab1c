------------------------------ MODULE JobLanes ------------------------------
(***************************************************************************)
(* What a pool of workers with one queue each promises: a job goes to a    *)
(* worker that has been hired and not dismissed, every worker takes its    *)
(* own jobs in order, and a worker leaves only after it has been dismissed *)
(* and has nothing left to do.                                             *)
(***************************************************************************)
EXTENDS Sequences

CONSTANTS Workers, Jobs

VARIABLES status, lane

lvars == <<status, lane>>

LanesInit == /\ status = [w \in Workers |-> "absent"]
             /\ lane = [w \in Workers |-> << >>]

Hire(w) == /\ status[w] = "absent"
           /\ status' = [status EXCEPT ![w] = "hired"]
           /\ UNCHANGED lane

Assign(w, j) == /\ status[w] = "hired"
                /\ lane' = [lane EXCEPT ![w] = Append(@, j)]
                /\ UNCHANGED status

Finish(w) == /\ status[w] \in {"hired", "dismissed"} /\ lane[w] # << >>
             /\ lane' = [lane EXCEPT ![w] = Tail(@)]
             /\ UNCHANGED status

(* One of the hired is dismissed, or several at once. *)
Dismiss(S) == /\ \A w \in S : status[w] = "hired"
              /\ status' = [w \in Workers |-> IF w \in S THEN "dismissed" ELSE status[w]]
              /\ UNCHANGED lane

Leave(w) == /\ status[w] = "dismissed" /\ lane[w] = << >>
            /\ status' = [status EXCEPT ![w] = "gone"]
            /\ UNCHANGED lane

LanesNext == \/ \E w \in Workers : \/ Hire(w) \/ Finish(w) \/ Leave(w)
                                   \/ \E j \in Jobs : Assign(w, j)
             \/ \E S \in SUBSET Workers : Dismiss(S)

LanesSpec == LanesInit /\ [][LanesNext]_lvars
=============================================================================
