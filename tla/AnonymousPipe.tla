--------------------------- MODULE AnonymousPipe ---------------------------
(***************************************************************************)
(* File/Pip/testPipe.cpp: a child writes a message a second into a pipe,   *)
(* for ever; its father reads a few times, closes the pipe and waits for   *)
(* the child.  The child ends because nobody can read its pipe any more.   *)
(***************************************************************************)
EXTENDS Naturals

CONSTANTS Reads,        \* how often Reader reads: 6 (line 52)
          Capacity      \* messages that fit into the pipe

ReadsAssumption == Reads \in Nat \ {0} /\ Capacity \in Nat \ {0}

VARIABLES father, child,      \* what each does next, and how it ended
          readers, writers,   \* the processes that hold either end
          queued,             \* messages in the pipe
          cnt

vars == <<father, child, readers, writers, queued, cnt>>

Init == /\ father = "fork" /\ child = "none"
        /\ readers = {"father"} /\ writers = {"father"}
        /\ queued = 0 /\ cnt = 0

-----------------------------------------------------------------------------
(* The child inherits both ends; without a child the father leaves. *)
Fork == /\ father = "fork"
        /\ \/ /\ father' = "close write end" /\ child' = "close read end"
              /\ readers' = readers \cup {"child"} /\ writers' = writers \cup {"child"}
           \/ father' = "failed" /\ UNCHANGED <<child, readers, writers>>
        /\ UNCHANGED <<queued, cnt>>

(* Mutant: line 66 is missing. *)
KeepReadEnd == /\ child = "close read end" /\ child' = "write"
               /\ UNCHANGED <<father, readers, writers, queued, cnt>>

CloseReadEnd == /\ child = "close read end" /\ child' = "write"
                /\ readers' = readers \ {"child"}
                /\ UNCHANGED <<father, writers, queued, cnt>>

(* write waits for room; a pipe nobody can read ends the writer (SIGPIPE). *)
Writer == /\ child = "write"
          /\ \/ /\ readers # {} /\ queued < Capacity
                /\ queued' = queued + 1
                /\ UNCHANGED <<child, readers, writers>>
             \/ /\ readers = {} /\ child' = "killed"
                /\ writers' = writers \ {"child"}
                /\ UNCHANGED <<readers, queued>>
          /\ UNCHANGED <<father, cnt>>

-----------------------------------------------------------------------------
CloseWriteEnd == /\ father = "close write end" /\ father' = "read"
                 /\ writers' = writers \ {"father"}
                 /\ UNCHANGED <<child, readers, queued, cnt>>

(* read takes some of what there is, or 0 when nobody can write any more.  *)
Reader == /\ father = "read"
          /\ \/ /\ \E n \in 1 .. queued : queued' = queued - n
                /\ cnt' = cnt + 1
                /\ father' = IF cnt' = Reads THEN "close read end" ELSE "read"
             \/ /\ queued = 0 /\ writers = {} /\ father' = "close read end"
                /\ UNCHANGED <<queued, cnt>>
          /\ UNCHANGED <<child, readers, writers>>

CloseAndWait == /\ father = "close read end" /\ father' = "wait"
                /\ readers' = readers \ {"father"}
                /\ UNCHANGED <<child, writers, queued, cnt>>

Reap == /\ father = "wait" /\ child = "killed"
        /\ father' = "done" /\ child' = "reaped"
        /\ UNCHANGED <<readers, writers, queued, cnt>>

-----------------------------------------------------------------------------
Father == Fork \/ CloseWriteEnd \/ Reader \/ CloseAndWait \/ Reap
Child  == CloseReadEnd \/ Writer

Over == father \in {"done", "failed"} /\ UNCHANGED vars

Next == Father \/ Child \/ Over

Spec == Init /\ [][Next]_vars

(* Both processes are scheduled. *)
FairSpec == Spec /\ WF_vars(Father) /\ WF_vars(Child)

-----------------------------------------------------------------------------
(* The type invariant. *)
TypeOK == /\ father \in {"fork", "close write end", "read", "close read end",
                         "wait", "done", "failed"}
          /\ child \in {"none", "close read end", "write", "killed", "reaped"}
          /\ readers \in SUBSET {"father", "child"} /\ writers \in SUBSET {"father", "child"}
          /\ queued \in 0 .. Capacity /\ cnt \in 0 .. Reads

(* Lines 76-82: the father gets through waitpid, since the child, which    *)
(* never leaves of itself, is stopped by the end of the last reader, also  *)
(* when it waits for room in the pipe.                                     *)
FatherEnds == <>(father \in {"done", "failed"})
=============================================================================
