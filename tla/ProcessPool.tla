---------------------------- MODULE ProcessPool -----------------------------
(***************************************************************************)
(* File/Pip/Pipe1_use/ProcessPool.cc: a father forks processNum slavers,   *)
(* each at the other end of a pipe of its own, deals them commands in      *)
(* turn, and at the end closes one pipe after the other and waits for its  *)
(* slaver.  A slaver leaves when it reads the end of its pipe, which comes *)
(* only when NOBODY holds the write end any more; and every child is born  *)
(* with a copy of all the write ends its father has open.                  *)
(*                                                                         *)
(* Slaver and pipe k are those of the k-th turn of InitProcessPool's loop. *)
(***************************************************************************)
EXTENDS Integers, Sequences, FiniteSets

CONSTANTS processNum,
          Codes,         \* the commands
          MaxQueued,     \* bound: commands waiting in one pipe
          ForkMayFail    \* may fork return -1?

ASSUME ProcessNumAssumption  == processNum \in Nat \ {0}
ASSUME MaxQueuedAssumption   == MaxQueued \in Nat \ {0}
ASSUME ForkMayFailAssumption == ForkMayFail \in BOOLEAN

Slavers == 0 .. processNum - 1
Father  == processNum              \* among the holders of descriptors

VARIABLES
  father,     \* what the father does next
  i,          \* the index of its current loop
  which,      \* the slaver whose turn it is
  slaver,     \* what each slaver does next
  holders,    \* the processes that hold the write end of each pipe
  pipe        \* the commands in it

vars == <<father, i, which, slaver, holders, pipe>>

Init == /\ father = "pipe" /\ i = 0 /\ which = 0
        /\ slaver = [c \in Slavers |-> "none"]
        /\ holders = [k \in Slavers |-> {}]
        /\ pipe = [k \in Slavers |-> << >>]

At(place)       == father = place
Become(c, s, t) == slaver[c] = s /\ slaver' = [slaver EXCEPT ![c] = t]

-----------------------------------------------------------------------------
(* InitProcessPool, the father's side. *)
Pipe == /\ At("pipe") /\ father' = "fork"
        /\ holders' = [holders EXCEPT ![i] = {Father}]
        /\ UNCHANGED <<i, which, slaver, pipe>>

(* The child has every descriptor the father has. *)
Fork == /\ At("fork") /\ father' = "next"
        /\ Become(i, "none", "clean")
        /\ holders' = [k \in Slavers |-> IF Father \in holders[k] THEN holders[k] \cup {i}
                                                                  ELSE holders[k]]
        /\ UNCHANGED <<i, which, pipe>>

(* No test of id: the father goes on as if there were a child. *)
ForkFails == /\ ForkMayFail
             /\ At("fork") /\ father' = "next"
             /\ Become(i, "none", "failed")
             /\ UNCHANGED <<i, which, holders, pipe>>

NextChild == /\ At("next")
             /\ IF i + 1 = processNum THEN father' = "ctrl" /\ i' = 0
                                      ELSE father' = "pipe" /\ i' = i + 1
             /\ UNCHANGED <<which, slaver, holders, pipe>>

-----------------------------------------------------------------------------
(* Mutant: oldfds is short of the latest write end. *)
LeftoverShort(c) == {k \in Slavers : k < c - 1 /\ c \in holders[k]}

(* The child: oldfds in order, then its own write end. *)
Leftover(c) == {k \in Slavers : k < c /\ c \in holders[k]}

CloseOld(c) == /\ slaver[c] = "clean"
               /\ \E k \in Leftover(c) :
                    /\ \A j \in Leftover(c) : k <= j
                    /\ holders' = [holders EXCEPT ![k] = @ \ {c}]
               /\ UNCHANGED <<father, i, which, slaver, pipe>>

CloseOwn(c) == /\ Become(c, "clean", "read")
               /\ Leftover(c) = {}
               /\ holders' = [holders EXCEPT ![c] = @ \ {c}]
               /\ UNCHANGED <<father, i, which, pipe>>

(* slaver(): one command, or the end. *)
Command(c) == /\ slaver[c] = "read" /\ pipe[c] # << >>
              /\ pipe' = [pipe EXCEPT ![c] = Tail(@)]
              /\ UNCHANGED <<father, i, which, slaver, holders>>

(* Mutant: a slaver leaves whenever it finds its pipe empty. *)
QuitWhenEmpty(c) == /\ Become(c, "read", "exited")
                    /\ pipe[c] = << >>
                    /\ UNCHANGED <<father, i, which, holders, pipe>>

Quit(c) == /\ Become(c, "read", "exited")
           /\ pipe[c] = << >> /\ holders[c] = {}
           /\ UNCHANGED <<father, i, which, holders, pipe>>

-----------------------------------------------------------------------------
FatherGone == holders' = [k \in Slavers |-> holders[k] \ {Father}]

(* CtrlSlaver, a menu entry that is a command. *)
Send == /\ At("ctrl") /\ slaver[which] # "failed" /\ Len(pipe[which]) < MaxQueued
        /\ \E code \in Codes : pipe' = [pipe EXCEPT ![which] = Append(@, code)]
        /\ which' = (which + 1) % processNum
        /\ UNCHANGED <<father, i, slaver, holders>>

(* A pipe that no process can read: SIGPIPE. *)
SendToNobody == /\ At("ctrl") /\ slaver[which] = "failed"
                /\ father' = "killed" /\ FatherGone
                /\ UNCHANGED <<i, which, slaver, pipe>>

(* Anything else, or the end of the input. *)
Stop == /\ At("ctrl") /\ father' = "close"
        /\ UNCHANGED <<i, which, slaver, holders, pipe>>

-----------------------------------------------------------------------------
(* QuitProcess *)
ClosePipe == /\ At("close") /\ father' = "wait"
             /\ holders' = [holders EXCEPT ![i] = @ \ {Father}]
             /\ UNCHANGED <<i, which, slaver, pipe>>

Children == {c \in Slavers : slaver[c] \in {"clean", "read", "exited"}}

(* waitpid: the slaver of this pipe, or any with the -1 of a failed fork;  *)
(* at once if there is none to wait for.                                   *)
NoSuchChild == IF slaver[i] = "failed" THEN Children = {} ELSE i \notin Children

WaitSlaver == /\ At("wait")
              /\ \/ \E c \in Slavers : /\ c = i \/ slaver[i] = "failed"
                                       /\ Become(c, "exited", "reaped")
                 \/ NoSuchChild /\ UNCHANGED slaver
              /\ IF i + 1 = processNum THEN father' = "done" /\ UNCHANGED i
                                       ELSE father' = "close" /\ i' = i + 1
              /\ UNCHANGED <<which, holders, pipe>>

-----------------------------------------------------------------------------
FatherNext == \/ Pipe \/ Fork \/ ForkFails \/ NextChild
              \/ Send \/ SendToNobody \/ Stop \/ ClosePipe \/ WaitSlaver

SlaverNext(c) == CloseOld(c) \/ CloseOwn(c) \/ Command(c) \/ Quit(c)

(* Everybody has left. *)
Over == /\ father \in {"done", "killed"}
        /\ \A c \in Slavers : slaver[c] \notin {"clean", "read"}
        /\ UNCHANGED vars

Next == FatherNext \/ (\E c \in Slavers : SlaverNext(c)) \/ Over

Spec == Init /\ [][Next]_vars

(* Every process is scheduled.  What the user chooses is not assumed.      *)
FairSpec == /\ Spec
            /\ WF_vars(Pipe \/ Fork \/ NextChild \/ ClosePipe \/ WaitSlaver)
            /\ \A c \in Slavers : WF_vars(SlaverNext(c))

-----------------------------------------------------------------------------
(* The type invariant. *)
TypeOK == /\ father \in {"pipe", "fork", "next", "ctrl", "close", "wait", "done", "killed"}
          /\ i \in Slavers /\ which \in Slavers
          /\ slaver \in [Slavers -> {"none", "clean", "read", "exited", "reaped", "failed"}]
          /\ holders \in [Slavers -> SUBSET (Slavers \cup {Father})]
          /\ pipe \in [Slavers -> Seq(Codes)]

(* Line 62: "clear away the superfluous write ends".  A slaver that serves *)
(* its pipe holds no write end, neither its own nor one of an elder, and a *)
(* younger one's it never had; so none of them can keep another alive.     *)
NoStrayWriter ==
  \A c, k \in Slavers : c \in holders[k] => slaver[c] = "clean" /\ k <= c

(* A slaver leaves only when the father has closed its pipe, and with all  *)
(* its commands carried out.                                               *)
NobodyLeavesEarly ==
  \A c \in Slavers : slaver[c] \in {"exited", "reaped"}
                       => Father \notin holders[c] /\ pipe[c] = << >>

(* Lines 131-134: if every fork succeeded, the father that has begun to    *)
(* close pipes comes to its end; no waitpid waits for a slaver that        *)
(* another slaver keeps waiting.                                           *)
QuitCompletes == At("close") /\ (\A c \in Slavers : slaver[c] # "failed") ~> At("done")

-----------------------------------------------------------------------------
(* To its caller the pool is a set of lanes: a slaver is hired when it is  *)
(* forked and dismissed when the father's write end closes.                *)
Status(c) == IF slaver[c] \in {"none", "failed"}     THEN "absent"
             ELSE IF slaver[c] \in {"exited", "reaped"} THEN "gone"
             ELSE IF Father \in holders[c]           THEN "hired"
             ELSE "dismissed"

Lanes == INSTANCE JobLanes WITH Workers <- Slavers, Jobs <- Codes,
                                status <- [c \in Slavers |-> Status(c)], lane <- pipe

ImplementsJobLanes == Lanes!LanesSpec
=============================================================================
