--------------------------- MODULE ExercisesProofs ---------------------------
(***************************************************************************)
(* Proofs about the process pool and the start of the translation server.  *)
(*                                                                         *)
(* The invariants of ProcessPool are not inductive alone: that a new child *)
(* inherits no write end younger than itself, and that no command goes to  *)
(* a slaver that has left, rest on Phases, which says how far the father's *)
(* loops have come.                                                        *)
(***************************************************************************)
EXTENDS MCExercises, TLAPS

(* The slavers that InitProcessPool has dealt with, and those whose pipes  *)
(* the father has open.                                                    *)
Born(c)     == CASE father \in {"pipe", "fork"} -> c < i
                 [] father = "next"             -> c <= i
                 [] OTHER                       -> TRUE

HasOpen(k)  == CASE father = "pipe"             -> k < i
                 [] father \in {"fork", "next"} -> k <= i
                 [] father = "ctrl"             -> TRUE
                 [] father = "close"            -> k >= i
                 [] father = "wait"             -> k > i
                 [] OTHER                       -> FALSE

Phases == /\ father = "ctrl" => i = 0
          /\ \A c \in Slavers : /\ slaver[c] # "none" <=> Born(c)
                                /\ Father \in holders[c] <=> HasOpen(c)

IInv == TypeOK /\ Phases /\ NoStrayWriter /\ NobodyLeavesEarly

-----------------------------------------------------------------------------
LEMMA Numbers ==
  /\ 0 \in Slavers /\ Father \notin Slavers
  /\ \A c \in Slavers : c \in Nat /\ c < processNum
  /\ \A c \in Slavers : (c + 1) % processNum \in Slavers
  /\ \A c \in Slavers : c + 1 # processNum => c + 1 \in Slavers
<1>1. processNum \in Nat /\ processNum > 0
  BY ProcessNumAssumption
<1>2. \A c \in Nat : (c + 1) % processNum \in 0 .. processNum - 1
  BY <1>1, Z3
<1> QED BY <1>1, <1>2 DEF Slavers, Father

LEMMA InitInv == Init => IInv
BY Numbers DEF Init, IInv, TypeOK, Phases, Born, HasOpen, NoStrayWriter, NobodyLeavesEarly

LEMMA TypeStep == TypeOK /\ [Next]_vars => TypeOK'
<1> SUFFICES ASSUME TypeOK, [Next]_vars PROVE TypeOK'
  OBVIOUS
<1> USE Numbers DEF TypeOK, At, Become
<1>1. CASE Pipe         BY <1>1 DEF Pipe
<1>2. CASE Fork         BY <1>2 DEF Fork
<1>3. CASE ForkFails    BY <1>3 DEF ForkFails
<1>4. CASE NextChild    BY <1>4 DEF NextChild
<1>5. CASE Send
  <2>1. which' \in Slavers
    BY <1>5 DEF Send
  <2>2. pipe' \in [Slavers -> Seq(Codes)]
    BY <1>5 DEF Send
  <2> QED BY <1>5, <2>1, <2>2 DEF Send
<1>6. CASE SendToNobody BY <1>6 DEF SendToNobody, FatherGone
<1>7. CASE Stop         BY <1>7 DEF Stop
<1>8. CASE ClosePipe    BY <1>8 DEF ClosePipe
<1>9. CASE WaitSlaver   BY <1>9 DEF WaitSlaver
<1>10. CASE \E c \in Slavers : SlaverNext(c)
  <2> PICK c \in Slavers : SlaverNext(c)
    BY <1>10
  <2>1. CASE CloseOld(c) BY <2>1 DEF CloseOld, Leftover
  <2>2. CASE CloseOwn(c) BY <2>2 DEF CloseOwn
  <2>3. CASE Command(c)
    <3>1. Tail(pipe[c]) \in Seq(Codes)
      BY <2>3 DEF Command
    <3> QED BY <2>3, <3>1 DEF Command
  <2>4. CASE Quit(c)     BY <2>4 DEF Quit
  <2> QED BY <2>1, <2>2, <2>3, <2>4 DEF SlaverNext
<1>11. CASE UNCHANGED vars
  BY <1>11 DEF vars
<1> QED
  BY <1>1, <1>2, <1>3, <1>4, <1>5, <1>6, <1>7, <1>8, <1>9, <1>10, <1>11
  DEF Next, FatherNext, Over

-----------------------------------------------------------------------------
LEMMA PhasesStep == IInv /\ [Next]_vars => Phases'
<1> SUFFICES ASSUME IInv, [Next]_vars PROVE Phases'
  OBVIOUS
<1> USE Numbers DEF IInv, TypeOK, Phases, Born, HasOpen, At, Become
<1>1. CASE Pipe         BY <1>1 DEF Pipe
<1>2. CASE Fork         BY <1>2 DEF Fork
<1>3. CASE ForkFails    BY <1>3 DEF ForkFails
<1>4. CASE NextChild    BY <1>4 DEF NextChild, Slavers
<1>5. CASE Send         BY <1>5 DEF Send
<1>6. CASE SendToNobody BY <1>6 DEF SendToNobody, FatherGone
<1>7. CASE Stop         BY <1>7 DEF Stop
<1>8. CASE ClosePipe    BY <1>8 DEF ClosePipe
<1>9. CASE WaitSlaver
  <2>1. \A c \in Slavers : slaver'[c] # "none" <=> slaver[c] # "none"
    BY <1>9 DEF WaitSlaver
  <2>2. \A c \in Slavers : HasOpen(c)' <=> c > i
    BY <1>9 DEF WaitSlaver, Slavers
  <2> QED BY <1>9, <2>1, <2>2 DEF WaitSlaver
<1>10. CASE \E c \in Slavers : SlaverNext(c)
  <2> PICK c \in Slavers : SlaverNext(c)
    BY <1>10
  <2>1. CASE CloseOld(c) BY <2>1 DEF CloseOld, Leftover
  <2>2. CASE CloseOwn(c) BY <2>2 DEF CloseOwn
  <2>3. CASE Command(c)  BY <2>3 DEF Command
  <2>4. CASE Quit(c)     BY <2>4 DEF Quit
  <2> QED BY <2>1, <2>2, <2>3, <2>4 DEF SlaverNext
<1>11. CASE UNCHANGED vars
  BY <1>11 DEF vars
<1> QED
  BY <1>1, <1>2, <1>3, <1>4, <1>5, <1>6, <1>7, <1>8, <1>9, <1>10, <1>11
  DEF Next, FatherNext, Over

LEMMA StrayStep == IInv /\ [Next]_vars => NoStrayWriter'
<1> SUFFICES ASSUME IInv, [Next]_vars PROVE NoStrayWriter'
  OBVIOUS
<1> USE Numbers DEF IInv, TypeOK, NoStrayWriter, At, Become
<1>1. CASE Pipe
  BY <1>1 DEF Pipe
<1>2. CASE Fork
  (* Father holds the pipes up to i, and only those. *)
  BY <1>2 DEF Fork, Phases, HasOpen
<1>3. CASE ForkFails    BY <1>3 DEF ForkFails
<1>4. CASE NextChild    BY <1>4 DEF NextChild
<1>5. CASE Send         BY <1>5 DEF Send
<1>6. CASE SendToNobody BY <1>6 DEF SendToNobody, FatherGone
<1>7. CASE Stop         BY <1>7 DEF Stop
<1>8. CASE ClosePipe    BY <1>8 DEF ClosePipe
<1>9. CASE WaitSlaver   BY <1>9 DEF WaitSlaver
<1>10. CASE \E c \in Slavers : SlaverNext(c)
  <2> PICK c \in Slavers : SlaverNext(c)
    BY <1>10
  <2>1. CASE CloseOld(c) BY <2>1 DEF CloseOld, Leftover
  <2>2. CASE CloseOwn(c) BY <2>2 DEF CloseOwn, Leftover
  <2>3. CASE Command(c)  BY <2>3 DEF Command
  <2>4. CASE Quit(c)     BY <2>4 DEF Quit
  <2> QED BY <2>1, <2>2, <2>3, <2>4 DEF SlaverNext
<1>11. CASE UNCHANGED vars
  BY <1>11 DEF vars
<1> QED
  BY <1>1, <1>2, <1>3, <1>4, <1>5, <1>6, <1>7, <1>8, <1>9, <1>10, <1>11
  DEF Next, FatherNext, Over

LEMMA EarlyStep == IInv /\ [Next]_vars => NobodyLeavesEarly'
<1> SUFFICES ASSUME IInv, [Next]_vars PROVE NobodyLeavesEarly'
  OBVIOUS
<1> USE Numbers DEF IInv, TypeOK, NobodyLeavesEarly, At, Become
<1>1. CASE Pipe
  BY <1>1 DEF Pipe, Phases, Born
<1>2. CASE Fork         BY <1>2 DEF Fork
<1>3. CASE ForkFails    BY <1>3 DEF ForkFails
<1>4. CASE NextChild    BY <1>4 DEF NextChild
<1>5. CASE Send
  (* The father has every pipe open, so nobody has left. *)
  BY <1>5 DEF Send, Phases, HasOpen
<1>6. CASE SendToNobody BY <1>6 DEF SendToNobody, FatherGone
<1>7. CASE Stop         BY <1>7 DEF Stop
<1>8. CASE ClosePipe    BY <1>8 DEF ClosePipe
<1>9. CASE WaitSlaver   BY <1>9 DEF WaitSlaver
<1>10. CASE \E c \in Slavers : SlaverNext(c)
  <2> PICK c \in Slavers : SlaverNext(c)
    BY <1>10
  <2>1. CASE CloseOld(c) BY <2>1 DEF CloseOld, Leftover
  <2>2. CASE CloseOwn(c) BY <2>2 DEF CloseOwn
  <2>3. CASE Command(c)  BY <2>3 DEF Command
  <2>4. CASE Quit(c)     BY <2>4 DEF Quit
  <2> QED BY <2>1, <2>2, <2>3, <2>4 DEF SlaverNext
<1>11. CASE UNCHANGED vars
  BY <1>11 DEF vars
<1> QED
  BY <1>1, <1>2, <1>3, <1>4, <1>5, <1>6, <1>7, <1>8, <1>9, <1>10, <1>11
  DEF Next, FatherNext, Over

LEMMA Invariant == Spec => []IInv
<1>1. IInv /\ [Next]_vars => IInv'
  BY TypeStep, PhasesStep, StrayStep, EarlyStep DEF IInv
<1> QED
  BY InitInv, <1>1, PTL DEF Spec

(* Every variable of the pool keeps to its type, however many slavers.     *)
THEOREM TypeCorrect == Spec => []TypeOK
BY Invariant, PTL DEF IInv

(* A slaver that serves its pipe holds no write end (lines 63-70).         *)
THEOREM NoWriterIsLeft == Spec => []NoStrayWriter
BY Invariant, PTL DEF IInv

(* A slaver leaves dismissed and with its commands done (lines 39-44).     *)
THEOREM NobodyGoesEarly == Spec => []NobodyLeavesEarly
BY Invariant, PTL DEF IInv

-----------------------------------------------------------------------------
(* The refinement.  A step that changes no Status and no pipe is a stutter *)
(* of the lanes; the others are one action of JobLanes each.               *)
LEMMA Stutter ==
  ASSUME \A c \in Slavers : Status(c)' = Status(c), pipe' = pipe
  PROVE  UNCHANGED Lanes!lvars
BY DEF Lanes!lvars

LEMMA FatherRefines ==
  ASSUME IInv, FatherNext
  PROVE  [Lanes!LanesNext]_(Lanes!lvars)
<1> USE Numbers DEF IInv, TypeOK, At, Become
<1>1. CASE Pipe
  <2>1. slaver[i] = "none"
    BY <1>1 DEF Pipe, Phases, Born
  <2>2. \A c \in Slavers : Status(c)' = Status(c)
    BY <1>1, <2>1 DEF Pipe, Status
  <2> QED BY <1>1, <2>2, Stutter DEF Pipe
<1>2. CASE Fork
  <2>1. Father \in holders[i]
    BY <1>2 DEF Fork, Phases, HasOpen
  <2>2. /\ Status(i) = "absent" /\ Status(i)' = "hired"
        /\ \A c \in Slavers \ {i} : Status(c)' = Status(c)
    BY <1>2, <2>1 DEF Fork, Status
  <2>3. Lanes!Hire(i)
    BY <1>2, <2>2 DEF Fork, Lanes!Hire
  <2> QED BY <2>3 DEF Lanes!LanesNext
<1>3. CASE ForkFails
  <2>1. \A c \in Slavers : Status(c)' = Status(c)
    BY <1>3 DEF ForkFails, Status
  <2> QED BY <1>3, <2>1, Stutter DEF ForkFails
<1>4. CASE NextChild
  <2>1. \A c \in Slavers : Status(c)' = Status(c)
    BY <1>4 DEF NextChild, Status
  <2> QED BY <1>4, <2>1, Stutter DEF NextChild
<1>5. CASE Send
  <2>1. /\ slaver[which] # "none" /\ Father \in holders[which]
    BY <1>5 DEF Send, Phases, Born, HasOpen
  <2>2. slaver[which] \notin {"failed", "exited", "reaped"}
    BY <1>5, <2>1 DEF Send, NobodyLeavesEarly
  <2>3. /\ Status(which) = "hired"
        /\ \A c \in Slavers : Status(c)' = Status(c)
    BY <1>5, <2>1, <2>2 DEF Send, Status
  <2>4. PICK code \in Codes : pipe' = [pipe EXCEPT ![which] = Append(@, code)]
    BY <1>5 DEF Send
  <2>5. Lanes!Assign(which, code)
    BY <2>3, <2>4 DEF Lanes!Assign
  <2> QED BY <2>5 DEF Lanes!LanesNext
<1>6. CASE SendToNobody
  <2> DEFINE S == {c \in Slavers : Status(c) = "hired"}
  <2>1. \A c \in S : Status(c)' = "dismissed"
    BY <1>6 DEF SendToNobody, FatherGone, Status
  <2>2. \A c \in Slavers \ S : Status(c)' = Status(c)
    BY <1>6 DEF SendToNobody, FatherGone, Status
  <2>3. Lanes!Dismiss(S)
    BY <1>6, <2>1, <2>2 DEF SendToNobody, Lanes!Dismiss
  <2> QED BY <2>3 DEF Lanes!LanesNext
<1>7. CASE Stop
  <2>1. \A c \in Slavers : Status(c)' = Status(c)
    BY <1>7 DEF Stop, Status
  <2> QED BY <1>7, <2>1, Stutter DEF Stop
<1>8. CASE ClosePipe
  <2> DEFINE S == {c \in {i} : Status(c) = "hired"}
  <2>1. \A c \in S : Status(c)' = "dismissed"
    BY <1>8 DEF ClosePipe, Status
  <2>2. \A c \in Slavers \ S : Status(c)' = Status(c)
    BY <1>8 DEF ClosePipe, Status
  <2>3. Lanes!Dismiss(S)
    BY <1>8, <2>1, <2>2 DEF ClosePipe, Lanes!Dismiss
  <2>4. S \in SUBSET Slavers
    OBVIOUS
  <2> QED BY <2>3, <2>4 DEF Lanes!LanesNext
<1>9. CASE WaitSlaver
  <2>1. \A c \in Slavers : Status(c)' = Status(c)
    BY <1>9 DEF WaitSlaver, Status
  <2> QED BY <1>9, <2>1, Stutter DEF WaitSlaver
<1> QED
  BY <1>1, <1>2, <1>3, <1>4, <1>5, <1>6, <1>7, <1>8, <1>9 DEF FatherNext

LEMMA SlaverRefines ==
  ASSUME IInv, NEW c \in Slavers, SlaverNext(c)
  PROVE  [Lanes!LanesNext]_(Lanes!lvars)
<1> USE Numbers DEF IInv, TypeOK, Become
<1>1. CASE CloseOld(c)
  <2>1. \A d \in Slavers : Status(d)' = Status(d)
    BY <1>1 DEF CloseOld, Leftover, Status
  <2> QED BY <1>1, <2>1, Stutter DEF CloseOld
<1>2. CASE CloseOwn(c)
  <2>1. \A d \in Slavers : Status(d)' = Status(d)
    BY <1>2 DEF CloseOwn, Status
  <2> QED BY <1>2, <2>1, Stutter DEF CloseOwn
<1>3. CASE Command(c)
  <2>1. /\ Status(c) \in {"hired", "dismissed"}
        /\ \A d \in Slavers : Status(d)' = Status(d)
    BY <1>3 DEF Command, Status
  <2>2. Lanes!Finish(c)
    BY <1>3, <2>1 DEF Command, Lanes!Finish
  <2> QED BY <2>2 DEF Lanes!LanesNext
<1>4. CASE Quit(c)
  <2>1. /\ Status(c) = "dismissed" /\ Status(c)' = "gone"
        /\ \A d \in Slavers \ {c} : Status(d)' = Status(d)
    BY <1>4 DEF Quit, Status
  <2>2. Lanes!Leave(c)
    BY <1>4, <2>1 DEF Quit, Lanes!Leave
  <2> QED BY <2>2 DEF Lanes!LanesNext
<1> QED BY <1>1, <1>2, <1>3, <1>4 DEF SlaverNext

(* The pool is a set of lanes for any number of slavers, with or without   *)
(* failing forks: inherited descriptors change nothing a caller can see.   *)
THEOREM PoolRefinesLanes == Spec => ImplementsJobLanes
<1>1. Init => Lanes!LanesInit
  BY DEF Init, Lanes!LanesInit, Status
<1>2. ASSUME IInv, [Next]_vars
      PROVE  [Lanes!LanesNext]_(Lanes!lvars)
  <2>1. CASE UNCHANGED vars \/ Over
    <3>1. /\ pipe' = pipe
          /\ \A c \in Slavers : Status(c)' = Status(c)
      BY <2>1 DEF vars, Over, Status
    <3> QED BY <3>1, Stutter
  <2> QED BY <1>2, <2>1, FatherRefines, SlaverRefines DEF Next
<1> QED BY <1>1, <1>2, Invariant, PTL DEF Spec, ImplementsJobLanes, Lanes!LanesSpec

-----------------------------------------------------------------------------
(* The start of the translation server: how far the process has come says  *)
(* how often it can have forked, whether the singleton exists and in which *)
(* process its threads were started.                                       *)
BeforeFirst == {"Init", "socket", "bind", "listen", "exited", "Daemon1"}
Serving     == {"accept", "again", "lock2", "Push"}
Statements  == BeforeFirst \cup Serving \cup {"Daemon2", "GetInstance", "lock1", "Start"}

BootTypes == /\ step \in Statements /\ proc \in 1 .. 3
             /\ pool \in [of : 0 .. 3, threads : 0 .. defaultnum]
Flagged   == /\ terminal \in BOOLEAN /\ tp_ \in BOOLEAN /\ lock_ \in BOOLEAN
             /\ step \in {"Start"} \cup Serving => tp_
Arrivals  == /\ waiting \in Nat /\ links \in Nat /\ pushed \in Nat
             /\ waiting + links <= MaxLinks
             /\ step \in {"again", "lock2", "Push"} => links = pushed + 1
             /\ step \notin {"again", "lock2", "Push"} => links = pushed
Forks     == /\ step \in BeforeFirst => proc = 1
             /\ step = "Daemon2" => proc <= 2
             /\ step \in Serving => pool.of = proc
             /\ terminal = TRUE => proc = 1

BootInv == BootTypes /\ Flagged /\ Arrivals /\ Forks

LEMMA BootStart == Boot!Init => BootInv
<1> SUFFICES ASSUME Boot!Init PROVE BootInv
  OBVIOUS
<1> USE DEF Boot!Init, Statements, BeforeFirst, Serving
<1>1. BootTypes /\ Arrivals
  BY ExercisesAssumption DEF BootTypes, Arrivals, Boot!StartupAssumption
<1>2. Flagged
  BY DEF Flagged
<1>3. Forks
  BY DEF Forks
<1> QED BY <1>1, <1>2, <1>3 DEF BootInv

LEMMA BootKeeps == BootInv /\ [Boot!Next]_Boot!vars => BootInv'
<1> SUFFICES ASSUME BootInv, [Boot!Next]_Boot!vars PROVE BootInv'
  OBVIOUS
<1> USE DEF BootInv, Statements, BeforeFirst, Serving, Boot!Goto, Boot!process, Boot!single,
            Boot!network
<1>1. CASE Boot!Dictionary \/ Boot!Socket \/ Boot!Bind \/ Boot!Listen \/ Boot!Exit
  <2> USE <1>1 DEF Boot!Dictionary, Boot!Socket, Boot!Bind, Boot!Listen, Boot!Exit
  <2>1. BootTypes'  BY DEF BootTypes
  <2>2. Flagged'    BY DEF Flagged
  <2>3. Arrivals'   BY DEF Arrivals
  <2>4. Forks'      BY DEF Forks
  <2> QED BY <2>1, <2>2, <2>3, <2>4
<1>2. CASE Boot!Daemon("Daemon1", "Daemon2")
  <2>1. /\ step = "Daemon1" /\ step' = "Daemon2"
        /\ proc' = proc \/ proc' = proc + 1
        /\ terminal' = FALSE \/ (terminal' = terminal /\ proc' = proc)
        /\ UNCHANGED <<tp_, lock_, pool, waiting, links, pushed>>
    BY <1>2 DEF Boot!Daemon
  <2>2. proc = 1
    BY <2>1 DEF BootTypes, Forks
  <2>3. BootTypes'  BY <2>1, <2>2 DEF BootTypes
  <2>4. Flagged'    BY <2>1 DEF Flagged
  <2>5. Arrivals'   BY <2>1 DEF Arrivals
  <2>6. Forks'      BY <2>1, <2>2 DEF Forks
  <2> QED BY <2>3, <2>4, <2>5, <2>6
<1>3. CASE Boot!Daemon("Daemon2", "GetInstance")
  <2>1. /\ step = "Daemon2" /\ step' = "GetInstance"
        /\ proc' = proc \/ proc' = proc + 1
        /\ terminal' = FALSE \/ (terminal' = terminal /\ proc' = proc)
        /\ UNCHANGED <<tp_, lock_, pool, waiting, links, pushed>>
    BY <1>3 DEF Boot!Daemon
  <2>2. proc \in 1 .. 3 /\ proc <= 2
    BY <2>1 DEF BootTypes, Forks
  <2>3. BootTypes'  BY <2>1, <2>2 DEF BootTypes
  <2>4. Flagged'    BY <2>1 DEF Flagged
  <2>5. Arrivals'   BY <2>1 DEF Arrivals
  <2>6. Forks'      BY <2>1, <2>2 DEF Forks
  <2> QED BY <2>3, <2>4, <2>5, <2>6
<1>4. ASSUME NEW from, NEW locking, NEW to, Boot!GetInstance(from, locking, to),
             \/ from = "GetInstance" /\ locking = "lock1" /\ to = "Start"
             \/ from = "again" /\ locking = "lock2" /\ to = "Push"
      PROVE  BootInv'
  <2> USE <1>4 DEF Boot!GetInstance, Boot!OuterTest, Boot!LockAndTest
  <2>1. step' \in {locking, to} /\ step \in {from, locking}
    OBVIOUS
  <2>2. UNCHANGED <<proc, terminal, pool, waiting, links, pushed>>
    OBVIOUS
  <2>3. BootTypes'  BY <2>1, <2>2 DEF BootTypes
  <2>4. Flagged'
    <3>1. step' = to => tp_' = TRUE
      <4>1. CASE tp_
        BY <4>1, Zenon DEF Flagged
      <4>2. CASE ~tp_
        BY <4>2, Zenon DEF Flagged
      <4> QED BY <4>1, <4>2
    <3>2. tp_' \in BOOLEAN /\ lock_' \in BOOLEAN
      BY DEF Flagged
    <3> QED BY <2>1, <2>2, <3>1, <3>2 DEF Flagged
  <2>5. Arrivals'   BY <2>1, <2>2 DEF Arrivals
  <2>6. Forks'      BY <2>1, <2>2 DEF Forks
  <2> QED BY <2>3, <2>4, <2>5, <2>6
<1>5. CASE Boot!StartPool("Start", "accept")
  <2> USE <1>5 DEF Boot!StartPool
  <2>1. BootTypes'  BY DEF BootTypes
  <2>2. Flagged'    BY DEF Flagged
  <2>3. Arrivals'   BY DEF Arrivals
  <2>4. Forks'      BY DEF Forks
  <2> QED BY <2>1, <2>2, <2>3, <2>4
<1>6. CASE Boot!Accept \/ Boot!Push \/ Boot!Connect
  <2> USE <1>6 DEF Boot!Accept, Boot!Push, Boot!Connect
  <2>1. BootTypes'  BY DEF BootTypes
  <2>2. Flagged'    BY DEF Flagged
  <2>3. Arrivals'
    <3>1. CASE Boot!Accept   BY <3>1 DEF Arrivals
    <3>2. CASE Boot!Push     BY <3>2 DEF Arrivals
    <3>3. CASE Boot!Connect
      <4>1. MaxLinks \in Nat
        BY ExercisesAssumption DEF Boot!StartupAssumption
      <4>2. waiting + links < MaxLinks /\ waiting' = waiting + 1 /\ UNCHANGED <<links, step, pushed>>
        BY <3>3
      <4>3. waiting \in Nat /\ links \in Nat
        BY DEF Arrivals
      <4>4. waiting' \in Nat /\ waiting' + links <= MaxLinks
        BY <4>1, <4>2, <4>3
      <4> QED BY <4>2, <4>4 DEF Arrivals
    <3> QED BY <3>1, <3>2, <3>3
  <2>4. Forks'      BY DEF Forks
  <2> QED BY <2>1, <2>2, <2>3, <2>4
<1>7. CASE Boot!Blocked \/ UNCHANGED Boot!vars
  <2> USE <1>7 DEF Boot!Blocked, Boot!vars
  <2>1. BootTypes'  BY DEF BootTypes
  <2>2. Flagged'    BY DEF Flagged
  <2>3. Arrivals'   BY DEF Arrivals
  <2>4. Forks'      BY DEF Forks
  <2> QED BY <2>1, <2>2, <2>3, <2>4
<1> QED
  BY <1>1, <1>2, <1>3, <1>4, <1>5, <1>6, <1>7 DEF Boot!Next, Boot!Server, Boot!StartStatements

LEMMA BootInvariance == ExercisesSpec => []BootInv
<1>1. ExercisesInit => BootInv
  BY BootStart DEF ExercisesInit
<1>2. [ExercisesNext]_<<program, vars, others>> => [Boot!Next]_Boot!vars
  BY Zenon DEF ExercisesNext, others, boot, Boot!vars
<1> QED BY <1>1, <1>2, BootKeeps, PTL DEF ExercisesSpec

(* TcpServer.hpp:82-83, any size of the pool: the process that accepts has *)
(* the threads that are to serve, which no fork would have taken along,    *)
(* and it has no terminal unless both forks failed.                        *)
THEOREM DaemonServes == ExercisesSpec => []ServesAsDaemon
<1>1. BootInv => ServesAsDaemon
  BY DEF BootInv, Flagged, Forks, Serving, ServesAsDaemon, Boot!ServesAsDaemon
<1> QED BY BootInvariance, <1>1, PTL

(* The types of the start-up, and that no more is pushed than accepted.    *)
THEOREM BootTypeCorrect == ExercisesSpec => [](Boot!TypeOK /\ pushed <= links)
<1>1. ASSUME BootInv PROVE Boot!TypeOK /\ pushed <= links
  <2> USE <1>1 DEF BootInv
  <2>1. {terminal, tp_, lock_} \subseteq BOOLEAN
    BY DEF Flagged
  <2>2. waiting \in 0 .. MaxLinks /\ links \in 0 .. MaxLinks /\ pushed \in 0 .. MaxLinks
        /\ pushed <= links
    <3>1. MaxLinks \in Nat
      BY ExercisesAssumption DEF Boot!StartupAssumption
    <3>2. waiting \in Nat /\ links \in Nat /\ pushed \in Nat /\ waiting + links <= MaxLinks
      BY DEF Arrivals
    <3>3. links = pushed \/ links = pushed + 1
      BY DEF Arrivals
    <3> QED BY <3>1, <3>2, <3>3
  <2> QED BY <2>1, <2>2 DEF BootTypes, Statements, BeforeFirst, Serving, Boot!TypeOK
<1> QED BY BootInvariance, <1>1, PTL

(* The process pool of the combined model behaves as ProcessPool says, so  *)
(* the theorems above hold of it.                                          *)
THEOREM PoolIsItself == ExercisesSpec => Spec
<1>1. ExercisesInit => Init
  BY DEF ExercisesInit
<1>2. [ExercisesNext]_<<program, vars, others>> => [Next]_vars
  BY Zenon DEF ExercisesNext
<1> QED BY <1>1, <1>2, PTL DEF ExercisesSpec, Spec
=============================================================================
