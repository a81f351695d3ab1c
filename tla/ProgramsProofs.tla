--------------------------- MODULE ProgramsProofs ---------------------------
(***************************************************************************)
(* The programs of MCPrograms for every value of their constants: each has *)
(* its inductive invariant, and the process is one of them.                *)
(***************************************************************************)
EXTENDS MCPrograms, SocketsProofs

-----------------------------------------------------------------------------
(* Shared memory.  Whoever makes the segment decides who may use it: only  *)
(* the one processa makes may be used, and only then it goes on.           *)
ShmInv == /\ Shm!TypeOK /\ Shm!AMayAttach
          /\ a = "attach" => segment.mode = "0666"
          /\ b \in {"attach", "attached"} => segment # Shm!NoSegment

LEMMA ShmStart == Shm!Init => ShmInv
BY DEF Shm!Init, ShmInv, Shm!TypeOK, Shm!AMayAttach

LEMMA ShmKeeps == ShmInv /\ [Shm!Next]_Shm!vars => ShmInv'
<1> SUFFICES ASSUME ShmInv, [Shm!Next]_Shm!vars PROVE ShmInv'
  OBVIOUS
<1> USE DEF ShmInv, Shm!TypeOK, Shm!AMayAttach
<1>1. Shm!NoSegment.mode = "none" /\ Shm!NoSegment \notin [mode : {"0", "0666"}, text : Typed \cup {Empty}]
  BY DEF Shm!NoSegment
<1>2. CASE Shm!ACreates
  BY <1>1, <1>2 DEF Shm!ACreates, Shm!GetKeyFails, Shm!CreateShm, Shm!Make
<1>3. CASE Shm!AAttaches \/ Shm!ADetaches \/ Shm!AReads
  BY <1>3 DEF Shm!AAttaches, Shm!Attach, Shm!ADetaches, Shm!AReads
<1>4. CASE Shm!BGets
  BY <1>1, <1>4 DEF Shm!BGets, Shm!GetKeyFails, Shm!GetShm, Shm!Make
<1>5. CASE Shm!BAttaches \/ Shm!BFaults
  BY <1>5 DEF Shm!BAttaches, Shm!Attach, Shm!BFaults
<1>6. CASE Shm!BWrites
  <2>1. segment \in [mode : {"0", "0666"}, text : Typed \cup {Empty}]
    BY <1>6 DEF Shm!BWrites
  <2>2. /\ segment' \in [mode : {"0", "0666"}, text : Typed \cup {Empty}]
        /\ segment'.mode = segment.mode
    BY <1>6, <2>1 DEF Shm!BWrites
  <2> QED BY <1>1, <1>6, <2>2 DEF Shm!BWrites
<1>7. CASE Shm!Again \/ Shm!Ipcrm \/ UNCHANGED Shm!vars
  BY <1>7 DEF Shm!Again, Shm!Ipcrm, Shm!Orphaned, Shm!vars
<1> QED BY <1>2, <1>3, <1>4, <1>5, <1>6, <1>7 DEF Shm!Next

-----------------------------------------------------------------------------
(* Tickets. *)
(* Who is between the lock and the unlock is the owner of the mutex. *)
Inside == {"test", "print", "decrement"}
MutexInv == \A s \in Sellers : seller[s] \in Inside <=> lock = s

(* A thread that has seen a ticket still has it in front of it ... *)
TicketLeft == \A s \in Sellers : seller[s] \in {"print", "decrement"} => tickets > 0

(* ... and one that quits has seen none. *)
NoneLeft == (\E s \in Sellers : seller[s] = "quit") => tickets = 0

(* What is sold is what is above the counter, with the ticket that is      *)
(* printed and not counted yet.                                            *)
Printed == \E s \in Sellers : seller[s] = "decrement"
Gone(n) == n > tickets \/ (n = tickets /\ Printed)
SoldInv == \A n \in 0 .. Total : sold[n] = IF Gone(n) THEN 1 ELSE 0

SaleInv == Sale!TypeOK /\ MutexInv /\ TicketLeft /\ NoneLeft /\ SoldInv

LEMMA SaleStart == Sale!Init => SaleInv
<1> SUFFICES ASSUME Sale!Init PROVE SaleInv
  OBVIOUS
<1>1. Sale!TypeOK
  BY ProgramsAssumption DEF Sale!TicketsAssumption, Sale!Init, Sale!TypeOK
<1>2. MutexInv
  BY ProgramsAssumption DEF Sale!TicketsAssumption, Sale!Init, MutexInv, Inside
<1>3. TicketLeft /\ NoneLeft
  BY DEF Sale!Init, TicketLeft, NoneLeft
<1>4. SoldInv
  BY ProgramsAssumption DEF Sale!TicketsAssumption, Sale!Init, SoldInv, Gone, Printed
<1> QED BY <1>1, <1>2, <1>3, <1>4 DEF SaleInv

(* Only one seller is inside, and it alone moves the counter. *)
LEMMA SaleKeeps == SaleInv /\ [Sale!Next]_Sale!vars => SaleInv'
<1> SUFFICES ASSUME SaleInv, [Sale!Next]_Sale!vars PROVE SaleInv'
  OBVIOUS
<1> USE ProgramsAssumption DEF Sale!TicketsAssumption
<1> USE DEF SaleInv, Sale!TypeOK, Sale!Goto
<1>1. ASSUME NEW s \in Sellers, Sale!LockGuard(s) PROVE SaleInv'
  <2>1. Sale!TypeOK' /\ MutexInv'
    BY <1>1 DEF Sale!LockGuard, MutexInv, Inside
  <2>2. TicketLeft' /\ NoneLeft'
    BY <1>1 DEF Sale!LockGuard, TicketLeft, NoneLeft
  <2>3. Printed' <=> Printed
    BY <1>1 DEF Sale!LockGuard, Printed
  <2>4. SoldInv'
    BY <1>1, <2>3 DEF Sale!LockGuard, SoldInv, Gone
  <2> QED BY <2>1, <2>2, <2>4
<1>2. ASSUME NEW s \in Sellers, Sale!Test(s) PROVE SaleInv'
  <2>1. lock = s /\ seller[s] = "test" /\ UNCHANGED <<tickets, sold>>
    BY <1>2 DEF Sale!Test, MutexInv, Inside
  <2>2. Sale!TypeOK' /\ MutexInv'
    BY <1>2, <2>1 DEF Sale!Test, Sale!Unlock, MutexInv, Inside
  <2>3. TicketLeft' /\ NoneLeft'
    BY <1>2, <2>1 DEF Sale!Test, TicketLeft, NoneLeft
  <2>4. Printed' <=> Printed
    BY <1>2, <2>1 DEF Sale!Test, Printed
  <2>5. SoldInv'
    BY <2>1, <2>4 DEF SoldInv, Gone
  <2> QED BY <2>2, <2>3, <2>5
<1>3. ASSUME NEW s \in Sellers, Sale!PrintTicket(s) PROVE SaleInv'
  <2>1. lock = s /\ tickets > 0 /\ UNCHANGED <<tickets, lock>>
    BY <1>3 DEF Sale!PrintTicket, MutexInv, Inside, TicketLeft
  <2>2. MutexInv'
    BY <1>3, <2>1 DEF Sale!PrintTicket, MutexInv, Inside
  <2>3. TicketLeft' /\ NoneLeft'
    BY <1>3, <2>1 DEF Sale!PrintTicket, TicketLeft, NoneLeft
  <2>4. ~Printed /\ Printed'
    BY <1>3, <2>1 DEF Sale!PrintTicket, Printed, MutexInv, Inside
  <2>5. sold[tickets] = 0
    BY <2>1, <2>4 DEF SoldInv, Gone
  <2>6. Sale!TypeOK'
    BY <1>3, <2>1, <2>5 DEF Sale!PrintTicket
  <2>7. SoldInv'
    BY <1>3, <2>1, <2>4, <2>5 DEF Sale!PrintTicket, SoldInv, Gone
  <2> QED BY <2>2, <2>3, <2>6, <2>7
<1>4. ASSUME NEW s \in Sellers, Sale!Decrement(s) PROVE SaleInv'
  <2>1. lock = s /\ tickets > 0 /\ seller[s] = "decrement" /\ UNCHANGED sold
    BY <1>4 DEF Sale!Decrement, MutexInv, Inside, TicketLeft
  <2>2. Sale!TypeOK' /\ MutexInv'
    BY <1>4, <2>1 DEF Sale!Decrement, Sale!Unlock, MutexInv, Inside
  <2>3. \A u \in Sellers : u # s => seller[u] \notin Inside
    BY <2>1 DEF MutexInv
  <2>4. TicketLeft'
    BY <1>4, <2>1, <2>3 DEF Sale!Decrement, TicketLeft, Inside
  <2>5. NoneLeft'
    BY <1>4, <2>1 DEF Sale!Decrement, NoneLeft
  <2>6. Printed /\ ~Printed'
    BY <1>4, <2>1, <2>3 DEF Sale!Decrement, Printed, Inside
  <2>7. tickets' = tickets - 1
    BY <1>4 DEF Sale!Decrement
  <2>8. SoldInv'
    BY <2>1, <2>6, <2>7 DEF SoldInv, Gone
  <2> QED BY <2>2, <2>4, <2>5, <2>8
<1>5. CASE UNCHANGED Sale!vars
  BY <1>5 DEF Sale!vars, MutexInv, TicketLeft, NoneLeft, SoldInv, Gone, Printed
<1> QED
  BY <1>1, <1>2, <1>3, <1>4, <1>5 DEF Sale!Next, Sale!getTicket, Sale!Joined

-----------------------------------------------------------------------------
(* Shell.  The globals are those of the line at work, and what the lines   *)
(* ask of the files is what the files hold with what is still to be done:  *)
(* by the line until the child has its descriptors, then by the child.     *)
Runs  == {"program", "fails", "unknown"}
Wrote == IF line.cmd = "unknown" THEN << >> ELSE <<count>>

ByLine(f) ==
  IF line.cmd \in Runs /\ f = line.name
  THEN IF line.rdir = "OUT_RDIR" THEN Wrote
       ELSE IF line.rdir = "APPEND_RDIR" THEN output[f] \o Wrote ELSE output[f]
  ELSE output[f]
StillToCome(f) ==
  IF shell \in {"buildcommand", "fork"} \/ schild.at = "dup2" THEN ByLine(f)
  ELSE IF schild.at = "exec" /\ f = schild.out THEN output[f] \o Wrote ELSE output[f]

Children == {Sh!NoChild} \cup [at : {"dup2"}, out : {Terminal}]
                         \cup [at : {"exec"}, out : Files \cup {Terminal}]
                         \cup [at : {"exit"}, status : {0, 1, 44}]

ShInv == /\ Sh!TypeOK /\ schild \in Children
         /\ output \in [Files \cup {Terminal} -> Seq(Int)] /\ wanted \in [Files -> Seq(Int)]
         /\ rdir = line.rdir /\ rdirfilename = line.name
         /\ shell = "waitpid" <=> schild # Sh!NoChild
         /\ shell \in {"fork", "waitpid"} => line.cmd \in Runs
         /\ shell = "buildcommand" => line.cmd # "empty"
         /\ \A f \in Files : wanted[f] = StillToCome(f)

LEMMA ShStart == Sh!Init => ShInv
<1> SUFFICES ASSUME Sh!Init PROVE ShInv
  OBVIOUS
<1>1. << >> \in Seq(Int)
  BY EmptySeq
<1>2. schild.at = "none"
  BY DEF Sh!Init, Sh!NoChild
<1>3. Sh!TypeOK
  BY <1>2, ProgramsAssumption
     DEF Sh!Init, Sh!TypeOK, Sh!Lines, Sh!Commands, Sh!NONE, Sh!ShellAssumption
<1>4. \A f \in Files : wanted[f] = StillToCome(f)
  BY <1>2, ProgramsAssumption DEF Sh!Init, StillToCome
<1> QED BY <1>1, <1>3, <1>4 DEF Sh!Init, ShInv, Children

LEMMA ShKeeps == ShInv /\ [Sh!Next]_Sh!vars => ShInv'
<1> SUFFICES ASSUME ShInv, [Sh!Next]_Sh!vars PROVE ShInv'
  OBVIOUS
<1> DEFINE Types == /\ Sh!TypeOK /\ schild \in Children
                    /\ output \in [Files \cup {Terminal} -> Seq(Int)] /\ wanted \in [Files -> Seq(Int)]
<1> USE ProgramsAssumption DEF Sh!ShellAssumption
<1>0. /\ \A c : c = Sh!NoChild => c.at = "none"
      /\ \A c \in Children : c.at = "none" => c = Sh!NoChild
      /\ Wrote \in Seq(Int) /\ <<count + 1>> \in Seq(Int) /\ << >> \in Seq(Int)
      /\ \A s, t \in Seq(Int) : s \o t \in Seq(Int)
      /\ \A s \in Seq(Int) : s \o << >> = s /\ << >> \o s = s
  <2>1. \A c \in Children : c.at = "none" => c = Sh!NoChild
    BY DEF Children
  <2>2. count \in Int /\ count + 1 \in Int
    BY DEF ShInv, Sh!TypeOK
  <2>3. <<count>> \in Seq(Int) /\ <<count + 1>> \in Seq(Int) /\ << >> \in Seq(Int)
    BY <2>2
  <2>4. \A s \in Seq(Int) : s \o << >> = s /\ << >> \o s = s
    BY ConcatEmptySeq
  <2>5. \A s, t \in Seq(Int) : s \o t \in Seq(Int)
    BY ConcatProperties
  <2> QED BY <2>1, <2>3, <2>4, <2>5 DEF Sh!NoChild, Wrote
<1>1. CASE Sh!Interact
  <2>1. PICK l \in Sh!Lines :
          /\ line' = l /\ rdir' = l.rdir /\ rdirfilename' = l.name
          /\ wanted' = Sh!Result(l, count + 1)
          /\ shell' = IF l.cmd = "empty" THEN "crashed" ELSE "buildcommand"
    BY <1>1 DEF Sh!Interact, Sh!check_redir
  <2>2. /\ shell = "interact" /\ count' = count + 1 /\ count < MaxLines
        /\ UNCHANGED <<lastcode, schild, output>>
    BY <1>1 DEF Sh!Interact
  <2>3. schild = Sh!NoChild /\ \A f \in Files : wanted[f] = output[f]
    BY <1>0, <2>2 DEF ShInv, StillToCome
  <2>4. /\ l.cmd \in Sh!Commands /\ l.name \in Files \cup {Terminal}
        /\ l.rdir \in {"NONE", "IN_RDIR", "OUT_RDIR", "APPEND_RDIR"}
        /\ l.rdir # "NONE" => l.name \in Files
    BY DEF Sh!Lines, Sh!NONE
  <2>5. wanted' \in [Files -> Seq(Int)] /\ \A f \in Files : wanted'[f] = StillToCome(f)'
    <3>1. CASE l.cmd \notin Runs
      <4>1. wanted' = wanted /\ line'.cmd \notin Runs
        BY <2>1, <2>4, <3>1 DEF Sh!Result, Sh!Commands, Runs
      <4>2. \A f \in Files : ByLine(f)' = output[f]
        BY <2>2, <4>1 DEF ByLine
      <4>3. schild'.at = "none"
        BY <1>0, <2>2, <2>3
      <4> QED BY <2>1, <2>2, <2>3, <4>1, <4>2, <4>3 DEF StillToCome, ShInv
    <3>2. CASE l.cmd \in Runs
      <4> DEFINE w == IF l.cmd = "unknown" THEN << >> ELSE <<count + 1>>
      <4>1. w = Wrote' /\ w \in Seq(Int)
        BY <1>0, <2>1, <2>2 DEF Wrote
      <4>2. wanted' = CASE l.rdir = "OUT_RDIR"    -> [wanted EXCEPT ![l.name] = w]
                        [] l.rdir = "APPEND_RDIR" -> [wanted EXCEPT ![l.name] = @ \o w]
                        [] OTHER                  -> wanted
        BY <2>1, <3>2 DEF Sh!Result, Runs
      <4> HIDE DEF w
      <4>3. CASE l.rdir = "OUT_RDIR"
        <5>1. wanted' = [wanted EXCEPT ![l.name] = w] /\ l.name \in Files
          BY <2>4, <4>2, <4>3
        <5>2. wanted' \in [Files -> Seq(Int)]
          BY <4>1, <5>1 DEF ShInv
        <5>3. \A f \in Files : wanted'[f] = IF f = l.name THEN w ELSE output[f]
          BY <2>3, <5>1 DEF ShInv
        <5> QED BY <2>1, <2>2, <3>2, <4>1, <4>3, <5>2, <5>3 DEF ByLine, StillToCome, Runs
      <4>4. CASE l.rdir = "APPEND_RDIR"
        <5>1. wanted' = [wanted EXCEPT ![l.name] = @ \o w] /\ l.name \in Files
          BY <2>4, <4>2, <4>4
        <5>2. wanted' \in [Files -> Seq(Int)]
          BY <1>0, <4>1, <5>1 DEF ShInv
        <5>3. \A f \in Files : wanted'[f] = IF f = l.name THEN output[f] \o w ELSE output[f]
          BY <2>3, <5>1 DEF ShInv
        <5> QED BY <2>1, <2>2, <3>2, <4>1, <4>4, <5>2, <5>3 DEF ByLine, StillToCome, Runs
      <4>5. CASE l.rdir \notin {"OUT_RDIR", "APPEND_RDIR"}
        <5>1. wanted' = wanted
          BY <4>2, <4>5
        <5> QED BY <2>1, <2>2, <2>3, <3>2, <4>5, <5>1 DEF ByLine, StillToCome, Runs, ShInv
      <4> QED BY <4>3, <4>4, <4>5
    <3> QED BY <3>1, <3>2
  <2>6. Sh!TypeOK'
    <3>1. count' \in 0 .. MaxLines
      BY <2>2 DEF ShInv, Sh!TypeOK
    <3>2. shell' \in {"crashed", "buildcommand"} /\ line' \in Sh!Lines
      BY <2>1
    <3>3. rdir' \in {"NONE", "IN_RDIR", "OUT_RDIR", "APPEND_RDIR"} /\ rdirfilename' \in Files \cup {Terminal}
      BY <2>1, <2>4
    <3> QED BY <2>2, <3>1, <3>2, <3>3 DEF ShInv, Sh!TypeOK, Sh!NONE
  <2> QED BY <2>1, <2>2, <2>3, <2>5, <2>6 DEF ShInv
<1>2. CASE Sh!EndOfInput
  <2>1. /\ shell = "interact" /\ shell' = "crashed"
        /\ UNCHANGED <<rdir, rdirfilename, lastcode, schild, output, line, count, wanted>>
    BY <1>2 DEF Sh!EndOfInput
  <2>2. schild = Sh!NoChild /\ \A f \in Files : StillToCome(f)' = StillToCome(f)
    BY <1>0, <2>1 DEF ShInv, StillToCome
  <2> QED BY <2>1, <2>2 DEF ShInv, Sh!TypeOK
<1>3. CASE Sh!Buildcommand
  <2>1. /\ shell = "buildcommand" /\ schild = Sh!NoChild /\ shell' \in {"interact", "fork"}
        /\ UNCHANGED <<rdir, rdirfilename, schild, line, count, wanted>>
        /\ lastcode' \in {lastcode, 0}
    BY <1>3 DEF Sh!Buildcommand, ShInv
  <2>2. line.cmd \in Sh!Commands
    BY DEF Sh!Lines, ShInv, Sh!TypeOK
  <2>3. CASE line.cmd \in Runs
    <3>1. shell' = "fork" /\ UNCHANGED output
      BY <1>3, <2>3 DEF Sh!Buildcommand, Runs
    <3>2. \A f \in Files : StillToCome(f)' = StillToCome(f)
      BY <2>1, <3>1 DEF StillToCome, ByLine, Wrote
    <3> QED BY <2>1, <2>3, <3>1, <3>2 DEF ShInv, Sh!TypeOK
  <2>4. CASE line.cmd \notin Runs
    <3>1. line.cmd \in {"built-in", "echo $?"}
      BY <2>1, <2>2, <2>4 DEF Runs, Sh!Commands, ShInv
    <3>2. shell' = "interact" /\ output' \in {output, [output EXCEPT ![Terminal] = <<lastcode>>]}
      BY <1>3, <3>1 DEF Sh!Buildcommand
    <3>3. <<lastcode>> \in Seq(Int)
      BY DEF ShInv, Sh!TypeOK, Sh!EXIT_CODE
    <3>4. /\ output' \in [Files \cup {Terminal} -> Seq(Int)]
          /\ \A f \in Files : output'[f] = output[f]
      BY <3>2, <3>3 DEF ShInv
    <3>5. \A f \in Files : StillToCome(f)' = output[f] /\ StillToCome(f) = output[f]
      BY <1>0, <2>1, <2>4, <3>2, <3>4 DEF StillToCome, ByLine
    <3> QED BY <2>1, <3>2, <3>4, <3>5 DEF ShInv, Sh!TypeOK
  <2> QED BY <2>3, <2>4
<1>4. CASE Sh!Fork
  <2>1. /\ shell = "fork" /\ schild = Sh!NoChild /\ line.cmd \in Runs
        /\ UNCHANGED <<rdir, rdirfilename, lastcode, output, line, count>>
    BY <1>4 DEF Sh!Fork, ShInv
  <2>2. CASE shell' = "waitpid" /\ schild' = [at |-> "dup2", out |-> Terminal] /\ UNCHANGED wanted
    <3>1. \A f \in Files : StillToCome(f)' = StillToCome(f)
      BY <2>1, <2>2 DEF StillToCome, ByLine, Wrote
    <3>2. schild' \in Children /\ schild'.at = "dup2" /\ schild' # Sh!NoChild
      BY <1>0, <2>2 DEF Children
    <3> QED BY <2>1, <2>2, <3>1, <3>2 DEF ShInv, Sh!TypeOK
  <2>3. CASE shell' = "interact" /\ UNCHANGED schild /\ wanted' = [f \in Files |-> output[f]]
    <3>1. wanted' \in [Files -> Seq(Int)]
      BY <2>3 DEF ShInv
    <3>2. \A f \in Files : StillToCome(f)' = output[f]
      BY <1>0, <2>1, <2>3 DEF StillToCome
    <3> QED BY <2>1, <2>3, <3>1, <3>2 DEF ShInv, Sh!TypeOK
  <2> QED BY <1>4, <2>2, <2>3 DEF Sh!Fork
<1>5. CASE Sh!Dup2
  <2>1. /\ schild.at = "dup2" /\ schild = [at |-> "dup2", out |-> Terminal]
        /\ shell = "waitpid" /\ line.cmd \in Runs
        /\ UNCHANGED <<shell, rdir, rdirfilename, lastcode, line, count>>
    BY <1>0, <1>5 DEF Sh!Dup2, ShInv, Children
  <2>2. \A o \in Files \cup {Terminal} :
          schild' = [at |-> "exec", out |-> o]
            => schild' \in Children /\ schild'.at = "exec" /\ schild'.out = o /\ schild' # Sh!NoChild
    BY <1>0 DEF Children
  <2>3. CASE /\ rdir \in {Sh!NONE, "IN_RDIR"} /\ schild' = [schild EXCEPT !.at = "exec"]
             /\ UNCHANGED <<output, wanted>>
    <3>1. schild' = [at |-> "exec", out |-> Terminal]
      BY <2>1, <2>3
    <3>2. \A f \in Files : StillToCome(f)' = output[f] /\ StillToCome(f) = output[f]
      BY <2>1, <2>2, <2>3, <3>1 DEF StillToCome, ByLine, ShInv, Sh!NONE
    <3> QED BY <2>1, <2>2, <2>3, <3>1, <3>2 DEF ShInv, Sh!TypeOK
  <2>4. CASE /\ rdir \in {"OUT_RDIR", "APPEND_RDIR"}
             /\ schild' = [at |-> "exec", out |-> rdirfilename]
             /\ output' = IF rdir = "OUT_RDIR" THEN [output EXCEPT ![rdirfilename] = << >>]
                                               ELSE output
             /\ UNCHANGED wanted
    <3>1. rdirfilename \in Files
      BY <2>4 DEF ShInv, Sh!TypeOK, Sh!Lines, Sh!NONE
    <3>2. output' \in [Files \cup {Terminal} -> Seq(Int)]
      BY <1>0, <2>4, <3>1 DEF ShInv
    <3>3. \A f \in Files : output'[f] = IF rdir = "OUT_RDIR" /\ f = rdirfilename THEN << >> ELSE output[f]
      BY <2>4, <3>1 DEF ShInv
    <3>4. \A f \in Files : StillToCome(f)' = IF f = rdirfilename THEN output'[f] \o Wrote ELSE output'[f]
      BY <2>1, <2>2, <2>4, <3>1 DEF StillToCome, Wrote
    <3>5. \A f \in Files : StillToCome(f) = IF f # rdirfilename THEN output[f]
                                            ELSE IF rdir = "OUT_RDIR" THEN Wrote ELSE output[f] \o Wrote
      BY <2>1, <2>4 DEF StillToCome, ByLine, ShInv
    <3>6. \A f \in Files : StillToCome(f)' = StillToCome(f)
      <4>1. << >> \o Wrote = Wrote
        BY <1>0
      <4> QED BY <3>3, <3>4, <3>5, <4>1
    <3> QED BY <2>1, <2>2, <2>4, <3>1, <3>2, <3>6 DEF ShInv, Sh!TypeOK
  <2>5. CASE /\ schild' = [schild EXCEPT !.at = "exec"]
             /\ wanted' = [f \in Files |-> output[f]] /\ UNCHANGED output
    <3>1. schild' = [at |-> "exec", out |-> Terminal]
      BY <2>1, <2>5
    <3>2. \A f \in Files : StillToCome(f)' = output[f]
      BY <2>1, <2>2, <2>5, <3>1 DEF StillToCome
    <3>3. wanted' \in [Files -> Seq(Int)]
      BY <2>5 DEF ShInv
    <3> QED BY <2>1, <2>2, <2>5, <3>1, <3>2, <3>3 DEF ShInv, Sh!TypeOK
  <2> QED BY <1>5, <2>3, <2>4, <2>5 DEF Sh!Dup2
<1>6. CASE Sh!Exec
  <2>1. /\ schild.at = "exec" /\ schild \in [at : {"exec"}, out : Files \cup {Terminal}]
        /\ shell = "waitpid" /\ line.cmd \in Runs
        /\ UNCHANGED <<shell, rdir, rdirfilename, lastcode, line, count, wanted>>
    BY <1>0, <1>6 DEF Sh!Exec, ShInv, Children
  <2>2. PICK status \in {0, 1, 44} : schild' = [at |-> "exit", status |-> status]
    BY <1>6, <2>1 DEF Sh!Exec, Runs, Sh!EXIT_CODE
  <2>3. /\ output' \in [Files \cup {Terminal} -> Seq(Int)]
        /\ \A f \in Files : output'[f] = IF f = schild.out THEN output[f] \o Wrote ELSE output[f]
    <3>1. CASE line.cmd = "unknown"
      <4>1. output' = output /\ Wrote = << >>
        BY <1>6, <3>1 DEF Sh!Exec, Wrote
      <4>2. \A f \in Files : output[f] \o << >> = output[f]
        BY <1>0 DEF ShInv
      <4> QED BY <4>1, <4>2 DEF ShInv
    <3>2. CASE line.cmd # "unknown" /\ schild.out = Terminal
      <4>1. output' = [output EXCEPT ![Terminal] = <<count>>] /\ Wrote = <<count>>
        BY <1>6, <3>2 DEF Sh!Exec, Wrote
      <4> QED BY <1>0, <3>2, <4>1 DEF ShInv
    <3>3. CASE line.cmd # "unknown" /\ schild.out # Terminal
      <4>1. output' = [output EXCEPT ![schild.out] = @ \o <<count>>] /\ Wrote = <<count>>
        BY <1>6, <3>3 DEF Sh!Exec, Wrote
      <4> QED BY <1>0, <2>1, <4>1 DEF ShInv
    <3> QED BY <3>1, <3>2, <3>3
  <2>4. schild' \in Children /\ schild'.at = "exit" /\ schild' # Sh!NoChild
    BY <1>0, <2>2 DEF Children
  <2>5. \A f \in Files : StillToCome(f)' = StillToCome(f)
    BY <2>1, <2>3, <2>4 DEF StillToCome
  <2> QED BY <2>1, <2>3, <2>4, <2>5 DEF ShInv, Sh!TypeOK
<1>7. CASE Sh!Waitpid
  <2>1. /\ schild.at = "exit" /\ lastcode' = schild.status
        /\ schild' = Sh!NoChild /\ shell' = "interact"
        /\ UNCHANGED <<rdir, rdirfilename, output, line, count, wanted>>
    BY <1>7 DEF Sh!Waitpid
  <2>2. schild.status \in {0, 1, 44} /\ schild'.at = "none" /\ schild' \in Children
    BY <1>0, <2>1 DEF ShInv, Children
  <2>3. \A f \in Files : StillToCome(f)' = output[f] /\ StillToCome(f) = output[f]
    BY <1>7, <2>1, <2>2 DEF StillToCome, Sh!Waitpid
  <2> QED BY <2>1, <2>2, <2>3 DEF ShInv, Sh!TypeOK, Sh!EXIT_CODE
<1>8. CASE UNCHANGED Sh!vars
  BY <1>8 DEF Sh!vars, ShInv, Sh!TypeOK, StillToCome, ByLine, Wrote
<1> QED
  BY <1>1, <1>2, <1>3, <1>4, <1>5, <1>6, <1>7, <1>8 DEF Sh!Next, Sh!Ended

-----------------------------------------------------------------------------
(* HTTP server.  The sockets are those of SocketsProofs. *)
LEMMA HttpSockets ==
  /\ Http!NetInit <=> NetInit
  /\ Http!NetTypeOK <=> NetTypeOK
  /\ Http!AcceptFails <=> AcceptFails
  /\ Http!Accept <=> Accept
  /\ Http!NextFd = NextFd
  /\ \A f : /\ Http!ReadData(f) <=> ReadData(f)
            /\ Http!Close(f) <=> Close(f)
  /\ \A c : Http!Client(c) <=> Client(c)
BY DEF Http!NetInit, NetInit, Http!NetTypeOK, NetTypeOK, Http!AcceptFails, AcceptFails,
       Http!Accept, Accept, Http!NextFd, NextFd, Http!Unused, Unused, Http!Open, Open,
       Http!ReadData, ReadData, Http!Close, Close, Http!Forget, Forget, Http!Client, Client,
       Http!Connect, Connect, Http!Send, Send, Http!Quit, Quit, Http!net, net

(* The descriptor a thread was made with is open while it runs, and still  *)
(* that of its connection: only the thread itself closes it.               *)
Serves(c) == thread[c] \in {"recv", "send", "close"}
HttpInv == /\ NetInv /\ Http!TypeOK
           /\ \A c \in Conns : Serves(c) => tds[c] \in Open /\ fds[tds[c]] = c

LEMMA HttpStart == Http!Init => HttpInv
<1> SUFFICES ASSUME Http!Init PROVE HttpInv
  OBVIOUS
<1>1. NetInv
  BY HttpSockets, NetStart DEF Http!Init
<1> QED BY <1>1, HttpSockets DEF NetInv, HttpInv, Http!TypeOK, Http!Init, Serves

LEMMA HttpKeeps == HttpInv /\ [Http!Next]_Http!vars => HttpInv'
<1> SUFFICES ASSUME HttpInv, [Http!Next]_Http!vars PROVE HttpInv'
  OBVIOUS
<1>0. /\ NetTypeOK /\ Http!NetTypeOK
      /\ NetInv' => Http!NetTypeOK'
  BY HttpSockets DEF HttpInv, NetInv, Http!NetTypeOK, NetTypeOK
<1>1. CASE Http!AcceptLink
  <2> DEFINE c == Head(backlog)
             f == NextFd
  <2>1. /\ NetInv' /\ f \in Unused /\ fds'[f] = c /\ c \in Conns
        /\ \A g \in DOMAIN fds : g # f => fds'[g] = fds[g]
        /\ Open' = Open \cup {f}
    BY <1>1, HttpSockets, AcceptKeeps DEF Http!AcceptLink, HttpInv
  <2>2. PICK place \in {"recv", "lost"} : thread' = [thread EXCEPT ![c] = place]
    BY <1>1 DEF Http!AcceptLink, Http!Goto
  <2>3. tds' = [tds EXCEPT ![c] = f] /\ UNCHANGED <<url, page, up>>
    BY <1>1, HttpSockets DEF Http!AcceptLink
  <2> HIDE DEF c, f
  <2>4. f \in Fds /\ f \notin Open /\ Open \subseteq DOMAIN fds
    BY <1>0, <2>1 DEF Unused, Open, NetTypeOK
  <2>5. Http!TypeOK'
    BY <1>0, <2>1, <2>2, <2>3, <2>4 DEF HttpInv, Http!TypeOK
  <2>6. ASSUME NEW d \in Conns, Serves(d)' PROVE tds'[d] \in Open' /\ fds'[tds'[d]] = d
    <3>1. CASE d = c
      BY <2>1, <2>3, <3>1 DEF HttpInv, Http!TypeOK
    <3>2. CASE d # c
      BY <2>1, <2>2, <2>3, <2>4, <2>6, <3>2 DEF HttpInv, Http!TypeOK, Serves
    <3> QED BY <3>1, <3>2
  <2> QED BY <2>1, <2>5, <2>6 DEF HttpInv
<1>2. ASSUME NEW c \in Conns, Http!ThreadRun(c) PROVE HttpInv'
  <2>1. /\ Serves(c) /\ tds[c] \in Open /\ tds[c] \in Fds /\ fds[tds[c]] = c
        /\ \A d \in Conns \ {c} : Serves(d) => tds[d] # tds[c] /\ tds[d] \in Fds
    <3>1. Serves(c)
      BY <1>2 DEF Http!ThreadRun, Http!Recv, Http!Respond, Http!CloseAndDelete, Http!Goto, Serves
    <3> QED BY <1>0, <3>1 DEF HttpInv, Open, NetTypeOK
  <2>2. CASE Http!Recv(c) /\ UNCHANGED <<tds, page>>
    <3>1. ReadData(tds[c]) \/ UNCHANGED net
      BY <2>2, HttpSockets DEF Http!Recv, Http!Sockfd, Http!net, net
    <3>2. NetInv' /\ UNCHANGED fds /\ Open' = Open
      <4>1. CASE ReadData(tds[c])
        BY <2>1, <4>1, ReadKeeps DEF HttpInv, ReadData, Open
      <4>2. CASE UNCHANGED net
        BY <4>2 DEF HttpInv, NetInv, NetTypeOK, OnePlace, Backlogged, Open, net
      <4> QED BY <3>1, <4>1, <4>2
    <3>3. PICK place \in {"send", "close"} : thread' = [thread EXCEPT ![c] = place]
      BY <2>2 DEF Http!Recv, Http!Goto
    <3>4. up' \in BOOLEAN /\ (UNCHANGED url \/ \E u \in Urls : url' = [url EXCEPT ![c] = u])
      BY <2>2 DEF Http!Recv, Http!Parse, HttpInv, Http!TypeOK
    <3>5. Http!TypeOK'
      BY <1>0, <2>2, <3>2, <3>3, <3>4 DEF HttpInv, Http!TypeOK
    <3> QED BY <2>1, <2>2, <3>2, <3>3, <3>5 DEF HttpInv, Http!TypeOK, Serves
  <2>3. CASE Http!Respond(c)
    <3>1. thread' = [thread EXCEPT ![c] = "close"] /\ UNCHANGED <<fds, backlog, peer, unread, tds, url, up>>
      BY <2>3 DEF Http!Respond, Http!Goto, Http!net
    <3>2. PICK body \in {"zeros", "404"} : page' = [page EXCEPT ![c] = body]
      BY <2>1, <2>3 DEF Http!Respond, Http!ReadHtmlContent, Http!Sockfd
    <3>3. NetInv' /\ Open' = Open
      BY <3>1 DEF HttpInv, NetInv, NetTypeOK, OnePlace, Backlogged, Open
    <3>4. Http!TypeOK'
      BY <1>0, <3>1, <3>2, <3>3 DEF HttpInv, Http!TypeOK
    <3> QED BY <2>1, <3>1, <3>3, <3>4 DEF HttpInv, Http!TypeOK, Serves
  <2>4. CASE Http!CloseAndDelete(c)
    <3>1. /\ NetInv' /\ Open' = Open \ {tds[c]}
          /\ \A g \in DOMAIN fds : g # tds[c] => fds'[g] = fds[g]
      BY <2>1, <2>4, HttpSockets, CloseKeeps DEF Http!CloseAndDelete, Http!Sockfd, HttpInv
    <3>2. /\ thread' = [thread EXCEPT ![c] = "none"] /\ tds' = [tds EXCEPT ![c] = Nothing]
          /\ url' = [url EXCEPT ![c] = Nothing] /\ UNCHANGED <<page, up>>
      BY <2>4 DEF Http!CloseAndDelete, Http!Goto
    <3>3. Http!TypeOK'
      BY <1>0, <3>1, <3>2 DEF HttpInv, Http!TypeOK
    <3>4. ASSUME NEW d \in Conns, Serves(d)' PROVE tds'[d] \in Open' /\ fds'[tds'[d]] = d
      <4>1. d # c /\ Serves(d) /\ tds'[d] = tds[d]
        BY <3>2, <3>4 DEF HttpInv, Http!TypeOK, Serves
      <4> QED BY <2>1, <3>1, <4>1 DEF HttpInv, Open
    <3> QED BY <3>1, <3>3, <3>4 DEF HttpInv
  <2> QED BY <1>2, <2>2, <2>3, <2>4 DEF Http!ThreadRun
<1>3. CASE Http!Users
  <2>1. PICK c \in Conns : Client(c) /\ UNCHANGED <<thread, tds, url, page, up>>
    BY <1>3, HttpSockets DEF Http!Users, Http!http
  <2>2. NetInv' /\ UNCHANGED fds /\ Open' = Open
    BY <2>1, ClientKeeps DEF HttpInv, Client, Connect, Send, Quit, Open
  <2> QED BY <1>0, <2>1, <2>2 DEF HttpInv, Http!TypeOK, Serves
<1>4. CASE Http!AcceptError \/ UNCHANGED Http!vars
  <2>1. UNCHANGED <<fds, backlog, peer, unread, thread, tds, url, page, up>>
    BY <1>4 DEF Http!AcceptError, Http!AcceptFails, Http!http, Http!net, Http!vars
  <2>2. NetInv' /\ Open' = Open
    BY <2>1 DEF HttpInv, NetInv, NetTypeOK, OnePlace, Backlogged, Open
  <2> QED BY <1>0, <2>1, <2>2 DEF HttpInv, Http!TypeOK, Serves
<1> QED BY <1>1, <1>2, <1>3, <1>4 DEF Http!Next, Http!Ended

-----------------------------------------------------------------------------
(* Logging.  A thread between its open and its close has a number for     *)
(* itself, and the number means the file it has opened: nobody else closes *)
(* it, and open gives out only numbers that mean no file.                  *)
Holds(w) == writer[w].at \in {"write", "close"}

LogsInv == /\ Logs!TypeOK
           /\ \A w \in Writers : Holds(w) => table[writer[w].fd] = writer[w].place
           /\ \A w, v \in Writers : Holds(w) /\ Holds(v) /\ writer[w].fd = writer[v].fd => w = v
           /\ Logs!EachInItsFile

LEMMA LogsStart == Logs!Init => LogsInv
BY DEF Logs!Init, LogsInv, Logs!TypeOK, Logs!Steps, Logs!Idle, Logs!EachInItsFile, Holds

LEMMA LowestIsFree ==
  ASSUME Logs!FreeNumbers # {}
  PROVE  Logs!Lowest \in Numbers /\ table[Logs!Lowest] = NoFile
<1>1. Logs!FreeNumbers \in SUBSET Nat
  BY ProgramsAssumption DEF Logs!LoggingAssumption, Logs!FreeNumbers
<1>2. \E n \in Logs!FreeNumbers : \A m \in Logs!FreeNumbers : n <= m
  BY <1>1, LeastNumber
<1>3. Logs!Lowest \in Logs!FreeNumbers
  BY <1>2 DEF Logs!Lowest
<1> QED BY <1>3 DEF Logs!FreeNumbers

(* What a thread does next, and that it holds a number. *)
LEMMA LoggerAt ==
  ASSUME LogsInv, NEW w \in Writers
  PROVE  /\ writer[w].at = "printLog" => writer[w].level \in Levels
         /\ Holds(w) => /\ writer[w] \in [at : {"write", "close"}, fd : Numbers, place : Logs!Places]
                        /\ writer[w].fd \in Numbers /\ writer[w].place \in Logs!Places
                        /\ table[writer[w].fd] = writer[w].place
                        /\ table[writer[w].fd] # NoFile
BY ProgramsAssumption
   DEF LogsInv, Logs!TypeOK, Logs!Steps, Logs!Idle, Holds, Logs!LoggingAssumption

(* A thread that holds no number goes on without one. *)
LEMMA LoggerGoesOn ==
  ASSUME LogsInv, NEW w \in Writers, ~Holds(w),
         NEW step \in Logs!Steps, step.at \notin {"write", "close"},
         Logs!Goto(w, step), UNCHANGED <<table, log>>
  PROVE  LogsInv'
<1>1. writer' \in [Writers -> Logs!Steps] /\ \A v \in Writers : v # w => writer'[v] = writer[v]
  BY DEF LogsInv, Logs!TypeOK, Logs!Goto
<1>2. ~Holds(w)'
  BY DEF LogsInv, Logs!TypeOK, Logs!Goto, Holds
<1>3. \A v \in Writers : Holds(v)' <=> Holds(v)
  BY <1>1, <1>2 DEF Holds
<1> QED BY <1>1, <1>2, <1>3 DEF LogsInv, Logs!TypeOK, Logs!EachInItsFile, Holds

LEMMA LogsOpenKeeps ==
  ASSUME LogsInv, NEW w \in Writers, ~Holds(w), NEW place \in Logs!Places,
         Logs!Open(w, place), UNCHANGED log
  PROVE  LogsInv'
<1>1. CASE Logs!Goto(w, Logs!Idle) /\ UNCHANGED table
  <2>1. Logs!Idle \in Logs!Steps /\ Logs!Idle.at \notin {"write", "close"}
    BY DEF Logs!Idle, Logs!Steps
  <2> QED BY <1>1, <2>1, LoggerGoesOn
<1>2. CASE /\ Logs!FreeNumbers # {} /\ table' = [table EXCEPT ![Logs!Lowest] = place]
           /\ Logs!Goto(w, [at |-> "write", fd |-> Logs!Lowest, place |-> place])
  <2> DEFINE n    == Logs!Lowest
             step == [at |-> "write", fd |-> n, place |-> place]
  <2>1. n \in Numbers /\ table[n] = NoFile
    BY <1>2, LowestIsFree
  <2>2. table' = [table EXCEPT ![n] = place] /\ writer' = [writer EXCEPT ![w] = step]
    BY <1>2 DEF Logs!Goto
  <2> HIDE DEF n
  <2>3. step \in Logs!Steps /\ step.at = "write" /\ step.fd = n /\ step.place = place
    BY <2>1 DEF Logs!Steps
  <2> HIDE DEF step
  <2>4. writer'[w] = step /\ \A v \in Writers : v # w => writer'[v] = writer[v]
    BY <2>2 DEF LogsInv, Logs!TypeOK
  <2>5. table'[n] = place /\ \A m \in Numbers : m # n => table'[m] = table[m]
    BY <2>1, <2>2 DEF LogsInv, Logs!TypeOK
  <2>6. Logs!TypeOK'
    BY <2>2, <2>3 DEF LogsInv, Logs!TypeOK
  <2>7. \A v \in Writers : v # w /\ Holds(v)' =>
          Holds(v) /\ writer[v].fd # n /\ table'[writer[v].fd] = writer[v].place
    BY <2>1, <2>4, <2>5, LoggerAt DEF Holds
  <2>8. Logs!EachInItsFile'
    <3>1. ASSUME NEW m \in Numbers, table'[m] # NoFile
          PROVE  \E v \in Writers : Holds(v)' /\ writer'[v].fd = m
      <4>1. CASE m = n
        BY <2>3, <2>4, <4>1 DEF Holds
      <4>2. CASE m # n
        <5>1. PICK v \in Writers : Holds(v) /\ writer[v].fd = m
          BY <2>5, <3>1, <4>2 DEF LogsInv, Logs!EachInItsFile, Holds
        <5> QED BY <2>4, <5>1 DEF Holds
      <4> QED BY <4>1, <4>2
    <3> QED BY <3>1 DEF LogsInv, Logs!EachInItsFile, Holds
  <2> QED BY <2>3, <2>4, <2>5, <2>6, <2>7, <2>8 DEF LogsInv
<1> QED BY <1>1, <1>2 DEF Logs!Open

LEMMA LogsWriteKeeps == \A w \in Writers : LogsInv /\ Logs!Write(w) => LogsInv'
<1> SUFFICES ASSUME LogsInv, NEW w \in Writers, Logs!Write(w) PROVE LogsInv'
  OBVIOUS
<1> DEFINE step == [writer[w] EXCEPT !.at = "close"]
<1>1. Holds(w) /\ writer' = [writer EXCEPT ![w] = step] /\ UNCHANGED table
  BY DEF Logs!Write, Holds, Logs!Goto
<1>2. step \in Logs!Steps /\ step.at = "close" /\ step.fd = writer[w].fd
      /\ step.place = writer[w].place
  BY <1>1, LoggerAt DEF Logs!Steps
<1> HIDE DEF step
<1>3. writer'[w] = step /\ \A v \in Writers : v # w => writer'[v] = writer[v]
  BY <1>1 DEF LogsInv, Logs!TypeOK
<1>4. log' \in [Logs!Places -> SUBSET Logs!Places]
      /\ \A place \in Logs!Places : log'[place] \subseteq {place}
  <2>1. CASE UNCHANGED log
    BY <2>1 DEF LogsInv, Logs!TypeOK, Logs!EachInItsFile
  <2>2. CASE Logs!Put(w)
    <3> DEFINE place == writer[w].place
    <3>1. place \in Logs!Places /\ table[writer[w].fd] = place /\ place # NoFile
      BY <1>1, LoggerAt
    <3>2. log' = [log EXCEPT ![place] = @ \cup {place}]
      BY <2>2, <3>1 DEF Logs!Put
    <3> HIDE DEF place
    <3> QED BY <3>1, <3>2 DEF LogsInv, Logs!TypeOK, Logs!EachInItsFile
  <2> QED BY <2>1, <2>2 DEF Logs!Write
<1>5. Logs!TypeOK'
  BY <1>1, <1>2, <1>4 DEF LogsInv, Logs!TypeOK
<1>6. \A v \in Writers : /\ Holds(v)' <=> Holds(v)
                         /\ writer'[v].fd = writer[v].fd /\ writer'[v].place = writer[v].place
  BY <1>1, <1>2, <1>3 DEF Holds
<1>7. Logs!EachInItsFile'
  BY <1>1, <1>4, <1>6 DEF LogsInv, Logs!EachInItsFile, Holds
<1> QED BY <1>1, <1>5, <1>6, <1>7 DEF LogsInv

(* The number that is closed is nobody else's. *)
LEMMA LogsCloseKeeps == \A w \in Writers : LogsInv /\ Logs!Close(w) => LogsInv'
<1> SUFFICES ASSUME LogsInv, NEW w \in Writers, Logs!Close(w) PROVE LogsInv'
  OBVIOUS
<1> DEFINE n == writer[w].fd
<1>1. /\ Holds(w) /\ writer' = [writer EXCEPT ![w] = Logs!Idle]
      /\ table' = [table EXCEPT ![n] = NoFile] /\ UNCHANGED log
  BY DEF Logs!Close, Logs!Closed, Holds, Logs!Goto
<1>2. n \in Numbers
  BY <1>1, LoggerAt
<1>3. Logs!Idle \in Logs!Steps /\ Logs!Idle.at = "idle"
  BY DEF Logs!Idle, Logs!Steps
<1>4. writer'[w] = Logs!Idle /\ \A v \in Writers : v # w => writer'[v] = writer[v]
  BY <1>1 DEF LogsInv, Logs!TypeOK
<1>5. Logs!TypeOK'
  BY <1>1, <1>2, <1>3 DEF LogsInv, Logs!TypeOK
<1>6. table'[n] = NoFile /\ \A m \in Numbers : m # n => table'[m] = table[m]
  BY <1>1, <1>2 DEF LogsInv, Logs!TypeOK
<1>7. \A v \in Writers : Holds(v)' => v # w /\ Holds(v) /\ writer[v].fd # n
  BY <1>1, <1>3, <1>4 DEF LogsInv, Holds
<1>8. \A v \in Writers : v # w /\ Holds(v) => Holds(v)'
  BY <1>4 DEF Holds
<1> HIDE DEF n
<1>9. ASSUME NEW m \in Numbers, table'[m] # NoFile
      PROVE  \E v \in Writers : Holds(v)' /\ writer'[v].fd = m
  <2>1. m # n /\ table[m] # NoFile
    BY <1>6, <1>9
  <2>2. PICK v \in Writers : Holds(v) /\ writer[v].fd = m
    BY <2>1 DEF LogsInv, Logs!EachInItsFile, Holds
  <2>3. v # w
    BY <2>1, <2>2 DEF n
  <2> QED BY <1>4, <1>8, <2>2, <2>3
<1>10. Logs!EachInItsFile'
  BY <1>1, <1>9 DEF LogsInv, Logs!EachInItsFile, Holds
<1> QED BY <1>4, <1>5, <1>6, <1>7, <1>10, LoggerAt DEF LogsInv

LEMMA LogsKeeps == LogsInv /\ [Logs!Next]_Logs!vars => LogsInv'
<1> SUFFICES ASSUME LogsInv, [Logs!Next]_Logs!vars PROVE LogsInv'
  OBVIOUS
<1>1. CASE Logs!Enable \/ UNCHANGED Logs!vars
  BY <1>1 DEF Logs!Enable, Logs!vars, LogsInv, Logs!TypeOK, Logs!EachInItsFile, Holds
<1>2. ASSUME NEW w \in Writers, Logs!Format(w) PROVE LogsInv'
  <2>1. ~Holds(w) /\ UNCHANGED <<table, log>>
    BY <1>2 DEF Logs!Format, Logs!Idle, Holds
  <2>2. PICK level \in Levels : Logs!Goto(w, [at |-> "printLog", level |-> level])
    BY <1>2 DEF Logs!Format
  <2>3. [at |-> "printLog", level |-> level] \in Logs!Steps
    BY DEF Logs!Steps
  <2> QED BY <2>1, <2>2, <2>3, LoggerGoesOn
<1>3. ASSUME NEW w \in Writers, Logs!PrintLog(w) PROVE LogsInv'
  <2>1. ~Holds(w) /\ writer[w].level \in Levels /\ UNCHANGED log
    BY <1>3, LoggerAt DEF Logs!PrintLog, Holds
  <2>2. /\ Logs!LogFile \in Logs!Places /\ writer[w].level \in Logs!Places
        /\ Logs!Idle \in Logs!Steps /\ Logs!Idle.at \notin {"write", "close"}
    BY <2>1 DEF Logs!Places, Logs!Idle, Logs!Steps
  <2>3. \/ Logs!Open(w, Logs!LogFile)
        \/ Logs!Open(w, writer[w].level)
        \/ Logs!Goto(w, Logs!Idle) /\ UNCHANGED table
    BY <1>3 DEF Logs!PrintLog
  <2> QED BY <2>1, <2>2, <2>3, LogsOpenKeeps, LoggerGoesOn
<1> QED
  BY <1>1, <1>2, <1>3, LogsWriteKeeps, LogsCloseKeeps DEF Logs!Next

-----------------------------------------------------------------------------
(* GoBang.  A set of steps that is closed downwards is an interval, and    *)
(* its size is its last step. *)
LEMMA CountIsLast ==
  ASSUME NEW N \in Nat, NEW S \in SUBSET (1 .. N), \A k \in S : 1 .. k \subseteq S
  PROVE  \E c \in 0 .. N : S = 1 .. c /\ Cardinality(S) = c
<1>1. ASSUME NEW c \in 0 .. N, S = 1 .. c PROVE Cardinality(S) = c
  BY <1>1, FS_Interval
<1>2. CASE S = 1 .. N
  BY <1>1, <1>2
<1>3. CASE S # 1 .. N
  <2> DEFINE T == (1 .. N) \ S
  <2>1. T \in SUBSET Nat /\ T # {}
    <3>1. ~(1 .. N \subseteq S)
      BY <1>3
    <3> QED BY <3>1
  <2>2. PICK t \in T : \A z \in T : t <= z
    BY <2>1, LeastNumber
  <2>3. t \in 1 .. N /\ t \notin S
    OBVIOUS
  <2>4. ASSUME NEW k \in S PROVE k \in 1 .. t - 1
    <3>1. k < t
      BY <2>3
    <3> QED BY <3>1
  <2>5. ASSUME NEW k \in 1 .. t - 1 PROVE k \in S
    <3>1. k \in 1 .. N /\ k < t
      BY <2>3
    <3>2. k \notin T
      BY <2>2, <2>3, <3>1
    <3> QED BY <3>1, <3>2
  <2>6. S = 1 .. t - 1 /\ t - 1 \in 0 .. N
    <3>1. S \subseteq 1 .. t - 1 /\ 1 .. t - 1 \subseteq S
      BY <2>4, <2>5
    <3>2. t - 1 \in 0 .. N
      BY <2>3
    <3> QED BY <3>1, <3>2
  <2> QED BY <1>1, <2>6
<1> QED BY <1>2, <1>3

(* How far one gets from 0 in each direction within Q says whether Q has   *)
(* F numbers in a row, 0 among them.                                       *)
Forth(Q, N) == {k \in 1 .. N : \A j \in 1 .. k : j \in Q}
Back(Q, N)  == {k \in 1 .. N : \A j \in 1 .. k : -j \in Q}
Row(Q, F)   == \E m \in 0 .. F - 1 : \A k \in 0 .. F - 1 : k - m \in Q

LEMMA CountsMakeRow ==
  ASSUME NEW N \in Nat, NEW F \in Nat \ {0}, NEW Q \in SUBSET (-N .. N), 0 \in Q
  PROVE  /\ Cardinality(Forth(Q, N)) \in Nat /\ Cardinality(Back(Q, N)) \in Nat
         /\ Cardinality(Back(Q, N)) + Cardinality(Forth(Q, N)) + 1 >= F <=> Row(Q, F)
<1>1. PICK r \in 0 .. N : Forth(Q, N) = 1 .. r /\ Cardinality(Forth(Q, N)) = r
  <2>1. Forth(Q, N) \in SUBSET (1 .. N) /\ \A k \in Forth(Q, N) : 1 .. k \subseteq Forth(Q, N)
    BY DEF Forth
  <2> QED BY <2>1, CountIsLast
<1>2. PICK l \in 0 .. N : Back(Q, N) = 1 .. l /\ Cardinality(Back(Q, N)) = l
  <2>1. Back(Q, N) \in SUBSET (1 .. N) /\ \A k \in Back(Q, N) : 1 .. k \subseteq Back(Q, N)
    BY DEF Back
  <2> QED BY <2>1, CountIsLast
<1>3. /\ \A j \in 1 .. r : j \in Q
      /\ \A j \in 1 .. l : -j \in Q
  BY <1>1, <1>2 DEF Forth, Back
<1>4. ASSUME l + r + 1 >= F PROVE Row(Q, F)
  <2> DEFINE m == IF l < F THEN l ELSE F - 1
  <2>1. m \in 0 .. F - 1 /\ m <= l /\ F - 1 - m <= r
    BY <1>4
  <2> HIDE DEF m
  <2>2. ASSUME NEW k \in 0 .. F - 1 PROVE k - m \in Q
    <3>1. CASE k > m
      BY <1>3, <2>1, <3>1
    <3>2. CASE k < m
      <4>1. m - k \in 1 .. l /\ k - m = -(m - k)
        BY <2>1, <3>2
      <4> QED BY <1>3, <4>1
    <3>3. CASE k = m
      BY <2>1, <3>3
    <3> QED BY <2>1, <3>1, <3>2, <3>3
  <2> QED BY <2>1, <2>2 DEF Row
<1>5. ASSUME Row(Q, F) PROVE l + r + 1 >= F
  <2>1. PICK m \in 0 .. F - 1 : \A k \in 0 .. F - 1 : k - m \in Q
    BY <1>5 DEF Row
  <2>2. \A j \in -m .. F - 1 - m : j \in Q
    <3> SUFFICES ASSUME NEW j \in -m .. F - 1 - m PROVE j \in Q
      OBVIOUS
    <3>1. j + m \in 0 .. F - 1 /\ (j + m) - m = j
      OBVIOUS
    <3> QED BY <2>1, <3>1
  <2>3. F - 1 - m <= r
    <3> SUFFICES ASSUME F - 1 - m > 0 PROVE F - 1 - m \in Forth(Q, N)
      BY <1>1
    <3>1. F - 1 - m \in Q
      BY <2>2
    <3> QED BY <2>2, <3>1 DEF Forth
  <2>4. m <= l
    <3> SUFFICES ASSUME m > 0 PROVE m \in Back(Q, N)
      BY <1>2
    <3>1. -m \in Q
      BY <2>2
    <3>2. \A j \in 1 .. m : -j \in Q
      BY <2>2
    <3> QED BY <3>1, <3>2 DEF Back
  <2> QED BY <2>3, <2>4
<1> QED BY <1>1, <1>2, <1>4, <1>5

(* The steps from a cell, along one of the four directions of a line, that *)
(* stay on the board and on its colour. *)
Axes == {<<0, 1>>, <<1, 0>>, <<1, 1>>, <<1, -1>>}
At(at, e, j) == <<at[1] + j * e[1], at[2] + j * e[2]>>
Ray(bd, at, e) == {j \in Int : At(at, e, j) \in Bang!Cells /\ bd[At(at, e, j)] = bd[at]}

LEMMA RayIsBounded ==
  ASSUME NEW bd, NEW at \in Bang!Cells, NEW e \in Axes
  PROVE  /\ Ray(bd, at, e) \in SUBSET (-(ROW + COL) .. ROW + COL) /\ 0 \in Ray(bd, at, e)
         /\ ROW + COL \in Nat
<1> USE ProgramsAssumption DEF Bang!BoardAssumption
<1>1. at[1] \in 1 .. ROW /\ at[2] \in 1 .. COL /\ at = <<at[1], at[2]>>
  BY DEF Bang!Cells
<1>2. 0 \in Ray(bd, at, e)
  <2>1. At(at, e, 0) = at
    BY <1>1 DEF At, Axes
  <2> QED BY <2>1 DEF Ray
<1>3. ASSUME NEW j \in Ray(bd, at, e) PROVE j \in -(ROW + COL) .. ROW + COL
  <2>1. j \in Int /\ at[1] + j * e[1] \in 1 .. ROW /\ at[2] + j * e[2] \in 1 .. COL
    BY DEF Ray, At, Bang!Cells
  <2>2. CASE e = <<0, 1>>
    BY <1>1, <2>1, <2>2
  <2>3. CASE e[1] = 1
    BY <1>1, <2>1, <2>3
  <2> QED BY <2>2, <2>3 DEF Axes
<1> QED BY <1>2, <1>3

LEMMA BangCardinality == \A S : Bang!Cardinality(S) = Cardinality(S)
BY DEF Bang!Cardinality, Cardinality

(* ChessCount is the length of one of the two halves of such a line.       *)
LEMMA ChessCountIs ==
  ASSUME NEW bd, NEW at \in Bang!Cells, NEW e \in Axes, NEW d
  PROVE  /\ Bang!Delta(d) = e
              => Bang!ChessCount(bd, at, d) = Cardinality(Forth(Ray(bd, at, e), ROW + COL))
         /\ Bang!Delta(d) = <<-e[1], -e[2]>>
              => Bang!ChessCount(bd, at, d) = Cardinality(Back(Ray(bd, at, e), ROW + COL))
<1>1. at[1] \in Int /\ at[2] \in Int
  BY DEF Bang!Cells
<1>2. ROW + COL \in Nat
  BY RayIsBounded
<1>3. ASSUME Bang!Delta(d) = e
      PROVE  Bang!ChessCount(bd, at, d) = Cardinality(Forth(Ray(bd, at, e), ROW + COL))
  <2> DEFINE R == {k \in 1 .. ROW + COL : \A j \in 1 .. k :
                     /\ <<at[1] + j * e[1], at[2] + j * e[2]>> \in Bang!Cells
                     /\ bd[<<at[1] + j * e[1], at[2] + j * e[2]>>] = bd[at]}
  <2>1. Bang!ChessCount(bd, at, d) = Cardinality(R)
    BY <1>3, BangCardinality DEF Bang!ChessCount
  <2>2. \A k \in 1 .. ROW + COL : k \in R <=> k \in Forth(Ray(bd, at, e), ROW + COL)
    BY <1>2 DEF Forth, Ray, At
  <2>3. R = Forth(Ray(bd, at, e), ROW + COL)
    BY <2>2 DEF Forth
  <2> QED BY <2>1, <2>3
<1>4. ASSUME Bang!Delta(d) = <<-e[1], -e[2]>>
      PROVE  Bang!ChessCount(bd, at, d) = Cardinality(Back(Ray(bd, at, e), ROW + COL))
  <2>1. \A j \in Int : /\ at[1] + j * (-e[1]) = at[1] + (-j) * e[1]
                       /\ at[2] + j * (-e[2]) = at[2] + (-j) * e[2]
    BY <1>1 DEF Axes
  <2>2. \A j \in Int : <<at[1] + j * Bang!Delta(d)[1], at[2] + j * Bang!Delta(d)[2]>> = At(at, e, -j)
    BY <1>4, <2>1 DEF At
  <2> DEFINE R == {k \in 1 .. ROW + COL : \A j \in 1 .. k :
                     /\ At(at, e, -j) \in Bang!Cells
                     /\ bd[At(at, e, -j)] = bd[at]}
  <2>3. Bang!ChessCount(bd, at, d) = Cardinality(R)
    <3> DEFINE S == {k \in 1 .. ROW + COL : \A j \in 1 .. k :
          /\ <<at[1] + j * Bang!Delta(d)[1], at[2] + j * Bang!Delta(d)[2]>> \in Bang!Cells
          /\ bd[<<at[1] + j * Bang!Delta(d)[1], at[2] + j * Bang!Delta(d)[2]>>] = bd[at]}
    <3>1. Bang!ChessCount(bd, at, d) = Cardinality(S)
      BY BangCardinality DEF Bang!ChessCount
    <3>2. S = R
      BY <1>2, <2>2
    <3> QED BY <3>1, <3>2
  <2>4. \A k \in 1 .. ROW + COL : k \in R <=> k \in Back(Ray(bd, at, e), ROW + COL)
    BY <1>2 DEF Back, Ray
  <2>5. R = Back(Ray(bd, at, e), ROW + COL)
    BY <2>4 DEF Back
  <2> QED BY <2>3, <2>5
<1> QED BY <1>3, <1>4

(* So IsOver finds a line through the cell exactly when there is one.      *)
LEMMA LineThrough ==
  ASSUME NEW bd, NEW at \in Bang!Cells
  PROVE  (\E o \in Bang!Opposite : Bang!ChessCount(bd, at, o[1]) + Bang!ChessCount(bd, at, o[2]) + 1 >= Five)
           <=> \E e \in Axes : Row(Ray(bd, at, e), Five)
<1> USE ProgramsAssumption DEF Bang!BoardAssumption
<1> DEFINE Long(o) == Bang!ChessCount(bd, at, o[1]) + Bang!ChessCount(bd, at, o[2]) + 1 >= Five
<1>1. ASSUME NEW e \in Axes, NEW d1, NEW d2,
             Bang!Delta(d1) = e, Bang!Delta(d2) = <<-e[1], -e[2]>>
      PROVE  /\ Long(<<d1, d2>>) <=> Row(Ray(bd, at, e), Five)
             /\ Long(<<d2, d1>>) <=> Row(Ray(bd, at, e), Five)
  <2>1. /\ Bang!ChessCount(bd, at, d1) = Cardinality(Forth(Ray(bd, at, e), ROW + COL))
        /\ Bang!ChessCount(bd, at, d2) = Cardinality(Back(Ray(bd, at, e), ROW + COL))
    BY <1>1, ChessCountIs
  <2> QED BY <2>1, RayIsBounded, CountsMakeRow
<1>2. Long(<<"LEFT", "RIGHT">>) <=> Row(Ray(bd, at, <<0, 1>>), Five)
  BY <1>1 DEF Bang!Delta, Axes
<1>3. Long(<<"UP", "DOWN">>) <=> Row(Ray(bd, at, <<1, 0>>), Five)
  BY <1>1 DEF Bang!Delta, Axes
<1>4. Long(<<"LEFT_UP", "RIGHT_DOWN">>) <=> Row(Ray(bd, at, <<1, 1>>), Five)
  BY <1>1 DEF Bang!Delta, Axes
<1>5. Long(<<"LEFT_DOWN", "RIGHT_UP">>) <=> Row(Ray(bd, at, <<1, -1>>), Five)
  BY <1>1 DEF Bang!Delta, Axes
<1> HIDE DEF Long
<1>6. (\E o \in Bang!Opposite : Long(o)) <=> \E e \in Axes : Row(Ray(bd, at, e), Five)
  BY <1>2, <1>3, <1>4, <1>5 DEF Bang!Opposite, Axes
<1> QED BY <1>6 DEF Long

(* The whole board: a line on it that was not there before goes through    *)
(* the cell that has changed. *)
LineOf(bd, p) == \E cell \in Bang!Cells, e \in Axes :
                   \A k \in 0 .. Five - 1 : At(cell, e, k) \in Bang!Cells /\ bd[At(cell, e, k)] = p

LEMMA AlongTheAxis ==
  ASSUME NEW at \in Bang!Cells, NEW e \in Axes, NEW m \in Int, NEW k \in Int
  PROVE  /\ At(at, e, 0) = at
         /\ At(At(at, e, m), e, k) = At(at, e, m + k)
<1>1. at[1] \in Int /\ at[2] \in Int /\ at = <<at[1], at[2]>>
  BY DEF Bang!Cells
<1> QED BY <1>1 DEF At, Axes

LEMMA RowMakesLine ==
  ASSUME NEW bd, NEW at \in Bang!Cells, NEW e \in Axes, Row(Ray(bd, at, e), Five)
  PROVE  LineOf(bd, bd[at])
<1> USE ProgramsAssumption DEF Bang!BoardAssumption
<1>1. PICK m \in 0 .. Five - 1 : \A k \in 0 .. Five - 1 : k - m \in Ray(bd, at, e)
  BY DEF Row
<1> DEFINE cell == At(at, e, -m)
<1>2. 0 \in 0 .. Five - 1 /\ 0 - m = -m
  OBVIOUS
<1>3. cell \in Bang!Cells
  BY <1>1, <1>2 DEF Ray
<1>4. ASSUME NEW k \in 0 .. Five - 1
      PROVE  At(cell, e, k) \in Bang!Cells /\ bd[At(cell, e, k)] = bd[at]
  <2>1. k - m = -m + k
    OBVIOUS
  <2>2. At(cell, e, k) = At(at, e, k - m)
    BY <2>1, AlongTheAxis
  <2> QED BY <1>1, <2>2 DEF Ray
<1> QED BY <1>3, <1>4 DEF LineOf

LEMMA NewLineIsThere ==
  ASSUME NEW bd, NEW new, NEW at \in Bang!Cells, NEW p, NEW z,
         new[at] = p, \A c \in Bang!Cells : c # at => new[c] = bd[c],
         LineOf(new, z), ~LineOf(bd, z)
  PROVE  p = z /\ \E e \in Axes : Row(Ray(new, at, e), Five)
<1> USE ProgramsAssumption DEF Bang!BoardAssumption
<1>1. PICK cell \in Bang!Cells, e \in Axes :
        \A k \in 0 .. Five - 1 : At(cell, e, k) \in Bang!Cells /\ new[At(cell, e, k)] = z
  BY DEF LineOf
<1>2. PICK m \in 0 .. Five - 1 : At(cell, e, m) = at
  <2>1. PICK m \in 0 .. Five - 1 : bd[At(cell, e, m)] # new[At(cell, e, m)]
    BY <1>1 DEF LineOf
  <2> QED BY <1>1, <2>1
<1>4. p = z
  BY <1>1, <1>2
<1>5. ASSUME NEW k \in 0 .. Five - 1 PROVE k - m \in Ray(new, at, e)
  <2>1. m + (k - m) = k /\ k - m \in Int
    OBVIOUS
  <2>2. At(at, e, k - m) = At(cell, e, k)
    BY <1>2, <2>1, AlongTheAxis
  <2> QED BY <1>1, <1>4, <2>1, <2>2 DEF Ray
<1> QED BY <1>4, <1>5 DEF Row

BangInv == /\ Bang!TypeOK /\ Bang!VerdictIsRight
           /\ game \in {"player1", "player2"} => result = Bang!NEXT

(* The verdict, for any board and result. *)
RightOn(bd, r) ==
  /\ \A p \in {1, 2} : r = p <=> LineOf(bd, p)
  /\ r = 3 <=> (\A cell \in Bang!Cells : bd[cell] # 0) /\ \A p \in {1, 2} : ~LineOf(bd, p)

LEMMA VerdictIs == /\ Bang!VerdictIsRight  <=> RightOn(board, result)
                   /\ Bang!VerdictIsRight' <=> RightOn(board', result')
BY DEF Bang!VerdictIsRight, RightOn, Bang!HasLine, LineOf, At, Axes, Bang!PLAYER1, Bang!PLAYER2,
       Bang!DRAW

(* A new game begins without a line. *)
LEMMA ClearBoard == RightOn(Bang!Clear, 0) /\ Bang!Clear \in [Bang!Cells -> {0, 1, 2}]
<1> USE ProgramsAssumption DEF Bang!BoardAssumption
<1>1. \A cell \in Bang!Cells : Bang!Clear[cell] = 0
  BY DEF Bang!Clear
<1>2. <<1, 1>> \in Bang!Cells
  BY DEF Bang!Cells
<1>3. ASSUME NEW p \in {1, 2} PROVE ~LineOf(Bang!Clear, p)
  <2>1. 0 \in 0 .. Five - 1
    OBVIOUS
  <2> QED BY <1>1, <2>1 DEF LineOf
<1> QED BY <1>1, <1>2, <1>3 DEF RightOn, Bang!Clear

LEMMA BangStart == Bang!Init => BangInv
<1> SUFFICES ASSUME Bang!Init PROVE BangInv
  OBVIOUS
<1>1. Bang!TypeOK
  <2>1. ROW \in Nat /\ COL \in Nat
    BY ProgramsAssumption DEF Bang!BoardAssumption
  <2> USE DEF Bang!Init, Bang!PLAYER1, Bang!PLAYER2, Bang!NEXT, Bang!DRAW
  <2>2. x \in 0 .. ROW /\ y \in 0 .. COL
    BY <2>1
  <2>3. board \in [Bang!Cells -> {0, 1, 2}]
    BY ClearBoard
  <2>4. choice \in 0 .. 2 /\ result = 0 /\ game = "menu"
    OBVIOUS
  <2>5. stuck \in BOOLEAN
    OBVIOUS
  <2> QED BY <2>2, <2>3, <2>4, <2>5 DEF Bang!TypeOK
<1> QED BY <1>1, ClearBoard, VerdictIs DEF Bang!Init, BangInv, Bang!NEXT

(* A move is judged by the lines through its cell alone. *)
LEMMA MoveIsJudged ==
  ASSUME NEW bd \in [Bang!Cells -> {0, 1, 2}], RightOn(bd, 0), NEW at \in Bang!Cells, bd[at] = 0,
         NEW p \in {1, 2}
  PROVE  /\ RightOn([bd EXCEPT ![at] = p], Bang!IsOver([bd EXCEPT ![at] = p], at))
         /\ Bang!IsOver([bd EXCEPT ![at] = p], at) \in {0, p, 3}
<1> DEFINE new == [bd EXCEPT ![at] = p]
           verdict == Bang!IsOver(new, at)
           through == \E e \in Axes : Row(Ray(new, at, e), Five)
<1>1. new[at] = p
  OBVIOUS
<1>2. verdict = IF through THEN p ELSE IF \E cell \in Bang!Cells : new[cell] = 0 THEN 0 ELSE 3
  BY <1>1, LineThrough DEF Bang!IsOver, Bang!NEXT, Bang!DRAW
<1>3. through => LineOf(new, p)
  BY <1>1, RowMakesLine
<1>4. \A z \in {1, 2} : LineOf(new, z) => z = p /\ through
  <2> SUFFICES ASSUME NEW z \in {1, 2}, LineOf(new, z) PROVE z = p /\ through
    OBVIOUS
  <2>1. ~LineOf(bd, z)
    BY DEF RightOn
  <2>2. new[at] = p /\ \A c \in Bang!Cells : c # at => new[c] = bd[c]
    OBVIOUS
  <2> HIDE DEF new
  <2> QED BY <2>1, <2>2, NewLineIsThere
<1> HIDE DEF new, verdict, through
<1>5. CASE through
  BY <1>2, <1>3, <1>4, <1>5 DEF RightOn, new, verdict
<1>6. CASE ~through
  BY <1>2, <1>4, <1>6 DEF RightOn, new, verdict
<1> QED BY <1>5, <1>6

LEMMA BangKeeps == BangInv /\ [Bang!Next]_Bang!vars => BangInv'
<1> SUFFICES ASSUME BangInv, [Bang!Next]_Bang!vars PROVE BangInv'
  OBVIOUS
<1> USE DEF Bang!PLAYER1, Bang!PLAYER2, Bang!NEXT, Bang!DRAW
<1>1. CASE Bang!Select
  <2>1. /\ choice' \in 0 .. 2 /\ game' \in {"player1", "quit", "menu"}
        /\ \/ board' = Bang!Clear /\ result' = 0
           \/ UNCHANGED <<board, result>> /\ game' # "player1"
        /\ UNCHANGED <<x, y, stuck>>
    BY <1>1 DEF Bang!Select
  <2>2. Bang!TypeOK'
    BY <2>1, ClearBoard DEF BangInv, Bang!TypeOK
  <2> QED BY <2>1, <2>2, ClearBoard, VerdictIs DEF BangInv
<1>2. CASE Bang!Move
  <2>1. PICK cell \in Bang!Cells : /\ board[cell] = 0 /\ x' = cell[1] /\ y' = cell[2]
                                  /\ board' = [board EXCEPT ![cell] = Bang!Player]
                                  /\ result' = Bang!IsOver(board', cell)
    BY <1>2 DEF Bang!Move
  <2>2. /\ game \in {"player1", "player2"} /\ result = 0 /\ UNCHANGED choice
        /\ game' \in {"menu", "player1", "player2"} /\ (result' # 0 => game' = "menu")
        /\ stuck' \in BOOLEAN /\ Bang!Player \in {1, 2}
    BY <1>2 DEF Bang!Move, BangInv, Bang!TypeOK, Bang!Player
  <2>3. board \in [Bang!Cells -> {0, 1, 2}] /\ RightOn(board, 0)
    BY <2>2, VerdictIs DEF BangInv, Bang!TypeOK
  <2>4. RightOn(board', result') /\ result' \in {0, 1, 2, 3}
    BY <2>1, <2>2, <2>3, MoveIsJudged
  <2>5. Bang!TypeOK'
    <3>1. x' \in 0 .. ROW /\ y' \in 0 .. COL
      BY <2>1 DEF Bang!Cells
    <3>2. board' \in [Bang!Cells -> {0, 1, 2}] /\ choice' \in 0 .. 2
      BY <2>1, <2>2, <2>3 DEF BangInv, Bang!TypeOK
    <3> QED BY <2>2, <2>4, <3>1, <3>2 DEF Bang!TypeOK
  <2> QED BY <2>2, <2>4, <2>5, VerdictIs DEF BangInv
<1>3. CASE Bang!Letters \/ UNCHANGED Bang!vars
  <2>1. UNCHANGED <<game, board, x, y, result, choice>> /\ stuck' \in BOOLEAN
    BY <1>3 DEF Bang!Letters, Bang!vars, BangInv, Bang!TypeOK
  <2> QED BY <2>1, VerdictIs DEF BangInv, Bang!TypeOK
<1> QED BY <1>1, <1>2, <1>3 DEF Bang!Next, Bang!Hang, Bang!Quit

-----------------------------------------------------------------------------
(* Calculator.  Every package has five tokens, so a token of the stream    *)
(* belongs to the request or response that its place says; a stream is in  *)
(* two parts, what has been read and what is on its way. *)
Token(v, j) == IF j = 1 THEN Cal!Number(2)
               ELSE IF j = 3 THEN [token |-> "json", value |-> v] ELSE Cal!protocol_sep
Tokens(V) == {Token(v, j) : v \in V, j \in 1 .. 5}

Nth(s, t, k) == IF k <= Len(s) THEN s[k] ELSE t[k - Len(s)]
Carry(s, t, vs, n) ==
  /\ Len(s) + Len(t) = 5 * (Len(vs) - n)
  /\ \A i \in 0 .. Len(vs) - n - 1, j \in 1 .. 5 : Nth(s, t, 5 * i + j) = Token(vs[n + i + 1], j)

LEMMA Package ==
  ASSUME NEW V, NEW v \in V
  PROVE  LET p == Cal!Encode(Cal!Serialize(v))
         IN  p \in Seq(Tokens(V)) /\ Len(p) = 5 /\ \A j \in 1 .. 5 : p[j] = Token(v, j)
<1> DEFINE T(j) == Token(v, j)
           content == <<[token |-> "json", value |-> v], Cal!protocol_sep>>
<1>1. \A j \in 1 .. 5 : T(j) \in Tokens(V)
  BY DEF Tokens
<1>2. Len(content) = 2 /\ content = <<T(3), T(4)>>
  BY DEF Token
<1>3. Cal!Encode(Cal!Serialize(v)) = <<T(1), T(2)>> \o <<T(3), T(4)>> \o <<T(5)>>
  BY <1>2 DEF Cal!Encode, Cal!Serialize, Token
<1> HIDE DEF T
<1>4. ASSUME NEW S, NEW e1 \in S, NEW e2 \in S, NEW e3 \in S, NEW e4 \in S, NEW e5 \in S
      PROVE  LET p == <<e1, e2>> \o <<e3, e4>> \o <<e5>>
             IN  /\ p \in Seq(S) /\ Len(p) = 5 /\ p[1] = e1 /\ p[2] = e2 /\ p[3] = e3
                 /\ p[4] = e4 /\ p[5] = e5
  <2> DEFINE z == <<e1, e2>> \o <<e3, e4>>
  <2>1. /\ z \in Seq(S) /\ Len(z) = 4
        /\ \A k \in 1 .. 2 : z[k] = <<e1, e2>>[k]
        /\ \A k \in 1 .. 2 : z[2 + k] = <<e3, e4>>[k]
    BY ConcatProperties
  <2>2. z[1] = e1 /\ z[2] = e2 /\ z[2 + 1] = e3 /\ z[2 + 2] = e4
    BY <2>1
  <2> HIDE DEF z
  <2> DEFINE r == <<e5>>
  <2>3. r \in Seq(S) /\ Len(r) = 1 /\ r[1] = e5
    OBVIOUS
  <2> HIDE DEF r
  <2>4. /\ z \o r \in Seq(S) /\ Len(z \o r) = 5
        /\ \A k \in 1 .. 5 : (z \o r)[k] = IF k <= 4 THEN z[k] ELSE r[k - 4]
    <3>1. /\ z \o r \in Seq(S) /\ Len(z \o r) = Len(z) + Len(r)
          /\ \A k \in 1 .. Len(z) + Len(r) :
               (z \o r)[k] = IF k <= Len(z) THEN z[k] ELSE r[k - Len(z)]
      BY <2>1, <2>3, ConcatProperties
    <3> QED BY <2>1, <2>3, <3>1
  <2>5. (z \o r)[5] = r[1] /\ \A k \in 1 .. 4 : (z \o r)[k] = z[k]
    BY <2>4
  <2> QED BY <2>2, <2>3, <2>4, <2>5 DEF z, r
<1>5. LET p == Cal!Encode(Cal!Serialize(v))
      IN  /\ p \in Seq(Tokens(V)) /\ Len(p) = 5 /\ p[1] = T(1) /\ p[2] = T(2) /\ p[3] = T(3)
          /\ p[4] = T(4) /\ p[5] = T(5)
  BY <1>1, <1>3, <1>4
<1> QED BY <1>5 DEF T

(* A read moves tokens from one part to the other. *)
LEMMA ReadMoves ==
  ASSUME NEW S, NEW s \in Seq(S), NEW t \in Seq(S), NEW vs, NEW n, NEW m \in 1 .. Len(t),
         Carry(s, t, vs, n), Len(vs) \in Nat, n \in Nat
  PROVE  LET sa == s \o SubSeq(t, 1, m)
             ta == SubSeq(t, m + 1, Len(t))
         IN  sa \in Seq(S) /\ ta \in Seq(S) /\ Carry(sa, ta, vs, n)
<1> DEFINE u == SubSeq(t, 1, m)
           sa == s \o SubSeq(t, 1, m)
           ta == SubSeq(t, m + 1, Len(t))
<1>1. Len(s) \in Nat /\ Len(t) \in Nat
  OBVIOUS
<1>2. u \in Seq(S) /\ Len(u) = m /\ \A k \in 1 .. m : u[k] = t[k]
  BY <1>1, SubSeqProperties
<1>3. ta \in Seq(S) /\ Len(ta) = Len(t) - m /\ \A k \in 1 .. Len(t) - m : ta[k] = t[m + k]
  BY <1>1, SubSeqProperties
<1>4. /\ sa \in Seq(S) /\ Len(sa) = Len(s) + m
      /\ \A k \in 1 .. Len(s) : sa[k] = s[k]
      /\ \A k \in 1 .. m : sa[Len(s) + k] = t[k]
  BY <1>1, <1>2, ConcatProperties
<1> HIDE DEF u, sa, ta
<1>5. ASSUME NEW k \in 1 .. Len(s) + Len(t) PROVE Nth(sa, ta, k) = Nth(s, t, k)
  <2>1. CASE k <= Len(s)
    BY <1>1, <1>4, <2>1 DEF Nth
  <2>2. CASE k > Len(s) /\ k <= Len(s) + m
    <3>1. k - Len(s) \in 1 .. m /\ Len(s) + (k - Len(s)) = k
      BY <1>1, <2>2
    <3> QED BY <1>1, <1>4, <2>2, <3>1 DEF Nth
  <2>3. CASE k > Len(s) + m
    <3>1. k - (Len(s) + m) \in 1 .. Len(t) - m /\ m + (k - (Len(s) + m)) = k - Len(s)
      BY <1>1, <2>3
    <3>2. Nth(s, t, k) = t[k - Len(s)] /\ Nth(sa, ta, k) = ta[k - (Len(s) + m)]
      BY <1>1, <1>4, <2>3 DEF Nth
    <3>3. ta[k - (Len(s) + m)] = t[m + (k - (Len(s) + m))]
      BY <1>3, <3>1
    <3> QED BY <3>1, <3>2, <3>3
  <2> QED BY <1>1, <2>1, <2>2, <2>3
<1>6. \A i \in 0 .. Len(vs) - n - 1, j \in 1 .. 5 : 5 * i + j \in 1 .. Len(s) + Len(t)
  BY <1>1 DEF Carry
<1>7. Carry(sa, ta, vs, n)
  <2>1. Len(sa) + Len(ta) = Len(s) + Len(t)
    BY <1>1, <1>3, <1>4
  <2> QED BY <1>5, <1>6, <2>1 DEF Carry
<1> QED BY <1>3, <1>4, <1>7 DEF sa, ta

(* A package at the end of a stream carries the next value. *)
LEMMA EncodeCarries ==
  ASSUME NEW V, NEW s \in Seq(Tokens(V)), NEW t \in Seq(Tokens(V)), NEW vs \in Seq(V), NEW v \in V,
         NEW n \in 0 .. Len(vs), Carry(s, t, vs, n)
  PROVE  LET ta == t \o Cal!Encode(Cal!Serialize(v))
         IN  ta \in Seq(Tokens(V)) /\ Carry(s, ta, Append(vs, v), n)
<1> DEFINE p   == Cal!Encode(Cal!Serialize(v))
           ta  == t \o p
           vs1 == Append(vs, v)
           R   == Len(vs) - n
<1>1. p \in Seq(Tokens(V)) /\ Len(p) = 5 /\ \A j \in 1 .. 5 : p[j] = Token(v, j)
  BY Package
<1>2. Len(s) \in Nat /\ Len(t) \in Nat /\ Len(vs) \in Nat /\ Len(s) + Len(t) = 5 * R /\ R \in Nat
  BY DEF Carry
<1> HIDE DEF p
<1>3. /\ ta \in Seq(Tokens(V)) /\ Len(ta) = Len(t) + 5
      /\ \A k \in 1 .. Len(t) + 5 : ta[k] = IF k <= Len(t) THEN t[k] ELSE p[k - Len(t)]
  <2>1. /\ ta \in Seq(Tokens(V)) /\ Len(ta) = Len(t) + Len(p)
        /\ \A k \in 1 .. Len(t) + Len(p) : ta[k] = IF k <= Len(t) THEN t[k] ELSE p[k - Len(t)]
    BY <1>1, ConcatProperties
  <2> QED BY <1>1, <2>1
<1>4. /\ Len(vs1) = Len(vs) + 1 /\ vs1[Len(vs) + 1] = v
      /\ \A k \in 1 .. Len(vs) : vs1[k] = vs[k]
  BY AppendProperties
<1> HIDE DEF ta, vs1
<1>5. ASSUME NEW i \in 0 .. R, NEW j \in 1 .. 5
      PROVE  Nth(s, ta, 5 * i + j) = Token(vs1[n + i + 1], j)
  <2>1. CASE i < R
    <3>1. i \in 0 .. R - 1 /\ 5 * i + j \in 1 .. Len(s) + Len(t) /\ n + i + 1 \in 1 .. Len(vs)
      BY <1>2, <2>1
    <3>2. Nth(s, t, 5 * i + j) = Token(vs[n + i + 1], j)
      BY <3>1 DEF Carry
    <3>3. Nth(s, ta, 5 * i + j) = Nth(s, t, 5 * i + j)
      <4>1. CASE 5 * i + j <= Len(s)
        BY <4>1 DEF Nth
      <4>2. CASE 5 * i + j > Len(s)
        <5>1. 5 * i + j - Len(s) \in 1 .. Len(t)
          BY <1>2, <3>1, <4>2
        <5>2. \A k \in 1 .. Len(t) : ta[k] = t[k]
          BY <1>2, <1>3
        <5> QED BY <1>2, <4>2, <5>1, <5>2 DEF Nth
      <4> QED BY <1>2, <4>1, <4>2
    <3> QED BY <1>4, <3>1, <3>2, <3>3
  <2>2. CASE i = R
    <3>1. 5 * i + j = Len(s) + Len(t) + j /\ n + i + 1 = Len(vs) + 1
      BY <1>2, <2>2
    <3>2. Nth(s, ta, 5 * i + j) = ta[Len(t) + j]
      <4>1. ~(Len(s) + Len(t) + j <= Len(s)) /\ Len(s) + Len(t) + j - Len(s) = Len(t) + j
        BY <1>2
      <4> QED BY <3>1, <4>1 DEF Nth
    <3>3. ta[Len(t) + j] = p[j]
      <4> DEFINE k == Len(t) + j
      <4>1. k \in 1 .. Len(t) + 5 /\ ~(k <= Len(t)) /\ k - Len(t) = j
        BY <1>2
      <4> HIDE DEF k
      <4>2. ta[k] = IF k <= Len(t) THEN t[k] ELSE p[k - Len(t)]
        BY <1>3, <4>1
      <4>3. ta[k] = p[j]
        BY <4>1, <4>2
      <4> QED BY <4>3 DEF k
    <3> QED BY <1>1, <1>4, <3>1, <3>2, <3>3
  <2> QED BY <1>2, <2>1, <2>2
<1>6. Carry(s, ta, vs1, n)
  <2>1. Len(vs1) - n = R + 1 /\ Len(vs1) - n - 1 = R
    BY <1>2, <1>4
  <2>2. Len(s) + Len(ta) = 5 * (R + 1)
    BY <1>2, <1>3
  <2> QED BY <1>5, <2>1, <2>2 DEF Carry
<1> QED BY <1>3, <1>6 DEF p, ta, vs1

(* What is decoded is the first value that was not, and the rest of the    *)
(* stream carries the others. *)
LEMMA DecodeTakesNext ==
  ASSUME NEW V, NEW s \in Seq(Tokens(V)), NEW t \in Seq(Tokens(V)), NEW vs \in Seq(V),
         NEW n \in 0 .. Len(vs), Carry(s, t, vs, n), Cal!CanDecode(s)
  PROVE  /\ n < Len(vs) /\ Cal!Deserialize(Cal!Content(s)) = vs[n + 1]
         /\ Cal!Erased(s) \in Seq(Tokens(V)) /\ Carry(Cal!Erased(s), t, vs, n + 1)
<1>1. Len(s) \in Nat /\ Len(t) \in Nat /\ Len(vs) \in Nat /\ Len(s) + Len(t) = 5 * (Len(vs) - n)
  BY DEF Carry
<1>2. ASSUME NEW k \in 1 .. 5, k <= Len(s) PROVE n < Len(vs) /\ s[k] = Token(vs[n + 1], k)
  <2>1. n < Len(vs) /\ 0 \in 0 .. Len(vs) - n - 1
    BY <1>1, <1>2
  <2>2. Nth(s, t, 5 * 0 + k) = Token(vs[n + 0 + 1], k)
    BY <2>1 DEF Carry
  <2>3. 5 * 0 + k = k /\ n + 0 + 1 = n + 1
    BY <1>1
  <2> QED BY <1>2, <2>1, <2>2, <2>3 DEF Nth
<1>3. DOMAIN s = 1 .. Len(s)
  BY LenProperties
<1>4. /\ Cal!protocol_sep # Cal!Number(2) /\ Cal!Number(2).value = 2
  BY DEF Cal!protocol_sep, Cal!Number
<1>5. Len(s) >= 2 /\ 2 \in Cal!Separators(s) /\ 1 \notin Cal!Separators(s)
  <2>1. 1 \notin Cal!Separators(s)
    BY <1>1, <1>2, <1>3, <1>4 DEF Cal!Separators, Token
  <2>2. PICK z \in Cal!Separators(s) : z \in 1 .. Len(s)
    BY <1>3 DEF Cal!CanDecode, Cal!Separators
  <2>3. Len(s) >= 2
    BY <1>1, <2>1, <2>2
  <2>4. s[2] = Cal!protocol_sep
    BY <1>2, <2>3 DEF Token
  <2> QED BY <1>1, <1>3, <2>1, <2>3, <2>4 DEF Cal!Separators
<1>6. Cal!FirstSep(s) = 2
  <2>1. \A z \in Cal!Separators(s) : z \in Nat /\ 2 <= z
    BY <1>1, <1>3, <1>5 DEF Cal!Separators
  <2>2. \E z \in Cal!Separators(s) : \A r \in Cal!Separators(s) : z <= r
    BY <1>5, <2>1
  <2>3. Cal!FirstSep(s) \in Cal!Separators(s) /\ \A r \in Cal!Separators(s) : Cal!FirstSep(s) <= r
    BY <2>2 DEF Cal!FirstSep
  <2> QED BY <1>5, <2>1, <2>3
<1>7. Cal!TotalLen(s) = 5 /\ Len(s) >= 5 /\ n < Len(vs)
  <2>1. s[1] = Cal!Number(2) /\ n < Len(vs)
    BY <1>1, <1>2, <1>5 DEF Token
  <2>2. Cal!TotalLen(s) = 5
    BY <1>4, <1>6, <2>1 DEF Cal!TotalLen
  <2> QED BY <2>1, <2>2 DEF Cal!CanDecode
<1>8. Cal!Deserialize(Cal!Content(s)) = vs[n + 1]
  <2>1. Cal!Content(s) = SubSeq(s, 3, 4)
    BY <1>6, <1>7 DEF Cal!Content
  <2>2. \A k \in 3 .. 4 : s[k] \in Tokens(V)
    BY <1>1, <1>7, ElementOfSeq
  <2>3. SubSeq(s, 3, 4)[1] = s[3]
    BY <2>2, SubSeqProperties
  <2>4. s[3] = [token |-> "json", value |-> vs[n + 1]]
    BY <1>1, <1>2, <1>7 DEF Token
  <2> QED BY <2>1, <2>3, <2>4 DEF Cal!Deserialize
<1> DEFINE e == Cal!Erased(s)
<1>9. e \in Seq(Tokens(V)) /\ Len(e) = Len(s) - 5 /\ \A k \in 1 .. Len(s) - 5 : e[k] = s[5 + k]
  <2>1. e = SubSeq(s, 6, Len(s))
    BY <1>7 DEF Cal!Erased
  <2>2. \A k \in 6 .. Len(s) : s[k] \in Tokens(V)
    BY <1>1, ElementOfSeq
  <2>3. /\ SubSeq(s, 6, Len(s)) \in Seq(Tokens(V))
        /\ Len(SubSeq(s, 6, Len(s))) = IF 6 <= Len(s) THEN Len(s) - 6 + 1 ELSE 0
        /\ \A k \in 1 .. Len(s) - 6 + 1 : SubSeq(s, 6, Len(s))[k] = s[6 + k - 1]
    BY <1>1, <2>2, SubSeqProperties
  <2>4. \A k \in 1 .. Len(s) - 5 : k \in 1 .. Len(s) - 6 + 1 /\ 6 + k - 1 = 5 + k
    BY <1>1
  <2> HIDE DEF e
  <2>5. Len(e) = Len(s) - 5
    <3>1. \A N \in Nat : N >= 5 => (IF 6 <= N THEN N - 6 + 1 ELSE 0) = N - 5
      OBVIOUS
    <3> QED BY <1>1, <1>7, <2>1, <2>3, <3>1
  <2>6. \A k \in 1 .. Len(s) - 5 : e[k] = s[5 + k]
    BY <2>1, <2>3, <2>4
  <2> QED BY <2>1, <2>3, <2>5, <2>6
<1> HIDE DEF e
<1>10. ASSUME NEW i \in 0 .. Len(vs) - (n + 1) - 1, NEW j \in 1 .. 5
       PROVE  Nth(e, t, 5 * i + j) = Token(vs[n + 1 + i + 1], j)
  <2>1. i + 1 \in 0 .. Len(vs) - n - 1
    BY <1>1
  <2>2. Nth(s, t, 5 * (i + 1) + j) = Token(vs[n + (i + 1) + 1], j)
    BY <2>1 DEF Carry
  <2>3. n + (i + 1) + 1 = n + 1 + i + 1 /\ 5 * (i + 1) + j = 5 + (5 * i + j) /\ 5 * i + j \in Nat \ {0}
    BY <1>1
  <2> DEFINE k == 5 * i + j
  <2> HIDE DEF k
  <2>4. k \in Nat \ {0} => Nth(e, t, k) = Nth(s, t, 5 + k)
    <3>1. ASSUME k \in Nat \ {0}, k <= Len(e) PROVE e[k] = s[5 + k] /\ 5 + k <= Len(s)
      BY <1>1, <1>9, <3>1
    <3>2. ASSUME k \in Nat \ {0}, ~(k <= Len(e)) PROVE k - Len(e) = 5 + k - Len(s) /\ ~(5 + k <= Len(s))
      BY <1>1, <1>9, <3>2
    <3> QED BY <3>1, <3>2 DEF Nth
  <2> QED BY <2>2, <2>3, <2>4 DEF k
<1>11. Carry(e, t, vs, n + 1)
  <2>1. Len(e) + Len(t) = 5 * (Len(vs) - (n + 1))
    <3>1. Len(s) + Len(t) = 5 * (Len(vs) - n) /\ Len(e) = Len(s) - 5 /\ n \in Int
      BY <1>1, <1>9
    <3> QED BY <1>1, <3>1
  <2> QED BY <1>10, <2>1 DEF Carry
<1> QED BY <1>7, <1>8, <1>9, <1>11 DEF e

(* What has been written and not decoded yet is what is left to answer,    *)
(* and what is left to read. *)
Responses == {Cal!CalculatorHelper(r) : r \in Requests}

UpInv == /\ asked \in Seq(Requests) /\ answered \in Seq(Responses)
         /\ inbuffer \in Seq(Tokens(Requests)) /\ upstream \in Seq(Tokens(Requests))
         /\ Len(answered) <= Len(asked)
         /\ \A k \in 1 .. Len(answered) : answered[k] = Cal!CalculatorHelper(asked[k])
         /\ Carry(inbuffer, upstream, asked, Len(answered))

DownInv == /\ answered \in Seq(Responses) /\ got \in Seq(Responses)
           /\ outcome \in Seq(Tokens(Responses)) /\ downstream \in Seq(Tokens(Responses))
           /\ Len(got) <= Len(answered)
           /\ \A k \in 1 .. Len(got) : got[k] = answered[k]
           /\ Carry(outcome, downstream, answered, Len(got))

CalInv == UpInv /\ DownInv

LEMMA CalStart == Cal!Init => CalInv
<1> SUFFICES ASSUME Cal!Init PROVE CalInv
  OBVIOUS
<1>1. \A S : << >> \in Seq(S)
  OBVIOUS
<1>2. Len(<< >>) = 0 /\ 0 .. 0 - 0 - 1 = {} /\ 1 .. 0 = {}
  OBVIOUS
<1>3. Carry(<< >>, << >>, << >>, 0)
  BY <1>2 DEF Carry
<1> QED BY <1>1, <1>2, <1>3 DEF Cal!Init, CalInv, UpInv, DownInv

(* A read of the child, and a request of the client. *)
LEMMA UpKeeps ==
  ASSUME UpInv, Cal!Read \/ Cal!Write
  PROVE  UpInv'
<1>1. Len(asked) \in Nat /\ Len(answered) \in 0 .. Len(asked)
  BY DEF UpInv
<1>2. CASE Cal!Read
  <2>1. PICK m \in 1 .. Len(upstream) : /\ inbuffer' = inbuffer \o SubSeq(upstream, 1, m)
                                        /\ upstream' = SubSeq(upstream, m + 1, Len(upstream))
    BY <1>2 DEF Cal!Read
  <2>2. UNCHANGED <<asked, answered>>
    BY <1>2 DEF Cal!Read
  <2>3. /\ inbuffer' \in Seq(Tokens(Requests)) /\ upstream' \in Seq(Tokens(Requests))
        /\ Carry(inbuffer', upstream', asked, Len(answered))
    BY <1>1, <2>1, ReadMoves DEF UpInv
  <2> QED BY <2>2, <2>3 DEF UpInv
<1>3. CASE Cal!Write
  <2>1. PICK req \in Requests : /\ upstream' = upstream \o Cal!Encode(Cal!Serialize(req))
                                /\ asked' = Append(asked, req)
    BY <1>3 DEF Cal!Write
  <2>2. UNCHANGED <<inbuffer, answered>>
    BY <1>3 DEF Cal!Write
  <2>3. /\ upstream' \in Seq(Tokens(Requests))
        /\ Carry(inbuffer, upstream', asked', Len(answered))
    BY <1>1, <2>1, EncodeCarries DEF UpInv
  <2>4. /\ asked' \in Seq(Requests) /\ Len(asked') = Len(asked) + 1
        /\ \A k \in 1 .. Len(asked) : asked'[k] = asked[k]
    BY <2>1, AppendProperties DEF UpInv
  <2>5. Len(answered) <= Len(asked') /\ \A k \in 1 .. Len(answered) : asked'[k] = asked[k]
    BY <1>1, <2>4
  <2> QED BY <2>2, <2>3, <2>4, <2>5 DEF UpInv
<1> QED BY <1>2, <1>3

(* The child answers the first request it has not answered. *)
LEMMA AnswerKeeps ==
  ASSUME UpInv, DownInv, Cal!Answer
  PROVE  UpInv' /\ DownInv'
<1> DEFINE req  == Cal!Deserialize(Cal!Content(inbuffer))
           resp == Cal!CalculatorHelper(req)
           n    == Len(answered)
<1>1. /\ Len(asked) \in Nat /\ n \in 0 .. Len(asked)
      /\ Len(got) \in 0 .. n
  BY DEF UpInv, DownInv
<1>2. /\ Cal!CanDecode(inbuffer) /\ inbuffer' = Cal!Erased(inbuffer)
      /\ downstream' = downstream \o Cal!Encode(Cal!Serialize(resp))
      /\ answered' = Append(answered, resp)
      /\ UNCHANGED <<upstream, asked, outcome, got>>
  BY DEF Cal!Answer
<1>3. /\ n < Len(asked) /\ req = asked[n + 1]
      /\ inbuffer' \in Seq(Tokens(Requests)) /\ Carry(inbuffer', upstream, asked, n + 1)
  BY <1>1, <1>2, DecodeTakesNext DEF UpInv
<1>4. n + 1 \in 1 .. Len(asked) /\ resp \in Responses
  <2>1. n + 1 \in 1 .. Len(asked)
    BY <1>1, <1>3
  <2>2. asked[n + 1] \in Requests
    BY <2>1, ElementOfSeq DEF UpInv
  <2> QED BY <1>3, <2>1, <2>2 DEF Responses
<1>5. /\ downstream' \in Seq(Tokens(Responses))
      /\ Carry(outcome, downstream', answered', Len(got))
  BY <1>1, <1>2, <1>4, EncodeCarries DEF DownInv
<1>6. /\ answered' \in Seq(Responses) /\ Len(answered') = n + 1 /\ answered'[n + 1] = resp
      /\ \A k \in 1 .. n : answered'[k] = answered[k]
  BY <1>2, <1>4, AppendProperties DEF UpInv
<1> HIDE DEF req, resp
<1>7. ASSUME NEW k \in 1 .. n + 1 PROVE answered'[k] = Cal!CalculatorHelper(asked[k])
  <2>1. CASE k = n + 1
    BY <1>3, <1>6, <2>1 DEF resp
  <2>2. CASE k # n + 1
    BY <1>1, <1>6, <2>2 DEF UpInv
  <2> QED BY <2>1, <2>2
<1>8. UpInv'
  <2>1. n + 1 <= Len(asked)
    BY <1>4
  <2> QED BY <1>2, <1>3, <1>6, <1>7, <2>1 DEF UpInv
<1>9. DownInv'
  <2>1. Len(got) <= n + 1 /\ \A k \in 1 .. Len(got) : k \in 1 .. n
    BY <1>1
  <2>2. \A k \in 1 .. Len(got) : got[k] = answered'[k]
    BY <1>6, <2>1 DEF DownInv
  <2> QED BY <1>2, <1>5, <1>6, <2>1, <2>2 DEF DownInv
<1> QED BY <1>8, <1>9

(* The client reads once, and decodes at most once. *)
LEMMA ReadAnswerKeeps ==
  ASSUME DownInv, Cal!ReadAnswer
  PROVE  DownInv'
<1>1. PICK m \in 1 .. Len(downstream) :
        LET stream == outcome \o SubSeq(downstream, 1, m)
        IN  /\ downstream' = SubSeq(downstream, m + 1, Len(downstream))
            /\ IF Cal!CanDecode(stream)
               THEN /\ outcome' = Cal!Erased(stream)
                    /\ got' = Append(got, Cal!Deserialize(Cal!Content(stream)))
               ELSE outcome' = stream /\ got' = got
  BY DEF Cal!ReadAnswer
<1> DEFINE stream == outcome \o SubSeq(downstream, 1, m)
           n      == Len(got)
<1>2. Len(answered) \in Nat /\ n \in 0 .. Len(answered) /\ answered' = answered
  BY DEF DownInv, Cal!ReadAnswer
<1>3. /\ stream \in Seq(Tokens(Responses)) /\ downstream' \in Seq(Tokens(Responses))
      /\ Carry(stream, downstream', answered, n)
  BY <1>1, <1>2, ReadMoves DEF DownInv
<1>4. CASE ~Cal!CanDecode(stream)
  <2>1. outcome' = stream /\ got' = got
    BY <1>1, <1>4
  <2> QED BY <1>2, <1>3, <2>1 DEF DownInv
<1>5. CASE Cal!CanDecode(stream)
  <2> DEFINE resp == Cal!Deserialize(Cal!Content(stream))
  <2>1. outcome' = Cal!Erased(stream) /\ got' = Append(got, resp)
    BY <1>1, <1>5
  <2> HIDE DEF stream
  <2>2. /\ n < Len(answered) /\ resp = answered[n + 1]
        /\ Cal!Erased(stream) \in Seq(Tokens(Responses))
        /\ Carry(Cal!Erased(stream), downstream', answered, n + 1)
    BY <1>2, <1>3, <1>5, DecodeTakesNext DEF DownInv
  <2> HIDE DEF resp
  <2>3. n + 1 \in 1 .. Len(answered)
    BY <1>2, <2>2
  <2>4. resp \in Responses
    BY <2>2, <2>3, ElementOfSeq DEF DownInv
  <2>5. /\ got' \in Seq(Responses) /\ Len(got') = n + 1 /\ got'[n + 1] = resp
        /\ \A k \in 1 .. n : got'[k] = got[k]
    BY <2>1, <2>4, AppendProperties DEF DownInv
  <2>6. ASSUME NEW k \in 1 .. n + 1 PROVE got'[k] = answered[k]
    <3>1. CASE k = n + 1
      BY <2>2, <2>5, <3>1
    <3>2. CASE k # n + 1
      BY <1>2, <2>5, <3>2 DEF DownInv
    <3> QED BY <3>1, <3>2
  <2>7. n + 1 <= Len(answered)
    BY <2>3
  <2> QED BY <1>2, <1>3, <2>1, <2>2, <2>5, <2>6, <2>7 DEF DownInv
<1> QED BY <1>4, <1>5

LEMMA CalKeeps == CalInv /\ [Cal!Next]_Cal!vars => CalInv'
<1> SUFFICES ASSUME CalInv, [Cal!Next]_Cal!vars PROVE CalInv'
  OBVIOUS
<1>1. UNCHANGED <<asked, answered, inbuffer, upstream>> => UpInv'
  BY DEF CalInv, UpInv
<1>2. UNCHANGED <<answered, got, outcome, downstream>> => DownInv'
  BY DEF CalInv, DownInv
<1>3. CASE Cal!Read \/ Cal!Write
  BY <1>2, <1>3, UpKeeps DEF Cal!Read, Cal!Write, CalInv
<1>4. CASE Cal!Answer
  BY <1>4, AnswerKeeps DEF CalInv
<1>5. CASE Cal!ReadAnswer
  BY <1>1, <1>5, ReadAnswerKeeps DEF Cal!ReadAnswer, CalInv
<1>6. CASE UNCHANGED <<upstream, downstream, inbuffer, outcome, asked, answered, got>>
  BY <1>1, <1>2, <1>6 DEF CalInv
<1>7. \/ Cal!Read \/ Cal!Write \/ Cal!Answer \/ Cal!ReadAnswer
      \/ UNCHANGED <<upstream, downstream, inbuffer, outcome, asked, answered, got>>
  BY DEF Cal!Next, Cal!Server, Cal!Client, Cal!Idle, Cal!Accept, Cal!Calculator, Cal!Exit,
         Cal!Connect, Cal!ReadNothing, Cal!Close, Cal!vars
<1> QED BY <1>3, <1>4, <1>5, <1>6, <1>7

-----------------------------------------------------------------------------
(* Mystdio.  What p has of a text is computed along it; what holds before  *)
(* the first byte, and of each byte if of the one before, holds at its end.*)
LEMMA Joined ==
  ASSUME NEW S, NEW r \in Seq(S), NEW s \in Seq(S), NEW t \in Seq(S),
         NEW j, j = r \o s, NEW k, k = s \o t
  PROVE  j \o t = r \o k
<1> DEFINE u == j \o t
           v == r \o k
<1>1. Len(r) \in Nat /\ Len(s) \in Nat /\ Len(t) \in Nat
  BY LenProperties
<1>2. j \in Seq(S) /\ k \in Seq(S) /\ Len(j) = Len(r) + Len(s) /\ Len(k) = Len(s) + Len(t)
  BY ConcatProperties
<1>3. \A i \in 1 .. Len(r) + Len(s) : j[i] = IF i <= Len(r) THEN r[i] ELSE s[i - Len(r)]
  BY ConcatProperties
<1>4. \A i \in 1 .. Len(s) + Len(t) : k[i] = IF i <= Len(s) THEN s[i] ELSE t[i - Len(s)]
  BY ConcatProperties
<1>5. u \in Seq(S) /\ Len(u) = Len(j) + Len(t)
  BY <1>2, ConcatProperties
<1>6. v \in Seq(S) /\ Len(v) = Len(r) + Len(k)
  BY <1>2, ConcatProperties
<1>7. \A i \in 1 .. Len(j) + Len(t) : u[i] = IF i <= Len(j) THEN j[i] ELSE t[i - Len(j)]
  BY <1>2, ConcatProperties
<1>8. \A i \in 1 .. Len(r) + Len(k) : v[i] = IF i <= Len(r) THEN r[i] ELSE k[i - Len(r)]
  BY <1>2, ConcatProperties
<1> HIDE DEF u, v
<1>9. ASSUME NEW i \in 1 .. Len(u) PROVE u[i] = v[i]
  <2>0. i \in 1 .. Len(j) + Len(t) /\ i \in 1 .. Len(r) + Len(k)
    BY <1>1, <1>2, <1>5
  <2>1. CASE i <= Len(r)
    <3>1. i <= Len(j) /\ i \in 1 .. Len(r) + Len(s)
      BY <1>1, <1>2, <2>0, <2>1
    <3> QED BY <1>3, <1>7, <1>8, <2>0, <2>1, <3>1
  <2>2. CASE ~(i <= Len(r)) /\ i <= Len(j)
    <3>1. /\ i \in 1 .. Len(r) + Len(s) /\ i - Len(r) \in 1 .. Len(s) + Len(t)
          /\ i - Len(r) <= Len(s)
      BY <1>1, <1>2, <2>0, <2>2
    <3>2. u[i] = s[i - Len(r)]
      BY <1>3, <1>7, <2>0, <2>2, <3>1
    <3>3. v[i] = s[i - Len(r)]
      BY <1>4, <1>8, <2>0, <2>2, <3>1
    <3> QED BY <3>2, <3>3
  <2>3. CASE ~(i <= Len(r)) /\ ~(i <= Len(j))
    <3>1. i - Len(r) \in 1 .. Len(s) + Len(t) /\ ~(i - Len(r) <= Len(s))
          /\ i - Len(r) - Len(s) = i - Len(j)
      BY <1>1, <1>2, <2>0, <2>3
    <3>2. v[i] = t[i - Len(r) - Len(s)]
      BY <1>4, <1>8, <2>0, <2>3, <3>1
    <3>3. u[i] = t[i - Len(j)]
      BY <1>7, <2>0, <2>3
    <3> QED BY <3>1, <3>2, <3>3
  <2> QED BY <1>1, <1>2, <2>1, <2>2, <2>3
<1>10. Len(u) = Len(v)
  BY <1>1, <1>2, <1>5, <1>6
<1>11. u = v
  BY <1>5, <1>6, <1>9, <1>10, SeqEqual
<1> QED BY <1>11 DEF u, v

LEMMA EveryNumber ==
  ASSUME NEW T \in SUBSET Nat, 0 \in T, \A n \in T : n + 1 \in T
  PROVE  T = Nat
<1> DEFINE R == Nat \ T
<1>1. CASE R # {}
  <2>1. PICK n \in R : \A m \in R : n <= m
    BY <1>1, LeastNumber
  <2>2. n \in Nat \ {0} /\ n \notin T
    BY <2>1
  <2>3. n - 1 \in Nat /\ n - 1 + 1 = n /\ ~(n <= n - 1)
    BY <2>2
  <2>4. n - 1 \in T
    BY <2>1, <2>3
  <2> QED BY <2>2, <2>3, <2>4
<1> QED BY <1>1

Sifted(s, p, f, k) == IF s[k].of = p THEN Append(f[k - 1], s[k]) ELSE f[k - 1]
Along(s, p, f)   == f[0] = << >> /\ \A k \in 1 .. Len(s) : f[k] = Sifted(s, p, f, k)

LEMMA PartExists ==
  ASSUME NEW S, NEW s \in Seq(S), NEW p
  PROVE  \E f : Along(s, p, f) /\ Std!Part(s, p) = f[Len(s)]
<1> DEFINE Sift(f)  == [k \in 0 .. Len(s) |-> IF k = 0 THEN << >> ELSE Sifted(s, p, f, k)]
           Upto(g, n) == g[0] = << >> /\ \A k \in 1 .. n : g[k] = Sifted(s, p, g, k)
           T == {n \in Nat : \E g : Upto(g, n)}
<1>0. Len(s) \in Nat
  OBVIOUS
<1>1. 0 \in T
  <2> DEFINE g == [k \in {0} |-> << >>]
  <2>1. Upto(g, 0)
    OBVIOUS
  <2> QED BY <2>1
<1>2. ASSUME NEW n \in T PROVE n + 1 \in T
  <2>1. PICK g : Upto(g, n)
    OBVIOUS
  <2> DEFINE h == [k \in 0 .. n + 1 |-> IF k = n + 1 THEN Sifted(s, p, g, n + 1) ELSE g[k]]
  <2>2. n \in Nat /\ n + 1 \in Nat
    OBVIOUS
  <2>3. \A k \in 0 .. n : h[k] = g[k]
    BY <2>2
  <2>4. h[n + 1] = Sifted(s, p, g, n + 1)
    BY <2>2
  <2> HIDE DEF h
  <2>5. ASSUME NEW k \in 1 .. n + 1 PROVE h[k] = Sifted(s, p, h, k)
    <3>1. k - 1 \in 0 .. n
      BY <2>2
    <3>2. h[k - 1] = g[k - 1]
      BY <2>3, <3>1
    <3>3. CASE k = n + 1
      BY <2>4, <3>2, <3>3 DEF Sifted
    <3>4. CASE k # n + 1
      <4>1. k \in 1 .. n /\ k \in 0 .. n
        BY <2>2, <3>4
      <4>2. g[k] = Sifted(s, p, g, k)
        BY <2>1, <4>1
      <4> QED BY <2>3, <3>2, <4>1, <4>2 DEF Sifted
    <3> QED BY <3>3, <3>4
  <2>6. h[0] = << >>
    BY <2>1, <2>2, <2>3
  <2>7. Upto(h, n + 1)
    BY <2>5, <2>6
  <2> QED BY <2>2, <2>7
<1>3. T = Nat
  <2>1. T \in SUBSET Nat
    OBVIOUS
  <2> HIDE DEF T
  <2> QED BY <1>1, <1>2, <2>1, EveryNumber
<1>4. PICK g : Upto(g, Len(s))
  BY <1>0, <1>3
<1> DEFINE fa == [k \in 0 .. Len(s) |-> g[k]]
<1>5. fa = Sift(fa)
  <2>1. ASSUME NEW k \in 0 .. Len(s)
        PROVE  g[k] = IF k = 0 THEN << >> ELSE Sifted(s, p, fa, k)
    <3>1. CASE k = 0
      BY <1>4, <3>1
    <3>2. CASE k # 0
      <4>1. k \in 1 .. Len(s) /\ k - 1 \in 0 .. Len(s)
        BY <1>0, <3>2
      <4>2. fa[k - 1] = g[k - 1]
        BY <4>1
      <4> QED BY <1>4, <3>2, <4>1, <4>2 DEF Sifted
    <3> QED BY <3>1, <3>2
  <2> QED BY <2>1
<1> DEFINE f == CHOOSE h : h = Sift(h)
<1>6. f = Sift(f)
  BY <1>5
<1>7. Std!Part(s, p) = f[Len(s)]
  BY Zenon DEF Std!Part, Sifted
<1> HIDE DEF f
<1>8. \A k \in 0 .. Len(s) : f[k] = IF k = 0 THEN << >> ELSE Sifted(s, p, f, k)
  BY <1>6
<1>9. Along(s, p, f)
  BY <1>0, <1>8 DEF Along
<1> QED BY <1>7, <1>9

(* It is the only one. *)
LEMMA PartIs ==
  ASSUME NEW S, NEW s \in Seq(S), NEW p, NEW g, Along(s, p, g)
  PROVE  Std!Part(s, p) = g[Len(s)]
<1>1. PICK f : Along(s, p, f) /\ Std!Part(s, p) = f[Len(s)]
  BY PartExists
<1> DEFINE T == {n \in Nat : n <= Len(s) => f[n] = g[n]}
<1>2. 0 \in T
  BY <1>1 DEF Along
<1>3. ASSUME NEW n \in T PROVE n + 1 \in T
  <2> SUFFICES ASSUME n + 1 <= Len(s) PROVE f[n + 1] = g[n + 1]
    OBVIOUS
  <2>1. n \in Nat /\ n + 1 \in 1 .. Len(s) /\ n + 1 - 1 = n /\ n <= Len(s)
    BY LenProperties
  <2>2. f[n] = g[n]
    BY <2>1
  <2> QED BY <1>1, <2>1, <2>2 DEF Along, Sifted
<1>4. T = Nat
  <2>1. T \in SUBSET Nat
    OBVIOUS
  <2> HIDE DEF T
  <2> QED BY <1>2, <1>3, <2>1, EveryNumber
<1>5. Len(s) \in T
  BY <1>4, LenProperties
<1> QED BY <1>1, <1>5

LEMMA PartIsSeq ==
  ASSUME NEW S, NEW s \in Seq(S), NEW p
  PROVE  Std!Part(s, p) \in Seq(S)
<1>1. PICK f : Along(s, p, f) /\ Std!Part(s, p) = f[Len(s)]
  BY PartExists
<1> DEFINE T == {n \in Nat : n <= Len(s) => f[n] \in Seq(S)}
<1>2. 0 \in T
  <2>1. << >> \in Seq(S)
    BY EmptySeq
  <2>2. f[0] \in Seq(S)
    BY <1>1, <2>1 DEF Along
  <2> QED BY <2>2
<1>3. ASSUME NEW n \in T PROVE n + 1 \in T
  <2> SUFFICES ASSUME n + 1 <= Len(s) PROVE f[n + 1] \in Seq(S)
    OBVIOUS
  <2>1. n \in Nat /\ n + 1 \in 1 .. Len(s) /\ n + 1 - 1 = n /\ n <= Len(s)
    BY LenProperties
  <2>2. f[n] \in Seq(S) /\ s[n + 1] \in S
    BY <2>1, ElementOfSeq
  <2>3. f[n + 1] = Sifted(s, p, f, n + 1)
    BY <1>1, <2>1 DEF Along
  <2>4. Append(f[n], s[n + 1]) \in Seq(S)
    BY <2>2, AppendProperties
  <2> QED BY <2>1, <2>2, <2>3, <2>4 DEF Sifted
<1>4. T = Nat
  <2>1. T \in SUBSET Nat
    OBVIOUS
  <2> HIDE DEF T
  <2> QED BY <1>2, <1>3, <2>1, EveryNumber
<1>5. Len(s) \in T
  BY <1>4, LenProperties
<1> QED BY <1>1, <1>5

(* A text that begins with what p has, and has nothing else of p. *)
LEMMA PartInFront ==
  ASSUME NEW S, NEW s \in Seq(S), NEW p, NEW n \in 0 .. Len(s),
         \A k \in 1 .. Len(s) : s[k].of = p <=> k <= n
  PROVE  Std!Part(s, p) = SubSeq(s, 1, n)
<1>0. Len(s) \in Nat /\ n \in Nat
  BY LenProperties
<1> DEFINE g == [k \in 0 .. Len(s) |-> SubSeq(s, 1, IF k <= n THEN k ELSE n)]
<1>1. g[0] = << >>
  <2>1. g[0] = SubSeq(s, 1, 0)
    BY <1>0
  <2> QED BY <2>1, SubSeqEmpty
<1>2. ASSUME NEW k \in 1 .. Len(s) PROVE g[k] = Sifted(s, p, g, k)
  <2>1. k \in 0 .. Len(s) /\ k - 1 \in 0 .. Len(s)
    BY <1>0
  <2>2. CASE k <= n
    <3>1. g[k] = SubSeq(s, 1, k) /\ g[k - 1] = SubSeq(s, 1, k - 1)
      BY <1>0, <2>1, <2>2
    <3>2. SubSeq(s, 1, k) = SubSeq(s, 1, k - 1) \o <<s[k]>>
      BY <1>0, SubSeqRecursiveSecond
    <3>3. SubSeq(s, 1, k - 1) \in Seq(S) /\ s[k] \in S
      BY <1>0, SubSeqProperties, ElementOfSeq
    <3>4. SubSeq(s, 1, k) = Append(SubSeq(s, 1, k - 1), s[k])
      BY <3>2, <3>3, AppendIsConcat
    <3>5. s[k].of = p
      BY <2>2
    <3> HIDE DEF g
    <3> QED BY <3>1, <3>4, <3>5 DEF Sifted
  <2>3. CASE ~(k <= n)
    <3>1. g[k] = SubSeq(s, 1, n)
      BY <1>0, <2>1, <2>3
    <3>2. g[k - 1] = SubSeq(s, 1, n)
      <4>1. k - 1 <= n => k - 1 = n
        BY <1>0, <2>3
      <4> QED BY <2>1, <4>1
    <3>3. s[k].of # p
      BY <2>3
    <3> HIDE DEF g
    <3> QED BY <3>1, <3>2, <3>3 DEF Sifted
  <2> QED BY <2>2, <2>3
<1>3. g[Len(s)] = SubSeq(s, 1, n)
  <2>1. Len(s) \in 0 .. Len(s) /\ (Len(s) <= n => Len(s) = n)
    BY <1>0
  <2> QED BY <2>1
<1> HIDE DEF g
<1>4. Along(s, p, g)
  BY <1>1, <1>2 DEF Along
<1> QED BY <1>3, <1>4, PartIs

(* What is appended is all of p, or none of it is. *)
LEMMA PartOfMore ==
  ASSUME NEW S, NEW s \in Seq(S), NEW t \in Seq(S), NEW p, NEW mine \in BOOLEAN,
         \A k \in 1 .. Len(t) : t[k].of = p <=> mine
  PROVE  Std!Part(s \o t, p) = IF mine THEN Std!Part(s, p) \o t ELSE Std!Part(s, p)
<1>0. /\ Len(s) \in Nat /\ Len(t) \in Nat /\ s \o t \in Seq(S)
      /\ Len(s \o t) = Len(s) + Len(t)
      /\ \A k \in 1 .. Len(s) : (s \o t)[k] = s[k]
      /\ \A k \in 1 .. Len(t) : (s \o t)[Len(s) + k] = t[k]
  BY LenProperties, ConcatProperties
<1>1. PICK f : Along(s, p, f) /\ Std!Part(s, p) = f[Len(s)]
  BY PartExists
<1>2. f[Len(s)] \in Seq(S)
  BY <1>1, PartIsSeq
<1> DEFINE Add(k) == IF mine THEN f[Len(s)] \o SubSeq(t, 1, k) ELSE f[Len(s)]
           N == Len(s) + Len(t)
           g == [k \in 0 .. N |-> IF k <= Len(s) THEN f[k] ELSE Add(k - Len(s))]
<1>3. Add(0) = f[Len(s)]
  <2>1. SubSeq(t, 1, 0) = << >>
    BY SubSeqEmpty
  <2>2. f[Len(s)] \o << >> = f[Len(s)]
    BY <1>2, ConcatEmptySeq
  <2> QED BY <2>1, <2>2
<1>4. ASSUME NEW j \in 1 .. Len(t)
      PROVE  Add(j) = IF t[j].of = p THEN Append(Add(j - 1), t[j]) ELSE Add(j - 1)
  <2>1. CASE mine
    <3> DEFINE u == SubSeq(t, 1, j - 1)
    <3>1. SubSeq(t, 1, j) = u \o <<t[j]>>
      BY <1>0, SubSeqRecursiveSecond
    <3>2. u \in Seq(S) /\ t[j] \in S /\ <<t[j]>> \in Seq(S)
      <4>1. t[j] \in S
        BY ElementOfSeq
      <4>2. u \in Seq(S)
        BY <1>0, SubSeqProperties
      <4> QED BY <4>1, <4>2
    <3> HIDE DEF u
    <3> DEFINE w == f[Len(s)]
               v == <<t[j]>>
    <3>0. w \in Seq(S) /\ v \in Seq(S)
      BY <1>2, <3>2
    <3> HIDE DEF w, v
    <3>3. w \o (u \o v) = Append(w \o u, t[j])
      <4>1. w \o u \in Seq(S)
        BY <3>0, <3>2, ConcatProperties
      <4>2. (w \o u) \o v = w \o (u \o v)
        BY <3>0, <3>2, Joined
      <4> QED BY <3>2, <4>1, <4>2, AppendIsConcat DEF v
    <3> QED BY <2>1, <3>1, <3>3 DEF u, v, w
  <2>2. CASE ~mine
    BY <2>2
  <2> QED BY <2>1, <2>2
<1>5. Add(Len(t)) = IF mine THEN f[Len(s)] \o t ELSE f[Len(s)]
  BY SubSeqFull
<1> HIDE DEF Add
<1>6. \A k \in 0 .. N : g[k] = IF k <= Len(s) THEN f[k] ELSE Add(k - Len(s))
  OBVIOUS
<1> HIDE DEF g
<1>7. g[0] = << >>
  <2>1. 0 \in 0 .. N /\ 0 <= Len(s)
    BY <1>0
  <2> QED BY <1>1, <1>6, <2>1 DEF Along
<1>8. ASSUME NEW k \in 1 .. N PROVE g[k] = Sifted(s \o t, p, g, k)
  <2>0. k \in 0 .. N /\ k - 1 \in 0 .. N
    BY <1>0
  <2>1. CASE k <= Len(s)
    <3>1. k \in 1 .. Len(s) /\ k - 1 <= Len(s)
      BY <1>0, <2>1
    <3>2. g[k] = f[k] /\ g[k - 1] = f[k - 1] /\ (s \o t)[k] = s[k]
      BY <1>0, <1>6, <2>0, <2>1, <3>1
    <3> QED BY <1>1, <3>1, <3>2 DEF Along, Sifted
  <2>2. CASE ~(k <= Len(s))
    <3> DEFINE j == k - Len(s)
    <3>1. j \in 1 .. Len(t) /\ Len(s) + j = k /\ k - 1 - Len(s) = j - 1
      BY <1>0, <2>2
    <3>2. g[k] = Add(j) /\ (s \o t)[k] = t[j]
      BY <1>0, <1>6, <2>0, <2>2, <3>1
    <3>3. g[k - 1] = Add(j - 1)
      <4>1. CASE j = 1
        <5>1. k - 1 = Len(s) /\ j - 1 = 0
          BY <1>0, <4>1
        <5> QED BY <1>0, <1>3, <1>6, <2>0, <5>1
      <4>2. CASE j # 1
        <5>1. ~(k - 1 <= Len(s))
          BY <1>0, <2>2, <4>2
        <5> QED BY <1>6, <2>0, <3>1, <5>1
      <4> QED BY <4>1, <4>2
    <3> HIDE DEF j
    <3> QED BY <1>4, <3>1, <3>2, <3>3 DEF Sifted
  <2> QED BY <2>1, <2>2
<1>9. g[N] = Add(Len(t))
  <2>1. N \in 0 .. N /\ N - Len(s) = Len(t)
    BY <1>0
  <2>2. N <= Len(s) => N = Len(s) /\ Len(t) = 0
    BY <1>0
  <2> QED BY <1>3, <1>6, <2>1, <2>2
<1>10. Along(s \o t, p, g)
  BY <1>0, <1>7, <1>8 DEF Along
<1>11. Std!Part(s \o t, p) = g[N]
  BY <1>0, <1>10, PartIs
<1> QED BY <1>1, <1>5, <1>9, <1>11

FileBytes == [of : Programs \cup {"nobody"}, byte : {"a", "newline", "zero"}]
FILEs == [state : {"none", "open", "corrupt", "closed", "killed"}, mode : {"w", "a", "r"},
          flag : Flags \cup {Std!FLUSH_ALL}, at : Nat, outbuffer : Seq(FileBytes)]

StdTypes == /\ file \in Seq(FileBytes)
            /\ fp \in [Programs -> FILEs]
            /\ written \in [Programs -> Seq(FileBytes)]

AllOf(s, p)   == \A k \in 1 .. Len(s) : s[k].of = p
NoneOf(s, p) == \A k \in 1 .. Len(s) : s[k].of # p
Front(s, p, n) == n \in 0 .. Len(s) /\ \A k \in 1 .. Len(s) : s[k].of = p <=> k <= n

Buffered(p) == /\ AllOf(fp[p].outbuffer, p) /\ Len(fp[p].outbuffer) <= SIZE
               /\ fp[p].state = "none" => fp[p] = Std!NULL /\ written[p] = << >>
               /\ fp[p].state \in {"closed", "killed"} => fp[p].outbuffer = << >>

(* What p has not got in the file is in its buffer, or was when it was killed. *)
Lost(p, lost) == /\ lost \in Seq(FileBytes) /\ Len(lost) <= SIZE
                 /\ fp[p].state # "killed" => lost = fp[p].outbuffer
                 /\ Std!Own(p) \o lost = written[p]

Alone(p) == \A z \in Programs \ {p} : fp[z].mode # "w"

(* Alone, p has written the front of the file it truncated, or appended to it. *)
Intact(p) == /\ fp[p].mode = "r" => NoneOf(file, p)
             /\ fp[p].mode = "w" => Front(file, p, fp[p].at)
             /\ fp[p].mode # "r" => \E lost : Lost(p, lost)

StdInv == StdTypes /\ \A p \in Programs : Buffered(p) /\ (Alone(p) => Intact(p))

LEMMA StdStart == Std!Init => StdInv
<1> SUFFICES ASSUME Std!Init PROVE StdInv
  OBVIOUS
<1>1. << >> \in Seq(FileBytes) /\ Len(<< >>) = 0
  BY EmptySeq
<1>2. Std!NULL \in FILEs
  <2> HIDE DEF FileBytes
  <2> QED BY <1>1 DEF Std!NULL, FILEs
<1>3. /\ Std!NULL.mode = "r" /\ Std!NULL.outbuffer = << >> /\ Std!NULL.state = "none"
  BY DEF Std!NULL
<1>4. StdTypes
  BY <1>1, <1>2 DEF Std!Init, StdTypes
<1>5. ASSUME NEW p \in Programs PROVE Buffered(p) /\ Intact(p)
  <2>1. fp[p] = Std!NULL /\ written[p] = << >> /\ file = << >>
    BY DEF Std!Init
  <2>2. Len(<< >>) <= SIZE
    BY <1>1, ProgramsAssumption DEF Std!MystdioAssumption
  <2> QED BY <1>1, <1>3, <2>1, <2>2 DEF Buffered, Intact, AllOf, NoneOf
<1> QED BY <1>4, <1>5 DEF StdInv

(* Others who append do p no harm. *)
LEMMA OthersAppend ==
  ASSUME StdInv, NEW p \in Programs, Alone(p), fp'[p] = fp[p], written'[p] = written[p],
         file' = file \/ \E t \in Seq(FileBytes) : NoneOf(t, p) /\ file' = file \o t
  PROVE  Intact(p)'
<1>1. StdTypes /\ Intact(p)
  BY DEF StdInv
<1>2. CASE file' = file
  <2> QED BY <1>1, <1>2 DEF Intact, Lost, Std!Own
<1>3. ASSUME NEW t \in Seq(FileBytes), NoneOf(t, p), file' = file \o t
      PROVE  Intact(p)'
  <2>1. /\ file \in Seq(FileBytes) /\ Len(file) \in Nat /\ Len(t) \in Nat
        /\ Len(file') = Len(file) + Len(t)
        /\ \A k \in 1 .. Len(file) + Len(t) :
             file'[k] = IF k <= Len(file) THEN file[k] ELSE t[k - Len(file)]
    BY <1>1, <1>3, LenProperties, ConcatProperties DEF StdTypes
  <2>2. ASSUME NEW k \in 1 .. Len(file')
        PROVE  IF k <= Len(file) THEN k \in 1 .. Len(file) /\ file'[k] = file[k]
                                 ELSE file'[k].of # p
    <3>1. CASE k <= Len(file)
      BY <2>1, <3>1
    <3>2. CASE ~(k <= Len(file))
      <4>1. k - Len(file) \in 1 .. Len(t) /\ file'[k] = t[k - Len(file)]
        BY <2>1, <3>2
      <4> QED BY <1>3, <3>2, <4>1 DEF NoneOf
    <3> QED BY <3>1, <3>2
  <2>3. NoneOf(file, p) => NoneOf(file', p)
    BY <2>2 DEF NoneOf
  <2>4. Front(file, p, fp[p].at) => Front(file', p, fp[p].at)
    <3> SUFFICES ASSUME Front(file, p, fp[p].at) PROVE Front(file', p, fp[p].at)
      OBVIOUS
    <3> DEFINE n == fp[p].at
    <3>1. n \in 0 .. Len(file) /\ n \in 0 .. Len(file')
      BY <2>1 DEF Front
    <3> HIDE DEF n
    <3>2. ASSUME NEW k \in 1 .. Len(file') PROVE file'[k].of = p <=> k <= n
      <4>1. CASE k <= Len(file)
        BY <2>2, <4>1 DEF Front, n
      <4>2. CASE ~(k <= Len(file))
        <5>1. ~(k <= n)
          BY <2>1, <3>1, <4>2
        <5> QED BY <2>2, <4>2, <5>1
      <4> QED BY <4>1, <4>2
    <3> QED BY <3>1, <3>2 DEF Front, n
  <2>5. Std!Part(file \o t, p) = Std!Part(file, p)
    <3>1. \A k \in 1 .. Len(t) : t[k].of = p <=> FALSE
      BY <1>3 DEF NoneOf
    <3> QED BY <2>1, <3>1, PartOfMore
  <2>6. Std!Own(p)' = Std!Own(p)
    BY <1>3, <2>5 DEF Std!Own
  <2>7. fp[p].mode # "r" => \E lost : Lost(p, lost)'
    BY <1>1, <2>6 DEF Intact, Lost
  <2>8. /\ fp[p].mode = "r" => NoneOf(file', p)
        /\ fp[p].mode = "w" => Front(file', p, fp[p].at)
    BY <1>1, <2>3, <2>4 DEF Intact
  <2> QED BY <2>7, <2>8 DEF Intact, NoneOf, Front
<1> QED BY <1>2, <1>3

(* Zeros up to where it writes; none if the file is as long as that. *)
LEMMA ZerosAre ==
  ASSUME NEW n \in Int
  PROVE  /\ Std!Zeros(n) \in Seq(FileBytes)
         /\ Len(Std!Zeros(n)) = IF n > 0 THEN n ELSE 0
         /\ n <= 0 => Std!Zeros(n) = << >>
<1> DEFINE z == [of |-> "nobody", byte |-> "zero"]
<1>0. z \in FileBytes
  BY DEF FileBytes
<1>1. CASE n > 0
  <2>1. n \in Nat /\ [k \in 1 .. n |-> z] \in [1 .. n -> FileBytes]
    BY <1>0, <1>1
  <2> HIDE DEF z
  <2>2. [k \in 1 .. n |-> z] \in Seq(FileBytes) /\ Len([k \in 1 .. n |-> z]) = n
    BY <2>1
  <2> QED BY <1>1, <2>2 DEF Std!Zeros, z
<1>2. CASE ~(n > 0)
  <2>1. 1 .. n = {} /\ 1 .. 0 = {}
    BY <1>2
  <2>2. [k \in 1 .. n |-> z] = << >>
    BY <2>1
  <2> QED BY <1>2, <2>2, EmptySeq DEF Std!Zeros
<1> QED BY <1>1, <1>2

LEMMA OverlayIs ==
  ASSUME NEW text \in Seq(FileBytes), NEW at \in Nat, NEW d \in Seq(FileBytes)
  PROVE  /\ Std!Overlay(text, at, d) \in Seq(FileBytes)
         /\ at <= Len(text) =>
              LET o == Std!Overlay(text, at, d)
              IN  /\ Len(o) = IF at + Len(d) <= Len(text) THEN Len(text) ELSE at + Len(d)
                  /\ \A k \in 1 .. at : o[k] = text[k]
                  /\ \A k \in 1 .. Len(d) : o[at + k] = d[k]
                  /\ \A k \in at + Len(d) + 1 .. Len(o) : k <= Len(text) /\ o[k] = text[k]
<1> DEFINE padded == text \o Std!Zeros(at - Len(text))
           left   == SubSeq(padded, 1, at)
           right  == SubSeq(padded, at + Len(d) + 1, Len(padded))
           o      == Std!Overlay(text, at, d)
<1>0. Len(text) \in Nat /\ Len(d) \in Nat
  BY LenProperties
<1>1. padded \in Seq(FileBytes) /\ Len(padded) = IF at <= Len(text) THEN Len(text) ELSE at
  <2>1. at - Len(text) \in Int /\ (at - Len(text) > 0 <=> ~(at <= Len(text)))
    BY <1>0
  <2>2. /\ Std!Zeros(at - Len(text)) \in Seq(FileBytes)
        /\ Len(Std!Zeros(at - Len(text))) = IF at <= Len(text) THEN 0 ELSE at - Len(text)
    BY <2>1, ZerosAre
  <2> DEFINE z == Std!Zeros(at - Len(text))
  <2> HIDE DEF z
  <2>3. text \o z \in Seq(FileBytes) /\ Len(text \o z) = Len(text) + Len(z)
    BY <2>2, ConcatProperties DEF z
  <2>4. Len(text \o z) = IF at <= Len(text) THEN Len(text) ELSE at
    BY <1>0, <2>2, <2>3 DEF z
  <2> QED BY <2>3, <2>4 DEF z
<1>2. at <= Len(text) => padded = text
  <2> SUFFICES ASSUME at <= Len(text) PROVE padded = text
    OBVIOUS
  <2>1. at - Len(text) \in Int /\ at - Len(text) <= 0
    BY <1>0
  <2>2. Std!Zeros(at - Len(text)) = << >>
    BY <2>1, ZerosAre
  <2> QED BY <2>2, ConcatEmptySeq
<1>3. o = (left \o d) \o right
  BY DEF Std!Overlay
<1> HIDE DEF padded, o
<1>4. \A i \in 1 .. Len(padded) : padded[i] \in FileBytes
  BY <1>1, ElementOfSeq
<1>5. left \in Seq(FileBytes) /\ Len(left) = at /\ \A k \in 1 .. at : left[k] = padded[k]
  <2>1. \A i \in 1 .. at : padded[i] \in FileBytes
    BY <1>0, <1>1, <1>4
  <2>2. /\ left \in Seq(FileBytes) /\ Len(left) = IF 1 <= at THEN at - 1 + 1 ELSE 0
        /\ \A i \in 1 .. at - 1 + 1 : left[i] = padded[1 + i - 1]
    BY <2>1, SubSeqProperties
  <2> QED BY <2>2
<1>6. /\ right \in Seq(FileBytes)
      /\ Len(right) = IF at + Len(d) + 1 <= Len(padded) THEN Len(padded) - (at + Len(d)) ELSE 0
      /\ \A k \in 1 .. Len(right) : right[k] = padded[at + Len(d) + k]
  <2> DEFINE m == at + Len(d) + 1
             n == Len(padded)
  <2>1. m \in Int /\ n \in Int /\ m > 0
    BY <1>0, <1>1
  <2>2. \A i \in m .. n : padded[i] \in FileBytes
    BY <1>4, <2>1
  <2>3. m = at + Len(d) + 1 /\ n = Len(padded) /\ right = SubSeq(padded, m, n)
    OBVIOUS
  <2> HIDE DEF m, n, right
  <2>4. /\ right \in Seq(FileBytes) /\ Len(right) = IF m <= n THEN n - m + 1 ELSE 0
        /\ \A i \in 1 .. n - m + 1 : right[i] = padded[m + i - 1]
    BY <2>1, <2>2, <2>3, SubSeqProperties
  <2>5. \A k \in 1 .. Len(right) : k \in 1 .. n - m + 1 /\ m + k - 1 = at + Len(d) + k
    BY <1>0, <2>1, <2>3, <2>4
  <2>6. Len(right) = IF at + Len(d) + 1 <= Len(padded) THEN Len(padded) - (at + Len(d)) ELSE 0
    BY <1>0, <2>1, <2>3, <2>4
  <2> QED BY <2>4, <2>5, <2>6
<1> HIDE DEF left, right
<1> DEFINE l == left \o d
<1>7. /\ l \in Seq(FileBytes) /\ Len(l) = at + Len(d)
      /\ \A i \in 1 .. at + Len(d) : l[i] = IF i <= at THEN left[i] ELSE d[i - at]
  BY <1>5, ConcatProperties
<1>8. o = l \o right
  BY <1>3
<1> HIDE DEF l
<1>9. /\ o \in Seq(FileBytes) /\ Len(o) = at + Len(d) + Len(right) /\ Len(right) \in Nat
      /\ \A i \in 1 .. at + Len(d) + Len(right) :
           o[i] = IF i <= at + Len(d) THEN l[i] ELSE right[i - (at + Len(d))]
  <2>1. Len(right) \in Nat
    BY <1>6, LenProperties
  <2>2. /\ o \in Seq(FileBytes) /\ Len(o) = Len(l) + Len(right)
        /\ \A i \in 1 .. Len(l) + Len(right) :
             o[i] = IF i <= Len(l) THEN l[i] ELSE right[i - Len(l)]
    BY <1>6, <1>7, <1>8, ConcatProperties
  <2> QED BY <1>7, <2>1, <2>2
<1>10. ASSUME at <= Len(text)
       PROVE  /\ Len(o) = IF at + Len(d) <= Len(text) THEN Len(text) ELSE at + Len(d)
              /\ \A k \in 1 .. at : o[k] = text[k]
              /\ \A k \in 1 .. Len(d) : o[at + k] = d[k]
              /\ \A k \in at + Len(d) + 1 .. Len(o) : k <= Len(text) /\ o[k] = text[k]
  <2>1. Len(padded) = Len(text) /\ padded = text
    BY <1>1, <1>2, <1>10
  <2>0. /\ Len(right) = IF at + Len(d) + 1 <= Len(text) THEN Len(text) - (at + Len(d)) ELSE 0
        /\ Len(o) = at + Len(d) + Len(right)
    BY <1>6, <1>9, <2>1
  <2> DEFINE T == Len(text)
             E == at + Len(d)
             R == Len(right)
             O == Len(o)
  <2>2a. T \in Nat /\ E \in Nat /\ R = (IF E + 1 <= T THEN T - E ELSE 0) /\ O = E + R
    BY <1>0, <2>0
  <2> HIDE DEF T, E, R, O
  <2>2b. O = IF E <= T THEN T ELSE E
    BY <2>2a
  <2>2. Len(o) = IF at + Len(d) <= Len(text) THEN Len(text) ELSE at + Len(d)
    BY <2>2b DEF T, E, O
  <2>3. ASSUME NEW k \in 1 .. at PROVE o[k] = text[k]
    <3>1. k \in 1 .. at + Len(d) /\ k \in 1 .. at + Len(d) + Len(right) /\ k <= at + Len(d)
      BY <1>0, <1>9
    <3>2. o[k] = l[k] /\ l[k] = left[k]
      BY <1>7, <1>9, <3>1
    <3> QED BY <1>5, <2>1, <3>2
  <2>4. ASSUME NEW k \in 1 .. Len(d) PROVE o[at + k] = d[k]
    <3>1. /\ at + k \in 1 .. at + Len(d) /\ at + k \in 1 .. at + Len(d) + Len(right)
          /\ ~(at + k <= at) /\ at + k - at = k
      BY <1>0, <1>9
    <3>2. o[at + k] = l[at + k]
      BY <1>9, <3>1
    <3>3. l[at + k] = d[at + k - at]
      BY <1>7, <3>1
    <3> QED BY <3>1, <3>2, <3>3
  <2>5. ASSUME NEW k \in at + Len(d) + 1 .. Len(o) PROVE k <= Len(text) /\ o[k] = text[k]
    <3> DEFINE i == k - (at + Len(d))
    <3>0. k \in E + 1 .. O /\ i = k - E
      BY DEF E, O
    <3> HIDE DEF i
    <3>0a. k \in 1 .. E + R /\ ~(k <= E) /\ i \in 1 .. R /\ E + i = k /\ k <= T
      BY <2>2a, <3>0
    <3>1. /\ k \in 1 .. at + Len(d) + Len(right) /\ ~(k <= at + Len(d))
          /\ i \in 1 .. Len(right) /\ at + Len(d) + i = k /\ k <= Len(text)
      BY <3>0a DEF E, R, T
    <3>2. o[k] = right[i]
      BY <1>9, <3>0, <3>1 DEF E
    <3>3. right[i] = padded[at + Len(d) + i]
      BY <1>6, <3>1
    <3> QED BY <2>1, <3>1, <3>2, <3>3
  <2> QED BY <2>2, <2>3, <2>4, <2>5
<1> QED BY <1>9, <1>10 DEF o

(* The system's write: a file that is open to be read is left alone, one   *)
(* that is appended to gets the bytes at its end.                          *)
LEMMA WriteIs ==
  ASSUME file \in Seq(FileBytes), NEW f \in FILEs, NEW d \in Seq(FileBytes)
  PROVE  /\ Std!write(f, d) \in Seq(FileBytes)
         /\ f.mode = "r" => Std!write(f, d) = file
         /\ f.mode = "a" => Std!write(f, d) = file \o d
         /\ f.mode = "w" => Std!write(f, d) = Std!Overlay(file, f.at, d)
<1>1. f.mode \in {"w", "a", "r"} /\ f.at \in Nat
  BY DEF FILEs
<1>2. file \o d \in Seq(FileBytes) /\ Std!Overlay(file, f.at, d) \in Seq(FileBytes)
  BY <1>1, ConcatProperties, OverlayIs
<1>3. CASE f.mode = "r"
  <2>1. Std!write(f, d) = file
    BY <1>3 DEF Std!write
  <2> QED BY <1>3, <2>1
<1>4. CASE f.mode = "a"
  <2>1. Std!write(f, d) = file \o d
    BY <1>4 DEF Std!write
  <2> QED BY <1>2, <1>4, <2>1
<1>5. CASE f.mode = "w"
  <2>1. Std!write(f, d) = Std!Overlay(file, f.at, d)
    BY <1>5 DEF Std!write
  <2> QED BY <1>2, <1>5, <2>1
<1> QED BY <1>1, <1>3, <1>4, <1>5

(* What a step of q does to what holds. *)
Does(z) == /\ StdTypes' /\ Buffered(z)'
           /\ \A p \in Programs \ {z} : fp'[p] = fp[p] /\ written'[p] = written[p]
           /\ fp'[z].mode = fp[z].mode \/ fp[z].mode = "r"
           /\ Alone(z) => Intact(z)'
           /\ fp'[z].mode # "w" =>
                \/ file' = file
                \/ \E t \in Seq(FileBytes) : AllOf(t, z) /\ file' = file \o t

LEMMA DoesKeeps ==
  ASSUME StdInv, NEW z \in Programs, Does(z)
  PROVE  StdInv'
<1>1. StdTypes'
  BY DEF Does
<1>2. ASSUME NEW p \in Programs PROVE Buffered(p)'
  <2>1. CASE p = z
    BY <2>1 DEF Does
  <2>2. CASE p # z
    <3>1. Buffered(p) /\ fp'[p] = fp[p] /\ written'[p] = written[p]
      BY <2>2 DEF Does, StdInv
    <3> QED BY <3>1 DEF Buffered, AllOf
  <2> QED BY <2>1, <2>2
<1>3. ASSUME NEW p \in Programs, Alone(p)' PROVE Intact(p)'
  <2>1. CASE p = z
    <3>1. \A r \in Programs \ {p} : fp'[r].mode = fp[r].mode
      BY <2>1 DEF Does
    <3>2. Alone(p)
      BY <1>3, <3>1 DEF Alone
    <3> QED BY <2>1, <3>2 DEF Does
  <2>2. CASE p # z
    <3>1. fp'[p] = fp[p] /\ written'[p] = written[p]
      BY <2>2 DEF Does
    <3>2. fp'[z].mode # "w" /\ fp[z].mode # "w"
      BY <1>3, <2>2 DEF Alone, Does
    <3>3. Alone(p)
      <4> SUFFICES ASSUME NEW r \in Programs \ {p} PROVE fp[r].mode # "w"
        BY DEF Alone
      <4>1. CASE r = z
        BY <3>2, <4>1
      <4>2. CASE r # z
        <5>1. fp'[r] = fp[r]
          BY <4>2 DEF Does
        <5>2. fp'[r].mode # "w"
          BY <1>3 DEF Alone
        <5> QED BY <5>1, <5>2
      <4> QED BY <4>1, <4>2
    <3>4. file' = file \/ \E t \in Seq(FileBytes) : NoneOf(t, p) /\ file' = file \o t
      BY <2>2, <3>2 DEF Does, AllOf, NoneOf
    <3> QED BY <3>1, <3>3, <3>4, OthersAppend
  <2> QED BY <2>1, <2>2
<1> QED BY <1>1, <1>2, <1>3 DEF StdInv

(* What is written behind the front of p becomes the front of p. *)
LEMMA FrontGrows ==
  ASSUME file \in Seq(FileBytes), NEW p, NEW at \in Nat, Front(file, p, at),
         NEW d \in Seq(FileBytes), AllOf(d, p), file' = Std!Overlay(file, at, d)
  PROVE  Front(file', p, at + Len(d)) /\ Std!Own(p)' = Std!Own(p) \o d
<1> DEFINE n == at + Len(d)
<1>0. /\ Len(file) \in Nat /\ Len(d) \in Nat /\ at <= Len(file) /\ at \in 0 .. Len(file)
      /\ n = at + Len(d) /\ n \in Nat
  BY LenProperties DEF Front
<1>1. /\ file' \in Seq(FileBytes)
      /\ Len(file') = IF n <= Len(file) THEN Len(file) ELSE n
      /\ \A k \in 1 .. at : file'[k] = file[k]
      /\ \A k \in 1 .. Len(d) : file'[at + k] = d[k]
      /\ \A k \in n + 1 .. Len(file') : k <= Len(file) /\ file'[k] = file[k]
  BY <1>0, OverlayIs
<1> HIDE DEF n
<1>2. Len(file') \in Nat /\ n \in 0 .. Len(file')
  BY <1>0, <1>1
<1>3. \A k \in 1 .. at : file[k].of = p
  <2>1. \A k \in 1 .. at : k \in 1 .. Len(file) /\ k <= at
    BY <1>0
  <2> QED BY <2>1 DEF Front
<1>4. ASSUME NEW k \in 1 .. Len(file') PROVE file'[k].of = p <=> k <= n
  <2>1. CASE k <= at
    <3>1. k \in 1 .. at /\ k <= n
      BY <1>0, <1>2, <2>1
    <3> QED BY <1>1, <1>3, <3>1
  <2>2. CASE ~(k <= at) /\ k <= n
    <3> DEFINE j == k - at
    <3>1. j \in 1 .. Len(d) /\ at + j = k
      BY <1>0, <1>2, <2>2
    <3> HIDE DEF j
    <3>2. file'[k] = d[j]
      BY <1>1, <3>1
    <3> QED BY <2>2, <3>1, <3>2 DEF AllOf
  <2>3. CASE ~(k <= n)
    <3>1. k \in n + 1 .. Len(file')
      BY <1>0, <1>2, <2>3
    <3>2. k <= Len(file) /\ file'[k] = file[k]
      BY <1>1, <3>1
    <3>3. k \in 1 .. Len(file) /\ ~(k <= at)
      BY <1>0, <2>3, <3>2
    <3> QED BY <2>3, <3>2, <3>3 DEF Front
  <2> QED BY <2>1, <2>2, <2>3
<1>5. Front(file', p, n)
  BY <1>2, <1>4 DEF Front
<1>6. Std!Own(p) = SubSeq(file, 1, at)
  BY <1>0, PartInFront DEF Front, Std!Own
<1>7. Std!Own(p)' = SubSeq(file', 1, n)
  <2>1. Std!Part(file', p) = SubSeq(file', 1, n)
    BY <1>1, <1>2, <1>4, PartInFront
  <2> QED BY <2>1 DEF Std!Own
<1>8. SubSeq(file', 1, n) = SubSeq(file, 1, at) \o d
  <2> DEFINE u == SubSeq(file, 1, at)
             v == SubSeq(file', 1, n)
             w == u \o d
  <2>1. u \in Seq(FileBytes) /\ Len(u) = at /\ \A i \in 1 .. at : u[i] = file[i]
    <3>1. \A i \in 1 .. at : file[i] \in FileBytes
      BY <1>0, ElementOfSeq
    <3>2. /\ u \in Seq(FileBytes) /\ Len(u) = IF 1 <= at THEN at - 1 + 1 ELSE 0
          /\ \A i \in 1 .. at - 1 + 1 : u[i] = file[1 + i - 1]
      BY <3>1, SubSeqProperties
    <3> QED BY <3>2
  <2>2. v \in Seq(FileBytes) /\ Len(v) = n /\ \A i \in 1 .. n : v[i] = file'[i]
    <3>1. \A i \in 1 .. n : i \in 1 .. Len(file')
      BY <1>2
    <3>2. \A i \in 1 .. n : file'[i] \in FileBytes
      BY <1>1, <3>1, ElementOfSeq
    <3>3. n \in Int
      BY <1>0
    <3>4. /\ v \in Seq(FileBytes) /\ Len(v) = IF 1 <= n THEN n - 1 + 1 ELSE 0
          /\ \A i \in 1 .. n - 1 + 1 : v[i] = file'[1 + i - 1]
      BY <3>2, <3>3, SubSeqProperties
    <3> QED BY <1>0, <3>4
  <2> HIDE DEF u, v
  <2>3. /\ w \in Seq(FileBytes) /\ Len(w) = at + Len(d)
        /\ \A i \in 1 .. at + Len(d) : w[i] = IF i <= at THEN u[i] ELSE d[i - at]
    BY <2>1, ConcatProperties
  <2> HIDE DEF w
  <2>4. ASSUME NEW i \in 1 .. n PROVE v[i] = w[i]
    <3>1. CASE i <= at
      <4>1. i \in 1 .. at /\ i \in 1 .. at + Len(d)
        BY <1>0, <3>1
      <4>2. v[i] = file'[i] /\ file'[i] = file[i]
        BY <1>1, <2>2, <4>1
      <4>3. w[i] = u[i] /\ u[i] = file[i]
        BY <2>1, <2>3, <3>1, <4>1
      <4> QED BY <4>2, <4>3
    <3>2. CASE ~(i <= at)
      <4>1. i - at \in 1 .. Len(d) /\ at + (i - at) = i /\ i \in 1 .. at + Len(d)
        BY <1>0, <3>2
      <4>2. file'[i] = d[i - at]
        BY <1>1, <4>1
      <4> QED BY <2>2, <2>3, <3>2, <4>1, <4>2
    <3> QED BY <3>1, <3>2
  <2>5. v = w
    BY <1>0, <2>2, <2>3, <2>4, SeqEqual
  <2> QED BY <2>5 DEF u, v, w
<1> QED BY <1>5, <1>6, <1>7, <1>8 DEF n

(* A buffer that goes to the file. *)
LEMMA Flushed ==
  ASSUME StdInv, NEW z \in Programs, fp[z].state = "open",
         NEW f \in FILEs, f.mode = fp[z].mode, f.at = fp[z].at, AllOf(f.outbuffer, z),
         NEW w \in Seq(FileBytes),
         fp[z].mode # "r" /\ Alone(z) => Std!Own(z) \o f.outbuffer = w,
         NEW g \in FILEs, g.mode = f.mode, g.at = f.at + Len(f.outbuffer),
         g.outbuffer = << >>, g.state \in {"open", "closed"},
         file' = Std!write(f, f.outbuffer), fp' = [fp EXCEPT ![z] = g],
         written' = [written EXCEPT ![z] = w]
  PROVE  Does(z)
<1> DEFINE d == f.outbuffer
<1>0. /\ file \in Seq(FileBytes) /\ fp \in [Programs -> FILEs]
      /\ written \in [Programs -> Seq(FileBytes)] /\ d \in Seq(FileBytes) /\ fp[z] \in FILEs
      /\ f.mode \in {"w", "a", "r"} /\ f.at \in Nat
  BY DEF StdInv, StdTypes, FILEs
<1>1. fp'[z] = g /\ written'[z] = w
  BY <1>0
<1>2. StdTypes'
  <2>1. file' \in Seq(FileBytes)
    BY <1>0, WriteIs
  <2> QED BY <1>0, <2>1 DEF StdTypes
<1>3. Buffered(z)'
  <2>1. Len(<< >>) <= SIZE /\ Len(<< >>) = 0
    BY ProgramsAssumption DEF Std!MystdioAssumption
  <2>2. fp'[z].outbuffer = << >> /\ fp'[z].state # "none"
    BY <1>1
  <2> QED BY <2>1, <2>2 DEF Buffered, AllOf
<1>4. fp'[z].mode # "w" =>
        \/ file' = file
        \/ \E t \in Seq(FileBytes) : AllOf(t, z) /\ file' = file \o t
  <2>1. f.mode = "r" => file' = file
    BY <1>0, WriteIs
  <2>2. f.mode = "a" => file' = file \o d
    BY <1>0, WriteIs
  <2> QED BY <1>0, <1>1, <2>1, <2>2
<1>5. ASSUME Alone(z) PROVE Intact(z)'
  <2>1. Intact(z)
    BY <1>5 DEF StdInv
  <2>2. CASE f.mode = "r"
    <3>1. file' = file /\ NoneOf(file, z)
      BY <1>0, <2>1, <2>2, WriteIs DEF Intact
    <3> QED BY <1>1, <2>2, <3>1 DEF Intact, NoneOf
  <2>3. ASSUME f.mode # "r", Std!Own(z)' = Std!Own(z) \o d
        PROVE  \E lost : Lost(z, lost)'
    <3>1. Std!Own(z)' = w
      BY <1>5, <2>3
    <3>2. w \o << >> = w /\ << >> \in Seq(FileBytes) /\ Len(<< >>) = 0
      BY ConcatEmptySeq
    <3>3. Len(<< >>) <= SIZE
      BY ProgramsAssumption DEF Std!MystdioAssumption
    <3> WITNESS << >>
    <3> QED BY <1>1, <3>1, <3>2, <3>3 DEF Lost
  <2>4. CASE f.mode = "a"
    <3>1. file' = file \o d
      BY <1>0, <2>4, WriteIs
    <3> DEFINE mine == TRUE
    <3>2. mine \in BOOLEAN /\ \A k \in 1 .. Len(d) : d[k].of = z <=> mine
      BY DEF AllOf
    <3> HIDE DEF mine
    <3>3. Std!Part(file \o d, z) = Std!Part(file, z) \o d
      <4>1. Std!Part(file \o d, z)
              = IF mine THEN Std!Part(file, z) \o d ELSE Std!Part(file, z)
        <5>1. file \in Seq(FileBytes) /\ d \in Seq(FileBytes)
          BY <1>0
        <5> HIDE DEF d
        <5> QED BY <3>2, <5>1, PartOfMore
      <4> QED BY <4>1 DEF mine
    <3>4. Std!Own(z)' = Std!Own(z) \o d
      BY <3>1, <3>3 DEF Std!Own
    <3>5. \E lost : Lost(z, lost)'
      BY <2>3, <2>4, <3>4
    <3>6. fp'[z].mode = "a"
      BY <1>1, <2>4
    <3> QED BY <3>5, <3>6 DEF Intact
  <2>5. CASE f.mode = "w"
    <3>1. file' = Std!Overlay(file, f.at, d)
      BY <1>0, <2>5, WriteIs
    <3>2. Front(file, z, f.at)
      BY <2>1, <2>5 DEF Intact
    <3>3. Front(file', z, f.at + Len(d)) /\ Std!Own(z)' = Std!Own(z) \o d
      BY <1>0, <3>1, <3>2, FrontGrows
    <3>4. \E lost : Lost(z, lost)'
      BY <2>3, <2>5, <3>3
    <3>5. fp'[z].mode = "w" /\ fp'[z].at = f.at + Len(d)
      BY <1>1, <2>5
    <3> QED BY <3>3, <3>4, <3>5 DEF Intact, Front
  <2> QED BY <1>0, <2>2, <2>4, <2>5
<1>6. \A p \in Programs \ {z} : fp'[p] = fp[p] /\ written'[p] = written[p]
  BY <1>0
<1> QED BY <1>1, <1>2, <1>3, <1>4, <1>5, <1>6 DEF Does

(* A step that leaves the file alone. *)
LEMMA Held ==
  ASSUME StdInv, NEW z \in Programs, file' = file,
         NEW g \in FILEs, g.mode = fp[z].mode, g.at = fp[z].at, AllOf(g.outbuffer, z),
         Len(g.outbuffer) <= SIZE, g.state # "none",
         g.state \in {"closed", "killed"} => g.outbuffer = << >>,
         NEW w \in Seq(FileBytes), NEW lost \in Seq(FileBytes), Len(lost) <= SIZE,
         g.state # "killed" => lost = g.outbuffer,
         fp[z].mode # "r" /\ Alone(z) => Std!Own(z) \o lost = w,
         fp' = [fp EXCEPT ![z] = g], written' = [written EXCEPT ![z] = w]
  PROVE  Does(z)
<1>0. /\ file \in Seq(FileBytes) /\ fp \in [Programs -> FILEs]
      /\ written \in [Programs -> Seq(FileBytes)]
  BY DEF StdInv, StdTypes
<1>1. fp'[z] = g /\ written'[z] = w
  BY <1>0
<1>2. StdTypes'
  BY <1>0 DEF StdTypes
<1>3. Buffered(z)'
  BY <1>1 DEF Buffered, AllOf
<1>4. ASSUME Alone(z) PROVE Intact(z)'
  <2>1. Intact(z)
    BY <1>4 DEF StdInv
  <2>2. Std!Own(z)' = Std!Own(z)
    BY DEF Std!Own
  <2>3. fp'[z].mode # "r" => Lost(z, lost)'
    BY <1>1, <1>4, <2>2 DEF Lost
  <2> QED BY <1>1, <2>1, <2>3 DEF Intact, NoneOf, Front
<1>5. \A p \in Programs \ {z} : fp'[p] = fp[p] /\ written'[p] = written[p]
  BY <1>0
<1> QED BY <1>1, <1>2, <1>3, <1>4, <1>5 DEF Does

LEMMA OpenDoes ==
  ASSUME StdInv, NEW z \in Programs, Std!_fopen(z)
  PROVE  Does(z)
<1>0. /\ file \in Seq(FileBytes) /\ fp \in [Programs -> FILEs] /\ written' = written
      /\ written \in [Programs -> Seq(FileBytes)]
  BY DEF StdInv, StdTypes, Std!_fopen
<1>1. fp[z] = Std!NULL /\ written[z] = << >>
  BY DEF StdInv, Buffered, Std!_fopen
<1>2. PICK mode \in {"w", "a", "r"}, flag \in Flags :
        /\ fp' = [fp EXCEPT ![z] = [Std!NULL EXCEPT !.state = "open", !.mode = mode,
                                                     !.flag = flag]]
        /\ file' = IF mode = "w" THEN << >> ELSE file
  BY DEF Std!_fopen
<1>3. << >> \in Seq(FileBytes) /\ Len(<< >>) = 0 /\ Len(<< >>) <= SIZE
  BY EmptySeq, ProgramsAssumption DEF Std!MystdioAssumption
<1> DEFINE g == [Std!NULL EXCEPT !.state = "open", !.mode = mode, !.flag = flag]
<1>4. /\ g \in FILEs /\ g.state = "open" /\ g.mode = mode /\ g.at = 0
      /\ g.outbuffer = << >>
  <2>1. /\ fp[z] \in FILEs /\ Std!NULL = fp[z]
        /\ Std!NULL.at = 0 /\ Std!NULL.outbuffer = << >>
    BY <1>0, <1>1 DEF Std!NULL
  <2> QED BY <2>1 DEF FILEs
<1> HIDE DEF g
<1>6. fp' = [fp EXCEPT ![z] = g] /\ fp'[z] = g /\ written'[z] = << >>
  BY <1>0, <1>1, <1>2 DEF g
<1>7. StdTypes'
  BY <1>0, <1>2, <1>3, <1>4, <1>6 DEF StdTypes
<1>8. Buffered(z)'
  BY <1>3, <1>4, <1>6 DEF Buffered, AllOf
<1>9. fp'[z].mode # "w" => file' = file
  BY <1>2, <1>4, <1>6
<1>10. ASSUME Alone(z) PROVE Intact(z)'
  <2>1. fp[z].mode = "r"
    BY <1>1 DEF Std!NULL
  <2>2. NoneOf(file, z)
    BY <1>10, <2>1 DEF StdInv, Intact
  <2>3. NoneOf(file', z) /\ file' \in Seq(FileBytes)
    BY <1>0, <1>2, <1>3, <2>2 DEF NoneOf
  <2>4. Len(file') \in Nat /\ Front(file', z, 0)
    BY <2>3, LenProperties DEF NoneOf, Front
  <2>5. Std!Own(z)' = << >>
    <3>1. Std!Part(file', z) = SubSeq(file', 1, 0)
      BY <2>3, <2>4, PartInFront DEF Front
    <3> QED BY <3>1, SubSeqEmpty DEF Std!Own
  <2>6. << >> \o << >> = << >>
    BY <1>3, ConcatEmptySeq
  <2>7. \E lost : Lost(z, lost)'
    <3> WITNESS << >>
    <3> QED BY <1>3, <1>4, <1>6, <2>5, <2>6 DEF Lost
  <2> QED BY <1>4, <1>6, <2>3, <2>4, <2>7 DEF Intact, NoneOf, Front
<1>11. /\ fp[z].mode = "r"
       /\ \A p \in Programs \ {z} : fp'[p] = fp[p] /\ written'[p] = written[p]
  BY <1>0, <1>1, <1>6 DEF Std!NULL
<1> QED BY <1>7, <1>8, <1>9, <1>10, <1>11 DEF Does

(* What is held, in a state where the file is open. *)
LEMMA OpenHas ==
  ASSUME StdInv, NEW z \in Programs, fp[z].state \in {"open", "corrupt"}
  PROVE  /\ fp[z] \in FILEs /\ fp[z].outbuffer \in Seq(FileBytes) /\ fp[z].at \in Nat
         /\ written[z] \in Seq(FileBytes) /\ file \in Seq(FileBytes) /\ Std!Own(z) \in Seq(FileBytes)
         /\ AllOf(fp[z].outbuffer, z) /\ Len(fp[z].outbuffer) <= SIZE
         /\ fp[z].mode # "r" /\ Alone(z) => Std!Own(z) \o fp[z].outbuffer = written[z]
<1>1. fp[z] \in FILEs /\ written[z] \in Seq(FileBytes) /\ file \in Seq(FileBytes)
  BY DEF StdInv, StdTypes
<1>2. fp[z].outbuffer \in Seq(FileBytes) /\ fp[z].at \in Nat
  BY <1>1 DEF FILEs
<1>3. Std!Own(z) \in Seq(FileBytes)
  BY <1>1, PartIsSeq DEF Std!Own
<1>4. AllOf(fp[z].outbuffer, z) /\ Len(fp[z].outbuffer) <= SIZE
  BY DEF StdInv, Buffered
<1>5. ASSUME fp[z].mode # "r", Alone(z) PROVE Std!Own(z) \o fp[z].outbuffer = written[z]
  <2>1. \E lost : Lost(z, lost)
    BY <1>5 DEF StdInv, Intact
  <2> QED BY <2>1 DEF Lost
<1> QED BY <1>1, <1>2, <1>3, <1>4, <1>5

(* A buffer that has been written is empty. *)
LEMMA EmptiedIs ==
  ASSUME NEW f \in FILEs, NEW g,
         g = Std!Emptied(f) \/ g = [Std!Emptied(f) EXCEPT !.state = "closed"]
  PROVE  /\ g \in FILEs /\ g.mode = f.mode /\ g.at = f.at + Len(f.outbuffer)
         /\ g.outbuffer = << >> /\ g.state \in {f.state, "closed"}
<1>1. << >> \in Seq(FileBytes)
  BY EmptySeq
<1> DEFINE n == f.at + Len(f.outbuffer)
           h == [f EXCEPT !.at = n, !.outbuffer = << >>]
           c == [h EXCEPT !.state = "closed"]
<1>2. f.at \in Nat /\ f.outbuffer \in Seq(FileBytes)
  BY DEF FILEs
<1>3. n \in Nat
  BY <1>2, LenProperties
<1>4. Std!Emptied(f) = h /\ [Std!Emptied(f) EXCEPT !.state = "closed"] = c
  BY DEF Std!Emptied
<1> HIDE DEF n
<1>5. h \in FILEs /\ h.mode = f.mode /\ h.at = n /\ h.outbuffer = << >> /\ h.state = f.state
  BY <1>1, <1>3 DEF FILEs
<1> HIDE DEF h
<1>6. /\ c \in FILEs /\ c.mode = h.mode /\ c.at = h.at /\ c.outbuffer = h.outbuffer
      /\ c.state = "closed"
  BY <1>5 DEF FILEs
<1> QED BY <1>4, <1>5, <1>6 DEF n

LEMMA FlushDoes ==
  ASSUME StdInv, NEW z \in Programs, Std!_fflush(z) \/ Std!_fclose(z)
  PROVE  Does(z)
<1>1. fp[z].state = "open" /\ file' = Std!write(fp[z], fp[z].outbuffer) /\ written' = written
  BY DEF Std!_fflush, Std!_fclose
<1>2. PICK g : /\ g = Std!Emptied(fp[z]) \/ g = [Std!Emptied(fp[z]) EXCEPT !.state = "closed"]
               /\ fp' = [fp EXCEPT ![z] = g]
  BY DEF Std!_fflush, Std!_fclose
<1>3. written' = [written EXCEPT ![z] = written[z]]
  BY <1>1 DEF StdInv, StdTypes
<1>4. /\ g \in FILEs /\ g.mode = fp[z].mode /\ g.at = fp[z].at + Len(fp[z].outbuffer)
      /\ g.outbuffer = << >> /\ g.state \in {"open", "closed"}
  BY <1>1, <1>2, EmptiedIs, OpenHas
<1> QED BY <1>1, <1>2, <1>3, <1>4, OpenHas, Flushed

LEMMA KillDoes ==
  ASSUME StdInv, NEW z \in Programs, Std!Kill(z)
  PROVE  Does(z)
<1>1. /\ fp[z].state \in {"open", "corrupt"} /\ file' = file /\ written' = written
      /\ fp' = [fp EXCEPT ![z].state = "killed", ![z].outbuffer = << >>]
      /\ fp \in [Programs -> FILEs]
  BY DEF Std!Kill, StdInv, StdTypes
<1> DEFINE g == [fp[z] EXCEPT !.state = "killed", !.outbuffer = << >>]
<1>2. fp' = [fp EXCEPT ![z] = g]
  BY <1>1
<1>3. << >> \in Seq(FileBytes) /\ Len(<< >>) = 0 /\ Len(<< >>) <= SIZE
  BY EmptySeq, ProgramsAssumption DEF Std!MystdioAssumption
<1>4. /\ g \in FILEs /\ g.mode = fp[z].mode /\ g.at = fp[z].at
      /\ g.outbuffer = << >> /\ g.state = "killed"
  <2>1. fp[z] \in FILEs
    BY <1>1
  <2> QED BY <1>3, <2>1 DEF FILEs
<1>5. written' = [written EXCEPT ![z] = written[z]]
  BY <1>1 DEF StdInv, StdTypes
<1> HIDE DEF g
<1>6. AllOf(g.outbuffer, z) /\ Len(g.outbuffer) <= SIZE
  BY <1>3, <1>4 DEF AllOf
<1> QED BY <1>1, <1>2, <1>4, <1>5, <1>6, OpenHas, Held

(* The bytes that are passed are q's; they follow what the buffer holds. *)
LEMMA TextIs ==
  ASSUME NEW z \in Programs, NEW text \in Texts
  PROVE  LET s == [k \in DOMAIN text |-> [of |-> z, byte |-> text[k]]]
         IN  s \in Seq(FileBytes) /\ AllOf(s, z)
<1>1. text \in Seq({"a", "newline"})
  BY ProgramsAssumption DEF Std!MystdioAssumption
<1>2. Len(text) \in Nat /\ DOMAIN text = 1 .. Len(text)
  BY <1>1, LenProperties
<1> DEFINE n == Len(text)
           d(k) == [of |-> z, byte |-> text[k]]
           s == [k \in 1 .. n |-> d(k)]
<1>3. ASSUME NEW k \in 1 .. n PROVE d(k) \in FileBytes /\ d(k).of = z
  <2>1. text[k] \in {"a", "newline"}
    BY <1>1, ElementOfSeq
  <2> QED BY <2>1 DEF FileBytes
<1> HIDE DEF d
<1>4. s \in [1 .. n -> FileBytes] /\ \A k \in 1 .. n : s[k] = d(k)
  BY <1>3
<1>5. s \in Seq(FileBytes) /\ Len(s) = n
  <2> HIDE DEF s
  <2> QED BY <1>2, <1>4
<1>6. AllOf(s, z)
  BY <1>3, <1>4, <1>5 DEF AllOf
<1> QED BY <1>2, <1>5, <1>6 DEF d

LEMMA FwriteDoes ==
  ASSUME StdInv, NEW z \in Programs, Std!_fwrite(z)
  PROVE  Does(z)
<1>0. /\ fp[z].state = "open" /\ fp \in [Programs -> FILEs]
      /\ written \in [Programs -> Seq(FileBytes)]
  BY DEF StdInv, StdTypes, Std!_fwrite
<1> DEFINE S(text) == [k \in DOMAIN text |-> [of |-> z, byte |-> text[k]]]
           F(text) == [fp[z] EXCEPT !.outbuffer = @ \o S(text)]
<1>1. PICK text \in Texts :
        IF Len(F(text).outbuffer) > SIZE
        THEN fp' = [fp EXCEPT ![z].state = "corrupt"] /\ UNCHANGED <<file, written>>
        ELSE /\ written' = [written EXCEPT ![z] = @ \o S(text)]
             /\ IF Std!MustFlush(F(text))
                THEN /\ file' = Std!write(F(text), F(text).outbuffer)
                     /\ fp' = [fp EXCEPT ![z] = Std!Emptied(F(text))]
                ELSE fp' = [fp EXCEPT ![z] = F(text)] /\ UNCHANGED file
  BY DEF Std!_fwrite
<1> DEFINE s == S(text)
           f == F(text)
           d == fp[z].outbuffer
           w == written[z] \o s
<1>2. s \in Seq(FileBytes) /\ AllOf(s, z)
  BY TextIs
<1>3. /\ fp[z] \in FILEs /\ d \in Seq(FileBytes) /\ written[z] \in Seq(FileBytes)
      /\ Std!Own(z) \in Seq(FileBytes) /\ AllOf(d, z) /\ Len(d) <= SIZE
      /\ fp[z].mode # "r" /\ Alone(z) => Std!Own(z) \o d = written[z]
  BY <1>0, OpenHas
<1> HIDE DEF s
<1>4. /\ f \in FILEs /\ f.mode = fp[z].mode /\ f.at = fp[z].at /\ f.state = "open"
      /\ f.outbuffer = d \o s
  <2>1. d \o s \in Seq(FileBytes) /\ f = [fp[z] EXCEPT !.outbuffer = d \o s]
    BY <1>2, <1>3, ConcatProperties DEF s
  <2> HIDE DEF f
  <2> QED BY <1>0, <1>3, <2>1 DEF FILEs
<1>5. AllOf(f.outbuffer, z)
  <2>0. Len(d) \in Nat /\ Len(s) \in Nat
    BY <1>2, <1>3, LenProperties
  <2> DEFINE j == d \o s
  <2>1. /\ Len(j) = Len(d) + Len(s)
        /\ \A i \in 1 .. Len(d) + Len(s) : j[i] = IF i <= Len(d) THEN d[i] ELSE s[i - Len(d)]
    BY <1>2, <1>3, ConcatProperties
  <2> HIDE DEF j, d
  <2>2. ASSUME NEW i \in 1 .. Len(j) PROVE j[i].of = z
    <3>1. CASE i <= Len(d)
      <4>1. i \in 1 .. Len(d) /\ j[i] = d[i]
        BY <2>0, <2>1, <3>1
      <4> QED BY <1>3, <4>1 DEF AllOf
    <3>2. CASE ~(i <= Len(d))
      <4>1. i - Len(d) \in 1 .. Len(s) /\ j[i] = s[i - Len(d)]
        BY <2>0, <2>1, <3>2
      <4> QED BY <1>2, <4>1 DEF AllOf
    <3> QED BY <3>1, <3>2
  <2>3. AllOf(j, z)
    BY <2>2 DEF AllOf
  <2> QED BY <1>4, <2>3 DEF j
<1>6. w \in Seq(FileBytes)
  BY <1>2, <1>3, ConcatProperties
<1>7. fp[z].mode # "r" /\ Alone(z) => Std!Own(z) \o f.outbuffer = w
  <2> SUFFICES ASSUME fp[z].mode # "r", Alone(z) PROVE Std!Own(z) \o f.outbuffer = w
    OBVIOUS
  <2>1. written[z] = Std!Own(z) \o d
    BY <1>3
  <2> HIDE DEF d
  <2> HIDE DEF f
  <2>2. written[z] \o s = Std!Own(z) \o f.outbuffer
    BY <1>2, <1>3, <1>4, <2>1, Joined
  <2> QED BY <2>2
<1> HIDE DEF f
<1>8. CASE Len(f.outbuffer) > SIZE
  <2> DEFINE g == [fp[z] EXCEPT !.state = "corrupt"]
  <2>1. fp' = [fp EXCEPT ![z].state = "corrupt"] /\ file' = file /\ written' = written
    BY <1>1, <1>8 DEF f
  <2>2. fp' = [fp EXCEPT ![z] = g] /\ written' = [written EXCEPT ![z] = written[z]]
    BY <1>0, <2>1
  <2>3. /\ g \in FILEs /\ g.mode = fp[z].mode /\ g.at = fp[z].at /\ g.outbuffer = d
        /\ g.state = "corrupt"
    BY <1>3 DEF FILEs
  <2> HIDE DEF g
  <2>4. AllOf(g.outbuffer, z) /\ Len(g.outbuffer) <= SIZE
    BY <1>3, <2>3
  <2> QED BY <1>3, <2>1, <2>2, <2>3, <2>4, Held
<1>9. CASE ~(Len(f.outbuffer) > SIZE) /\ Std!MustFlush(f)
  <2> DEFINE g == Std!Emptied(f)
  <2>1. /\ written' = [written EXCEPT ![z] = w] /\ file' = Std!write(f, f.outbuffer)
        /\ fp' = [fp EXCEPT ![z] = g]
    BY <1>0, <1>1, <1>9 DEF f, s
  <2>2. /\ g \in FILEs /\ g.mode = f.mode /\ g.at = f.at + Len(f.outbuffer)
        /\ g.outbuffer = << >> /\ g.state \in {"open", "closed"}
    BY <1>4, EmptiedIs
  <2> HIDE DEF g
  <2> QED BY <1>0, <1>4, <1>5, <1>6, <1>7, <2>1, <2>2, Flushed
<1>10. CASE ~(Len(f.outbuffer) > SIZE) /\ ~Std!MustFlush(f)
  <2>1. /\ written' = [written EXCEPT ![z] = w] /\ file' = file
        /\ fp' = [fp EXCEPT ![z] = f]
    BY <1>0, <1>1, <1>10 DEF f, s
  <2>2. Len(f.outbuffer) <= SIZE /\ f.outbuffer \in Seq(FileBytes)
    <3>1. f.outbuffer \in Seq(FileBytes)
      BY <1>4 DEF FILEs
    <3>2. Len(f.outbuffer) \in Nat /\ SIZE \in Nat
      BY <3>1, LenProperties, ProgramsAssumption DEF Std!MystdioAssumption
    <3> QED BY <1>10, <3>1, <3>2
  <2> QED BY <1>4, <1>5, <1>6, <1>7, <2>1, <2>2, Held
<1> QED BY <1>8, <1>9, <1>10

LEMMA StdKeeps == StdInv /\ [Std!Next]_Std!vars => StdInv'
<1> SUFFICES ASSUME StdInv, [Std!Next]_Std!vars PROVE StdInv'
  OBVIOUS
<1>1. CASE UNCHANGED <<file, fp, written>>
  <2>1. StdTypes'
    BY <1>1 DEF StdInv, StdTypes
  <2>2. ASSUME NEW p \in Programs PROVE Buffered(p)' /\ (Alone(p)' => Intact(p)')
    <3>1. Buffered(p) => Buffered(p)'
      BY <1>1 DEF Buffered, AllOf
    <3>2. Alone(p)' => Alone(p)
      BY <1>1 DEF Alone
    <3>3. \A lost : Lost(p, lost) => Lost(p, lost)'
      BY <1>1 DEF Lost, Std!Own
    <3>4. Intact(p) => Intact(p)'
      BY <1>1, <3>3 DEF Intact, NoneOf, Front
    <3> QED BY <3>1, <3>2, <3>4 DEF StdInv
  <2> QED BY <2>1, <2>2 DEF StdInv
<1>2. ASSUME NEW z \in Programs,
             \/ Std!_fopen(z) \/ Std!_fwrite(z) \/ Std!_fflush(z)
             \/ Std!_fclose(z) \/ Std!Kill(z)
      PROVE  StdInv'
  <2>1. Does(z)
    BY <1>2, OpenDoes, FwriteDoes, FlushDoes, KillDoes
  <2> QED BY <2>1, DoesKeeps
<1> QED BY <1>1, <1>2 DEF Std!Next, Std!Ended, Std!vars

(* IsPrefix of what begins with it. *)
LEMMA Begins ==
  ASSUME NEW S, NEW s \in Seq(S), NEW t \in Seq(S)
  PROVE  Std!IsPrefix(s, s \o t) /\ Len(s \o t) - Len(s) = Len(t)
<1>1. Len(s) \in Nat /\ Len(t) \in Nat /\ Len(s \o t) = Len(s) + Len(t) /\ s \o t \in Seq(S)
  BY LenProperties, ConcatProperties
<1>2. SubSeq(s \o t, 1, Len(s)) = SubSeq(s, 1, Len(s))
  <2>1. CASE Len(s) = 0
    <3>1. SubSeq(s \o t, 1, 0) = << >> /\ SubSeq(s, 1, 0) = << >>
      BY SubSeqEmpty
    <3> QED BY <2>1, <3>1
  <2>2. CASE Len(s) # 0
    <3>1. 1 \in 1 .. Len(s) /\ Len(s) \in 1 .. Len(s)
      BY <1>1, <2>2
    <3> QED BY <3>1, SubSeqOfConcat1
  <2> QED BY <2>1, <2>2
<1> QED BY <1>1, <1>2 DEF Std!IsPrefix

LEMMA StdFileThenBuffer == StdInv => FileThenBuffer
<1> SUFFICES ASSUME StdInv, NEW p \in Programs, fp[p].mode # "r", Alone(p)
             PROVE  /\ fp[p].state = "open"   => Std!Own(p) \o fp[p].outbuffer = written[p]
                    /\ fp[p].state = "closed" => Std!Own(p) = written[p]
                    /\ fp[p].state = "killed" => Std!IsPrefix(Std!Own(p), written[p])
                                                 /\ Len(written[p]) - Len(Std!Own(p)) <= SIZE
  BY DEF FileThenBuffer, Std!FileThenBuffer, Alone
<1>1. PICK lost : Lost(p, lost)
  BY DEF StdInv, Intact
<1>2. Std!Own(p) \in Seq(FileBytes) /\ Buffered(p)
  BY PartIsSeq DEF StdInv, StdTypes, Std!Own
<1>3. ASSUME fp[p].state = "closed" PROVE Std!Own(p) = written[p]
  <2>1. lost = << >>
    BY <1>1, <1>2, <1>3 DEF Lost, Buffered
  <2>2. Std!Own(p) \o << >> = Std!Own(p)
    BY <1>2, ConcatEmptySeq
  <2> QED BY <1>1, <2>1, <2>2 DEF Lost
<1>4. Std!IsPrefix(Std!Own(p), written[p]) /\ Len(written[p]) - Len(Std!Own(p)) <= SIZE
  <2>1. lost \in Seq(FileBytes) /\ Len(lost) <= SIZE /\ written[p] = Std!Own(p) \o lost
    BY <1>1 DEF Lost
  <2>2. /\ Std!IsPrefix(Std!Own(p), Std!Own(p) \o lost)
        /\ Len(Std!Own(p) \o lost) - Len(Std!Own(p)) = Len(lost)
    BY <1>2, <2>1, Begins
  <2> QED BY <2>1, <2>2
<1> QED BY <1>1, <1>3, <1>4 DEF Lost

-----------------------------------------------------------------------------
(* Each program is itself, whichever of them the process is: the steps of  *)
(* the others leave its variables alone.                                   *)
THEOREM EachIsItself ==
  ProgramsSpec => /\ Spec /\ Sale!Spec /\ Cal!Spec /\ Std!Spec /\ Bang!Spec
                  /\ Sh!Spec /\ Logs!Spec /\ Http!Spec /\ Shm!Spec
<1>1. ProgramsInit => /\ Init /\ Sale!Init /\ Cal!Init /\ Std!Init /\ Bang!Init
                      /\ Sh!Init /\ Logs!Init /\ Http!Init /\ Shm!Init
  BY DEF ProgramsInit
<1>2. /\ [ProgramsNext]_programsvars => [Next]_vars
      /\ [ProgramsNext]_programsvars => [Sale!Next]_Sale!vars
      /\ [ProgramsNext]_programsvars => [Cal!Next]_Cal!vars
      /\ [ProgramsNext]_programsvars => [Std!Next]_Std!vars
      /\ [ProgramsNext]_programsvars => [Bang!Next]_Bang!vars
      /\ [ProgramsNext]_programsvars => [Sh!Next]_Sh!vars
      /\ [ProgramsNext]_programsvars => [Logs!Next]_Logs!vars
      /\ [ProgramsNext]_programsvars => [Http!Next]_Http!vars
      /\ [ProgramsNext]_programsvars => [Shm!Next]_Shm!vars
  <2>1. UNCHANGED vars /\ UNCHANGED sale /\ UNCHANGED cal /\ UNCHANGED std /\ UNCHANGED bang
        /\ UNCHANGED sh /\ UNCHANGED logs /\ UNCHANGED http /\ UNCHANGED shm
        <=> UNCHANGED <<vars, sale, cal, std, bang, sh, logs, http, shm>>
    OBVIOUS
  <2>2. /\ sale = Sale!vars /\ cal = Cal!vars /\ std = Std!vars /\ bang = Bang!vars
        /\ sh = Sh!vars /\ logs = Logs!vars /\ shm = Shm!vars
        /\ UNCHANGED http => UNCHANGED Http!vars
    BY DEF sale, cal, std, bang, sh, logs, http, shm, Sale!vars, Cal!vars, Std!vars,
           Bang!vars, Sh!vars, Logs!vars, Http!vars, Http!net, Http!http, net, Shm!vars
  <2>3. /\ sale' = Sale!vars' /\ cal' = Cal!vars' /\ std' = Std!vars' /\ bang' = Bang!vars'
        /\ sh' = Sh!vars' /\ logs' = Logs!vars' /\ shm' = Shm!vars'
    BY DEF sale, cal, std, bang, sh, logs, shm, Sale!vars, Cal!vars, Std!vars,
           Bang!vars, Sh!vars, Logs!vars, Shm!vars
  <2>4. UNCHANGED programsvars => UNCHANGED <<vars, sale, cal, std, bang, sh, logs, http, shm>>
    BY DEF programsvars
  <2> QED BY <2>1, <2>2, <2>3, <2>4, Zenon DEF ProgramsNext
<1> QED
  BY <1>1, <1>2, PTL
     DEF ProgramsSpec, Spec, Sale!Spec, Cal!Spec, Std!Spec, Bang!Spec, Sh!Spec, Logs!Spec,
         Http!Spec, Shm!Spec

(* ticket.cc:32-36, any number of threads and tickets: no number is sold   *)
(* twice, and when a thread quits all have been sold.                      *)
THEOREM SoldOnce == ProgramsSpec => []EachTicketOnce
<1>1. ASSUME SaleInv PROVE Sale!EachTicketOnce
  <2> USE <1>1, ProgramsAssumption DEF Sale!TicketsAssumption, SaleInv, Sale!TypeOK
  <2>1. ASSUME NEW n \in 0 .. Total PROVE sold[n] <= (IF n = 0 THEN 0 ELSE 1)
    <3>1. n = 0 => ~Gone(n)
      BY DEF Gone, Printed, TicketLeft
    <3> QED BY <3>1 DEF SoldInv
  <2>2. ASSUME NEW s \in Sellers, seller[s] = "quit", NEW n \in 1 .. Total PROVE sold[n] = 1
    BY <2>2 DEF NoneLeft, SoldInv, Gone
  <2> QED BY <2>1, <2>2 DEF Sale!EachTicketOnce
<1>2. Sale!Spec => []Sale!EachTicketOnce
  BY SaleStart, SaleKeeps, <1>1, PTL DEF Sale!Spec
<1> QED BY EachIsItself, <1>2, PTL DEF EachTicketOnce

(* TcpServer.hpp:44-51, any requests and rounds: however TCP cuts the      *)
(* stream, the answers are those to the requests, in their order and each  *)
(* once, and what the client takes for answers are the first of them.      *)
THEOREM AnsweredInOrder == ProgramsSpec => []AnswersInOrder
<1>1. ASSUME CalInv PROVE Cal!AnswersInOrder
  <2>1. DOMAIN answered = 1 .. Len(answered) /\ DOMAIN got = 1 .. Len(got)
    BY <1>1, LenProperties DEF CalInv, UpInv, DownInv
  <2> QED BY <1>1, <2>1 DEF CalInv, UpInv, DownInv, Cal!AnswersInOrder
<1>2. Cal!Spec => []Cal!AnswersInOrder
  BY CalStart, CalKeeps, <1>1, PTL DEF Cal!Spec
<1> QED BY EachIsItself, <1>2, PTL DEF AnswersInOrder

(* Mystdio.c:41-85, any programs, texts and size of the buffer: unless     *)
(* another truncates the file, it has, with the buffer, all that a program *)
(* has written, in order and once; one that is killed loses its buffer.    *)
THEOREM NothingLost == ProgramsSpec => []FileThenBuffer
<1>1. Std!Spec => []FileThenBuffer
  BY StdStart, StdKeeps, StdFileThenBuffer, PTL DEF Std!Spec
<1> QED BY EachIsItself, <1>1, PTL

(* game.c, a board of any size: a player is the winner exactly when the    *)
(* board has a line of his, and a draw is a full board without one.        *)
THEOREM JudgedRight == ProgramsSpec => []VerdictIsRight
<1>1. BangInv => Bang!VerdictIsRight
  BY DEF BangInv
<1>2. Bang!Spec => []Bang!VerdictIsRight
  BY BangStart, BangKeeps, <1>1, PTL DEF Bang!Spec
<1> QED BY EachIsItself, <1>2, PTL DEF VerdictIsRight

(* myshell.c:46-146 and 195, any files and any number of lines: when the   *)
(* shell asks for the next line, each file holds what the lines have asked *)
(* for, and no line has written to the file of another.                    *)
THEOREM RedirectsOwnLine == ProgramsSpec => []OwnLineOnly
<1>1. ASSUME ShInv PROVE Sh!OwnLineOnly
  <2>1. Sh!NoChild.at = "none"
    BY DEF Sh!NoChild
  <2>2. shell = "interact" => \A f \in Files : StillToCome(f) = output[f]
    BY <1>1, <2>1 DEF ShInv, StillToCome
  <2> QED BY <1>1, <2>2 DEF ShInv, Sh!OwnLineOnly
<1>2. Sh!Spec => []Sh!OwnLineOnly
  BY ShStart, ShKeeps, <1>1, PTL DEF Sh!Spec
<1> QED BY EachIsItself, <1>2, PTL DEF OwnLineOnly

(* Log.hpp:81-114, any threads, any levels and any number of descriptors:  *)
(* a message is only found in the file it was meant for, although the      *)
(* number of that file is another's as soon as it is closed, and a number  *)
(* that means a file is some thread's, which will close it.                *)
THEOREM RightFile == ProgramsSpec => []EachInItsFile
<1>1. LogsInv => Logs!EachInItsFile
  BY DEF LogsInv
<1>2. Logs!Spec => []Logs!EachInItsFile
  BY LogsStart, LogsKeeps, <1>1, PTL DEF Logs!Spec
<1> QED BY EachIsItself, <1>2, PTL DEF EachInItsFile

(* HttpServer.hpp:187-189, any number of browsers: a thread only receives  *)
(* from, answers and closes the connection it was made for, although       *)
(* numbers of closed descriptors are given to others while it runs.        *)
THEOREM OwnConnection == ProgramsSpec => []ServesItsOwn
<1>1. HttpInv => Http!ServesItsOwn
  BY DEF HttpInv, Serves, Http!ServesItsOwn, Http!Sockfd
<1>2. Http!Spec => []Http!ServesItsOwn
  BY HttpStart, HttpKeeps, <1>1, PTL DEF Http!Spec
<1> QED BY EachIsItself, <1>2, PTL DEF ServesItsOwn

(* shared_mem/comm.hpp: whichever of the two runs first, whatever an       *)
(* earlier run has left and whenever somebody removes the segment,         *)
(* processa goes on only with one whose mode lets it attach.               *)
THEOREM OwnSegment == ProgramsSpec => []AMayAttach
<1>1. ShmInv => Shm!AMayAttach
  BY DEF ShmInv
<1>2. Shm!Spec => []Shm!AMayAttach
  BY ShmStart, ShmKeeps, <1>1, PTL DEF Shm!Spec
<1> QED BY EachIsItself, <1>2, PTL DEF AMayAttach

(* What every program of this module keeps always has its type, for any    *)
(* values of its constants.                                                *)
ProgramsTypeOK ==
  /\ Sale!TypeOK /\ StdTypes /\ Bang!TypeOK /\ Sh!TypeOK /\ Logs!TypeOK /\ Http!TypeOK
  /\ Shm!TypeOK
  /\ inbuffer \in Seq(Tokens(Requests)) /\ upstream \in Seq(Tokens(Requests))
  /\ outcome \in Seq(Tokens(Responses)) /\ downstream \in Seq(Tokens(Responses))
  /\ asked \in Seq(Requests) /\ answered \in Seq(Responses) /\ got \in Seq(Responses)

THEOREM TypeCorrect == ProgramsSpec => []ProgramsTypeOK
<1> DEFINE All == SaleInv /\ CalInv /\ StdInv /\ BangInv /\ ShInv /\ LogsInv /\ HttpInv /\ ShmInv
<1>1. ProgramsSpec => []All
  BY EachIsItself, SaleStart, SaleKeeps, CalStart, CalKeeps, StdStart, StdKeeps,
     BangStart, BangKeeps, ShStart, ShKeeps, LogsStart, LogsKeeps, HttpStart, HttpKeeps,
     ShmStart, ShmKeeps, PTL
     DEF Sale!Spec, Cal!Spec, Std!Spec, Bang!Spec, Sh!Spec, Logs!Spec, Http!Spec, Shm!Spec
<1>2. All => ProgramsTypeOK
  BY DEF SaleInv, CalInv, UpInv, DownInv, StdInv, BangInv, ShInv, LogsInv, HttpInv, ShmInv,
         ProgramsTypeOK
<1> QED BY <1>1, <1>2, PTL
=============================================================================
