---------------------------- MODULE MCPrograms -----------------------------
(***************************************************************************)
(* Nine programs whose properties are safety properties, one of which      *)
(* runs: the first state says which, and the variables of the others rest. *)
(* SomeoneIsAwake is that of BlockQueue.                                   *)
(***************************************************************************)
EXTENDS BlockQueue, Sockets

CONSTANTS Sellers, Total,                                     \* Tickets
          Requests, Rounds, Eager,                            \* Calculator
          Programs, SIZE, Flags, Texts, MaxBytes,             \* Mystdio
          ROW, COL, Five,                                     \* GoBang
          Files, Terminal, MaxLines,                          \* Shell
          Writers, Levels, Methods, Numbers, NoFile,          \* Logging
          Urls, Pages, Nothing,                               \* HttpServer
          Typed, Empty                                        \* SharedMemory

VARIABLES program,
          tickets, lock, seller, sold,
          cchild, cclient, upstream, downstream, inbuffer, outcome, asked, answered, got,
          file, fp, written,
          game, board, x, y, result, choice, stuck,
          shell, rdir, rdirfilename, lastcode, schild, output, line, count, wanted,
          printMethod, writer, table, log,
          thread, tds, url, page, up,
          segment, a, b

Sale == INSTANCE Tickets
Cal  == INSTANCE Calculator WITH child <- cchild, client <- cclient
Std  == INSTANCE Mystdio
Bang == INSTANCE GoBang
Sh   == INSTANCE Shell WITH child <- schild
Logs == INSTANCE Logging
Http == INSTANCE HttpServer WITH Files <- Pages, asked <- url
Shm  == INSTANCE SharedMemory WITH Texts <- Typed

ASSUME ProgramsAssumption ==
  /\ Sale!TicketsAssumption /\ Cal!RoundsAssumption /\ Std!MystdioAssumption
  /\ Bang!BoardAssumption /\ Sh!ShellAssumption /\ Logs!LoggingAssumption
  /\ Shm!TextsAssumption

sale == <<tickets, lock, seller, sold>>
cal  == <<cchild, cclient, upstream, downstream, inbuffer, outcome, asked, answered, got>>
std  == <<file, fp, written>>
bang == <<game, board, x, y, result, choice, stuck>>
sh   == <<shell, rdir, rdirfilename, lastcode, schild, output, line, count, wanted>>
logs == <<printMethod, writer, table, log>>
http == <<net, thread, tds, url, page, up>>
shm  == <<segment, a, b>>
programsvars == <<program, vars, sale, cal, std, bang, sh, logs, http, shm>>

ProgramsInit ==
  /\ program \in {"queue", "sale", "cal", "std", "bang", "sh", "logs", "http", "shm"}
  /\ Init /\ Sale!Init /\ Cal!Init /\ Std!Init /\ Bang!Init /\ Sh!Init
  /\ Logs!Init /\ Http!Init /\ Shm!Init

ProgramsNext ==
  /\ UNCHANGED program
  /\ program # "queue" => UNCHANGED vars
  /\ program # "sale"  => UNCHANGED sale
  /\ program # "cal"   => UNCHANGED cal
  /\ program # "std"   => UNCHANGED std
  /\ program # "bang"  => UNCHANGED bang
  /\ program # "sh"    => UNCHANGED sh
  /\ program # "logs"  => UNCHANGED logs
  /\ program # "http"  => UNCHANGED http
  /\ program # "shm"   => UNCHANGED shm
  /\ \/ program = "queue" /\ Next
     \/ program = "sale"  /\ Sale!Next
     \/ program = "cal"   /\ Cal!Next
     \/ program = "std"   /\ Std!Next
     \/ program = "bang"  /\ Bang!Next
     \/ program = "sh"    /\ Sh!Next
     \/ program = "logs"  /\ Logs!Next
     \/ program = "http"  /\ Http!Next
     \/ program = "shm"   /\ Shm!Next

ProgramsSpec == ProgramsInit /\ [][ProgramsNext]_programsvars

-----------------------------------------------------------------------------
(* ticket.cc: no number is sold twice, and in the end all have been. *)
EachTicketOnce == Sale!EachTicketOnce

(* NetCalculator: the answers are those to the requests, in their order. *)
AnswersInOrder == Cal!AnswersInOrder

(* Mystdio.c: the file and after it the buffer have all that was written. *)
FileThenBuffer == Std!FileThenBuffer

(* game.c: the verdict is right for the whole board. *)
VerdictIsRight == Bang!VerdictIsRight

(* myshell.c: no line writes to the file of another. *)
OwnLineOnly == Sh!OwnLineOnly

(* Log.hpp: a message is only found in the file it was meant for. *)
EachInItsFile == Logs!EachInItsFile

(* HttpServer.hpp: a thread only touches the connection it was made for. *)
ServesItsOwn == Http!ServesItsOwn

(* shared_mem/comm.hpp: processa goes on only with a segment it may use. *)
AMayAttach == Shm!AMayAttach

(* What the code does not keep: HttpServer.hpp:120, ClientCal.cc:67,       *)
(* Protocol.hpp:148 and processa.cc:18.                                    *)
BodyIsTheFile          == Http!BodyIsTheFile
AssertDecoded          == Cal!AssertDecoded
CodesTellTheTruth      == Cal!CodesTellTheTruth
AIsAttachedWhenItReads == Shm!AIsAttachedWhenItReads

-----------------------------------------------------------------------------
(* Values for TLC. *)
CONSTANTS p1, p2, g1, g2, v1,           \* producers, consumers and values of the queue
          s1, s2, s3,                   \* sellers
          a1, a2, f1, f2, w1, w2,       \* programs, files, writers
          c1, c2, u1, u2, t1            \* clients, URLs, a text

SomeRequests == {[x |-> 7, op |-> "/", y |-> 2], [x |-> 7, op |-> "%", y |-> 2],
                 [x |-> 7, op |-> "/", y |-> 0]}
SomeTexts    == {<<"a">>, <<"a", "newline">>}
=============================================================================
