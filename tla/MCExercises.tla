---------------------------- MODULE MCExercises ----------------------------
(***************************************************************************)
(* Seven programs of processes and threads under fairness, in one run: the *)
(* process pool and six others.  The first state says which of them runs.  *)
(* NoStrayWriter, ImplementsJobLanes and QuitCompletes are those of        *)
(* ProcessPool.                                                            *)
(***************************************************************************)
EXTENDS ProcessPool

CONSTANTS c1, c2, t1, t2, NoAddress, Free,
          defaultnum, MaxLinks          \* Startup

VARIABLES program,
          cchild, cclient, upstream, downstream, inbuffer, outcome, asked, answered, got,
          running, user_list, upward, downward,
          server, fclient, fifofile, bytes,
          afather, child, readers, writers, queued, pcnt,
          mutex, thread, created, cnt,
          step, proc, terminal, tp_, lock_, pool, waiting, links, pushed

Requests == {[x |-> 7, op |-> "/", y |-> 2], [x |-> 7, op |-> "/", y |-> 0]}

u1 == [ip |-> 1, port |-> 1]
u2 == [ip |-> 2, port |-> 1]
u3 == [ip |-> 1, port |-> 2]      \* a second client on the host of u1

Cal == INSTANCE Calculator WITH Rounds <- 2, Eager <- TRUE,
                                child <- cchild, client <- cclient
Chat == INSTANCE UdpChat WITH Addresses <- {u1, u2, u3}
Fif == INSTANCE Fifo WITH Clients <- {c1, c2}, MaxBytes <- 2, client <- fclient
Anon == INSTANCE AnonymousPipe WITH Reads <- 6, Capacity <- 3,
                                   father <- afather, cnt <- pcnt
Cond == INSTANCE Conditions WITH Threads <- {t1, t2}, Wrap <- 3
Boot == INSTANCE Startup

cal  == <<cchild, cclient, upstream, downstream, inbuffer, outcome, asked, answered, got>>
chat == <<running, user_list, upward, downward>>
fif  == <<server, fclient, fifofile, bytes>>
anon == <<afather, child, readers, writers, queued, pcnt>>
cond == <<mutex, thread, created, cnt>>
boot == <<step, proc, terminal, tp_, lock_, pool, waiting, links, pushed>>
others == <<cal, chat, fif, anon, cond, boot>>

ASSUME ExercisesAssumption ==
  /\ Cal!RoundsAssumption /\ Chat!AddressesAssumption /\ Fif!FifoAssumption
  /\ Anon!ReadsAssumption /\ Cond!ThreadsAssumption /\ Boot!StartupAssumption

ExercisesInit ==
        /\ program \in {"slaves", "cal", "chat", "fif", "anon", "cond", "boot"}
        /\ Init /\ Cal!Init /\ Chat!Init /\ Fif!Init /\ Anon!Init /\ Cond!Init /\ Boot!Init

ExercisesNext ==
  /\ UNCHANGED program
  /\ \/ program = "slaves" /\ Next /\ UNCHANGED others
     \/ program = "cal"  /\ Cal!Next  /\ UNCHANGED <<vars, chat, fif, anon, cond, boot>>
     \/ program = "chat" /\ Chat!Next /\ UNCHANGED <<vars, cal, fif, anon, cond, boot>>
     \/ program = "fif"  /\ Fif!Next  /\ UNCHANGED <<vars, cal, chat, anon, cond, boot>>
     \/ program = "anon" /\ Anon!Next /\ UNCHANGED <<vars, cal, chat, fif, cond, boot>>
     \/ program = "cond" /\ Cond!Next /\ UNCHANGED <<vars, cal, chat, fif, anon, boot>>
     \/ program = "boot" /\ Boot!Next /\ UNCHANGED <<vars, cal, chat, fif, anon, cond>>

(* The fairness of each module's FairSpec, for the program that runs; of   *)
(* the chat's, what UsersHearEveryone needs.                               *)
ExercisesSpec ==
  /\ ExercisesInit /\ [][ExercisesNext]_<<program, vars, others>>
  /\ WF_vars(program = "slaves" /\ (Pipe \/ Fork \/ NextChild \/ ClosePipe \/ WaitSlaver))
  /\ \A c \in Slavers : WF_vars(program = "slaves" /\ SlaverNext(c))
  /\ WF_cal(program = "cal" /\ Cal!Server)
  /\ \A u \in {u1, u2, u3} : /\ WF_chat(program = "chat" /\ Chat!send_message(u))
                             /\ SF_chat(program = "chat" /\ Chat!Run(u))
                             /\ SF_chat(program = "chat" /\ Chat!resv_message(u1, u))
  /\ WF_fif(program = "fif" /\ Fif!Server)
  /\ WF_anon(program = "anon" /\ Anon!Father) /\ WF_anon(program = "anon" /\ Anon!Child)
  /\ WF_cond(program = "cond" /\ Cond!Create) /\ WF_cond(program = "cond" /\ Cond!Broadcast)
  /\ \A t \in {t1, t2} : WF_cond(program = "cond" /\ Cond!Count(t))
  /\ WF_boot(program = "boot" /\ Boot!Server)

-----------------------------------------------------------------------------
(* TCP/TcpServer.hpp: the process that accepts has the pool's threads. *)
ServesAsDaemon == Boot!ServesAsDaemon

(* TCP/ThreadPool.hpp: every call of GetInstance returns. *)
EveryCallReturns == Boot!EveryCallReturns

(* NetCalculator: every request is answered. *)
EveryRequestIsAnswered == Cal!EveryRequestIsAnswered

(* UdpServer.hpp: u1, as long as it is a user, hears itself, the user of   *)
(* another host, and u3 of its own host, who has come too late to be one.  *)
UsersHearEveryone ==
  \A v \in {u1, u2, u3} :
    <>[](u1 \in Chat!Users /\ u1 \in running /\ v \in running)
      => []<><<Chat!resv_message(u1, v)>>_chat

(* Fifo/server.cc: when the last client has gone, the server goes. *)
ServerFollows == Fif!ServerFollows

(* testPipe.cpp: the father comes to its end. *)
FatherEnds == program = "anon" => Anon!FatherEnds

(* mycond.cc: the counting never stops. *)
CountGoesOn == program = "cond" => []<><<\E t \in {t1, t2} : Cond!PrintCnt(t)>>_cond
=============================================================================
