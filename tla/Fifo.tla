------------------------------- MODULE Fifo --------------------------------
(***************************************************************************)
(* File/Pip/Fifo: a server makes a named pipe and prints what clients      *)
(* write into it, until the last of them has closed it.  open waits for    *)
(* the other side; the file outlives a server that was killed, and then no *)
(* server can start (mkfifo fails) until somebody removes it.              *)
(*                                                                         *)
(* Both sides may be started again at any time.  Whoever has the FIFO open *)
(* when its file goes is left alone with it.                               *)
(***************************************************************************)
EXTENDS Naturals, FiniteSets

CONSTANTS Clients,
          MaxBytes      \* bound: unread data in the FIFO

FifoAssumption == Clients # {} /\ MaxBytes \in Nat \ {0}

VARIABLES server, client,     \* what each process does next
          fifofile,           \* does ./myfifo exist?
          bytes               \* what the FIFO holds

vars == <<server, client, fifofile, bytes>>

Init == /\ server = "out" /\ client = [c \in Clients |-> "out"]
        /\ fifofile = FALSE /\ bytes = 0

At(c, from, to) == client[c] = from /\ client' = [client EXCEPT ![c] = to]

(* Who has the FIFO open, and who waits in open for a reader. *)
HasReader == server \in {"reading", "leaving"}
Writers   == {c \in Clients : client[c] = "writing"}
Opening   == {c \in Clients : client[c] = "opening"}

-----------------------------------------------------------------------------
(* class Init: mkfifo, or exit(FIFO_CREAT_ERR). *)
Mkfifo == /\ server = "out" /\ ~fifofile
          /\ server' = "opening" /\ fifofile' = TRUE
          /\ UNCHANGED <<client, bytes>>

(* Mutant: O_RDWR, which makes the server a writer that never closes. *)
EndOfFileNever == FALSE

EndOfFile == bytes = 0 /\ Writers = {}

(* open(FIFO_FILE, O_RDONLY) *)
ServerOpen == /\ server = "opening" /\ Opening # {}
              /\ server' = "reading"
              /\ client' = [c \in Clients |-> IF c \in Opening THEN "writing" ELSE client[c]]
              /\ UNCHANGED <<fifofile, bytes>>

ServerRead == /\ server = "reading"
              /\ \E n \in 1 .. bytes : bytes' = bytes - n
              /\ UNCHANGED <<server, client, fifofile>>

ServerQuit == /\ server = "reading" /\ EndOfFile
              /\ server' = "leaving"
              /\ UNCHANGED <<client, fifofile, bytes>>

(* close(fd), which discards what nobody will read, and then ~Init. *)
ServerClose == /\ server = "leaving" /\ server' = "unlink" /\ bytes' = 0
               /\ UNCHANGED <<client, fifofile>>

FileGone == /\ fifofile' = FALSE
            /\ client' = [c \in Clients |-> IF client[c] = "out" THEN "out" ELSE "alone"]

Unlink == /\ server = "unlink" /\ server' = "out"
          /\ FileGone /\ UNCHANGED bytes

(* Ctrl-C: no destructor runs. *)
Kill == /\ server \in {"opening", "reading", "leaving", "unlink"} /\ server' = "out"
        /\ bytes' = 0
        /\ UNCHANGED <<client, fifofile>>

(* Somebody removes the file a killed server has left. *)
Remove == /\ server = "out" /\ fifofile
          /\ FileGone /\ UNCHANGED <<server, bytes>>

-----------------------------------------------------------------------------
(* open(FIFO_FILE, O_WRONLY): without the file the client exits. *)
ClientOpen(c) == /\ fifofile
                 /\ At(c, "out", IF HasReader THEN "writing" ELSE "opening")
                 /\ UNCHANGED <<server, fifofile, bytes>>

ClientWrite(c) == /\ client[c] = "writing" /\ HasReader /\ bytes < MaxBytes
                  /\ bytes' = bytes + 1
                  /\ UNCHANGED <<server, client, fifofile>>

(* SIGPIPE, as no server has the FIFO open. *)
ClientKilled(c) == /\ At(c, "writing", "out") /\ ~HasReader
                   /\ UNCHANGED <<server, fifofile, bytes>>

(* The user stops the client. *)
ClientLeaves(c) == /\ \E place \in {"writing", "opening", "alone"} : At(c, place, "out")
                   /\ UNCHANGED <<server, fifofile, bytes>>

-----------------------------------------------------------------------------
Server    == ServerOpen \/ ServerRead \/ ServerQuit \/ ServerClose \/ Unlink
Client(c) == ClientOpen(c) \/ ClientWrite(c) \/ ClientKilled(c) \/ ClientLeaves(c)

Next == Mkfifo \/ Server \/ Kill \/ Remove \/ \E c \in Clients : Client(c)

Spec == Init /\ [][Next]_vars

(* The server runs.  Nothing is assumed of the users. *)
FairSpec == Spec /\ WF_vars(Server)

-----------------------------------------------------------------------------
(* The type invariant. *)
TypeOK == /\ server \in {"out", "opening", "reading", "leaving", "unlink"}
          /\ client \in [Clients -> {"out", "opening", "writing", "alone"}]
          /\ fifofile \in BOOLEAN /\ bytes \in 0 .. MaxBytes

(* Line 31, "client quit, me too": when the last client has gone and no    *)
(* other comes, the server reads what is left and goes as well.            *)
ServerFollows ==
  server = "reading" /\ Writers = {} ~> server # "reading" \/ Writers # {}
=============================================================================
