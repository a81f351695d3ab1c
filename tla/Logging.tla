------------------------------ MODULE Logging ------------------------------
(***************************************************************************)
(* Log.hpp, the same in every server: threads share one Log object and one *)
(* table of descriptors, and take no lock.  A message goes to the screen,  *)
(* to log.txt or to log.txt.<level>; for a file it is opened, written and  *)
(* closed again each time, under a number that any thread may be given     *)
(* next.                                                                   *)
(*                                                                         *)
(* What a message says is left out, and with it what std::cout makes of    *)
(* several threads' characters and localtime of its one buffer; a file     *)
(* has of every message the file it was meant for.                         *)
(***************************************************************************)
EXTENDS Integers

CONSTANTS Writers, Levels, Methods,
          Numbers,       \* the process' descriptors, as far as they are free for logging
          NoFile         \* what a closed one refers to

LogFile == "log.txt"
Places  == {LogFile} \cup Levels

LoggingAssumption == Numbers \subseteq Nat /\ NoFile \notin Places

VARIABLES printMethod,
          writer,        \* what each thread does next
          table,         \* the descriptor table
          log            \* for each file, where the messages in it were meant to go

vars == <<printMethod, writer, table, log>>

Idle == [at |-> "idle"]

Init == /\ printMethod = "Screen"
        /\ writer = [w \in Writers |-> Idle]
        /\ table = [n \in Numbers |-> NoFile]
        /\ log = [place \in Places |-> {}]

Goto(w, step) == writer' = [writer EXCEPT ![w] = step]

-----------------------------------------------------------------------------
Enable == /\ \E method \in Methods : printMethod' = method
          /\ UNCHANGED <<writer, table, log>>

(* operator() and logmessage. *)
Format(w) == /\ writer[w] = Idle
             /\ \E level \in Levels : Goto(w, [at |-> "printLog", level |-> level])
             /\ UNCHANGED <<printMethod, table, log>>

(* printOneFile: open, which takes the lowest number and may fail ... *)
FreeNumbers == {n \in Numbers : table[n] = NoFile}
Lowest      == CHOOSE n \in FreeNumbers : \A m \in FreeNumbers : n <= m

Open(w, place) ==
  \/ Goto(w, Idle) /\ UNCHANGED table
  \/ /\ FreeNumbers # {}
     /\ table' = [table EXCEPT ![Lowest] = place]
     /\ Goto(w, [at |-> "write", fd |-> Lowest, place |-> place])

(* printLog reads printMethod once, whatever Enable does meanwhile. *)
PrintLog(w) ==
  /\ writer[w].at = "printLog"
  /\ CASE printMethod = "Onefile"   -> Open(w, LogFile)
       [] printMethod = "Classfile" -> Open(w, writer[w].level)
       [] OTHER                     -> Goto(w, Idle) /\ UNCHANGED table
  /\ UNCHANGED <<printMethod, log>>

Put(w) == LET n == writer[w].fd
          IN  log' = IF table[n] = NoFile THEN log
                     ELSE [log EXCEPT ![table[n]] = @ \cup {writer[w].place}]

Closed(w) == table' = [table EXCEPT ![writer[w].fd] = NoFile]

(* Mutant: the file is closed before the message is written. *)
WriteLate(w) == /\ \/ /\ writer[w].at = "write" /\ Closed(w)
                      /\ Goto(w, [writer[w] EXCEPT !.at = "late"])
                      /\ UNCHANGED log
                   \/ /\ writer[w].at = "late" /\ Put(w)
                      /\ Goto(w, Idle)
                      /\ UNCHANGED table
                /\ UNCHANGED printMethod

(* ... write, whose failure nobody notices, and close. *)
Write(w) == /\ writer[w].at = "write"
            /\ Put(w) \/ UNCHANGED log
            /\ Goto(w, [writer[w] EXCEPT !.at = "close"])
            /\ UNCHANGED <<printMethod, table>>

Close(w) == /\ writer[w].at = "close"
            /\ Closed(w) /\ Goto(w, Idle)
            /\ UNCHANGED <<printMethod, log>>

-----------------------------------------------------------------------------
Next == Enable \/ \E w \in Writers : Format(w) \/ PrintLog(w) \/ Write(w) \/ Close(w)

Spec == Init /\ [][Next]_vars

-----------------------------------------------------------------------------
(* The type invariant. *)
Steps == {Idle} \cup [at : {"printLog"}, level : Levels]
                \cup [at : {"write", "close"}, fd : Numbers, place : Places]

TypeOK == /\ writer \in [Writers -> Steps]
          /\ table \in [Numbers -> Places \cup {NoFile}]
          /\ log \in [Places -> SUBSET Places]

(* Lines 100-107: however many threads log, and whoever changes the method *)
(* meanwhile, a message is only ever found in the file it was meant for,   *)
(* although the number of that file is another's as soon as it is closed;  *)
(* and logging leaves no descriptor open.                                  *)
EachInItsFile ==
  /\ \A place \in Places : log[place] \subseteq {place}
  /\ \A n \in Numbers : table[n] # NoFile =>
       \E w \in Writers : writer[w].at \in {"write", "close"} /\ writer[w].fd = n
=============================================================================
