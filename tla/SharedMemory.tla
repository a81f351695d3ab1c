---------------------------- MODULE SharedMemory ----------------------------
(***************************************************************************)
(* File/Pip/shared_mem: processa makes a System V segment and prints what  *)
(* processb types into it.  The segment belongs to the kernel: it survives *)
(* both processes, and since line 33 of processa.cc is never reached,      *)
(* nobody removes it.  Both may be started again, by an ordinary user.     *)
(***************************************************************************)
CONSTANTS Texts, Empty      \* what the user types; a new segment

TextsAssumption == Empty \notin Texts

VARIABLES segment,     \* mode and text, or NoSegment
          a, b         \* what each process does next, or how it ended

vars == <<segment, a, b>>

NoSegment == [mode |-> "none"]

Init == segment = NoSegment /\ a = "out" /\ b = "out"

-----------------------------------------------------------------------------
(* comm.hpp: ftok, which may fail, and shmget.  GetShm gives no permission *)
(* to a segment it makes.                                                  *)
GetKeyFails(process) == process' = "exit" /\ UNCHANGED segment

Make(mode) == segment' = [mode |-> mode, text |-> Empty]

(* Mutant: IPC_EXCL is missing. *)
CreateAnyShm == a' = "attach" /\ IF segment = NoSegment THEN Make("0666") ELSE UNCHANGED segment

CreateShm == IF segment = NoSegment THEN Make("0666") /\ a' = "attach"
             ELSE UNCHANGED segment /\ a' = "exit"

GetShm == IF segment = NoSegment THEN Make("0") ELSE UNCHANGED segment

(* shmat, whose result is not tested. *)
Attach == IF segment.mode = "0666" THEN "attached" ELSE "denied"

-----------------------------------------------------------------------------
(* processa.cc *)
ACreates  == a = "out" /\ (GetKeyFails(a) \/ CreateShm) /\ UNCHANGED b
AAttaches == /\ \/ a = "attach"  /\ a' = Attach
                \/ a = "removed" /\ a' \in {"attached", "invalid"}
             /\ UNCHANGED <<segment, b>>

(* Line 14, before the loop that reads. *)
ADetaches == a \in {"attached", "denied", "invalid"} /\ a' = "detached" /\ UNCHANGED <<segment, b>>

(* Line 22: the address is no longer mapped. *)
AReads    == a = "detached" /\ a' = "segv" /\ UNCHANGED <<segment, b>>

(* processb.cc.  fgets stores where shmat said, be it in a segment that is *)
(* nobody else's any more, or at (char* ) -1.                              *)
BGets     == b = "out" /\ (GetKeyFails(b) \/ (b' = "attach" /\ GetShm)) /\ UNCHANGED a
BAttaches == /\ \/ b = "attach"  /\ b' = Attach
                \/ b = "removed" /\ b' \in {"alone", "denied", "invalid"}
             /\ UNCHANGED <<segment, a>>
BWrites   == /\ b = "attached"
             /\ \E text \in Texts : segment' = [segment EXCEPT !.text = text]
             /\ UNCHANGED <<a, b>>
BFaults   == b \in {"denied", "invalid"} /\ b' = "segv" /\ UNCHANGED <<segment, a>>

(* Either is stopped, or has ended, and is started again. *)
Again == \/ a # "out" /\ a' = "out" /\ UNCHANGED <<segment, b>>
         \/ b # "out" /\ b' = "out" /\ UNCHANGED <<segment, a>>

(* Somebody removes the segment with ipcrm, also while processes have it   *)
(* or are about to attach it.  Linux lets them attach it as long as others *)
(* still have it.                                                          *)
Orphaned(step) == CASE step = "attach"   -> "removed"
                    [] step = "attached" -> "alone"
                    [] OTHER             -> step

Ipcrm == /\ segment # NoSegment /\ segment' = NoSegment
         /\ a' = IF a = "attach" THEN "removed" ELSE a
         /\ b' = Orphaned(b)

-----------------------------------------------------------------------------
Next == \/ ACreates \/ AAttaches \/ ADetaches \/ AReads
        \/ BGets \/ BAttaches \/ BWrites \/ BFaults
        \/ Again \/ Ipcrm

Spec == Init /\ [][Next]_vars

-----------------------------------------------------------------------------
(* The type invariant. *)
TypeOK == /\ segment \in {NoSegment} \cup [mode : {"0", "0666"}, text : Texts \cup {Empty}]
          /\ a \in {"out", "exit", "attach", "removed", "attached", "denied", "invalid",
                    "detached", "segv"}
          /\ b \in {"out", "exit", "attach", "removed", "attached", "alone", "denied",
                    "invalid", "segv"}

(* Line 41, IPC_EXCL: whichever process is started first, whatever an      *)
(* earlier run has left, and whenever somebody cleans up, processa is      *)
(* never denied the segment it goes on with.                               *)
AMayAttach == a # "denied"

(* processa.cc:18: what somebody writes into the memory can be seen there  *)
(* at once, so processa must be able to read it.                           *)
AIsAttachedWhenItReads == a # "segv"
=============================================================================
