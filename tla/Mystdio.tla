------------------------------ MODULE Mystdio ------------------------------
(***************************************************************************)
(* File/Huanchong/myStd: a file library with one output buffer for each    *)
(* open file.  Programs that use it run side by side and may have the same *)
(* file open; what a program holds back reaches the file late or, if it is *)
(* killed, never.                                                          *)
(*                                                                         *)
(* The bytes are "a" and the newline; each remembers who has written it.   *)
(* The library takes every write for complete (48), and so does the model. *)
(***************************************************************************)
EXTENDS Integers, Sequences, SequencesExt

CONSTANTS Programs,     \* each opens the file once
          SIZE,         \* of outbuffer: 1024
          Flags,        \* what fp->flag may be; _fopen sets FLUSH_ALL, and a
                        \* line before that, commented out, FLUSH_LINE
          Texts,        \* what may be passed to _fwrite: sequences of bytes
          MaxBytes      \* bound: what one program writes

MystdioAssumption == /\ SIZE \in Nat \ {0} /\ MaxBytes \in Nat
                     /\ Texts \subseteq Seq({"a", "newline"})

VARIABLES file,         \* its content, a sequence of bytes
          fp,           \* the _FILE of each program
          written       \* history: what each has passed to _fwrite

vars == <<file, fp, written>>

FLUSH_NOW  == 1
FLUSH_LINE == 2
FLUSH_ALL  == 4

NULL == [state |-> "none", mode |-> "r", flag |-> FLUSH_ALL, at |-> 0, outbuffer |-> << >>]

Init == /\ file = << >>
        /\ fp = [p \in Programs |-> NULL]
        /\ written = [p \in Programs |-> << >>]

-----------------------------------------------------------------------------
(* _fopen.  "w" truncates the file, also under those who have it open; "a" *)
(* writes at its end, wherever that is by then.                            *)
_fopen(p) == /\ fp[p].state = "none"
             /\ \E mode \in {"w", "a", "r"}, flag \in Flags :
                  /\ fp' = [fp EXCEPT ![p] = [NULL EXCEPT !.state = "open", !.mode = mode,
                                                          !.flag = flag]]
                  /\ file' = IF mode = "w" THEN << >> ELSE file
             /\ UNCHANGED written

(* The system's write.  Bytes that were never written read as zeros; a     *)
(* file that is open to be read is not written, and nobody is told.        *)
Zeros(n) == [k \in 1 .. n |-> [of |-> "nobody", byte |-> "zero"]]

Overlay(old, at, bytes) ==
  LET padded == old \o Zeros(at - Len(old))
  IN  SubSeq(padded, 1, at) \o bytes \o SubSeq(padded, at + Len(bytes) + 1, Len(padded))

write(f, bytes) == CASE f.mode = "w" -> Overlay(file, f.at, bytes)
                     [] f.mode = "a" -> file \o bytes
                     [] f.mode = "r" -> file

(* Mutant: out_pos stays where it is. *)
Kept(f) == [f EXCEPT !.at = @ + Len(f.outbuffer)]

Emptied(f) == [f EXCEPT !.at = @ + Len(f.outbuffer), !.outbuffer = << >>]

(* Lines 46-66; FLUSH_ALL only knows the buffer that is full to the byte. *)
MustFlush(f) == CASE f.flag = FLUSH_NOW  -> TRUE
                  [] f.flag = FLUSH_LINE -> Last(f.outbuffer).byte = "newline"
                  [] f.flag = FLUSH_ALL  -> Len(f.outbuffer) = SIZE

(* memcpy does not ask how much room is left: beyond SIZE it overwrites    *)
(* out_pos, and the program is done for.                                   *)
_fwrite(p) ==
  /\ fp[p].state = "open"
  /\ \E text \in Texts :
       LET s == [k \in DOMAIN text |-> [of |-> p, byte |-> text[k]]]
           f == [fp[p] EXCEPT !.outbuffer = @ \o s]
       IN  /\ Len(written[p]) + Len(s) <= MaxBytes
           /\ IF Len(f.outbuffer) > SIZE
              THEN fp' = [fp EXCEPT ![p].state = "corrupt"] /\ UNCHANGED <<file, written>>
              ELSE /\ written' = [written EXCEPT ![p] = @ \o s]
                   /\ IF MustFlush(f)
                      THEN file' = write(f, f.outbuffer) /\ fp' = [fp EXCEPT ![p] = Emptied(f)]
                      ELSE fp' = [fp EXCEPT ![p] = f] /\ UNCHANGED file

_fflush(p) == /\ fp[p].state = "open" /\ fp[p].outbuffer # << >>
              /\ file' = write(fp[p], fp[p].outbuffer)
              /\ fp' = [fp EXCEPT ![p] = Emptied(@)]
              /\ UNCHANGED written

_fclose(p) == /\ fp[p].state = "open"
              /\ file' = write(fp[p], fp[p].outbuffer)
              /\ fp' = [fp EXCEPT ![p] = [Emptied(@) EXCEPT !.state = "closed"]]
              /\ UNCHANGED written

(* The program is killed: nobody flushes. *)
Kill(p) == /\ fp[p].state \in {"open", "corrupt"}
           /\ fp' = [fp EXCEPT ![p].state = "killed", ![p].outbuffer = << >>]
           /\ UNCHANGED <<file, written>>

Ended == (\A p \in Programs : fp[p].state \in {"closed", "killed"}) /\ UNCHANGED vars

-----------------------------------------------------------------------------
Next == \/ Ended
        \/ \E p \in Programs : _fopen(p) \/ _fwrite(p) \/ _fflush(p) \/ _fclose(p) \/ Kill(p)

Spec == Init /\ [][Next]_vars

-----------------------------------------------------------------------------
(* What is in the file of what p has written. *)
Part(text, p) ==
  LET f[k \in 0 .. Len(text)] == IF k = 0 THEN << >>
                                 ELSE IF text[k].of = p THEN Append(f[k - 1], text[k])
                                 ELSE f[k - 1]
  IN  f[Len(text)]

Own(p) == Part(file, p)

(* Lines 41-85: whatever the others append, the file and after it the      *)
(* buffer have all that a program has written, in order and once; a close  *)
(* leaves nothing behind, and a program that is killed loses what was in   *)
(* the buffer and no more.  Nothing is promised to one beside whom another *)
(* truncates the file, nor to one that only reads.                         *)
FileThenBuffer ==
  \A p \in Programs :
    fp[p].mode # "r" /\ (\A q \in Programs \ {p} : fp[q].mode # "w") =>
      /\ fp[p].state = "open"   => Own(p) \o fp[p].outbuffer = written[p]
      /\ fp[p].state = "closed" => Own(p) = written[p]
      /\ fp[p].state = "killed" => IsPrefix(Own(p), written[p])
                                   /\ Len(written[p]) - Len(Own(p)) <= SIZE
=============================================================================
