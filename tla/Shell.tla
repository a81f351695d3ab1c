------------------------------- MODULE Shell -------------------------------
(***************************************************************************)
(* return/myshell: read a line, look for one redirection, run a built-in   *)
(* or a child.  The redirection of a line is kept in two globals, which    *)
(* the child reads after the fork.                                         *)
(*                                                                         *)
(* A line is a record: what kind of command its first word is, the         *)
(* redirection and the file it names.  A program that runs writes once,    *)
(* and is known by the number of its line.                                 *)
(***************************************************************************)
EXTENDS Integers, Sequences

CONSTANTS Files,        \* names that may follow a redirection
          Terminal,     \* what the shell has open as 0 and 1
          MaxLines      \* bound: lines typed

ShellAssumption == Terminal \notin Files /\ MaxLines \in Nat

VARIABLES shell,              \* what the shell does next
          rdir, rdirfilename, lastcode,
          child,              \* the child, or NoChild
          output,             \* what the files and the terminal hold
          line, count,        \* the line at work, its number
          wanted              \* history: what the files hold by the lines alone

vars == <<shell, rdir, rdirfilename, lastcode, child, output, line, count, wanted>>

NONE == "NONE"
EXIT_CODE == 44

Commands == {"empty",       \* nothing, or nothing in front of the redirection
             "built-in", "echo $?",
             "program", "fails", "unknown"}

Lines == [cmd : Commands, rdir : {"IN_RDIR", "OUT_RDIR", "APPEND_RDIR"}, name : Files]
           \cup [cmd : Commands, rdir : {NONE}, name : {Terminal}]

NoChild == [at |-> "none"]

Init == /\ shell = "interact" /\ rdir = NONE /\ rdirfilename = Terminal
        /\ lastcode = 0 /\ child = NoChild
        /\ output = [f \in Files \cup {Terminal} |-> << >>]
        /\ wanted = [f \in Files |-> << >>]
        /\ line = [cmd |-> "empty", rdir |-> NONE, name |-> Terminal]
        /\ count = 0

-----------------------------------------------------------------------------
(* Lines 195-196. *)
(* Mutant: the globals keep what an earlier line has left. *)
Kept(l) == IF l.rdir = NONE THEN UNCHANGED <<rdir, rdirfilename>>
                            ELSE rdir' = l.rdir /\ rdirfilename' = l.name

check_redir(l) == rdir' = l.rdir /\ rdirfilename' = l.name

(* What a line does to the files: nothing, unless it is one for a child.   *)
Result(l, n) ==
  CASE l.cmd \in {"empty", "built-in", "echo $?"} -> wanted
    [] OTHER ->
       LET wrote == IF l.cmd = "unknown" THEN << >> ELSE <<n>>
       IN  CASE l.rdir = "OUT_RDIR"    -> [wanted EXCEPT ![l.name] = wrote]
             [] l.rdir = "APPEND_RDIR" -> [wanted EXCEPT ![l.name] = @ \o wrote]
             [] OTHER                  -> wanted

(* interact and splitstring.  A line without a word has argc 1 and argv[0] *)
(* NULL, which buildcommand passes to strcmp.                              *)
Interact == /\ shell = "interact" /\ count < MaxLines
            /\ \E l \in Lines :
                 /\ line' = l /\ check_redir(l)
                 /\ wanted' = Result(l, count + 1)
                 /\ shell' = IF l.cmd = "empty" THEN "crashed" ELSE "buildcommand"
            /\ count' = count + 1
            /\ UNCHANGED <<lastcode, child, output>>

(* The end of the input: assert(s). *)
EndOfInput == /\ shell = "interact" /\ shell' = "crashed"
              /\ UNCHANGED <<rdir, rdirfilename, lastcode, child, output, line, count, wanted>>

(* A built-in writes to the terminal, also when its line has a redirection. *)
Buildcommand ==
  /\ shell = "buildcommand"
  /\ CASE line.cmd = "built-in" -> shell' = "interact" /\ UNCHANGED <<lastcode, output>>
       [] line.cmd = "echo $?"  -> /\ shell' = "interact" /\ lastcode' = 0
                                   /\ output' = [output EXCEPT ![Terminal] = <<lastcode>>]
       [] OTHER                 -> shell' = "fork" /\ UNCHANGED <<lastcode, output>>
  /\ UNCHANGED <<rdir, rdirfilename, child, line, count, wanted>>

(* normalexcute.  A fork that fails only says so; the line is not run. *)
Fork == /\ shell = "fork"
        /\ \/ /\ shell' = "waitpid"
              /\ child' = [at |-> "dup2", out |-> Terminal]
              /\ UNCHANGED wanted
           \/ /\ shell' = "interact" /\ UNCHANGED child
              /\ wanted' = [f \in Files |-> output[f]]
        /\ UNCHANGED <<rdir, rdirfilename, lastcode, output, line, count>>

(* The child.  Without the file it reads or writes where the shell does. *)
Dup2 == /\ child.at = "dup2"
        /\ \/ /\ rdir \in {NONE, "IN_RDIR"}
              /\ child' = [child EXCEPT !.at = "exec"]
              /\ UNCHANGED <<output, wanted>>
           \/ /\ rdir \in {"OUT_RDIR", "APPEND_RDIR"}
              /\ child' = [at |-> "exec", out |-> rdirfilename]
              /\ output' = IF rdir = "OUT_RDIR" THEN [output EXCEPT ![rdirfilename] = << >>]
                                                ELSE output
              /\ UNCHANGED wanted
           \/ /\ rdir \in {"OUT_RDIR", "APPEND_RDIR"}      \* open fails
              /\ child' = [child EXCEPT !.at = "exec"]
              /\ wanted' = [f \in Files |-> output[f]]
              /\ UNCHANGED output
        /\ UNCHANGED <<shell, rdir, rdirfilename, lastcode, line, count>>

Exec == /\ child.at = "exec"
        /\ child' = [at |-> "exit", status |-> CASE line.cmd = "program" -> 0
                                                 [] line.cmd = "fails"   -> 1
                                                 [] line.cmd = "unknown" -> EXIT_CODE]
        /\ output' = IF line.cmd = "unknown" THEN output
                     ELSE [output EXCEPT ![child.out] = IF child.out = Terminal THEN <<count>>
                                                        ELSE @ \o <<count>>]
        /\ UNCHANGED <<shell, rdir, rdirfilename, lastcode, line, count, wanted>>

(* WEXITSTATUS. *)
Waitpid == /\ shell = "waitpid" /\ child.at = "exit"
           /\ lastcode' = child.status
           /\ child' = NoChild /\ shell' = "interact"
           /\ UNCHANGED <<rdir, rdirfilename, output, line, count, wanted>>

Ended == (shell = "crashed" \/ count = MaxLines) /\ UNCHANGED vars

-----------------------------------------------------------------------------
Next == \/ Interact \/ EndOfInput \/ Buildcommand \/ Fork
        \/ Dup2 \/ Exec \/ Waitpid \/ Ended

Spec == Init /\ [][Next]_vars

-----------------------------------------------------------------------------
(* The type invariant. *)
TypeOK == /\ shell \in {"interact", "buildcommand", "fork", "waitpid", "crashed"}
          /\ rdir \in {NONE, "IN_RDIR", "OUT_RDIR", "APPEND_RDIR"}
          /\ rdirfilename \in Files \cup {Terminal}
          /\ lastcode \in {0, 1, EXIT_CODE}
          /\ child.at \in {"none", "dup2", "exec", "exit"}
          /\ line \in Lines /\ count \in 0 .. MaxLines

(* Lines 46-146 and 195: when the shell asks for the next line, the files  *)
(* hold what each line by itself has asked for.  No line writes to the     *)
(* file of another, and no built-in to any.                                *)
OwnLineOnly == shell = "interact" => \A f \in Files : output[f] = wanted[f]
=============================================================================
