------------------------------- MODULE GoBang -------------------------------
(***************************************************************************)
(* GoBangGame: two players on one board and one terminal.  After a move    *)
(* only the four lines through it are counted, and the counting relies on  *)
(* the globals x and y that PlayerMove has left.                           *)
(***************************************************************************)
EXTENDS Integers, FiniteSets

CONSTANTS ROW, COL,     \* the size of the board: 20, 20
          Five          \* how many in a line win: 5

BoardAssumption == {ROW, COL, Five} \subseteq Nat \ {0}

VARIABLES game,         \* what the program does next
          board, x, y, result,
          choice,       \* select, in main
          stuck         \* the next thing on the terminal is no number

vars == <<game, board, x, y, result, choice, stuck>>

PLAYER1 == 1
PLAYER2 == 2
NEXT    == 0      \* the results; those of the players are their numbers
DRAW    == 3

Cells == (1 .. ROW) \X (1 .. COL)
Clear == [cell \in Cells |-> 0]

Init == /\ game = "menu" /\ board = Clear
        /\ x = 0 /\ y = 0 /\ result = NEXT
        /\ choice = 0 /\ stuck = FALSE

-----------------------------------------------------------------------------
(* Mutant: RIGHT_UP goes down. *)
DeltaWrong(d) == CASE d = "LEFT" -> <<0, -1>>       [] d = "RIGHT" -> <<0, 1>>
                   [] d = "UP" -> <<-1, 0>>         [] d = "DOWN" -> <<1, 0>>
                   [] d = "LEFT_UP" -> <<-1, -1>>   [] d = "LEFT_DOWN" -> <<1, -1>>
                   [] d = "RIGHT_UP" -> <<1, 1>>    [] d = "RIGHT_DOWN" -> <<1, 1>>

Delta(d) == CASE d = "LEFT" -> <<0, -1>>       [] d = "RIGHT" -> <<0, 1>>
              [] d = "UP" -> <<-1, 0>>         [] d = "DOWN" -> <<1, 0>>
              [] d = "LEFT_UP" -> <<-1, -1>>   [] d = "LEFT_DOWN" -> <<1, -1>>
              [] d = "RIGHT_UP" -> <<-1, 1>>   [] d = "RIGHT_DOWN" -> <<1, 1>>

(* How many steps in a direction stay on the board and on the same colour. *)
ChessCount(b, at, d) ==
  LET step(k) == <<at[1] + k * Delta(d)[1], at[2] + k * Delta(d)[2]>>
      reached(k) == \A j \in 1 .. k : step(j) \in Cells /\ b[step(j)] = b[at]
  IN  Cardinality({k \in 1 .. ROW + COL : reached(k)})

(* LEFT with RIGHT, UP with DOWN, and the diagonals. *)
Opposite == {<<"LEFT", "RIGHT">>, <<"UP", "DOWN">>,
             <<"LEFT_UP", "RIGHT_DOWN">>, <<"LEFT_DOWN", "RIGHT_UP">>}

IsOver(b, at) ==
  IF \E o \in Opposite : ChessCount(b, at, o[1]) + ChessCount(b, at, o[2]) + 1 >= Five
  THEN b[at]
  ELSE IF \E cell \in Cells : b[cell] = 0 THEN NEXT ELSE DRAW

-----------------------------------------------------------------------------
(* main.  What is neither 1 nor 0 only shows the menu again: "defualt" is  *)
(* a label.  After a scanf that fails, select is what it was.              *)
Select == /\ game = "menu"
          /\ \E number \in 0 .. 2 :
               /\ stuck => number = choice
               /\ choice' = number
               /\ game' = CASE number = 1 -> "player1" [] number = 0 -> "quit"
                            [] OTHER -> "menu"
               /\ IF number = 1 THEN board' = Clear /\ result' = NEXT
                                ELSE UNCHANGED <<board, result>>
          /\ UNCHANGED <<x, y, stuck>>

(* Somebody types a letter: no scanf gets past it. *)
Letters == /\ game # "quit" /\ ~stuck /\ stuck' = TRUE
           /\ UNCHANGED <<game, board, x, y, result, choice>>

Player == IF game = "player1" THEN PLAYER1 ELSE PLAYER2

(* PlayerMove up to the position that is taken, and IsOver.  A letter in   *)
(* the place of y leaves the y of an earlier try, which may be any, and    *)
(* behind a letter x and y stay what they are: the last move of the game   *)
(* before may become the first of this one.                                *)
Move == /\ game \in {"player1", "player2"}
        /\ \E cell \in Cells :
             /\ board[cell] = 0
             /\ stuck => cell = <<x, y>>
             /\ x' = cell[1] /\ y' = cell[2]
             /\ board' = [board EXCEPT ![cell] = Player]
             /\ result' = IsOver(board', cell)
        /\ game' = IF result' # NEXT THEN "menu"
                   ELSE IF game = "player1" THEN "player2" ELSE "player1"
        /\ stuck' \in {stuck, TRUE}
        /\ UNCHANGED choice

(* The loop of PlayerMove without an end: the position is occupied or not  *)
(* on the board, and scanf leaves it so.                                   *)
Hang == game \in {"player1", "player2"} /\ stuck /\ UNCHANGED vars

Quit == game = "quit" /\ UNCHANGED vars

-----------------------------------------------------------------------------
Next == Select \/ Letters \/ Move \/ Hang \/ Quit

Spec == Init /\ [][Next]_vars

-----------------------------------------------------------------------------
(* The type invariant. *)
TypeOK == /\ game \in {"menu", "player1", "player2", "quit"}
          /\ board \in [Cells -> {0, PLAYER1, PLAYER2}]
          /\ x \in 0 .. ROW /\ y \in 0 .. COL
          /\ result \in {NEXT, PLAYER1, PLAYER2, DRAW}
          /\ choice \in 0 .. 2 /\ stuck \in BOOLEAN

(* A line of Five anywhere on the board, by looking at the whole of it. *)
HasLine(player) ==
  \E cell \in Cells, d \in {<<0, 1>>, <<1, 0>>, <<1, 1>>, <<1, -1>>} :
    \A k \in 0 .. Five - 1 :
      LET c == <<cell[1] + k * d[1], cell[2] + k * d[2]>>
      IN  c \in Cells /\ board[c] = player

(* Lines 19-56: although only the lines through the last move are counted, *)
(* the verdict is right for the whole board.                               *)
VerdictIsRight ==
  /\ \A p \in {PLAYER1, PLAYER2} : result = p <=> HasLine(p)
  /\ result = DRAW <=> /\ \A cell \in Cells : board[cell] # 0
                       /\ \A p \in {PLAYER1, PLAYER2} : ~HasLine(p)
=============================================================================
