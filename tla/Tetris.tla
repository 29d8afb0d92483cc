-------------------------------- MODULE Tetris --------------------------------
(***************************************************************************)
(* The board of tetris (tetris/src/tetris.c) under the messages that       *)
(* job_task takes from its queue: the moving block, the nodes that are     *)
(* fixed, the full lines.  TetrisTasks models the tasks and the queue.     *)
(***************************************************************************)
EXTENDS Integers, Sequences

LOCAL INSTANCE FiniteSets
LOCAL INSTANCE FiniteSetsExt
LOCAL INSTANCE SequencesExt

CONSTANTS
  column_num, row_num,
  NewTypes,    \* the results of rand () % BLOCK_TYPE_NUM
  MAX_SCORE    \* bound: at this score no block is fixed any more

VARIABLES
  scr_map,         \* for each row the set of its occupied columns
  node_color_map,  \* for each row and column the color; 0 is NO_COLOR
  score,
  blk,             \* the moving block: x and y of its base, and its type
  over             \* job_task has left its loop

tetrisVars == <<scr_map, node_color_map, score, blk, over>>

Row == 0 .. row_num - 1
Column == 0 .. column_num - 1

\* _G_block_map: the four nodes of the types O_0, I_0, I_1, Z_0, ... L_3
block_map ==
  << <<<<0,0>>, <<1,0>>, <<0,1>>, <<1,1>>>>,
     <<<<0,0>>, <<0,1>>, <<0,2>>, <<0,3>>>>, <<<<0,0>>, <<1,0>>, <<2,0>>, <<3,0>>>>,
     <<<<0,0>>, <<1,0>>, <<1,1>>, <<2,1>>>>, <<<<1,0>>, <<0,1>>, <<1,1>>, <<0,2>>>>,
     <<<<1,0>>, <<2,0>>, <<0,1>>, <<1,1>>>>, <<<<0,0>>, <<0,1>>, <<1,1>>, <<1,2>>>>,
     <<<<0,0>>, <<1,0>>, <<2,0>>, <<1,1>>>>, <<<<1,0>>, <<0,1>>, <<1,1>>, <<1,2>>>>,
     <<<<1,0>>, <<0,1>>, <<1,1>>, <<2,1>>>>, <<<<0,0>>, <<0,1>>, <<1,1>>, <<0,2>>>>,
     <<<<1,0>>, <<1,1>>, <<0,2>>, <<1,2>>>>, <<<<0,0>>, <<0,1>>, <<1,1>>, <<2,1>>>>,
     <<<<0,0>>, <<1,0>>, <<0,1>>, <<0,2>>>>, <<<<0,0>>, <<1,0>>, <<2,0>>, <<2,1>>>>,
     <<<<0,0>>, <<0,1>>, <<0,2>>, <<1,2>>>>, <<<<0,0>>, <<1,0>>, <<2,0>>, <<0,1>>>>,
     <<<<0,0>>, <<1,0>>, <<1,1>>, <<1,2>>>>, <<<<2,0>>, <<0,1>>, <<1,1>>, <<2,1>>>> >>

\* The types of one color, O, I, Z, S, T, J and L.
Colors == <<{0}, 1 .. 2, 3 .. 4, 5 .. 6, 7 .. 10, 11 .. 14, 15 .. 18>>
color_map(type) == CHOOSE c \in DOMAIN Colors : type \in Colors[c]

score_map == <<0, 1, 3, 7, 15>>

\* COOR_X and COOR_Y of node i.
Coor(b, i) == <<b.x + block_map[b.type + 1][i][1], b.y + block_map[b.type + 1][i][2]>>

is_occupied(c) == c[1] \notin Column \/ c[2] \notin Row \/ c[1] \in scr_map[c[2]]

Fits(b) == \A i \in 1 .. 4 : ~ is_occupied(Coor(b, i))

-----------------------------------------------------------------------------
(* A board is a pair of maps; fix_block and the lines it deletes.          *)

Full(row) == row = Column

fix_node(m, c, color) ==
  [scr |-> [m.scr EXCEPT ![c[2]] = @ \cup {c[1]}],
   col |-> [m.col EXCEPT ![c[2]][c[1]] = color]]

RECURSIVE FixNodes(_, _, _)
FixNodes(m, b, n) ==
  IF n = 0 THEN m ELSE fix_node(FixNodes(m, b, n - 1), Coor(b, n), color_map(b.type))

\* Mutant: the colors do not fall with the nodes.
fall_one_line_colors(m, y) ==
  LET end == Max({0} \cup {i \in 1 .. y : m.scr[i - 1] = {}})
  IN  [m EXCEPT !.scr = [i \in Row |-> IF i \notin end .. y THEN m.scr[i]
                                      ELSE IF i = 0 THEN {} ELSE m.scr[i - 1]]]

\* The lines above y move down by one, as far as to the first empty line above
\* it; line 0 is cleared when there is none.
fall_one_line(m, y) ==
  LET end == Max({0} \cup {i \in 1 .. y : m.scr[i - 1] = {}})
      at(f, none, i) == IF i = 0 THEN none ELSE f[i - 1]
      fall(f, none) == [i \in Row |-> IF i \in end .. y THEN at(f, none, i) ELSE f[i]]
  IN  [scr |-> fall(m.scr, {}), col |-> fall(m.col, [x \in Column |-> 0])]

\* delete_this_line, again while the line that came down is full; n is full_line.
RECURSIVE delete_this_line(_, _, _)
delete_this_line(m, n, y) ==
  LET d == fall_one_line(m, y)
  IN  IF Full(d.scr[y]) THEN delete_this_line(d, n - 1, y) ELSE [m |-> d, n |-> n - 1]

\* The loop of fix_block from line y up.
RECURSIVE delete_lines(_, _, _)
delete_lines(m, n, y) ==
  IF y < 0 \/ n = 0 THEN m
  ELSE IF ~ Full(m.scr[y]) THEN delete_lines(m, n, y - 1)
  ELSE LET d == delete_this_line(m, n, y) IN delete_lines(d.m, d.n, y - 1)

Board == [scr |-> scr_map, col |-> node_color_map]

\* Mutant: the loop begins at the topmost full line.
first_line_top(ys) == Min(ys)

\* bottom_full_line
first_line(ys) == Max(ys)

fix_block(b) ==
  LET line(i) == Coor(b, i)[2]
      full == {i \in 1 .. 4 : Full(FixNodes(Board, b, i).scr[line(i)])}
      m == FixNodes(Board, b, 4)
      new == IF full = {} THEN m
             ELSE delete_lines(m, Cardinality(full), first_line({line(i) : i \in full}))
  IN  /\ scr_map' = new.scr
      /\ node_color_map' = new.col
      /\ score' = score + score_map[Cardinality(full) + 1]

NewBlock(type) == [x |-> (column_num \div 2) - 1, y |-> 0, type |-> type]

new_block == \E type \in NewTypes : blk' = NewBlock(type)

-----------------------------------------------------------------------------
(* The messages.                                                           *)

tetrisInit ==
  /\ scr_map = [y \in Row |-> {}]
  /\ node_color_map = [y \in Row |-> [x \in Column |-> 0]]
  /\ score = 0
  /\ \E type \in NewTypes : blk = NewBlock(type)
  /\ over = FALSE

Moved(b) ==
  /\ ~ over /\ Fits(b)
  /\ blk' = b
  /\ UNCHANGED <<scr_map, node_color_map, score, over>>

Left == Moved([blk EXCEPT !.x = @ - 1])
Right == Moved([blk EXCEPT !.x = @ + 1])

\* The next type of the same color, around; O does not turn.
turned(type) ==
  LET C == Colors[color_map(type)] IN IF type + 1 \in C THEN type + 1 ELSE Min(C)

Turn == blk.type # 0 /\ Moved([blk EXCEPT !.type = turned(@)])

Lower(b, n) == [b EXCEPT !.y = @ + n]

\* What a block does that cannot go further down than b.
Landed(b) ==
  \/ /\ b.y > 0 /\ score < MAX_SCORE
     /\ fix_block(b) /\ new_block
     /\ UNCHANGED over
  \/ /\ b.y = 0
     /\ over' = TRUE
     /\ UNCHANGED <<scr_map, node_color_map, score, blk>>

Down ==
  /\ ~ over
  /\ \/ Moved(Lower(blk, 1))
     \/ ~ Fits(Lower(blk, 1)) /\ Landed(blk)

\* The block falls while the line below is free.
Bottom ==
  LET n == Max({k \in 0 .. row_num : \A j \in 1 .. k : Fits(Lower(blk, j))})
  IN  ~ over /\ Landed(Lower(blk, n))

tetrisNext == Left \/ Right \/ Turn \/ Down \/ Bottom

tetrisSpec == tetrisInit /\ [][tetrisNext]_tetrisVars

-----------------------------------------------------------------------------

Empty(y) == scr_map[y] = {}

\* Between two messages no line is full and no empty line is below another one
\* (delete_this_line stops at the first empty line, fix_node counts the lines that
\* become full); a node has a color exactly when it is occupied; and a block that
\* has left the top is on the screen and on free nodes, so that it is never fixed
\* over another or outside of the maps.
BoardIsSound ==
  /\ \A y \in Row : ~ Full(scr_map[y])
  /\ \A y \in Row \ {0} : Empty(y) => Empty(y - 1)
  /\ \A y \in Row, x \in Column : x \in scr_map[y] <=> node_color_map[y][x] # 0
  /\ blk.y > 0 => Fits(blk)

\* The rows that are not full, in their order, on the bottom.
Kept(m) == SelectSeq([i \in 1 .. row_num |-> i - 1], LAMBDA y : ~ Full(m.scr[y]))
Compact(m) ==
  LET K == Kept(m)
      gone == row_num - Len(K)
  IN  [scr |-> [y \in Row |-> IF y < gone THEN {} ELSE m.scr[K[y - gone + 1]]],
       col |-> [y \in Row |-> IF y < gone THEN [x \in Column |-> 0]
                                          ELSE m.col[K[y - gone + 1]]]]

\* When a block lands, the maps become what the rules say: the full lines are
\* gone, wherever they are, everything above them has come down, colors with
\* nodes, and the score is that of the number of lines.
FullLinesVanish ==
  [][(scr_map' # scr_map \/ score' # score) =>
       \E n \in 0 .. row_num :
         LET m == FixNodes(Board, Lower(blk, n), 4)
         IN  /\ Fits(Lower(blk, n)) /\ ~ Fits(Lower(blk, n + 1))
             /\ [scr |-> scr_map', col |-> node_color_map'] = Compact(m)
             /\ score' = score + score_map[row_num - Len(Kept(m)) + 1]]_tetrisVars
=============================================================================
