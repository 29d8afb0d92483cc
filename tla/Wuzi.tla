-------------------------------- MODULE Wuzi ---------------------------------
(***************************************************************************)
(* Five in a row: the board and the computer's answers (wuzi/wuzi.c) under *)
(* the presses that gui_wuzi.c handles, two people or one and the computer.*)
(***************************************************************************)
EXTENDS Integers, SequencesExt

CONSTANTS
  WUZI_ROW_NUM, WUZI_COL_NUM,
  Presses    \* the positions <<row, col>> that the players press

VARIABLES
  chessboard,    \* _G_chessboard
  occupy_num,    \* _G_occupy_num
  chessman_num,  \* _G_chessman_num
  p2p,           \* _G_in_p2p_mode
  turn,          \* _G_white_black_turn
  game_over,     \* _G_game_over
  last           \* the last chessman, where it was put, and what the call returned

wuziVars == <<chessboard, occupy_num, chessman_num, p2p, turn, game_over, last>>

WHITE == 0
BLACK == 1
NONE == 2
WIN_NEVER == 6

DOGFALL == 2
GO_AHEAD == 3

Rows == 0 .. WUZI_ROW_NUM - 1
Cols == 0 .. WUZI_COL_NUM - 1

ASSUME WuziAssumption ==
  /\ WUZI_ROW_NUM \in Nat /\ WUZI_ROW_NUM >= 5
  /\ WUZI_COL_NUM \in Nat /\ WUZI_COL_NUM >= 5
  /\ Presses \subseteq Rows \X Cols

\* The five positions from <<r, c>> on.
Five(r, c, dr, dc) == {<<r + i * dr, c + i * dc>> : i \in 0 .. 4}

\* f[i, j] for each i in I, and in it for each j in J, in order.
Each(I, J, f(_, _)) ==
  [k \in 1 .. Len(I) * Len(J) |-> f(I[(k - 1) \div Len(J) + 1], J[((k - 1) % Len(J)) + 1])]
Upto(n) == [i \in 1 .. n |-> i - 1]

\* _G_win_case_table: the lines in the order in which wuzi_start numbers them.
win_cases ==
  LET R == Upto(WUZI_ROW_NUM)      C == Upto(WUZI_COL_NUM)
      r == Upto(WUZI_ROW_NUM - 4)  c == Upto(WUZI_COL_NUM - 4)
  IN     Each(R, c, LAMBDA i, j : Five(i, j, 0, 1))
      \o Each(C, r, LAMBDA j, i : Five(i, j, 1, 0))
      \o Each(r, c, LAMBDA i, j : Five(i, j, 1, 1))
      \o Each(r, Reverse(c), LAMBDA i, j : Five(i, j + 4, 1, -1))

Case == 1 .. Len(win_cases)

-----------------------------------------------------------------------------

NoMove == [man |-> NONE, at |-> <<0, 0>>, status |-> GO_AHEAD]

Started ==
  [board |-> [p \in Rows \X Cols |-> NONE],
   occ   |-> [m \in {WHITE, BLACK} |-> [i \in Case |-> 0]],
   num   |-> 0,
   last  |-> NoMove]

counted(n) == IF n # WIN_NEVER THEN n + 1 ELSE n

\* Mutant: a line that the other has begun stays open to him.
denied_begun(n) == IF n = 0 THEN WIN_NEVER ELSE n

\* What is left for the other of a line that one has put a chessman in.
denied(n) == WIN_NEVER

\* _put_a_chessman on a free position.  The chessman that wins returns from the
\* loop at its line: it is not on the board and the lines behind are as before.
put_a_chessman(g, man, at) ==
  LET mine == {i \in Case : at \in win_cases[i]}
      wins == {i \in mine : counted(g.occ[man][i]) = 5}
      seen == IF wins = {} THEN mine ELSE {i \in mine : i <= Min(wins)}
      stop == IF wins = {} THEN {} ELSE {Min(wins)}
      occ  == [m \in {WHITE, BLACK} |-> [i \in Case |->
                 IF m = man THEN IF i \in seen THEN counted(g.occ[m][i]) ELSE g.occ[m][i]
                 ELSE IF i \in seen \ stop THEN denied(g.occ[m][i]) ELSE g.occ[m][i]]]
      full == g.num + 1 = WUZI_ROW_NUM * WUZI_COL_NUM
      ret  == IF wins # {} THEN man ELSE IF full THEN DOGFALL ELSE GO_AHEAD
  IN  [board |-> IF wins # {} THEN g.board ELSE [g.board EXCEPT ![at] = man],
       occ   |-> occ,
       num   |-> IF wins # {} THEN g.num ELSE g.num + 1,
       last  |-> [man |-> man, at |-> at, status |-> ret]]

-----------------------------------------------------------------------------
(* _computer_do                                                            *)

score_table == <<1, 5, 50, 100, 400, 0, 0>>

\* The lines through p in which man has n chessmen.
LinesWith(g, man, p, n) == Cardinality({i \in Case : p \in win_cases[i] /\ g.occ[man][i] = n})

\* What the lines through p score in all; those with 5 or WIN_NEVER score 0.
grade(g, man, p) ==
  score_table[1] * LinesWith(g, man, p, 0) + score_table[2] * LinesWith(g, man, p, 1)
    + score_table[3] * LinesWith(g, man, p, 2) + score_table[4] * LinesWith(g, man, p, 3)
    + score_table[5] * LinesWith(g, man, p, 4)

Free(g) == {p \in Rows \X Cols : g.board[p] = NONE}

\* The first of the best positions, row by row.
best(g, man) ==
  LET F == [p \in Free(g) |-> grade(g, man, p)]
      B == {p \in Free(g) : \A q \in Free(g) : F[q] <= F[p]}
  IN  CHOOSE p \in B : \A q \in B \ {p} : p[1] < q[1] \/ (p[1] = q[1] /\ p[2] < q[2])

reply(g) ==
  LET d == best(g, WHITE)
      a == best(g, BLACK)
  IN  IF grade(g, WHITE, d) >= grade(g, BLACK, a) /\ grade(g, WHITE, d) > 100 THEN d ELSE a

-----------------------------------------------------------------------------
(* gui_wuzi.c                                                              *)

Game == [board |-> chessboard, occ |-> occupy_num, num |-> chessman_num, last |-> last]

Become(g) ==
  /\ chessboard' = g.board /\ occupy_num' = g.occ
  /\ chessman_num' = g.num /\ last' = g.last
  /\ game_over' = (g.last.status # GO_AHEAD)

wuziInit ==
  /\ chessboard = Started.board /\ occupy_num = Started.occ
  /\ chessman_num = 0 /\ last = NoMove
  /\ p2p = FALSE /\ turn = WHITE /\ game_over = FALSE

\* A position that is taken is WUZI_NONLEGAL, and nothing changes.
May(at) == ~ game_over /\ chessboard[at] = NONE

\* _wuzi_cb_action of two people: wuzi_white_do or wuzi_black_do.
PressP2P(at) ==
  /\ p2p /\ May(at)
  /\ LET g == put_a_chessman(Game, turn, at)
     IN  /\ Become(g)
         /\ turn' = IF g.last.status = GO_AHEAD THEN 1 - turn ELSE turn
  /\ UNCHANGED p2p

\* wuzi_round_do: the computer answers when the game goes on.
PressP2C(at) ==
  /\ ~ p2p /\ May(at)
  /\ LET g == put_a_chessman(Game, WHITE, at)
     IN  Become(IF g.last.status # GO_AHEAD THEN g ELSE put_a_chessman(g, BLACK, reply(g)))
  /\ UNCHANGED <<p2p, turn>>

\* _wuzi_cb_p2p, _wuzi_cb_p2c and _wuzi_cb_restart; only p2c gives white the turn.
Restart(mode, t) ==
  /\ Become(Started)
  /\ p2p' = mode /\ turn' = t

wuziNext ==
  \/ \E at \in Presses : PressP2P(at) \/ PressP2C(at)
  \/ Restart(TRUE, turn)
  \/ Restart(FALSE, WHITE)

wuziSpec == wuziInit /\ [][wuziNext]_wuziVars

-----------------------------------------------------------------------------

\* The chessmen of m on line i of the board b.
Count(b, m, i) == Cardinality({p \in win_cases[i] : b[p] = m})

\* The board with the last chessman on it.
Shown == IF last.man = NONE THEN chessboard ELSE [chessboard EXCEPT ![last.at] = last.man]

\* The counters that both the end of the game and the computer's choice rest on
\* are those of the board: a line counts a player's chessmen until the other puts
\* one there, and never again; the game ends with a winner exactly when five of
\* one color are in a line, and the chessmen on the board are counted.
CountersMatchBoard ==
  /\ ~ game_over => \A m \in {WHITE, BLACK}, i \in Case :
       occupy_num[m][i] = IF Count(chessboard, 1 - m, i) > 0 THEN WIN_NEVER
                           ELSE Count(chessboard, m, i)
  /\ \A m \in {WHITE, BLACK} :
       last.status = m <=> \E i \in Case : \A p \in win_cases[i] : Shown[p] = m
  /\ chessman_num = Cardinality({p \in Rows \X Cols : chessboard[p] # NONE})
=============================================================================
