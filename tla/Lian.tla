--------------------------------- MODULE Lian ---------------------------------
(***************************************************************************)
(* lianliankan: the board and the search for paths (lian.c), the moves of  *)
(* the player and the task that counts the time (bridge.c).  Two blocks of *)
(* one type go away when a line with at most two corners joins them.       *)
(***************************************************************************)
EXTENDS Integers, SequencesExt

CONSTANTS
  ROW_NUM, COL_NUM,
  LevelMaps,       \* _G_level_maps: for each map the cells that get a block
  TYPE_NUM,        \* _G_type_num: the numbers of types
  ONE_LEVEL_TIME,
  MaxTicks         \* bound: the seconds that _T_time counts

\* A COOR is <<x, y>>.
Cell == (1 .. COL_NUM) \X (1 .. ROW_NUM)

ASSUME LianAssumption ==
  /\ ROW_NUM \in Nat /\ COL_NUM \in Nat /\ ONE_LEVEL_TIME \in Nat
  /\ Len(LevelMaps) \in Nat \ {0} /\ Len(TYPE_NUM) \in Nat \ {0}
  /\ \A i \in 1 .. Len(LevelMaps) : LevelMaps[i] \in (SUBSET Cell) \ {{}}
  /\ \A i \in 1 .. Len(TYPE_NUM) : TYPE_NUM[i] \in Nat \ {0}

VARIABLES
  board,   \* _G_map inside its border; 0 is an empty cell
  cur,     \* _G_cur
  marked,  \* _G_marked; x is 0 when no block is marked
  left,    \* _G_left
  level,   \* _G_level
  time,    \* _G_time
  timer,   \* the task of _T_time: set, _G_time_taskid is not NULL; task, "runs",
           \* "over" (it returned) or "deleted"; reg, its copy of _G_time inside
           \* _G_time--, or None; ticks, the seconds it counted; twice, it was
           \* deleted when it did not exist any more
  playing  \* lian_main has not left its loop

lianVars == <<board, cur, marked, left, level, time, timer, playing>>

None == -1

\* The border of the map is -1.
MapAt(m, p) == IF p \in Cell THEN m[p] ELSE -1
NoMark == <<0, 0>>

\* LEFT, RIGHT, UP and DOWN
Dirs == <<<<-1, 0>>, <<1, 0>>, <<0, -1>>, <<0, 1>>>>

Step(p, d, n) == <<p[1] + n * d[1], p[2] + n * d[2]>>

-----------------------------------------------------------------------------
(* lian.c: the search for a path.                                          *)

\* The numbers strictly between i and j.
Inside(i, j) == IF i < j THEN i + 1 .. j - 1 ELSE j + 1 .. i - 1

\* A straight line over empty cells; the ends are not looked at.
reach(m, a, b) ==
  \/ /\ a[1] # b[1] /\ a[2] = b[2]
     /\ \A x \in Inside(a[1], b[1]) : m[<<x, a[2]>>] = 0
  \/ /\ a[1] = b[1] /\ a[2] # b[2]
     /\ \A y \in Inside(a[2], b[2]) : m[<<a[1], y>>] = 0

\* Mutant: the corner is not looked at.
lr_reach_corner(m, a, b) ==
  LET c0 == <<b[1], a[2]>>
      c1 == <<a[1], b[2]>>
  IN  IF a[1] = b[1] \/ a[2] = b[2] THEN << >>
      ELSE IF reach(m, a, c0) /\ reach(m, c0, b) THEN <<c0>>
      ELSE IF reach(m, a, c1) /\ reach(m, c1, b) THEN <<c1>>
      ELSE << >>

\* The way over one corner, or << >>.  The first line goes one cell past the
\* corner, so that the corner itself has to be empty.
lr_reach(m, a, b) ==
  LET past(i) == IF a[i] > b[i] THEN b[i] - 1 ELSE b[i] + 1
      c0 == <<b[1], a[2]>>
      c1 == <<a[1], b[2]>>
  IN  IF a[1] = b[1] \/ a[2] = b[2] THEN << >>
      ELSE IF reach(m, a, <<past(1), a[2]>>) /\ reach(m, c0, b) THEN <<c0>>
      ELSE IF reach(m, a, <<a[1], past(2)>>) /\ reach(m, c1, b) THEN <<c1>>
      ELSE << >>

\* The empty cells next to a in one direction, the nearest first.
Ray(m, a, d) ==
  LET free(n) == \A i \in 1 .. n : MapAt(m, Step(a, d, i)) = 0
      len == Max({n \in 0 .. Max({ROW_NUM, COL_NUM}) : free(n)})
  IN  [i \in 1 .. len |-> Step(a, d, i)]

\* The way over the first turn that has a way on, or << >>.
FirstWay(turns, ways) ==
  LET on == {i \in 1 .. Len(turns) : ways[i] # << >>}
  IN  IF on = {} THEN << >> ELSE <<turns[Min(on)]>> \o ways[Min(on)]

\* The way over two corners, the first of them at one of the turns.
lr_lr_via(m, turns, b) == FirstWay(turns, [i \in 1 .. Len(turns) |-> lr_reach(m, turns[i], b)])
lr_lr_reach(m, a, b) ==
  lr_lr_via(m, Ray(m, a, Dirs[1]) \o Ray(m, a, Dirs[2]) \o Ray(m, a, Dirs[3])
                 \o Ray(m, a, Dirs[4]), b)

OrElse(way, other) == IF way # << >> THEN way ELSE other
Between(a, way, b) == IF way = << >> THEN << >> ELSE <<a>> \o way \o <<b>>

\* lian_check: _G_way when the answer is CAN_GO, and << >> for NO_WAY.
lian_check(m, a, b) ==
  IF a = b \/ m[a] = 0 \/ m[a] # m[b] THEN << >>
  ELSE IF reach(m, a, b) THEN <<a, b>>
  ELSE Between(a, OrElse(lr_reach(m, a, b), lr_lr_reach(m, a, b)), b)

Clear2(m, a, b) == [m EXCEPT ![a] = 0, ![b] = 0]

Before(a, b) == a[2] < b[2] \/ (a[2] = b[2] /\ a[1] < b[1])

\* The pairs that the loops of lian_left find.
PairSet(m) ==
  LET B == {c \in Cell : m[c] # 0}
  IN  {p \in B \X B : Before(p[1], p[2]) /\ lian_check(m, p[1], p[2]) # << >>}

\* In the order of the loops.
EarlierPair(p, q) == Before(p[1], q[1]) \/ (p[1] = q[1] /\ Before(p[2], q[2]))
FirstPair(P) == CHOOSE p \in P : \A q \in P \ {p} : EarlierPair(p, q)
LastPair(P)  == CHOOSE p \in P : \A q \in P \ {p} : EarlierPair(q, p)

\* lian_left returns 0: some order of moves takes every block away.
lian_left_0 ==
  LET clears[m \in [Cell -> Int]] ==
        \/ \A c \in Cell : m[c] = 0
        \/ \E p \in PairSet(m) : clears[Clear2(m, p[1], p[2])]
  IN  clears

\* Mutant: the first pair that goes away.
help_op_first(m) == FirstPair(PairSet(m))

\* _G_ops[0] after lian_left: the first pair that clears the board, and otherwise
\* the last; every call of it resets _G_op_cnt, so that the last one leaves its
\* operations.
help_op(m) ==
  LET good == {p \in PairSet(m) : lian_left_0[Clear2(m, p[1], p[2])]}
  IN  IF good = {} THEN LastPair(PairSet(m)) ELSE FirstPair(good)

-----------------------------------------------------------------------------
(* bridge.c                                                                *)

LEVEL_NUM == Len(LevelMaps) * Len(TYPE_NUM)

NumberOf(m, t) == Cardinality({c \in Cell : m[c] = t})

\* lian_init: pairs of the types in turn, in a random order.
lian_init(l) ==
  LET cells == LevelMaps[(l % Len(LevelMaps)) + 1]
      types == TYPE_NUM[(l \div Len(LevelMaps)) + 1]
      pairs(t) == Cardinality({i \in 0 .. (Cardinality(cells) \div 2) - 1 : i % types = t - 1})
      blocks == {f \in [cells -> 1 .. types] :
                   \A t \in 1 .. types : Cardinality({c \in cells : f[c] = t}) = 2 * pairs(t)}
  IN  {[c \in Cell |-> IF c \in cells THEN f[c] ELSE 0] : f \in blocks}

Blocks(m) == {c \in Cell : m[c] # 0}

FirstOf(S) == CHOOSE c \in S : \A e \in S \ {c} : Before(c, e)

\* _start_level, and what of it is left for the first level.
StartLevel(l) ==
  \E m \in lian_init(l) :
    /\ board' = m
    /\ cur' = FirstOf(Blocks(m))
    /\ marked' = NoMark
    /\ left' = Cardinality(Blocks(m))

lianInit ==
  /\ board \in lian_init(0)
  /\ cur = FirstOf(Blocks(board))
  /\ marked = NoMark
  /\ left = Cardinality(Blocks(board))
  /\ level = 0
  /\ time = ONE_LEVEL_TIME
  /\ timer = [set |-> TRUE, task |-> "runs", reg |-> None, ticks |-> 0, twice |-> FALSE]
  /\ playing = TRUE

\* The next block in a direction, or c at the border.
moved(m, c, d) ==
  LET p == Step(c, d, Len(Ray(m, c, d)) + 1) IN IF p \in Cell THEN p ELSE c

\* _make_cur: the first block from row y, column x on, around to the cell before.
make_cur(m, c, x, y) ==
  LET B == Blocks(m)
      from == {b \in B : ~ Before(b, <<x, y>>)}
  IN  IF B = {} THEN c ELSE FirstOf(IF from = {} THEN B ELSE from)

bridge_move(d) ==
  /\ playing /\ time > 0
  /\ cur' = moved(board, cur, d)
  /\ UNCHANGED <<board, marked, left, level, time, timer, playing>>

bridge_next ==
  /\ playing /\ time > 0
  /\ cur' = make_cur(board, cur, cur[1] + 1, cur[2])
  /\ UNCHANGED <<board, marked, left, level, time, timer, playing>>

\* OS_DELETE_TIME_TASK; _G_time_taskid keeps its value.
delete_timer(t) ==
  IF ~ t.set THEN t
  ELSE [t EXCEPT !.task = "deleted", !.twice = @ \/ t.task # "runs"]

\* Mutant: only LEFT is tried.
cursor_on_left(m, c) == moved(m, c, Dirs[1])

\* bridge_move in the four directions until one moves, else _make_cur (1, 1).
cursor_on(m, c) ==
  LET M == [i \in 1 .. 4 |-> moved(m, c, Dirs[i])]
      ok == {i \in 1 .. 4 : M[i] # c}
  IN  IF ok # {} THEN M[Min(ok)] ELSE make_cur(m, c, 1, 1)

\* Mutant: the left time is not added to the new level.
level_time_fresh == ONE_LEVEL_TIME

level_time == time + ONE_LEVEL_TIME

\* The second mark, at c: _delete_matched, and the next level or the end.
Joined(a, c) ==
  LET m == Clear2(board, a, c) IN
  IF left # 2
  THEN /\ board' = m
       /\ left' = left - 2
       /\ marked' = NoMark
       /\ cur' = cursor_on(m, c)
       /\ UNCHANGED <<level, time, timer>>
  ELSE /\ level' = level + 1
       /\ IF level + 1 < LEVEL_NUM
          THEN /\ time' = level_time
               /\ StartLevel(level + 1)
               /\ UNCHANGED timer
          ELSE /\ board' = m
               /\ left' = 0
               /\ cur' = c /\ marked' = a
               /\ time' = 0
               /\ timer' = delete_timer(timer)

\* bridge_mark with the mark at a and the cursor at c.
Mark(a, c) ==
  \/ /\ a[1] = 0
     /\ marked' = c /\ cur' = c
     /\ UNCHANGED <<board, left, level, time, timer>>
  \/ /\ a = c
     /\ marked' = NoMark /\ cur' = c
     /\ UNCHANGED <<board, left, level, time, timer>>
  \/ /\ a[1] # 0 /\ a # c /\ lian_check(board, a, c) # << >>
     /\ Joined(a, c)

bridge_mark == playing /\ time > 0 /\ Mark(marked, cur) /\ UNCHANGED playing

\* When the time is over bridge_mark returns at once, and the pair stays marked.
MarkBoth(p) ==
  IF time > 0 THEN Mark(p[1], p[2])
  ELSE /\ marked' = p[1] /\ cur' = p[2]
       /\ UNCHANGED <<board, left, level, time, timer>>

\* Without a pair there is a message.
bridge_help ==
  /\ playing /\ left > 0
  /\ PairSet(board) # {}
  /\ MarkBoth(help_op(board))
  /\ UNCHANGED playing

\* Esc: bridge_exit, and lian_main leaves its loop.
bridge_exit ==
  /\ playing
  /\ timer' = delete_timer(timer)
  /\ time' = 0
  /\ playing' = FALSE
  /\ UNCHANGED <<board, cur, marked, left, level>>

\* _T_time: _G_time-- is a load and a store, and the player's task may come
\* between them.
TimeLoad ==
  /\ timer.task = "runs" /\ timer.reg = None /\ timer.ticks < MaxTicks
  /\ timer' = [timer EXCEPT !.reg = time, !.ticks = @ + 1]
  /\ UNCHANGED <<board, cur, marked, left, level, time, playing>>

\* Mutant: OS_TIME_TASK_OVER forgets _G_time_taskid.
TimeStore_set ==
  /\ timer.task = "runs" /\ timer.reg # None
  /\ time' = timer.reg - 1
  /\ timer' = IF time' >= 0 THEN [timer EXCEPT !.reg = None]
              ELSE [timer EXCEPT !.reg = None, !.task = "over"]
  /\ UNCHANGED <<board, cur, marked, left, level, playing>>

TimeStore ==
  /\ timer.task = "runs" /\ timer.reg # None
  /\ time' = timer.reg - 1
  /\ timer' = IF time' >= 0 THEN [timer EXCEPT !.reg = None]
              ELSE [timer EXCEPT !.reg = None, !.task = "over", !.set = FALSE]
  /\ UNCHANGED <<board, cur, marked, left, level, playing>>

lianNext ==
  \/ \E i \in 1 .. 4 : bridge_move(Dirs[i])
  \/ bridge_next \/ bridge_mark \/ bridge_help \/ bridge_exit
  \/ TimeLoad \/ TimeStore

lianSpec == lianInit /\ [][lianNext]_lianVars

-----------------------------------------------------------------------------
(* What a player takes for granted.                                        *)

\* The path a, p, q, b over empty cells; neighbours on it may be the same cell.
EmptyPath(m, s) ==
  /\ \A i \in 2 .. Len(s) - 1 : s[i] \in {s[1], s[Len(s)]} \/ MapAt(m, s[i]) = 0
  /\ \A i \in 1 .. Len(s) - 1 : s[i] = s[i + 1] \/ reach(m, s[i], s[i + 1])

\* way, or << >>, is right for the blocks a and b.
RightWay(m, a, b, way) ==
  /\ way # << >> <=>
       /\ a # b /\ m[a] = m[b]
       /\ \/ \E x \in 1 .. COL_NUM : EmptyPath(m, <<a, <<x, a[2]>>, <<x, b[2]>>, b>>)
          \/ \E y \in 1 .. ROW_NUM : EmptyPath(m, <<a, <<a[1], y>>, <<b[1], y>>, b>>)
  /\ way # << >> => /\ Len(way) <= 4 /\ way[1] = a /\ way[Len(way)] = b
                    /\ EmptyPath(m, way)

\* "lian_check <start> can reach <end> in three line" (lian.c:386): there is a
\* way between the two blocks that the player joins exactly when they have one type
\* and a horizontal, a vertical and a horizontal line, or the other way round, lead
\* from one to the other over empty cells; and _G_way, which has room for 4 points,
\* is such a way.
PathsAreRight ==
  left > 0 /\ marked[1] # 0 => RightWay(board, marked, cur, lian_check(board, marked, cur))

\* _G_left is the number of blocks, and every type has an even number of them;
\* the cursor and the mark are on blocks, so that a mark is never of an empty cell.
BoardIsConsistent ==
  /\ left = Cardinality(Blocks(board))
  /\ \A t \in {board[c] : c \in Blocks(board)} : NumberOf(board, t) % 2 = 0
  /\ left > 0 => cur \in Blocks(board) /\ (marked[1] = 0 \/ marked \in Blocks(board))

\* The help never spoils a board that can be cleared.
HelpKeepsClearable ==
  [][(board' # board /\ level' = level /\ bridge_help /\ lian_left_0[board])
       => lian_left_0[board']]_lianVars

\* The task that counts the time is deleted when it is already gone only when the
\* player, after the last level, leaves with Esc: bridge_exit runs twice then.
GoneTimerDeletedOnlyAfterWin == timer.twice => level = LEVEL_NUM

\* "two tasks access, it should be atomic_t type" (bridge.c:53): what the race of
\* _G_time-- with the += of bridge_mark can do is to lose the time of whole levels;
\* it never adds time and never miscounts a second.
RaceLosesWholeLevels ==
  (timer.task = "runs" /\ timer.reg = None)
    => \E k \in 1 .. level + 1 : time = k * ONE_LEVEL_TIME - timer.ticks
=============================================================================
