------------------------------- MODULE MCApps -------------------------------
(***************************************************************************)
(* The programs on top of the kernel, for TLC: the shell, the I/O system,  *)
(* the clock, the calculator and the games.  They share no state; a        *)
(* behaviour is one of the program app, and the others keep an initial     *)
(* state.  A property is looked at in the behaviours of its program; those *)
(* of the modules that it extends hold in their initial states, too.       *)
(***************************************************************************)
EXTENDS Wuzi, Ios, Shell, Lian, TimeLib

CONSTANTS column_num, row_num, NewTypes, MAX_SCORE,
          Digit, Signs, Factors, LB, RB, EXPR_MAX

VARIABLES
  app,
  scr_map, node_color_map, score, blk, over,                         \* Tetris
  expression                                                         \* Calculator

tetrisVars == <<scr_map, node_color_map, score, blk, over>>
calVars    == <<expression>>

\* Two commands, one the prefix of the other; a file that fits behind a blank and
\* one that does not.
ShellCommands == << <<"a">>, <<"a", "a">> >>
ShellExit     == <<"a", "a">>
ShellFiles    == {<<"a">>, <<"a", "a">>}

\* A level of six blocks in two columns, and one of two blocks in a row.
LianMaps  == << {1, 2, 3} \X {1, 2}, {<<2, 1>>, <<2, 2>>} >>
LianTypes == <<2>>

Te == INSTANCE Tetris

\* The devices "b" and "y", and two files of "y".
BeepName  == <<"b">>
YaffsName == <<"y">>
IoPaths   == {<<"b">>, <<"y", "f">>, <<"y", "g">>}

\* A diagonal of five and three positions in a row.
WuziPresses == {<<0, 0>>, <<1, 1>>, <<2, 2>>, <<3, 3>>, <<4, 4>>, <<0, 1>>, <<0, 2>>}

DateTime(y, mo, d, h, mi, s) ==
  [year |-> y, mon |-> mo, day |-> d, hour |-> h, min |-> mi, sec |-> s]

\* The day before a leap day, the last day of a year, and a day there is not.
TimeSets == {DateTime(2012, 2, 28, 23, 59, 59), DateTime(1999, 12, 31, 0, 58, 30),
             DateTime(2013, 2, 29, 0, 0, 0)}

Ca == INSTANCE Calculator

-----------------------------------------------------------------------------
\* One board of Lian and one first block of Tetris are enough for the others.
mcInit ==
  /\ app \in {"shell", "lian", "tetris", "ios", "wuzi", "time", "calculator"}
  /\ shellInit /\ lianInit /\ Te!tetrisInit /\ iosInit /\ wuziInit
  /\ timeInit /\ Ca!calInit
  /\ app # "lian" => board = CHOOSE m \in lian_init(0) : TRUE
  /\ app # "tetris" => blk = CHOOSE b \in {Te!NewBlock(t) : t \in NewTypes} : TRUE

ShellStep ==
  /\ app = "shell" /\ shellNext
  /\ UNCHANGED <<lianVars, tetrisVars, iosVars, wuziVars, timeVars, calVars>>

LianStep ==
  /\ app = "lian" /\ lianNext
  /\ UNCHANGED <<shellVars, tetrisVars, iosVars, wuziVars, timeVars, calVars>>

TetrisStep ==
  /\ app = "tetris" /\ Te!tetrisNext
  /\ UNCHANGED <<shellVars, lianVars, iosVars, wuziVars, timeVars, calVars>>

IosStep ==
  /\ app = "ios" /\ iosNext
  /\ UNCHANGED <<shellVars, lianVars, tetrisVars, wuziVars, timeVars, calVars>>

WuziStep ==
  /\ app = "wuzi" /\ wuziNext
  /\ UNCHANGED <<shellVars, lianVars, tetrisVars, iosVars, timeVars, calVars>>

TimeStep ==
  /\ app = "time" /\ timeNext
  /\ UNCHANGED <<shellVars, lianVars, tetrisVars, iosVars, wuziVars, calVars>>

CalculatorStep ==
  /\ app = "calculator" /\ Ca!calNext
  /\ UNCHANGED <<shellVars, lianVars, tetrisVars, iosVars, wuziVars, timeVars>>

mcNext ==
  /\ \/ ShellStep \/ LianStep \/ TetrisStep \/ IosStep \/ WuziStep \/ TimeStep
     \/ CalculatorStep
  /\ UNCHANGED app

mcSpec ==
  mcInit /\ [][mcNext]_<<app, shellVars, lianVars, tetrisVars, iosVars, wuziVars,
                         timeVars, calVars>>

-----------------------------------------------------------------------------
\* The two maps of tetris agree, and no full line stays.
BoardIsSound == app = "tetris" => Te!BoardIsSound

\* Full lines vanish, the others keep their order, and the score counts them.
FullLinesVanish == Te!FullLinesVanish

\* The calculator parses by precedence, from left to right.
ParsesByPrecedence == app = "calculator" => Ca!ParsesByPrecedence
=============================================================================
