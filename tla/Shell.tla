-------------------------------- MODULE Shell --------------------------------
(***************************************************************************)
(* shell.c and cmd.c: the line editor of the shell task, its history and   *)
(* Tab completion, and the commands that the lines run.  The screen is     *)
(* what the editor's output leaves of the line: a character is added at    *)
(* the end, and "\b \b" takes the last one away.                           *)
(***************************************************************************)
EXTENDS Naturals, SequencesExt

CONSTANTS
  Letter,        \* the characters of words
  Blank,         \* ' '
  Commands,      \* _G_cmd_list: the names of the commands, in order
  EXIT,          \* the name of the command that returns CMD_EXIT
  Files,         \* names that yaffs_tab may find; it is not modelled further
  CMD_LEN_MAX,   \* _CMD_LEN_MAX: 1024
  HISTORY_MAX,   \* _HISTORY_MAX: 3
  ARG_NUM_MAX,   \* 10
  MaxLines       \* bound: the lines that are entered

ASSUME ShellAssumption ==
  /\ CMD_LEN_MAX \in Nat \ {0} /\ HISTORY_MAX \in Nat \ {0}
  /\ Commands \in Seq(Seq(Letter)) /\ Files \subseteq Seq(Letter)

VARIABLES
  line,     \* the string in usr_cmd_line
  tab,      \* have_tab, and tab_matched_cmd
  cmdtab,   \* the statics of cmd_tab: last_prefix, and pLast as an index, 0 for NULL
  history,  \* history_list
  index,    \* p_history_index: a position in history, 0 for NULL
  screen,   \* what the terminal shows of the line
  log       \* every line that was entered: the line, what the screen showed then,
            \* and the arguments that its command got; << >> for none

shellVars == <<line, tab, cmdtab, history, index, screen, log>>

NoTab == [have |-> FALSE, word |-> << >>]

shellInit ==
  /\ line = << >> /\ screen = << >>
  /\ tab = NoTab
  /\ cmdtab = [prefix |-> << >>, last |-> 0]
  /\ history = << >> /\ index = 0
  /\ log = << >>

-----------------------------------------------------------------------------
(* cmd.c                                                                   *)

\* _cmd_dispatch_arg: a word begins at a character behind a blank; the loop ends
\* at the last argument there is room for, which keeps the rest of the line.
dispatch_arg(s) ==
  LET step(a, i) ==
        IF Len(a.args) = ARG_NUM_MAX
        THEN [a EXCEPT !.args[ARG_NUM_MAX] = Append(@, s[i])]
        ELSE IF s[i] = Blank THEN [a EXCEPT !.after_blank = TRUE]
        ELSE IF a.after_blank
        THEN [args |-> Append(a.args, <<s[i]>>), after_blank |-> FALSE]
        ELSE [a EXCEPT !.args[Len(a.args)] = Append(@, s[i])]
  IN  FoldLeft(step, [args |-> << >>, after_blank |-> TRUE],
               [i \in 1 .. Len(s) |-> i]).args

\* The commands from position n on that begin with prefix.
Matches(prefix, n) == {i \in n .. Len(Commands) : IsPrefix(prefix, Commands[i])}

\* cmd_tab: pLast moves on to the next match, or to NULL.
cmd_tab_last(prefix) ==
  LET from == IF cmdtab.prefix # prefix \/ cmdtab.last = 0 THEN 1 ELSE cmdtab.last + 1
      m == Matches(prefix, from)
  IN  IF m = {} THEN 0 ELSE CHOOSE i \in m : \A j \in m : i <= j

\* Names that yaffs_tab may store for prefix.
yaffs_tab(prefix) == {f \in Files : IsPrefix(prefix, f)} \cup {prefix}

-----------------------------------------------------------------------------
(* _get_cmd_line                                                           *)

\* The length of what stands in front of the last word.
HeadLen(s) ==
  LET b == {i \in 1 .. Len(s) : s[i] = Blank}
  IN  IF b = {} THEN 0 ELSE CHOOSE i \in b : \A j \in b : j <= i

LastWord(s) == SubSeq(s, HeadLen(s) + 1, Len(s))

\* Mutant: the word that Tab found is not stored.
tab_taken_not(s, t) == s

\* "check Tab key": the word that Tab found replaces the last word.
tab_taken(s, t) == IF t.have THEN SubSeq(s, 1, HeadLen(s)) \o t.word ELSE s

\* The index i of the editor: the characters read so far.
Typed == IF tab.have THEN HeadLen(line) + Len(tab.word) ELSE Len(line)

\* "\b \b", n times.
Erase(scr, n) == SubSeq(scr, 1, Len(scr) - n)

\* Mutant: the newest node is used again.
Remember_newest(s) ==
  history' = IF s = << >> \/ (history # << >> /\ history[Len(history)] = s) THEN history
             ELSE Append(IF Len(history) < HISTORY_MAX THEN history ELSE Front(history), s)

\* got_it: the line goes into the history unless it is empty or the same as the
\* last one; the oldest node is used again when there are HISTORY_MAX.
Remember(s) ==
  history' = IF s = << >> \/ (history # << >> /\ history[Len(history)] = s) THEN history
             ELSE Append(IF Len(history) < HISTORY_MAX THEN history ELSE Tail(history), s)

NewLine == line' = << >> /\ screen' = << >> /\ tab' = NoTab /\ index' = 0

\* _del_front_space and cmd_do, with what the command gets.
Run(s) ==
  LET args == dispatch_arg(s)
      known == args # << >> /\ \E i \in 1 .. Len(Commands) : Commands[i] = args[1]
  IN  IF known THEN args ELSE << >>

Enters(s, scr) ==
  /\ Remember(s)
  /\ log' = Append(log, [line |-> s, screen |-> scr, ran |-> Run(s)])
  /\ NewLine

\* The shell task ends when a command returns CMD_EXIT.
Reading ==
  /\ Len(log) < MaxLines
  /\ \A i \in 1 .. Len(log) : log[i].ran # << >> => log[i].ran[1] # EXIT

Enter ==
  /\ Reading
  /\ Enters(tab_taken(line, tab), screen)
  /\ UNCHANGED cmdtab

\* A line that fills the buffer is entered without its last character.
Char(c) ==
  /\ Reading
  /\ LET s == Append(tab_taken(line, tab), c)
     IN  IF Len(s) < CMD_LEN_MAX
         THEN /\ line' = s
              /\ screen' = Append(screen, c)
              /\ tab' = NoTab
              /\ UNCHANGED <<index, history, log>>
         ELSE Enters(SubSeq(s, 1, CMD_LEN_MAX - 1), Append(screen, c))
  /\ UNCHANGED cmdtab

Backspace ==
  /\ Reading
  /\ LET s == tab_taken(line, tab)
         n == IF s = << >> THEN 0 ELSE 1
     IN  /\ line' = Erase(s, n)
         /\ screen' = Erase(screen, n)
  /\ tab' = NoTab
  /\ UNCHANGED <<cmdtab, index, history, log>>

\* A first word is completed by cmd_tab, a later one by yaffs_tab; a second Tab
\* starts again from what was typed.  Words that do not fit into the line are left out.
Tab ==
  /\ Reading
  /\ LET prefix == LastWord(line)
         first  == HeadLen(line) = 0
         last   == cmd_tab_last(prefix)
     IN  \E w \in IF ~ first THEN yaffs_tab(prefix)
                  ELSE {IF last = 0 THEN prefix ELSE Commands[last]} :
           /\ HeadLen(line) + Len(w) < CMD_LEN_MAX
           /\ tab' = [have |-> TRUE, word |-> w]
           /\ screen' = Erase(screen, Typed - HeadLen(line)) \o w
           /\ cmdtab' = IF first THEN [prefix |-> prefix, last |-> last] ELSE cmdtab
  /\ UNCHANGED <<line, index, history, log>>

\* _load_history of the node at i, NULL for 0: nothing changes then.
Load(s, i) ==
  /\ line' = IF i = 0 THEN s ELSE history[i]
  /\ screen' = IF i = 0 THEN screen ELSE Erase(screen, Len(s)) \o history[i]
  /\ tab' = NoTab
  /\ index' = i
  /\ UNCHANGED <<cmdtab, history, log>>

\* DL_LAST from NULL, else DL_PREVIOUS.
Up ==
  /\ Reading
  /\ Load(tab_taken(line, tab), IF index = 0 THEN Len(history) ELSE index - 1)

\* DL_NEXT, and NULL stays NULL.
Down ==
  /\ Reading
  /\ Load(tab_taken(line, tab),
          IF index = 0 \/ index = Len(history) THEN 0 ELSE index + 1)

\* Escape, and the keys Right and Left.
Esc ==
  /\ Reading
  /\ line' = tab_taken(line, tab) /\ tab' = NoTab
  /\ UNCHANGED <<screen, cmdtab, index, history, log>>

shellNext ==
  \/ Enter \/ Backspace \/ Tab \/ Up \/ Down \/ Esc
  \/ \E c \in Letter \cup {Blank} : Char(c)

shellSpec == shellInit /\ [][shellNext]_shellVars

-----------------------------------------------------------------------------
\* The user sees what Enter would run: whatever sequence of keys, completions
\* and history lines led here, the screen shows the line as tab_taken would
\* leave it, and a line that was entered is what the screen showed, up to the
\* character that did not fit into the buffer.
ShownIsEntered ==
  /\ screen = tab_taken(line, tab)
  /\ \A i \in 1 .. Len(log) :
       log[i].line = SubSeq(log[i].screen, 1, Len(log[i].line))
         /\ Len(log[i].line) = IF Len(log[i].screen) < CMD_LEN_MAX
                               THEN Len(log[i].screen) ELSE CMD_LEN_MAX - 1

\* The lines that were entered and are not empty.
Entered == {i \in 1 .. Len(log) : log[i].line # << >>}

\* Those that differ from the one before.
Fresh ==
  {i \in Entered : \A j \in Entered :
     j < i /\ (\A k \in Entered : k < i => k <= j) => log[j].line # log[i].line}

\* Up goes back through the last HISTORY_MAX lines, repetitions left out, in the
\* order in which they were entered: recycled nodes never reorder or lose one.
HistoryIsRecent ==
  /\ Len(history) = Min({HISTORY_MAX, Cardinality(Fresh)})
  /\ \A i \in Fresh :
       LET n == Cardinality({j \in Fresh : j >= i})
       IN  n <= HISTORY_MAX => history[Len(history) + 1 - n] = log[i].line
=============================================================================
