------------------------------ MODULE CmdLine -------------------------------
(***************************************************************************)
(* The read-eval loop of run_debugger and the command buffer of cmdline.c: *)
(* lines of input are split into commands at ';' and into tokens at white  *)
(* space, through one buffer of fixed size that keeps an unfinished        *)
(* command from one line to the next.  What a command does is the business *)
(* of Session.                                                             *)
(***************************************************************************)
EXTENDS Integers, Sequences, FiniteSetsExt, SequencesExt

CONSTANTS
  Size,          \* CMD_MAX_SIZE
  Letters,       \* characters other than white space and ';'
  InputLines,    \* the lines that the user may type
  MaxPolls,      \* bound: lines typed in a session
  ExitWord,      \* the word exit
  CommandWords,  \* the other words that match_command knows
  Garbage        \* what cmnd may be taken for before it is assigned

NUL == "NUL"

Chars        == Letters \cup {" ", ";"}
CommandChars == Letters \cup {" "}
Tokens       == Seq(Letters)

ASSUME SizeAssumption == Size \in Nat \ {0}
ASSUME PollsAssumption == MaxPolls \in Nat
ASSUME LettersAssumption == Letters \cap {NUL, " ", ";"} = {}
ASSUME InputAssumption == InputLines \subseteq Seq(Chars)
ASSUME WordsAssumption == CommandWords \subseteq Seq(Letters) /\ ExitWord \in Seq(Letters) \ CommandWords
ASSUME GarbageAssumption == Garbage \subseteq {"exit", "other"} /\ Garbage # {}

VARIABLES
  data,      \* buffer->data
  rseek,     \* buffer->rseek
  wseek,     \* buffer->wseek
  line,      \* line->data
  pos,       \* line->rseek + 1
  at,        \* where in run_debugger the debugger is
  cmnd,      \* run_debugger's cmnd
  argv,      \* history: the tokens that next_token has returned of this command
  drained,   \* history: next_token has returned NULL for this command
  text,      \* history: what was typed since the last command
  overflow,  \* history: some of it did not fit in the buffer
  polls      \* lines typed

buffer  == <<data, rseek, wseek>>
history == <<argv, drained, text, overflow>>
vars    == <<buffer, line, pos, at, cmnd, history, polls>>


TypeOK ==
  /\ data \in [0 .. Size -> Letters \cup {NUL}]
  /\ rseek \in 0 .. Size /\ wseek \in 0 .. Size
  /\ line \in InputLines \cup {<<>>} /\ pos \in 1 .. Len(line) + 1
  /\ at \in {"poll", "parse", "command", "handle", "end"}
  /\ cmnd \in {"exit", "other", "invalid"}
  /\ argv \in Seq(Tokens) /\ drained \in BOOLEAN
  /\ text \in Seq(CommandChars) /\ overflow \in BOOLEAN
  /\ polls \in 0 .. MaxPolls

(* new_buffer leaves what malloc returns, but for the last byte; cmnd has  *)
(* no value yet.                                                           *)
Init ==
  /\ \E c \in Letters \cup {NUL} :
       data = [k \in 0 .. Size |-> IF k = Size THEN NUL ELSE c]
  /\ rseek = 0 /\ wseek = 0
  /\ line = <<>> /\ pos = 1
  /\ at = "poll"
  /\ cmnd \in Garbage
  /\ argv = <<>> /\ drained = FALSE
  /\ text = <<>> /\ overflow = FALSE
  /\ polls = 0
-----------------------------------------------------------------------------
(* The buffer.                                                             *)

peek_buffer_back == IF wseek = 0 THEN NUL ELSE data[wseek - 1]

write_to_buffer(c) ==
  /\ wseek < Size
  /\ data' = [data EXCEPT ![wseek] = c]
  /\ wseek' = wseek + 1
  /\ UNCHANGED rseek

reset_seek == rseek' = 0 /\ wseek' = 0 /\ UNCHANGED data

(* next_token: the characters up to the next NUL, which is skipped; NULL   *)
(* if there are none left.                                                 *)
TokenEnd  == Min({k \in rseek .. Size : data[k] = NUL})
NoToken   == data[rseek] = NUL \/ rseek >= wseek
Token     == [k \in 1 .. TokenEnd - rseek |-> data[rseek + k - 1]]
next_token ==
  /\ \/ NoToken /\ drained' = TRUE /\ UNCHANGED <<rseek, argv>>
     \/ /\ ~NoToken
        /\ rseek' = IF TokenEnd < Size THEN TokenEnd + 1 ELSE Size
        /\ argv' = Append(argv, Token)
        /\ UNCHANGED drained
  /\ UNCHANGED <<data, wseek, text, overflow>>

match_command ==
  IF NoToken THEN "invalid"
  ELSE IF Token = ExitWord THEN "exit"
  ELSE IF Token \in CommandWords THEN "other" ELSE "invalid"
-----------------------------------------------------------------------------
(* The condition of run_debugger's outer loop, which reads cmnd before it  *)
(* has a value, and poll_input, which may meet the end of the input.       *)
poll_input ==
  /\ at = "poll"
  /\ \/ at' = "end" /\ UNCHANGED <<line, pos, polls>>
     \/ /\ cmnd # "exit" /\ polls < MaxPolls
        /\ line' \in InputLines /\ pos' = 1
        /\ polls' = polls + 1
        /\ at' = "parse"
  /\ UNCHANGED <<buffer, cmnd, history>>

(* One character of parse_input.  The character that does not fit is       *)
(* consumed; run_debugger empties the buffer and parses on behind it.      *)
Overflow ==
  /\ wseek >= Size
  /\ reset_seek
  /\ cmnd' = "invalid"
  /\ overflow' = TRUE
  /\ UNCHANGED at

Keep(c) == write_to_buffer(c) /\ UNCHANGED <<at, cmnd, overflow>>

(* In a mutant: ';' leaves the last token without its NUL.                 *)
EndsWithoutNul ==
  /\ at = "parse" /\ pos <= Len(line)
  /\ pos' = pos + 1
  /\ \/ line[pos] = ";" /\ at' = "command" /\ UNCHANGED <<buffer, cmnd, overflow, text>>
     \/ line[pos] \in Letters /\ (Keep(line[pos]) \/ Overflow) /\ text' = Append(text, line[pos])
     \/ line[pos] = " " /\ (Keep(NUL) \/ Overflow) /\ text' = Append(text, " ")
  /\ UNCHANGED <<line, argv, drained, polls>>

parse_input ==
  /\ at = "parse" /\ pos <= Len(line)
  /\ pos' = pos + 1
  /\ \/ /\ line[pos] = ";"
        /\ write_to_buffer(NUL) \/ (wseek >= Size /\ UNCHANGED buffer)
        /\ at' = "command"
        /\ UNCHANGED <<cmnd, overflow, text>>
     \/ /\ line[pos] \in Letters
        /\ Keep(line[pos]) \/ Overflow
        /\ text' = Append(text, line[pos])
     \/ /\ line[pos] = " "
        /\ \/ peek_buffer_back # NUL /\ (Keep(NUL) \/ Overflow)
           \/ peek_buffer_back = NUL /\ UNCHANGED <<buffer, at, cmnd, overflow>>
        /\ text' = Append(text, " ")
  /\ UNCHANGED <<line, argv, drained, polls>>

(* In a mutant: the end of the line is nothing.                            *)
JoinsLines ==
  /\ at = "parse" /\ pos > Len(line)
  /\ at' = "poll"
  /\ line' = <<>> /\ pos' = 1
  /\ text' = Append(text, " ")
  /\ UNCHANGED <<buffer, cmnd, argv, drained, overflow, polls>>

(* The end of the line ends a token, not a command.                        *)
LineEnd ==
  /\ at = "parse" /\ pos > Len(line)
  /\ \/ peek_buffer_back # NUL /\ write_to_buffer(NUL)
     \/ (peek_buffer_back = NUL \/ wseek >= Size) /\ UNCHANGED buffer
  /\ at' = "poll"
  /\ line' = <<>> /\ pos' = 1
  /\ text' = Append(text, " ")
  /\ UNCHANGED <<cmnd, argv, drained, overflow, polls>>

(* The first token names the command.                                      *)
Command ==
  /\ at = "command"
  /\ next_token
  /\ cmnd' = match_command
  /\ at' = IF cmnd' = "exit" THEN "end" ELSE "handle"
  /\ UNCHANGED <<line, pos, polls>>

(* handle_command: the handler asks for as many tokens as it wants.        *)
HandlerReads ==
  /\ at = "handle" /\ cmnd = "other" /\ ~drained
  /\ next_token
  /\ UNCHANGED <<line, pos, at, cmnd, polls>>

(* In a mutant: parse_input is not called again.                           *)
HandlesAgain ==
  /\ at = "handle"
  /\ reset_seek
  /\ at' = "command"
  /\ argv' = <<>> /\ drained' = FALSE
  /\ UNCHANGED <<line, pos, cmnd, text, overflow, polls>>

HandlerReturns ==
  /\ at = "handle"
  /\ \/ /\ cmnd = "other"
        /\ at' = "end"
        /\ UNCHANGED <<buffer, history>>
     \/ /\ reset_seek
        /\ at' = "parse"
        /\ argv' = <<>> /\ drained' = FALSE
        /\ text' = <<>> /\ overflow' = FALSE
  /\ UNCHANGED <<line, pos, cmnd, polls>>

Loop == parse_input \/ LineEnd \/ Command \/ HandlerReads \/ HandlerReturns

Next == poll_input \/ Loop \/ (at = "end" /\ UNCHANGED vars)
Spec == Init /\ [][Next]_vars

(* The debugger is one thread, and its handlers return (PromptReturns of   *)
(* Session); the user need not type.                                       *)
FairSpec == Spec /\ WF_vars(Loop)
-----------------------------------------------------------------------------
(* The words of a text: its maximal runs of letters, in their order.       *)
Blank(c)      == c = " "
Run(t, k)     == {n \in k .. Len(t) : \A l \in k .. n : ~Blank(t[l])}
WordAt(t, k)  == SubSeq(t, k, Max(Run(t, k)))
WordStarts(t) == {k \in 1 .. Len(t) : ~Blank(t[k]) /\ (k = 1 \/ Blank(t[k - 1]))}
Nth(S, n)     == {k \in S : Cardinality({j \in S : j <= k}) = n}
Only(S)       == CHOOSE k \in S : TRUE
Words(t)      == [n \in 1 .. Cardinality(WordStarts(t)) |-> WordAt(t, Only(Nth(WordStarts(t), n)))]

(* A handler sees the words that were typed since the last ';', over       *)
(* however many lines, and nothing of the commands that the buffer held    *)
(* before; NULL means that there are no more.  What did not fit in the     *)
(* buffer is the exception.                                                *)
CommandAsTyped ==
  at \in {"command", "handle"} /\ ~overflow =>
    /\ IsPrefix(argv, Words(text))
    /\ drained => argv = Words(text)

(* No token reaches into bytes that this command has not written, and the  *)
(* byte behind the buffer stays NUL: next_token always meets an end.       *)
TokensFresh ==
  /\ data[Size] = NUL
  /\ at \in {"command", "handle"} /\ ~NoToken => TokenEnd <= wseek

(* A line is parsed to its end, whatever overflows, unless the session     *)
(* ends first.                                                             *)
LineIsConsumed == at = "parse" ~> at \in {"poll", "end"}
=============================================================================
