-------------------------------- MODULE Scanner --------------------------------
(***************************************************************************)
(* The rules of src/src/scanner.flex: start conditions, the buffer for     *)
(* strings and the line counter.                                           *)
(*                                                                         *)
(* Characters are classes: `n` and `0` stand for themselves, `other` for   *)
(* the rest, those that begin a token and those, like `#` or a lone `&`,   *)
(* that only the last rule takes.  The rules for tokens of INITIAL that    *)
(* take no quotes are one, `Token`, a character at a time.                 *)
(* Of two rules flex takes the one with the longer match, then the first.  *)
(* The parser is presumed to ask for tokens until one is TOKEN_ERROR,      *)
(* which no rule of the grammar accepts.  The value of a string token is   *)
(* left out: it is a copy on the stack of a function that has returned.    *)
(***************************************************************************)
EXTENDS Naturals, Sequences, FiniteSets

CONSTANTS MAX_STR_CONST,  \* size of str_buf, 256 in the code
          MaxLen          \* bound: length of the file

ASSUME ScannerAssumption == MAX_STR_CONST \in Nat \ {0} /\ MaxLen \in Nat

Chars == {"quote", "apostrophe", "backslash", "n", "0", "newline", "null", "star", "slash", "other"}

VARIABLES
  input,      \* the file
  pos,        \* the next character
  start,      \* the start condition
  text,       \* str_buf up to str_buf_ptr
  written,    \* history: the number of cells of str_buf written to
  curr_line,
  opened,     \* history: where the string or comment being read, or the last one, begins
  ended       \* how scanning has ended, if it has

vars == <<input, pos, start, text, written, curr_line, opened, ended>>

At(p) == IF p <= Len(input) THEN input[p] ELSE "eof"

\* The first position from p on that has none of these characters.
EndOf(chars, p) ==
  CHOOSE q \in p .. Len(input) + 1 :
    At(q) \notin chars /\ \A o \in p .. q - 1 : At(o) \in chars

-----------------------------------------------------------------------------
Scanning(condition) == ended = "no" /\ start = condition

\* A rule matches up to, not including, p.
Match(p) == pos' = p /\ UNCHANGED <<input, ended>>
Error(p, what) == pos' = p /\ ended' = what /\ UNCHANGED input

BEGIN(condition) == start' = condition
Stay == UNCHANGED start
NoText == UNCHANGED <<text, written, opened>>
SameLine == UNCHANGED curr_line
NextLine == curr_line' = curr_line + 1

-----------------------------------------------------------------------------
(* INITIAL                                                                 *)

\* White space, punctuation, numbers, names, operators.
Token ==
  /\ Scanning("INITIAL")
  /\ \/ At(pos) \in {"n", "0", "star", "other"}
     \/ At(pos) = "slash" /\ At(pos + 1) \notin {"slash", "star"}
     \* a line comment needs its newline, without it there are two divisions
     \/ At(pos) = "slash" /\ At(pos + 1) = "slash" /\ At(EndOf(Chars \ {"newline"}, pos)) = "eof"
  /\ Match(pos + 1) /\ Stay /\ NoText /\ SameLine

Newline == Scanning("INITIAL") /\ At(pos) = "newline" /\ Match(pos + 1) /\ Stay /\ NoText /\ NextLine

\* Mutant: a line comment is eaten with its newline, uncounted.
LineComment_Uncounted ==
  LET end == EndOf(Chars \ {"newline"}, pos)
  IN  /\ Scanning("INITIAL") /\ At(pos) = "slash" /\ At(pos + 1) = "slash" /\ At(end) = "newline"
      /\ Match(end + 1) /\ Stay /\ NoText /\ SameLine

LineComment ==
  LET end == EndOf(Chars \ {"newline"}, pos)
  IN  /\ Scanning("INITIAL") /\ At(pos) = "slash" /\ At(pos + 1) = "slash" /\ At(end) = "newline"
      /\ Match(end + 1) /\ Stay /\ NoText /\ NextLine

\* Mutant: the closing apostrophe is not looked for.
IsEscapedChar_Unclosed == At(pos + 1) = "backslash" /\ At(pos + 2) \in {"n", "0"}

\* '.' and '\n' and '\0'
IsChar == At(pos + 1) \notin {"newline", "eof"} /\ At(pos + 2) = "apostrophe"
IsEscapedChar == At(pos + 1) = "backslash" /\ At(pos + 2) \in {"n", "0"} /\ At(pos + 3) = "apostrophe"

CharLiteral ==
  /\ Scanning("INITIAL") /\ At(pos) = "apostrophe"
  /\ \/ IsChar /\ Match(pos + 3)
     \/ IsEscapedChar /\ Match(pos + 4)
  /\ Stay /\ NoText /\ SameLine

Unexpected ==
  /\ Scanning("INITIAL")
  /\ \/ At(pos) \in {"backslash", "null", "other"}
     \/ At(pos) = "apostrophe" /\ ~IsChar /\ ~IsEscapedChar
  /\ Error(pos + 1, "unexpected token") /\ Stay /\ NoText /\ SameLine

StringBegin ==
  /\ Scanning("INITIAL") /\ At(pos) = "quote"
  /\ Match(pos + 1) /\ BEGIN("STR")
  /\ text' = <<>> /\ opened' = pos
  /\ UNCHANGED written /\ SameLine

CommentBegin ==
  /\ Scanning("INITIAL") /\ At(pos) = "slash" /\ At(pos + 1) = "star"
  /\ Match(pos + 2) /\ BEGIN("COMMENT")
  /\ opened' = pos
  /\ UNCHANGED <<text, written>> /\ SameLine

EndOfFile ==
  /\ Scanning("INITIAL") /\ At(pos) = "eof"
  /\ Error(pos, "end") /\ Stay /\ NoText /\ SameLine

-----------------------------------------------------------------------------
(* STR                                                                     *)

Larger(a, b) == IF a < b THEN b ELSE a

str_len_check(length, size) == length + size > MAX_STR_CONST - 1

Write(c) == text' = Append(text, c) /\ written' = Larger(written, Len(text) + 1)

StringEnd ==
  /\ Scanning("STR") /\ At(pos) = "quote"
  /\ Match(pos + 1) /\ BEGIN("INITIAL")
  /\ written' = Larger(written, Len(text) + 1)
  /\ UNCHANGED <<text, opened>> /\ SameLine

\* Mutant: a backslash before a newline stands for a newline.
Continuation_Stored ==
  /\ Scanning("STR") /\ At(pos) = "backslash" /\ At(pos + 1) = "newline"
  /\ Match(pos + 2) /\ Stay
  /\ Write("newline") /\ UNCHANGED opened
  /\ NextLine

Continuation ==
  /\ Scanning("STR") /\ At(pos) = "backslash" /\ At(pos + 1) = "newline"
  /\ Match(pos + 2) /\ Stay /\ NoText /\ NextLine

\* What the character after a backslash is stored as.
Escaped(c) == IF c = "n" THEN "newline" ELSE IF c = "0" THEN "null" ELSE c

\* Mutant: an escape is stored unchecked.
Escape_Unchecked ==
  LET c == At(pos + 1)
  IN  /\ Scanning("STR") /\ At(pos) = "backslash" /\ c \notin {"newline", "eof"}
      /\ Match(pos + 2) /\ Stay
      /\ Write(Escaped(c)) /\ UNCHANGED opened
      /\ SameLine

Escape ==
  LET c == At(pos + 1)
  IN  /\ Scanning("STR") /\ At(pos) = "backslash" /\ c \notin {"newline", "eof"}
      /\ IF str_len_check(Len(text), 1)
         THEN Error(pos + 2, "too long") /\ BEGIN("INITIAL") /\ NoText
         ELSE /\ Match(pos + 2) /\ Stay
              /\ Write(Escaped(c))
              /\ UNCHANGED opened
      /\ SameLine

\* Any other character is stored first and then looked at.
Character ==
  /\ Scanning("STR")
  /\ \/ At(pos) \notin {"quote", "backslash", "newline", "null", "eof"}
     \/ At(pos) = "backslash" /\ At(pos + 1) = "eof"
  /\ Write(At(pos))
  /\ IF str_len_check(Len(text) + 1, 0)
     THEN Error(pos + 1, "too long") /\ BEGIN("INITIAL")
     ELSE Match(pos + 1) /\ Stay
  /\ UNCHANGED opened /\ SameLine

StringBroken ==
  /\ Scanning("STR")
  /\ \/ At(pos) = "eof" /\ Error(pos, "EOF in string") /\ Stay /\ SameLine
     \/ At(pos) = "newline" /\ Error(pos + 1, "newline in string") /\ BEGIN("INITIAL") /\ NextLine
     \/ At(pos) = "null" /\ Error(pos + 1, "null in string") /\ Stay /\ SameLine
  /\ NoText

-----------------------------------------------------------------------------
(* COMMENT                                                                 *)

CommentText ==
  /\ Scanning("COMMENT") /\ At(pos) \notin {"star", "newline", "eof"}
  /\ Match(EndOf(Chars \ {"star", "newline"}, pos)) /\ Stay /\ NoText /\ SameLine

\* Asterisks and what follows them, up to a slash.
AfterStars(p) == EndOf(Chars \ {"star", "slash", "newline"}, EndOf({"star"}, p))

\* This match is the longer one, unless there is one asterisk and then a slash.
CommentStars ==
  /\ Scanning("COMMENT") /\ At(pos) = "star"
  /\ At(pos + 1) = "slash" => AfterStars(pos) > pos + 2
  /\ Match(AfterStars(pos)) /\ Stay /\ NoText /\ SameLine

CommentEnd ==
  /\ Scanning("COMMENT") /\ At(pos) = "star" /\ At(pos + 1) = "slash" /\ AfterStars(pos) <= pos + 2
  /\ Match(pos + 2) /\ BEGIN("INITIAL") /\ NoText /\ SameLine

CommentNewline ==
  Scanning("COMMENT") /\ At(pos) = "newline" /\ Match(pos + 1) /\ Stay /\ NoText /\ NextLine

CommentBroken ==
  /\ Scanning("COMMENT") /\ At(pos) = "eof"
  /\ Error(pos, "EOF in comment") /\ Stay /\ NoText /\ SameLine

-----------------------------------------------------------------------------
Ended == ended # "no" /\ UNCHANGED vars

Init ==
  /\ input \in UNION {[1 .. n -> Chars] : n \in 0 .. MaxLen}
  /\ pos = 1 /\ start = "INITIAL" /\ text = <<>> /\ written = 0
  /\ curr_line = 0 /\ opened = 0 /\ ended = "no"

Next ==
  \/ Token \/ Newline \/ LineComment \/ CharLiteral \/ Unexpected \/ StringBegin \/ CommentBegin
  \/ EndOfFile \/ StringEnd \/ Continuation \/ Escape \/ Character \/ StringBroken
  \/ CommentText \/ CommentStars \/ CommentEnd \/ CommentNewline \/ CommentBroken \/ Ended

Spec == Init /\ [][Next]_vars

-----------------------------------------------------------------------------
(* Properties                                                              *)

\* The scanner stays within the file, in one of the conditions of
\* scanner.flex:20 and 21, and stores characters only.
TypeOK ==
  /\ input \in Seq(Chars) /\ Len(input) <= MaxLen
  /\ pos \in 1 .. Len(input) + 1
  /\ start \in {"INITIAL", "STR", "COMMENT"}
  /\ text \in Seq(Chars)
  /\ written \in Nat /\ curr_line \in Nat
  /\ opened \in 0 .. Len(input)
  /\ ended \in {"no", "end", "unexpected token", "too long", "EOF in string",
                "newline in string", "null in string", "EOF in comment"}

\* Nothing is written past str_buf, the final zero included, although `.`
\* stores its character before it looks at the length and an escape after.
BufferInBounds == written <= MAX_STR_CONST

\* The line an error is reported at is the one scanning has come to, across
\* comments of both kinds, continued strings and a string broken by a newline.
LinesCounted == curr_line = Cardinality({p \in 1 .. pos - 1 : input[p] = "newline"})

\* Within a string, the last character before p that is not a backslash.
Unslashed(p) ==
  CHOOSE q \in opened .. p - 1 :
    input[q] # "backslash" /\ \A o \in q + 1 .. p - 1 : input[o] = "backslash"

\* An odd number of backslashes precede the character.
IsEscaped(p) == (p - Unslashed(p)) % 2 = 0

\* A character that stands for one of the string: not a backslash that escapes
\* the next one, nor the newline of a continued line.
IsSaid(o) == IF IsEscaped(o) THEN input[o] # "newline" ELSE input[o] # "backslash" \/ At(o + 1) = "eof"

\* What the part of a string before p says, and how each of it is stored.
Said(p) == {o \in opened + 1 .. p - 1 : IsSaid(o)}
Stored(o) == IF IsEscaped(o) THEN Escaped(input[o]) ELSE input[o]

\* A string in str_buf is what the source says between the quotes, in order,
\* whichever of its characters are escaped or continue the line, and it is
\* refused as too long only when there is no room for it and the final zero.
StoredAsSaid ==
  /\ start = "STR" /\ ended = "no" =>
       /\ Len(text) = Cardinality(Said(pos))
       /\ \A o \in Said(pos) : text[Cardinality(Said(o + 1))] = Stored(o)
  /\ ended = "too long" => Cardinality(Said(pos)) = MAX_STR_CONST

\* Inside a comment, scanning has gone past no star and slash but such a pair
\* that another star of the comment precedes.
CommentExtent ==
  start = "COMMENT" =>
    /\ opened + 2 <= pos
    /\ \A p \in opened + 2 .. pos - 2 :
         input[p] = "star" /\ input[p + 1] = "slash" => p > opened + 2 /\ input[p - 1] = "star"

\* What scanner.flex:180 says of the rule for asterisks, that it eats those
\* without a closing slash: no star and slash is inside a comment.
CommentsClosed ==
  start = "COMMENT" =>
    ~\E p \in opened + 2 .. pos - 2 : input[p] = "star" /\ input[p + 1] = "slash"

================================================================================
