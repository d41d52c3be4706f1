----------------------------- MODULE ScannerProofs -----------------------------
EXTENDS Scanner, Recursion, FiniteSetTheorems

(***************************************************************************)
(* The inductive invariant.  A string being read leaves a cell of str_buf  *)
(* free.  A comment never comes to a slash with one star alone before it:  *)
(* the rule for its end would have taken both.                             *)
(***************************************************************************)
RoomInBuffer == start = "STR" => Len(text) < MAX_STR_CONST

PastStars ==
  start = "COMMENT" /\ At(pos) = "slash" /\ pos > opened + 2 /\ input[pos - 1] = "star" =>
    pos > opened + 3 /\ input[pos - 2] = "star"

\* A string being read began at a quote, and the next rule of it does not
\* begin with a character that a backslash before it escapes.
InString ==
  start = "STR" =>
    /\ opened \in 1 .. pos - 1 /\ input[opened] = "quote"
    /\ ended = "no" => ~IsEscaped(pos) \/ pos = Len(input) + 1

IInv == /\ TypeOK /\ BufferInBounds /\ RoomInBuffer /\ LinesCounted /\ CommentExtent /\ PastStars
        /\ InString /\ StoredAsSaid

-----------------------------------------------------------------------------
(* Positions.                                                              *)

\* A pattern matches as far as its characters go, at most to the end.
LEMMA EndOfFacts ==
  ASSUME input \in Seq(Chars), NEW chars \in SUBSET Chars, NEW p \in 1 .. Len(input) + 1
  PROVE  /\ EndOf(chars, p) \in p .. Len(input) + 1
         /\ At(EndOf(chars, p)) \notin chars
         /\ \A o \in p .. EndOf(chars, p) - 1 : At(o) \in chars
<1> DEFINE S == {q \in p .. Len(input) + 1 : At(q) \notin chars}
<1>1. Len(input) + 1 \in S
  BY DEF At, Chars
<1>2. PICK q \in S : \A c \in S : ~(c < q)
  <2>1. S \in SUBSET Nat /\ S # {}
    BY <1>1
  <2>2. QED
    BY <2>1, Least
<1>3. \A o \in p .. q - 1 : At(o) \in chars
  BY <1>2
<1>4. QED
  BY <1>2, <1>3 DEF EndOf

\* Asterisks, then text without one, a slash or a newline.
LEMMA AfterStarsFacts ==
  ASSUME input \in Seq(Chars), NEW p \in 1 .. Len(input) + 1
  PROVE  /\ AfterStars(p) \in p .. Len(input) + 1
         /\ \A o \in p .. AfterStars(p) - 1 : At(o) # "newline" /\ At(o) # "slash"
         /\ \A o \in p + 1 .. AfterStars(p) - 1 : At(o) = "star" => At(o - 1) = "star"
         /\ At(AfterStars(p)) = "slash" /\ At(AfterStars(p) - 1) = "star" =>
              \A o \in p .. AfterStars(p) - 1 : At(o) = "star"
<1> DEFINE stars == EndOf({"star"}, p)
           end == EndOf(Chars \ {"star", "slash", "newline"}, stars)
<1>1. stars \in p .. Len(input) + 1 /\ \A o \in p .. stars - 1 : At(o) = "star"
  BY EndOfFacts DEF Chars
<1>2. stars \in 1 .. Len(input) + 1
  BY <1>1
<1> HIDE DEF stars
<1>3. /\ end \in stars .. Len(input) + 1
      /\ \A o \in stars .. end - 1 : At(o) \in Chars \ {"star", "slash", "newline"}
  BY <1>2, EndOfFacts
<1> HIDE DEF end
<1>4. AfterStars(p) = end
  BY DEF AfterStars, stars, end
<1>5. \A o \in p .. end - 1 : o \in p .. stars - 1 \/ o \in stars .. end - 1
  BY <1>1, <1>3
<1>6. QED
  BY <1>1, <1>3, <1>4, <1>5

\* The lines that begin before p.
LinesBefore(p) == Cardinality({o \in 1 .. p - 1 : input[o] = "newline"})

LEMMA SameLines ==
  ASSUME input \in Seq(Chars), NEW p \in 1 .. Len(input) + 1, NEW q \in p .. Len(input) + 1,
         \A o \in p .. q - 1 : input[o] # "newline"
  PROVE  LinesBefore(q) = LinesBefore(p)
<1>1. {o \in 1 .. q - 1 : input[o] = "newline"} = {o \in 1 .. p - 1 : input[o] = "newline"}
  OBVIOUS
<1>2. QED
  BY <1>1 DEF LinesBefore

LEMMA OneLine ==
  ASSUME input \in Seq(Chars), NEW p \in 1 .. Len(input) + 1, NEW q \in p + 1 .. Len(input) + 1,
         \A o \in p .. q - 2 : input[o] # "newline", input[q - 1] = "newline"
  PROVE  LinesBefore(q) = LinesBefore(p) + 1
<1> DEFINE S == {o \in 1 .. p - 1 : input[o] = "newline"}
<1>1. {o \in 1 .. q - 1 : input[o] = "newline"} = S \cup {q - 1}
  OBVIOUS
<1>2. q - 1 \notin S
  OBVIOUS
<1>3. IsFiniteSet(S)
  <2>1. IsFiniteSet(1 .. p - 1)
    BY FS_Interval
  <2>2. S \subseteq 1 .. p - 1
    OBVIOUS
  <2>3. QED
    BY <2>1, <2>2, FS_Subset
<1> HIDE DEF S
<1>4. Cardinality(S \cup {q - 1}) = Cardinality(S) + 1
  BY <1>2, <1>3, FS_AddElement
<1>5. QED
  BY <1>1, <1>4 DEF LinesBefore, S

-----------------------------------------------------------------------------
(* How far each rule takes the scanner, and over which characters.         *)

Over(q) == /\ q \in pos .. Len(input) + 1
           /\ \A o \in pos .. q - 1 : input[o] # "newline"

OverNewline(q) == /\ q \in pos + 1 .. Len(input) + 1
                  /\ \A o \in pos .. q - 2 : input[o] # "newline"
                  /\ input[q - 1] = "newline"

Moves == /\ input' = input
         /\ \/ Over(pos') /\ curr_line' = curr_line
            \/ OverNewline(pos') /\ curr_line' = curr_line + 1

\* Every rule that meets a newline counts it, and meets it last.
LEMMA NextMoves ==
  ASSUME TypeOK, Next
  PROVE  Moves
<1> USE DEF Match, Error, SameLine, NextLine
<1>1. input \in Seq(Chars) /\ Len(input) \in Nat /\ pos \in 1 .. Len(input) + 1
  <2>1. input \in Seq(Chars) /\ pos \in 1 .. Len(input) + 1
    BY DEF TypeOK
  <2>2. QED
    BY <2>1
<1>2. \A p \in Nat \ {0} : p <= Len(input) => At(p) = input[p]
  BY DEF At
<1>3. \A p \in Nat \ {0} : At(p) # "eof" => p <= Len(input)
  BY DEF At
<1>4. ASSUME pos' = pos, UNCHANGED input, SameLine  PROVE Moves
  BY <1>1, <1>4 DEF Moves, Over
<1>5. ASSUME pos' = pos + 1, UNCHANGED input, SameLine, At(pos) \notin {"newline", "eof"}
      PROVE  Moves
  <2>1. pos <= Len(input) /\ input[pos] # "newline"
    BY <1>1, <1>2, <1>3, <1>5
  <2>2. QED
    BY <1>1, <1>5, <2>1 DEF Moves, Over
<1>6. ASSUME pos' = pos + 2, UNCHANGED input, SameLine,
             At(pos) \notin {"newline", "eof"}, At(pos + 1) \notin {"newline", "eof"}
      PROVE  Moves
  <2>1. pos + 1 <= Len(input) /\ input[pos] # "newline" /\ input[pos + 1] # "newline"
    BY <1>1, <1>2, <1>3, <1>6
  <2>2. QED
    BY <1>1, <1>6, <2>1 DEF Moves, Over
<1>7. ASSUME pos' = pos + 1, UNCHANGED input, NextLine, At(pos) = "newline"
      PROVE  Moves
  <2>1. pos <= Len(input) /\ input[pos] = "newline"
    BY <1>1, <1>2, <1>3, <1>7
  <2>2. QED
    BY <1>1, <1>7, <2>1 DEF Moves, OverNewline
<1>8. CASE Token
  BY <1>5, <1>8 DEF Token
<1>9. CASE Newline
  BY <1>7, <1>9 DEF Newline
<1>10. CASE LineComment
  <2> DEFINE end == EndOf(Chars \ {"newline"}, pos)
  <2>1. end \in pos .. Len(input) + 1 /\ \A o \in pos .. end - 1 : At(o) \in Chars \ {"newline"}
    BY <1>1, EndOfFacts
  <2>2. At(end) = "newline" /\ pos' = end + 1 /\ UNCHANGED input /\ NextLine
    BY <1>10 DEF LineComment
  <2> HIDE DEF end
  <2>3. end <= Len(input) /\ input[end] = "newline"
    BY <1>1, <1>2, <1>3, <2>1, <2>2
  <2>4. \A o \in pos .. end - 1 : input[o] # "newline"
    BY <1>1, <1>2, <2>1
  <2>5. QED
    BY <1>1, <2>1, <2>2, <2>3, <2>4 DEF Moves, OverNewline
<1>11. CASE CharLiteral
  <2>1. At(pos) = "apostrophe" /\ UNCHANGED input /\ SameLine
    BY <1>11 DEF CharLiteral
  <2>2. CASE IsChar /\ pos' = pos + 3
    <3>1. /\ pos + 2 <= Len(input)
          /\ input[pos] # "newline" /\ input[pos + 1] # "newline" /\ input[pos + 2] # "newline"
      BY <1>1, <1>2, <1>3, <2>1, <2>2 DEF IsChar
    <3>2. QED
      BY <1>1, <2>1, <2>2, <3>1 DEF Moves, Over
  <2>3. CASE IsEscapedChar /\ pos' = pos + 4
    <3>1. /\ pos + 3 <= Len(input)
          /\ input[pos] # "newline" /\ input[pos + 1] # "newline"
          /\ input[pos + 2] # "newline" /\ input[pos + 3] # "newline"
      BY <1>1, <1>2, <1>3, <2>1, <2>3 DEF IsEscapedChar
    <3>2. QED
      BY <1>1, <2>1, <2>3, <3>1 DEF Moves, Over
  <2>4. QED
    BY <1>11, <2>2, <2>3 DEF CharLiteral
<1>12. CASE Unexpected
  BY <1>5, <1>12 DEF Unexpected
<1>13. CASE StringBegin
  BY <1>5, <1>13 DEF StringBegin
<1>14. CASE CommentBegin
  BY <1>6, <1>14 DEF CommentBegin
<1>15. CASE EndOfFile
  BY <1>4, <1>15 DEF EndOfFile
<1>16. CASE StringEnd
  BY <1>5, <1>16 DEF StringEnd
<1>17. CASE Continuation
  <2>1. /\ At(pos) = "backslash" /\ At(pos + 1) = "newline"
        /\ pos' = pos + 2 /\ UNCHANGED input /\ NextLine
    BY <1>17 DEF Continuation
  <2>2. pos + 1 <= Len(input) /\ input[pos] # "newline" /\ input[pos + 1] = "newline"
    BY <1>1, <1>2, <1>3, <2>1
  <2>3. QED
    BY <1>1, <2>1, <2>2 DEF Moves, OverNewline
<1>18. CASE Escape
  BY <1>6, <1>18 DEF Escape
<1>19. CASE Character
  BY <1>5, <1>19 DEF Character
<1>20. CASE StringBroken
  BY <1>4, <1>5, <1>7, <1>20 DEF StringBroken
<1>21. CASE CommentText
  <2> DEFINE end == EndOf(Chars \ {"star", "newline"}, pos)
  <2>1. end \in pos .. Len(input) + 1 /\ \A o \in pos .. end - 1 : At(o) \in Chars \ {"star", "newline"}
    BY <1>1, EndOfFacts
  <2>2. pos' = end /\ UNCHANGED input /\ SameLine
    BY <1>21 DEF CommentText
  <2> HIDE DEF end
  <2>3. \A o \in pos .. end - 1 : input[o] # "newline"
    BY <1>1, <1>2, <2>1
  <2>4. QED
    BY <1>1, <2>1, <2>2, <2>3 DEF Moves, Over
<1>22. CASE CommentStars
  <2>1. /\ AfterStars(pos) \in pos .. Len(input) + 1
        /\ \A o \in pos .. AfterStars(pos) - 1 : At(o) # "newline"
    BY <1>1, AfterStarsFacts, Zenon
  <2>2. pos' = AfterStars(pos) /\ UNCHANGED input /\ SameLine
    BY <1>22 DEF CommentStars
  <2>3. \A o \in pos .. AfterStars(pos) - 1 : input[o] # "newline"
    BY <1>1, <1>2, <2>1
  <2>4. QED
    BY <1>1, <2>1, <2>2, <2>3 DEF Moves, Over
<1>23. CASE CommentEnd
  BY <1>6, <1>23 DEF CommentEnd
<1>24. CASE CommentNewline
  BY <1>7, <1>24 DEF CommentNewline
<1>25. CASE CommentBroken
  BY <1>4, <1>25 DEF CommentBroken
<1>26. CASE Ended
  BY <1>4, <1>26 DEF Ended, vars
<1>27. QED
  BY <1>8, <1>9, <1>10, <1>11, <1>12, <1>13, <1>14, <1>15, <1>16, <1>17, <1>18, <1>19,
     <1>20, <1>21, <1>22, <1>23, <1>24, <1>25, <1>26 DEF Next

-----------------------------------------------------------------------------
(* The invariant is inductive.                                             *)

LEMMA InitIInv == Init => IInv
<1> SUFFICES ASSUME Init PROVE IInv
  OBVIOUS
<1>1. PICK n \in 0 .. MaxLen : input \in [1 .. n -> Chars]
  BY DEF Init
<1>2. input \in Seq(Chars) /\ Len(input) = n
  BY <1>1, ScannerAssumption
<1>3. TypeOK
  <2>1. text \in Seq(Chars)
    BY DEF Init
  <2>2. QED
    BY <1>1, <1>2, <2>1, ScannerAssumption DEF Init, TypeOK
<1>4. LinesCounted
  <2>1. {p \in 1 .. pos - 1 : input[p] = "newline"} = {}
    BY DEF Init
  <2>2. QED
    BY <2>1, FS_EmptySet DEF Init, LinesCounted
<1>5. QED
  BY <1>3, <1>4, ScannerAssumption
     DEF Init, IInv, BufferInBounds, RoomInBuffer, CommentExtent, PastStars, InString, StoredAsSaid

\* Whatever a step does, it moves within the file and counts its lines.
LEMMA NextLines ==
  ASSUME TypeOK, LinesCounted, Next
  PROVE  LinesCounted'
<1>1. input \in Seq(Chars) /\ Len(input) \in Nat /\ pos \in 1 .. Len(input) + 1
  <2>1. input \in Seq(Chars) /\ pos \in 1 .. Len(input) + 1
    BY DEF TypeOK
  <2>2. QED
    BY <2>1
<1>2. Moves
  BY NextMoves
<1>3. curr_line = LinesBefore(pos) /\ LinesCounted' = (curr_line' = LinesBefore(pos'))
  BY <1>2 DEF LinesCounted, LinesBefore, Moves
<1>4. CASE Over(pos') /\ curr_line' = curr_line
  BY <1>1, <1>3, <1>4, SameLines DEF Over
<1>5. CASE OverNewline(pos') /\ curr_line' = curr_line + 1
  BY <1>1, <1>3, <1>5, OneLine DEF OverNewline
<1>6. QED
  BY <1>2, <1>4, <1>5 DEF Moves

\* Strings: a character is stored where the test of the length has left room.
Stores == /\ text' \in Seq(Chars) /\ written' \in Nat
          /\ BufferInBounds' /\ RoomInBuffer'

LEMMA NextStores ==
  ASSUME TypeOK, BufferInBounds, RoomInBuffer, Next
  PROVE  Stores
<1> USE DEF Scanning, BEGIN, Stay, NoText, Match, Error
<1>1. /\ text \in Seq(Chars) /\ written \in Nat /\ written <= MAX_STR_CONST
      /\ MAX_STR_CONST \in Nat \ {0} /\ Len(text) \in Nat
  <2>1. text \in Seq(Chars)
    BY DEF TypeOK
  <2>2. Len(text) \in Nat
    BY <2>1
  <2>3. written \in Nat /\ written <= MAX_STR_CONST
    BY DEF TypeOK, BufferInBounds
  <2>4. QED
    BY <2>1, <2>2, <2>3, ScannerAssumption
<1>2. \A p \in Nat \ {0} : At(p) # "eof" => At(p) \in Chars
  <2>1. input \in Seq(Chars)
    BY DEF TypeOK
  <2>2. QED
    BY <2>1 DEF At
<1>3. pos \in Nat \ {0}
  <2>1. input \in Seq(Chars) /\ pos \in 1 .. Len(input) + 1
    BY DEF TypeOK
  <2>2. QED
    BY <2>1
<1>4. ASSUME UNCHANGED <<text, written>>, start' # "STR" \/ start' = start  PROVE Stores
  BY <1>1, <1>4 DEF Stores, BufferInBounds, RoomInBuffer
<1>5. ASSUME NEW c \in Chars, start = "STR", Write(c), start' = "STR" => Len(text) + 1 < MAX_STR_CONST
      PROVE  Stores
  <2>1. Len(text) < MAX_STR_CONST
    BY <1>5 DEF RoomInBuffer
  <2>2. text' = Append(text, c) /\ text' \in Seq(Chars) /\ Len(text') = Len(text) + 1
    BY <1>1, <1>5 DEF Write
  <2>3. written' \in Nat /\ written' <= MAX_STR_CONST
    BY <1>1, <1>5, <2>1 DEF Write, Larger
  <2>4. QED
    BY <1>5, <2>2, <2>3 DEF Stores, BufferInBounds, RoomInBuffer
<1>6. CASE StringBegin
  <2>1. text' = <<>> /\ written' = written
    BY <1>6 DEF StringBegin
  <2>2. QED
    BY <1>1, <2>1 DEF Stores, BufferInBounds, RoomInBuffer
<1>7. CASE StringEnd
  <2>1. Len(text) < MAX_STR_CONST /\ text' = text /\ start' = "INITIAL"
    BY <1>7 DEF StringEnd, RoomInBuffer
  <2>2. written' \in Nat /\ written' <= MAX_STR_CONST
    BY <1>1, <1>7, <2>1 DEF StringEnd, Larger
  <2>3. QED
    BY <1>1, <2>1, <2>2 DEF Stores, BufferInBounds, RoomInBuffer
<1>8. CASE Escape
  <2>1. CASE str_len_check(Len(text), 1)
    BY <1>4, <1>8, <2>1 DEF Escape
  <2>2. CASE ~str_len_check(Len(text), 1)
    <3>1. At(pos + 1) \in Chars
      <4>1. At(pos + 1) \notin {"newline", "eof"}
        BY <1>8 DEF Escape
      <4>2. pos + 1 \in Nat \ {0}
        BY <1>3
      <4>3. QED
        BY <1>2, <4>1, <4>2
    <3>2. Escaped(At(pos + 1)) \in Chars
      BY <3>1 DEF Escaped, Chars
    <3>3. start = "STR" /\ Write(Escaped(At(pos + 1)))
      BY <1>8, <2>2 DEF Escape
    <3>4. Len(text) + 1 < MAX_STR_CONST
      BY <1>1, <2>2 DEF str_len_check
    <3>5. QED
      BY <1>5, <3>2, <3>3, <3>4
  <2>3. QED
    BY <2>1, <2>2
<1>9. CASE Character
  <2>1. At(pos) \in Chars
    BY <1>2, <1>3, <1>9 DEF Character
  <2>2. start = "STR" /\ Write(At(pos))
    BY <1>9 DEF Character
  <2>3. start' = "STR" => Len(text) + 1 < MAX_STR_CONST
    BY <1>1, <1>9 DEF Character, str_len_check
  <2>4. QED
    BY <1>5, <2>1, <2>2, <2>3
<1>10. CASE Token \/ Newline \/ LineComment \/ CharLiteral \/ Unexpected \/ EndOfFile
  BY <1>4, <1>10 DEF Token, Newline, LineComment, CharLiteral, Unexpected, EndOfFile
<1>11. CASE Continuation \/ StringBroken
  BY <1>4, <1>11 DEF Continuation, StringBroken
<1>12. CASE CommentBegin \/ CommentText \/ CommentStars \/ CommentEnd \/ CommentNewline \/ CommentBroken
  BY <1>4, <1>12 DEF CommentBegin, CommentText, CommentStars, CommentEnd, CommentNewline, CommentBroken
<1>13. CASE Ended
  BY <1>4, <1>13 DEF Ended, vars
<1>14. QED
  BY <1>6, <1>7, <1>8, <1>9, <1>10, <1>11, <1>12, <1>13 DEF Next

\* Comments: the two rules for text never stop between a lone star and a slash.
LEMMA NextComment ==
  ASSUME TypeOK, CommentExtent, PastStars, Next
  PROVE  CommentExtent' /\ PastStars'
<1> USE DEF Scanning, BEGIN, Stay, NoText, Match, Error
<1>1. input \in Seq(Chars) /\ Len(input) \in Nat /\ pos \in 1 .. Len(input) + 1 /\ opened \in Nat
  <2>1. input \in Seq(Chars) /\ pos \in 1 .. Len(input) + 1 /\ opened \in 0 .. Len(input)
    BY DEF TypeOK
  <2>2. QED
    BY <2>1
<1>2. \A p \in Nat \ {0} : p <= Len(input) => At(p) = input[p]
  BY DEF At
<1>3. \A p \in Nat \ {0} : At(p) # "eof" => p <= Len(input)
  BY DEF At
<1>4. input' = input /\ \A p : At(p)' = At(p)
  BY NextMoves DEF Moves, At
<1>5. ASSUME start' # "COMMENT"  PROVE CommentExtent' /\ PastStars'
  BY <1>5 DEF CommentExtent, PastStars
<1>6. ASSUME pos' = pos, start' = start, opened' = opened  PROVE CommentExtent' /\ PastStars'
  BY <1>4, <1>6 DEF CommentExtent, PastStars, At
<1>7. CASE Token \/ Newline \/ LineComment \/ CharLiteral \/ Unexpected \/ StringBegin \/ EndOfFile
  <2>1. start' # "COMMENT"
    BY <1>7 DEF Token, Newline, LineComment, CharLiteral, Unexpected, StringBegin, EndOfFile
  <2>2. QED
    BY <1>5, <2>1
<1>8. CASE StringEnd \/ Continuation \/ Escape \/ Character \/ StringBroken
  <2>1. start' # "COMMENT"
    BY <1>8 DEF StringEnd, Continuation, Escape, Character, StringBroken
  <2>2. QED
    BY <1>5, <2>1
<1>9. CASE CommentBegin
  <2>1. opened' = pos /\ pos' = pos + 2
    BY <1>9 DEF CommentBegin
  <2>2. QED
    BY <1>1, <2>1 DEF CommentExtent, PastStars
<1>10. CASE CommentEnd
  BY <1>5, <1>10 DEF CommentEnd
<1>11. CASE CommentBroken
  BY <1>6, <1>11 DEF CommentBroken
<1>12. CASE Ended
  BY <1>6, <1>12 DEF Ended, vars
<1>13. CASE CommentText
  <2> DEFINE end == EndOf(Chars \ {"star", "newline"}, pos)
  <2>1. /\ end \in pos .. Len(input) + 1
        /\ At(end) \notin Chars \ {"star", "newline"}
        /\ \A o \in pos .. end - 1 : At(o) \in Chars \ {"star", "newline"}
    BY <1>1, EndOfFacts
  <2>2. pos' = end /\ opened' = opened /\ start = "COMMENT"
    BY <1>13 DEF CommentText
  <2> HIDE DEF end
  <2>3. At(end) # "slash"
    BY <2>1 DEF Chars
  <2>4. PastStars'
    BY <1>4, <2>2, <2>3 DEF PastStars, At
  <2>5. ASSUME NEW p \in opened + 2 .. end - 2, input[p] = "star", input[p + 1] = "slash"
        PROVE  p > opened + 2 /\ input[p - 1] = "star"
    <3>1. p < pos
      BY <1>1, <1>2, <2>1, <2>5
    <3>2. CASE p = pos - 1
      <4>1. At(pos) = "slash"
        BY <1>1, <1>2, <2>1, <2>5, <3>2
      <4>2. QED
        BY <1>1, <2>2, <2>5, <3>2, <4>1 DEF PastStars
    <3>3. CASE p <= pos - 2
      BY <1>1, <2>2, <2>5, <3>3 DEF CommentExtent
    <3>4. QED
      BY <1>1, <3>1, <3>2, <3>3
  <2>6. opened + 2 <= end
    BY <1>1, <2>1, <2>2 DEF CommentExtent
  <2>7. QED
    BY <1>4, <2>2, <2>4, <2>5, <2>6 DEF CommentExtent
<1>14. CASE CommentStars
  <2> DEFINE end == AfterStars(pos)
  <2>1. /\ end \in pos .. Len(input) + 1
        /\ \A o \in pos .. end - 1 : At(o) # "newline" /\ At(o) # "slash"
        /\ At(end) = "slash" /\ At(end - 1) = "star" =>
             \A o \in pos .. end - 1 : At(o) = "star"
    BY <1>1, AfterStarsFacts
  <2>2. /\ pos' = end /\ opened' = opened /\ start = "COMMENT"
        /\ At(pos) = "star" /\ (At(pos + 1) = "slash" => end > pos + 2)
    BY <1>14 DEF CommentStars
  <2> HIDE DEF end
  <2>3. opened + 2 <= pos
    BY <2>2 DEF CommentExtent
  <2>4. ASSUME At(end) = "slash", input[end - 1] = "star"
        PROVE  end > opened + 3 /\ input[end - 2] = "star"
    <3>1. end > pos
      BY <1>1, <2>1, <2>2, <2>4
    <3>2. At(end - 1) = "star"
      BY <1>1, <1>2, <2>1, <2>4, <3>1
    <3>3. end # pos + 1
      BY <1>1, <2>2, <2>4
    <3>4. At(end - 2) = "star" /\ end - 2 \in pos .. Len(input)
      BY <1>1, <2>1, <2>4, <3>1, <3>2, <3>3
    <3>5. input[end - 2] = "star"
      <4>1. end - 2 \in Nat \ {0} /\ end - 2 <= Len(input)
        BY <1>1, <3>4
      <4>2. QED
        BY <1>2, <3>4, <4>1
    <3>6. QED
      BY <1>1, <2>1, <2>3, <3>4, <3>5
  <2>5. PastStars'
    BY <1>4, <2>2, <2>4 DEF PastStars, At
  <2>6. ASSUME NEW p \in opened + 2 .. end - 2, input[p] = "star", input[p + 1] = "slash"
        PROVE  p > opened + 2 /\ input[p - 1] = "star"
    <3>1. p + 1 < pos
      <4>1. p + 1 \notin pos .. end - 1
        BY <1>1, <1>2, <2>1, <2>6
      <4>2. QED
        BY <1>1, <2>1, <2>6, <4>1
    <3>2. QED
      BY <1>1, <2>2, <2>6, <3>1 DEF CommentExtent
  <2>7. opened + 2 <= end
    BY <1>1, <2>1, <2>3
  <2>8. QED
    BY <1>4, <2>2, <2>5, <2>6, <2>7 DEF CommentExtent
<1>15. CASE CommentNewline
  <2>1. /\ pos' = pos + 1 /\ opened' = opened /\ start = "COMMENT" /\ At(pos) = "newline"
    BY <1>15 DEF CommentNewline
  <2>2. input[pos] = "newline"
    BY <1>1, <1>2, <1>3, <2>1
  <2>3. PastStars'
    BY <1>1, <1>4, <2>1, <2>2 DEF PastStars
  <2>4. CommentExtent'
    <3>1. \A p \in opened + 2 .. pos - 1 : p # pos - 1 => p \in opened + 2 .. pos - 2
      BY <1>1
    <3>2. QED
      BY <1>1, <1>4, <2>1, <2>2, <3>1 DEF CommentExtent
  <2>5. QED
    BY <2>3, <2>4
<1>16. QED
  BY <1>7, <1>8, <1>9, <1>10, <1>11, <1>12, <1>13, <1>14, <1>15 DEF Next

-----------------------------------------------------------------------------
(* What a string says, character by character.                             *)

\* Before every character of a string is one that is not a backslash, the
\* opening quote at the latest, and the nearest of them is where Unslashed is.
LEMMA UnslashedFacts ==
  ASSUME opened \in Nat, input[opened] = "quote", NEW p \in Nat, p > opened
  PROVE  /\ Unslashed(p) \in opened .. p - 1
         /\ input[Unslashed(p)] # "backslash"
         /\ \A o \in Unslashed(p) + 1 .. p - 1 : input[o] = "backslash"
<1> DEFINE S == {d \in 1 .. p - opened : input[p - d] # "backslash"}
<1>1. p - opened \in S
  BY p - (p - opened) = opened
<1>2. PICK d \in S : \A c \in S : ~(c < d)
  <2>1. S \in SUBSET Nat /\ S # {}
    BY <1>1
  <2>2. QED
    BY <2>1, Least
<1>3. p - d \in opened .. p - 1 /\ input[p - d] # "backslash"
  BY <1>2
<1>4. ASSUME NEW o \in p - d + 1 .. p - 1  PROVE input[o] = "backslash"
  <2>1. p - o \in 1 .. p - opened /\ p - o < d /\ p - (p - o) = o
    BY <1>2
  <2>2. QED
    BY <1>2, <2>1
<1>5. QED
  BY <1>3, <1>4 DEF Unslashed

\* There is no other such position.
LEMMA UnslashedIs ==
  ASSUME opened \in Nat, input[opened] = "quote", NEW p \in Nat, p > opened,
         NEW q \in opened .. p - 1, input[q] # "backslash",
         \A o \in q + 1 .. p - 1 : input[o] = "backslash"
  PROVE  Unslashed(p) = q
<1>1. /\ Unslashed(p) \in opened .. p - 1 /\ input[Unslashed(p)] # "backslash"
      /\ \A o \in Unslashed(p) + 1 .. p - 1 : input[o] = "backslash"
  BY UnslashedFacts
<1>2. ~(Unslashed(p) < q)
  BY <1>1
<1>3. ~(q < Unslashed(p))
  BY <1>1
<1>4. QED
  BY <1>1, <1>2, <1>3

\* A backslash escapes what follows it unless it is escaped itself.
LEMMA EscapedNext ==
  ASSUME opened \in Nat, input[opened] = "quote"
  PROVE  /\ ~IsEscaped(opened + 1)
         /\ \A p \in Nat : p > opened =>
              (IsEscaped(p + 1) <=> input[p] = "backslash" /\ ~IsEscaped(p))
<1>1. ~IsEscaped(opened + 1)
  <2>1. Unslashed(opened + 1) = opened
    BY UnslashedFacts
  <2>2. QED
    BY <2>1 DEF IsEscaped
<1>2. ASSUME NEW p \in Nat, p > opened
      PROVE  IsEscaped(p + 1) <=> input[p] = "backslash" /\ ~IsEscaped(p)
  <2>1. CASE input[p] # "backslash"
    <3>1. Unslashed(p + 1) = p
      BY <1>2, <2>1, UnslashedIs
    <3>2. QED
      BY <1>2, <2>1, <3>1 DEF IsEscaped
  <2>2. CASE input[p] = "backslash"
    <3>1. /\ Unslashed(p) \in opened .. p - 1 /\ input[Unslashed(p)] # "backslash"
          /\ \A o \in Unslashed(p) + 1 .. p - 1 : input[o] = "backslash"
      BY <1>2, UnslashedFacts
    <3>2. Unslashed(p) \in Nat
      BY <3>1
    <3>3. Unslashed(p + 1) = Unslashed(p)
      <4>1. p + 1 \in Nat /\ p + 1 > opened /\ Unslashed(p) \in opened .. (p + 1) - 1
        BY <1>2, <3>1
      <4>2. \A o \in Unslashed(p) + 1 .. (p + 1) - 1 : input[o] = "backslash"
        BY <1>2, <2>2, <3>1, <3>2
      <4>3. QED
        BY <3>1, <4>1, <4>2, UnslashedIs
    <3>4. QED
      BY <1>2, <2>2, <3>1, <3>2, <3>3 DEF IsEscaped
  <2>3. QED
    BY <2>1, <2>2
<1>3. QED
  BY <1>1, <1>2

\* One character further, a string says that character or nothing more.
LEMMA SaidNext ==
  ASSUME opened \in Nat, NEW p \in Nat, p > opened
  PROVE  /\ IsFiniteSet(Said(p)) /\ Cardinality(Said(p)) \in Nat
         /\ IsSaid(p) => /\ Said(p + 1) = Said(p) \cup {p}
                         /\ Cardinality(Said(p + 1)) = Cardinality(Said(p)) + 1
         /\ ~IsSaid(p) => Said(p + 1) = Said(p)
<1>1. IsFiniteSet(Said(p))
  <2>1. IsFiniteSet(opened + 1 .. p - 1)
    BY FS_Interval
  <2>2. Said(p) \subseteq opened + 1 .. p - 1
    BY DEF Said
  <2>3. QED
    BY <2>1, <2>2, FS_Subset
<1>2. IsSaid(p) => Said(p + 1) = Said(p) \cup {p}
  BY DEF Said
<1>3. p \notin Said(p)
  BY DEF Said
<1>4. ~IsSaid(p) => Said(p + 1) = Said(p)
  BY DEF Said
<1>5. Cardinality(Said(p) \cup {p}) = Cardinality(Said(p)) + 1
  BY <1>1, <1>3, FS_AddElement
<1>6. QED
  BY <1>1, <1>2, <1>4, <1>5, FS_CardinalityType

\* The rank of a character a string says is a place in the text.
LEMMA SaidRank ==
  ASSUME opened \in Nat, NEW p \in Nat, p > opened, NEW o \in Said(p)
  PROVE  Cardinality(Said(o + 1)) \in 1 .. Cardinality(Said(p))
<1>1. o \in Nat /\ o > opened /\ o < p /\ IsSaid(o)
  BY DEF Said
<1>2. Cardinality(Said(o + 1)) = Cardinality(Said(o)) + 1 /\ Cardinality(Said(o)) \in Nat
  BY <1>1, SaidNext
<1>3. Said(o + 1) \subseteq Said(p)
  BY <1>1 DEF Said
<1>4. IsFiniteSet(Said(p)) /\ Cardinality(Said(p)) \in Nat
  BY SaidNext
<1>5. Cardinality(Said(o + 1)) <= Cardinality(Said(p))
  BY <1>3, <1>4, FS_Subset
<1>6. QED
  BY <1>2, <1>4, <1>5

\* The text spells what the string has said so far.
Spelled ==
  /\ Len(text) = Cardinality(Said(pos))
  /\ \A o \in Said(pos) : text[Cardinality(Said(o + 1))] = Stored(o)

\* As long as the string is the same one, it says the same.
LEMMA SameString ==
  ASSUME UNCHANGED <<input, opened>>
  PROVE  /\ \A p : IsEscaped(p)' = IsEscaped(p) /\ Stored(p)' = Stored(p)
         /\ \A p : Said(p)' = Said(p)
<1>1. \A p : Unslashed(p)' = Unslashed(p)
  BY DEF Unslashed
<1>2. \A p : IsEscaped(p)' = IsEscaped(p)
  BY <1>1 DEF IsEscaped
<1>3. \A p : Stored(p)' = Stored(p)
  BY <1>2 DEF Stored
<1>4. \A p : IsSaid(p)' = IsSaid(p)
  BY <1>2 DEF IsSaid, At
<1>5. \A p : Said(p)' = Said(p)
  BY <1>4 DEF Said
<1>6. QED
  BY <1>2, <1>3, <1>5

\* A rule that stores the last character it matches, after none that is said.
LEMMA StoresOne ==
  ASSUME TypeOK, UNCHANGED <<input, opened>>, opened \in 1 .. pos - 1, Spelled,
         NEW o \in pos .. Len(input), pos' = o + 1, IsSaid(o), Said(o) = Said(pos),
         text' = Append(text, Stored(o))
  PROVE  /\ Spelled'
         /\ Cardinality(Said(pos)') = Len(text) + 1
<1>1. /\ text \in Seq(Chars) /\ pos \in Nat /\ opened \in Nat /\ o \in Nat /\ o > opened
      /\ pos > opened
  <2>1. text \in Seq(Chars) /\ input \in Seq(Chars) /\ pos \in 1 .. Len(input) + 1
    BY DEF TypeOK
  <2>2. QED
    BY <2>1
<1>2. Len(text) \in Nat
  BY <1>1
<1>3. /\ Said(o + 1) = Said(pos) \cup {o}
      /\ Cardinality(Said(o + 1)) = Len(text) + 1
  BY <1>1, SaidNext DEF Spelled
<1>4. /\ \A p : Stored(p)' = Stored(p)
      /\ \A p : Said(p)' = Said(p)
  BY SameString
<1>5. /\ Len(text') = Len(text) + 1
      /\ text'[Len(text) + 1] = Stored(o)
      /\ \A i \in 1 .. Len(text) : text'[i] = text[i]
  <2>1. Stored(o) \in Chars
    <3>1. input \in Seq(Chars) /\ o \in 1 .. Len(input)
      <4>1. input \in Seq(Chars)
        BY DEF TypeOK
      <4>2. QED
        BY <1>1, <4>1
    <3>2. input[o] \in Chars
      BY <3>1
    <3>3. QED
      BY <3>2 DEF Stored, Escaped, Chars
  <2>2. QED
    BY <1>1, <1>2, <2>1
<1>6. ASSUME NEW p \in Said(o + 1)  PROVE text'[Cardinality(Said(p + 1))] = Stored(p)
  <2>1. CASE p = o
    BY <1>3, <1>5, <2>1
  <2>2. CASE p \in Said(pos)
    <3>1. Cardinality(Said(p + 1)) \in 1 .. Len(text)
      BY <1>1, <2>2, SaidRank DEF Spelled
    <3>2. QED
      BY <1>5, <2>2, <3>1 DEF Spelled
  <2>3. QED
    BY <1>3, <2>1, <2>2
<1>7. Said(pos)' = Said(o + 1)
  BY <1>4
<1>8. ASSUME NEW p \in Said(pos)'  PROVE text'[Cardinality(Said(p + 1)')] = Stored(p)'
  BY <1>4, <1>6, <1>7, <1>8
<1>9. QED
  BY <1>3, <1>5, <1>7, <1>8 DEF Spelled

\* Strings: each rule stores what it has matched, or finds that it says nothing.
LEMMA NextSaid ==
  ASSUME TypeOK, RoomInBuffer, InString, StoredAsSaid, Next
  PROVE  InString' /\ StoredAsSaid'
<1> USE DEF Scanning, BEGIN, Stay, NoText, Match, Error
<1>1. /\ input \in Seq(Chars) /\ Len(input) \in Nat /\ pos \in 1 .. Len(input) + 1 /\ pos \in Nat
      /\ text \in Seq(Chars) /\ Len(text) \in Nat /\ MAX_STR_CONST \in Nat \ {0}
  <2>1. input \in Seq(Chars) /\ pos \in 1 .. Len(input) + 1 /\ text \in Seq(Chars)
    BY DEF TypeOK
  <2>2. Len(input) \in Nat /\ Len(text) \in Nat
    BY <2>1
  <2>3. QED
    BY <2>1, <2>2, ScannerAssumption
<1>2. \A p \in Nat \ {0} : p <= Len(input) => At(p) = input[p]
  BY DEF At
<1>3. \A p \in Nat \ {0} : At(p) # "eof" => p <= Len(input)
  BY DEF At
<1>4. input' = input
  BY NextMoves DEF Moves
<1>5. StoredAsSaid <=> /\ start = "STR" /\ ended = "no" => Spelled
                       /\ ended = "too long" => Cardinality(Said(pos)) = MAX_STR_CONST
  BY DEF StoredAsSaid, Spelled
<1>6. StoredAsSaid' <=> /\ start' = "STR" /\ ended' = "no" => Spelled'
                        /\ ended' = "too long" => Cardinality(Said(pos)') = MAX_STR_CONST
  BY DEF StoredAsSaid, Spelled
<1>7. ASSUME start' # "STR", ended' # "too long"  PROVE InString' /\ StoredAsSaid'
  BY <1>6, <1>7 DEF InString
<1>8. CASE Token \/ Newline \/ LineComment \/ CharLiteral \/ Unexpected \/ CommentBegin \/ EndOfFile
  <2>1. start' # "STR" /\ ended' # "too long"
    BY <1>8 DEF Token, Newline, LineComment, CharLiteral, Unexpected, CommentBegin, EndOfFile
  <2>2. QED
    BY <1>7, <2>1
<1>9. CASE StringEnd \/ CommentText \/ CommentStars \/ CommentEnd \/ CommentNewline \/ CommentBroken
  <2>1. start' # "STR" /\ ended' # "too long"
    BY <1>9 DEF StringEnd, CommentText, CommentStars, CommentEnd, CommentNewline, CommentBroken
  <2>2. QED
    BY <1>7, <2>1
<1>10. CASE Ended
  <2>1. UNCHANGED vars
    BY <1>10 DEF Ended
  <2>2. /\ \A p : IsEscaped(p)' = IsEscaped(p) /\ Stored(p)' = Stored(p)
        /\ \A p : Said(p)' = Said(p)
    BY <2>1, SameString DEF vars
  <2>3. QED
    BY <2>1, <2>2 DEF vars, InString, StoredAsSaid
<1>11. CASE StringBegin
  <2>1. /\ opened' = pos /\ pos' = pos + 1 /\ text' = <<>> /\ ended' = "no" /\ input[pos] = "quote"
        /\ pos <= Len(input)
    BY <1>1, <1>2, <1>3, <1>11 DEF StringBegin
  <2>2. Unslashed(pos)' = pos
    BY <1>1, <1>4, <2>1 DEF Unslashed
  <2>3. ~IsEscaped(pos)'
    BY <1>1, <2>1, <2>2 DEF IsEscaped
  <2>4. Said(pos)' = {}
    BY <1>1, <2>1 DEF Said
  <2>5. Spelled'
    BY <2>1, <2>4, FS_EmptySet DEF Spelled
  <2>6. QED
    BY <1>1, <1>4, <1>6, <2>1, <2>3, <2>5 DEF InString
<1>12. ASSUME Scanning("STR"), UNCHANGED opened, Continuation \/ Escape \/ Character \/ StringBroken
       PROVE  InString' /\ StoredAsSaid'
  <2>1. /\ opened \in 1 .. pos - 1 /\ opened \in Nat /\ pos > opened /\ input[opened] = "quote"
        /\ Spelled /\ Len(text) < MAX_STR_CONST
    BY <1>1, <1>5, <1>12 DEF InString, RoomInBuffer
  <2>2. UNCHANGED <<input, opened>>
    BY <1>4, <1>12
  <2>3. /\ \A p : IsEscaped(p)' = IsEscaped(p)
        /\ \A p : Said(p)' = Said(p) /\ Stored(p)' = Stored(p)
    BY <2>2, SameString
  <2>4. \A p \in Nat : p > opened =>
          (IsEscaped(p + 1) <=> input[p] = "backslash" /\ ~IsEscaped(p))
    BY <2>1, EscapedNext
  <2>5. At(pos) # "eof" => ~IsEscaped(pos)
    BY <1>1, <1>3, <1>12 DEF InString
  <2>6. /\ opened' = opened /\ 1 <= opened /\ opened < pos /\ opened \in Nat /\ pos \in Nat
        /\ Len(text) \in Nat /\ MAX_STR_CONST \in Nat /\ Len(text) < MAX_STR_CONST
    BY <1>1, <1>12, <2>1
  <2>7. \A q \in Nat : q >= pos => opened \in 1 .. q - 1
    BY <2>6
  <2>8. ASSUME pos' \in Nat, pos' >= pos,
               ended' = "no" => ~IsEscaped(pos') \/ pos' = Len(input) + 1
        PROVE  InString'
    <3>1. opened' \in 1 .. pos' - 1
      <4>1. opened \in 1 .. pos' - 1
        BY <2>7, <2>8
      <4>2. QED
        BY <2>6, <4>1
    <3>2. input'[opened'] = "quote"
      BY <1>4, <1>12, <2>1
    <3>3. IsEscaped(pos)' <=> IsEscaped(pos')
      BY <2>3
    <3>4. QED
      BY <1>4, <2>8, <3>1, <3>2, <3>3 DEF InString
  \* The backslash that begins an escape or a continuation says nothing.
  <2>9. ASSUME At(pos) = "backslash", At(pos + 1) # "eof"
        PROVE  /\ pos + 1 <= Len(input) /\ At(pos + 1) = input[pos + 1]
               /\ Said(pos + 1) = Said(pos)
               /\ IsEscaped(pos + 1) /\ ~IsEscaped(pos + 2)
    <3>1. /\ pos + 1 <= Len(input) /\ input[pos] = "backslash" /\ At(pos + 1) = input[pos + 1]
          /\ ~IsEscaped(pos)
      BY <1>1, <1>2, <1>3, <2>5, <2>9
    <3>2. ~IsSaid(pos)
      BY <2>9, <3>1 DEF IsSaid
    <3>3. Said(pos + 1) = Said(pos)
      BY <1>1, <2>1, <3>2, SaidNext
    <3>4. IsEscaped(pos + 1)
      BY <1>1, <2>1, <2>4, <3>1
    <3>5. pos + 1 \in Nat /\ pos + 1 > opened /\ (pos + 1) + 1 = pos + 2
      BY <1>1, <2>1
    <3>6. ~IsEscaped(pos + 2)
      BY <2>4, <3>4, <3>5
    <3>7. QED
      BY <3>1, <3>3, <3>4, <3>6
  <2>10. CASE Continuation
    <3>1. /\ At(pos) = "backslash" /\ At(pos + 1) = "newline" /\ pos' = pos + 2
          /\ text' = text /\ start' = "STR" /\ ended' = "no"
      BY <2>10 DEF Continuation
    <3>2. /\ pos + 1 <= Len(input) /\ input[pos + 1] = "newline"
          /\ Said(pos + 1) = Said(pos) /\ IsEscaped(pos + 1) /\ ~IsEscaped(pos + 2)
      BY <2>9, <3>1
    <3>3. ~IsSaid(pos + 1)
      BY <3>2 DEF IsSaid
    <3>4. Said(pos + 2) = Said(pos)
      <4>1. pos + 1 \in Nat /\ pos + 1 > opened /\ (pos + 1) + 1 = pos + 2
        BY <1>1, <2>1
      <4>2. QED
        BY <2>1, <3>2, <3>3, <4>1, SaidNext
    <3>5. Spelled'
      BY <2>1, <2>3, <3>1, <3>4 DEF Spelled
    <3>6. InString'
      BY <1>1, <2>8, <3>1, <3>2
    <3>7. QED
      BY <1>6, <3>1, <3>5, <3>6
  <2>11. CASE Escape
    <3>1. At(pos) = "backslash" /\ At(pos + 1) \notin {"newline", "eof"} /\ pos' = pos + 2
      BY <2>11 DEF Escape
    <3>2. /\ pos + 1 <= Len(input) /\ At(pos + 1) = input[pos + 1]
          /\ Said(pos + 1) = Said(pos) /\ IsEscaped(pos + 1) /\ ~IsEscaped(pos + 2)
      BY <2>9, <3>1
    <3>3. IsSaid(pos + 1) /\ Stored(pos + 1) = Escaped(At(pos + 1))
      BY <3>1, <3>2 DEF IsSaid, Stored
    <3>4. pos + 1 \in pos .. Len(input) /\ pos' = (pos + 1) + 1
      BY <1>1, <3>1, <3>2
    <3>5. CASE ~str_len_check(Len(text), 1)
      <4>1. text' = Append(text, Stored(pos + 1)) /\ ended' = "no"
        BY <2>11, <3>3, <3>5 DEF Escape, Write
      <4>2. Spelled'
        BY <2>1, <2>2, <3>2, <3>3, <3>4, <4>1, StoresOne
      <4>3. InString'
        BY <1>1, <2>8, <3>1, <3>2
      <4>4. QED
        BY <1>6, <4>1, <4>2, <4>3
    <3>6. CASE str_len_check(Len(text), 1)
      <4>1. ended' = "too long" /\ start' = "INITIAL" /\ Len(text) + 1 = MAX_STR_CONST
        <5>1. Len(text) + 1 > MAX_STR_CONST - 1
          BY <3>6 DEF str_len_check
        <5>2. Len(text) + 1 = MAX_STR_CONST
          BY <2>6, <5>1
        <5>3. QED
          BY <2>11, <3>6, <5>2 DEF Escape
      <4>2. Cardinality(Said(pos + 2)) = Cardinality(Said(pos)) + 1
        <5>1. pos + 1 \in Nat /\ pos + 1 > opened /\ (pos + 1) + 1 = pos + 2
          BY <1>1, <2>1
        <5>2. QED
          BY <2>1, <3>2, <3>3, <5>1, SaidNext
      <4>3. Cardinality(Said(pos)') = MAX_STR_CONST
        BY <2>1, <2>3, <3>1, <4>1, <4>2 DEF Spelled
      <4>4. QED
        BY <1>6, <4>1, <4>3 DEF InString
    <3>7. QED
      BY <3>5, <3>6
  <2>12. CASE Character
    <3>1. /\ At(pos) # "eof" /\ At(pos) # "newline" /\ pos' = pos + 1
          /\ At(pos) = "backslash" => At(pos + 1) = "eof"
      BY <2>12 DEF Character
    <3>2. pos \in pos .. Len(input) /\ At(pos) = input[pos] /\ ~IsEscaped(pos)
      BY <1>1, <1>2, <1>3, <2>5, <3>1
    <3>3. IsSaid(pos) /\ Stored(pos) = At(pos)
      BY <3>1, <3>2 DEF IsSaid, Stored
    <3>4. text' = Append(text, Stored(pos))
      BY <2>12, <3>3 DEF Character, Write
    <3>5. Spelled' /\ Cardinality(Said(pos)') = Len(text) + 1
      BY <2>1, <2>2, <3>1, <3>2, <3>3, <3>4, StoresOne
    <3>6. CASE str_len_check(Len(text) + 1, 0)
      <4>1. ended' = "too long" /\ start' = "INITIAL" /\ Len(text) + 1 = MAX_STR_CONST
        <5>1. (Len(text) + 1) + 0 > MAX_STR_CONST - 1
          BY <3>6 DEF str_len_check
        <5>2. Len(text) + 1 = MAX_STR_CONST
          BY <2>6, <5>1
        <5>3. QED
          BY <2>12, <3>6, <5>2 DEF Character
      <4>2. QED
        BY <1>6, <3>5, <4>1 DEF InString
    <3>7. CASE ~str_len_check(Len(text) + 1, 0)
      <4>1. ended' = "no"
        BY <2>12, <3>7 DEF Character
      <4>2. ~IsEscaped(pos + 1) \/ pos + 1 = Len(input) + 1
        <5>1. CASE input[pos] # "backslash"
          BY <1>1, <2>1, <2>4, <5>1
        <5>2. CASE input[pos] = "backslash"
          <6>1. ~(pos + 1 <= Len(input))
            <7>1. At(pos + 1) = "eof"
              BY <3>1, <3>2, <5>2
            <7>2. pos + 1 <= Len(input) => At(pos + 1) \in Chars
              BY <1>1 DEF At
            <7>3. QED
              BY <7>1, <7>2 DEF Chars
          <6>2. QED
            BY <1>1, <3>2, <6>1
        <5>3. QED
          BY <5>1, <5>2
      <4>3. InString'
        BY <1>1, <2>8, <3>1, <4>2
      <4>4. QED
        BY <1>6, <3>5, <4>1, <4>3
    <3>8. QED
      BY <3>6, <3>7
  <2>13. CASE StringBroken
    <3>1. ended' # "no" /\ ended' # "too long" /\ (pos' = pos \/ pos' = pos + 1)
      BY <2>13 DEF StringBroken
    <3>2. InString'
      <4>1. pos' \in Nat /\ pos' >= pos
        <5>1. pos \in Nat /\ pos + 1 \in Nat /\ pos >= pos /\ pos + 1 >= pos
          BY <2>6
        <5>2. QED
          BY <3>1, <5>1
      <4>2. QED
        BY <2>8, <3>1, <4>1
    <3>3. QED
      BY <1>6, <3>1, <3>2
  <2>14. QED
    BY <1>12, <2>10, <2>11, <2>12, <2>13
<1>13. CASE Continuation \/ Escape \/ Character \/ StringBroken
  <2>1. Scanning("STR") /\ UNCHANGED opened
    BY <1>13 DEF Continuation, Escape, Character, StringBroken
  <2>2. QED
    BY <1>12, <1>13, <2>1
<1>14. QED
  BY <1>8, <1>9, <1>10, <1>11, <1>13 DEF Next

\* The positions and the mode.
LEMMA NextTypeOK ==
  ASSUME IInv, Next
  PROVE  TypeOK'
<1>1. input \in Seq(Chars) /\ Len(input) <= MaxLen /\ pos \in 1 .. Len(input) + 1 /\ curr_line \in Nat
  BY DEF IInv, TypeOK
<1>2. Moves
  BY NextMoves DEF IInv
<1>3. pos' \in 1 .. Len(input) + 1 /\ curr_line' \in Nat /\ input' = input
  <2>1. Len(input) \in Nat
    BY <1>1
  <2>2. QED
    BY <1>1, <1>2, <2>1 DEF Moves, Over, OverNewline
<1>4. text' \in Seq(Chars) /\ written' \in Nat
  BY NextStores DEF IInv, Stores
<1>5. opened' \in 0 .. Len(input)
  <2>a. Len(input) \in Nat
    BY <1>1
  <2>1. opened \in 0 .. Len(input) /\ Len(input) \in Nat
    BY <2>a DEF IInv, TypeOK
  <2>2. CASE opened' = opened
    BY <2>1, <2>2
  <2>3. CASE opened' = pos /\ At(pos) # "eof"
    BY <1>1, <2>1, <2>3 DEF At
  <2>4. opened' = opened \/ (opened' = pos /\ At(pos) # "eof")
    BY DEF Next, Token, Newline, LineComment, CharLiteral, Unexpected, StringBegin, CommentBegin,
           EndOfFile, StringEnd, Continuation, Escape, Character, StringBroken, CommentText,
           CommentStars, CommentEnd, CommentNewline, CommentBroken, Ended, NoText, vars
  <2>5. QED
    BY <2>2, <2>3, <2>4
<1>6. start' \in {"INITIAL", "STR", "COMMENT"}
  <2>1. start \in {"INITIAL", "STR", "COMMENT"}
    BY DEF IInv, TypeOK
  <2>2. start' = start \/ start' \in {"INITIAL", "STR", "COMMENT"}
    BY DEF Next, Token, Newline, LineComment, CharLiteral, Unexpected, StringBegin, CommentBegin,
           EndOfFile, StringEnd, Continuation, Escape, Character, StringBroken, CommentText,
           CommentStars, CommentEnd, CommentNewline, CommentBroken, Ended, Stay, BEGIN, vars
  <2>3. QED
    BY <2>1, <2>2
<1> DEFINE Ends == {"no", "end", "unexpected token", "too long", "EOF in string",
                    "newline in string", "null in string", "EOF in comment"}
<1>7. ended' \in Ends
  <2>1. ended \in Ends
    BY DEF IInv, TypeOK
  <2>2. ended' = ended \/ ended' \in Ends
    BY DEF Next, Token, Newline, LineComment, CharLiteral, Unexpected, StringBegin, CommentBegin,
           EndOfFile, StringEnd, Continuation, Escape, Character, StringBroken, CommentText,
           CommentStars, CommentEnd, CommentNewline, CommentBroken, Ended, Match, Error, vars
  <2>3. QED
    BY <2>1, <2>2
<1>8. QED
  BY <1>1, <1>3, <1>4, <1>5, <1>6, <1>7 DEF TypeOK

LEMMA StutterIInv ==
  ASSUME IInv, UNCHANGED vars
  PROVE  IInv'
<1>1. (TypeOK /\ BufferInBounds /\ RoomInBuffer /\ LinesCounted /\ CommentExtent /\ PastStars)'
  BY DEF IInv, vars, TypeOK, BufferInBounds, RoomInBuffer, LinesCounted, CommentExtent, PastStars, At
<1>2. /\ \A p : IsEscaped(p)' = IsEscaped(p) /\ Stored(p)' = Stored(p)
      /\ \A p : Said(p)' = Said(p)
  BY SameString DEF vars
<1>3. InString' /\ StoredAsSaid'
  BY <1>2 DEF IInv, vars, InString, StoredAsSaid
<1>4. QED
  BY <1>1, <1>3 DEF IInv

LEMMA NextIInv ==
  ASSUME IInv, Next
  PROVE  IInv'
<1>1. TypeOK'
  BY NextTypeOK
<1>2. BufferInBounds' /\ RoomInBuffer'
  BY NextStores DEF IInv, Stores
<1>3. LinesCounted'
  BY NextLines DEF IInv
<1>4. CommentExtent' /\ PastStars'
  BY NextComment DEF IInv
<1>5. InString' /\ StoredAsSaid'
  BY NextSaid DEF IInv
<1>6. QED
  BY <1>1, <1>2, <1>3, <1>4, <1>5 DEF IInv

LEMMA Inductive == Spec => []IInv
<1>1. IInv /\ [Next]_vars => IInv'
  BY NextIInv, StutterIInv
<1>2. QED
  BY InitIInv, <1>1, PTL DEF Spec

-----------------------------------------------------------------------------
(* Theorems.                                                               *)

\* For every file and every size of the buffer the scanner's state stays
\* well typed: its position in the file, its condition one of the three.
THEOREM TypeCorrect == Spec => []TypeOK
<1>1. IInv => TypeOK
  BY DEF IInv
<1>2. QED
  BY Inductive, <1>1, PTL

\* The rules for strings never write past str_buf, whatever its size.
THEOREM BufferHolds == Spec => []BufferInBounds
<1>1. IInv => BufferInBounds
  BY DEF IInv
<1>2. QED
  BY Inductive, <1>1, PTL

\* curr_line is the line scanning has come to, in every file.
THEOREM LinesRight == Spec => []LinesCounted
<1>1. IInv => LinesCounted
  BY DEF IInv
<1>2. QED
  BY Inductive, <1>1, PTL

\* In every file the rules for comments pass a star and a slash only after
\* another star.
THEOREM CommentsEnd == Spec => []CommentExtent
<1>1. IInv => CommentExtent
  BY DEF IInv
<1>2. QED
  BY Inductive, <1>1, PTL

\* For every file and every size of the buffer, what str_buf holds of a string
\* is what the source says, and a string is refused only when it does not fit.
THEOREM StringsStoredAsSaid == Spec => []StoredAsSaid
<1>1. IInv => StoredAsSaid
  BY DEF IInv
<1>2. QED
  BY Inductive, <1>1, PTL

================================================================================
