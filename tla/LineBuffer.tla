----------------------------- MODULE LineBuffer -----------------------------
(***************************************************************************)
(* The fixed buffer in which both consoles collect a command line, one     *)
(* character per call: backspace, the discarding of a line that is too     *)
(* long through its end, and the trimming of the finished line.  Carriage  *)
(* return and line feed both end a line, space and tab are both blank.     *)
(*                                                                         *)
(* "typed" is what the user typed since the last end of line; the code     *)
(* does not keep it.  LateFull and LeftTrimmed are slips of the            *)
(* definitions that follow them.                                           *)
(***************************************************************************)
EXTENDS Naturals, Sequences, SequencesExt

CONSTANTS
  Letters,         \* characters other than blanks
  Capacity,        \* FixedLineBuffer::CAPACITY
  OutputCapacity,  \* size of the caller's command buffer
  MaxTyped         \* bound on the characters of a line

ASSUME LineAssumption ==
  /\ Capacity \in Nat \ {0} /\ OutputCapacity \in Nat /\ MaxTyped \in Nat
  /\ {"BLANK", "BACKSPACE"} \cap Letters = {}

VARIABLES
  text,        \* _buffer, up to _length
  discarding,  \* _discarding
  typed,
  answer       \* what the last push returned

lineVars == <<text, discarding, typed, answer>>

Chars == Letters \cup {"BLANK"}
Answer(kind, line) == [kind |-> kind, line |-> line]
Silent == Answer("NONE", <<>>)

LineTypeOK ==
  /\ text \in Seq(Chars) /\ Len(text) <= Capacity - 1
  /\ discarding \in BOOLEAN
  /\ discarding => text = <<>>
  /\ typed \in Seq(Chars \cup {"BACKSPACE"})
  /\ answer.kind \in {"NONE", "READY", "TOO_LONG", "OUTPUT_TOO_SMALL"}
  /\ answer.line \in Seq(Chars)

LineInit == text = <<>> /\ discarding = FALSE /\ typed = <<>> /\ answer = Silent

-----------------------------------------------------------------------------
Type(c) == Len(typed) < MaxTyped /\ typed' = Append(typed, c)
Quiet == answer' = Silent

DiscardChar ==
  /\ discarding
  /\ \E c \in Chars \cup {"BACKSPACE"} : Type(c)
  /\ Quiet /\ UNCHANGED <<text, discarding>>

Erase ==
  /\ ~discarding
  /\ Type("BACKSPACE")
  /\ text' = IF text = <<>> THEN text ELSE Front(text)
  /\ Quiet /\ UNCHANGED discarding

LateFull == Len(text) >= Capacity
Full == Len(text) >= Capacity - 1

Store ==
  /\ ~discarding /\ ~Full
  /\ \E c \in Chars : Type(c) /\ text' = Append(text, c)
  /\ Quiet /\ UNCHANGED discarding

Overflow ==
  /\ ~discarding /\ Full
  /\ \E c \in Chars : Type(c)
  /\ text' = <<>>
  /\ discarding' = TRUE
  /\ Quiet

-----------------------------------------------------------------------------
Visible(s) == {i \in DOMAIN s : s[i] # "BLANK"}
LeftTrimmed(s) ==
  IF Visible(s) = {} THEN <<>> ELSE SubSeq(s, Min(Visible(s)), Len(s))
Trimmed(s) ==
  IF Visible(s) = {} THEN <<>> ELSE SubSeq(s, Min(Visible(s)), Max(Visible(s)))

\* What a line, blanks trimmed, is to the caller.
Delivered(line) ==
  IF line = <<>> THEN Silent
  ELSE IF Len(line) >= OutputCapacity THEN Answer("OUTPUT_TOO_SMALL", <<>>)
  ELSE Answer("READY", line)

Reset == text' = <<>> /\ discarding' = FALSE /\ typed' = <<>>

EndLine ==
  /\ answer' = IF discarding THEN Answer("TOO_LONG", <<>>) ELSE Delivered(Trimmed(text))
  /\ Reset

LineNext == DiscardChar \/ Erase \/ Store \/ Overflow \/ EndLine

LineSpec == LineInit /\ [][LineNext]_lineVars
-----------------------------------------------------------------------------
(* Properties. *)

\* One key's effect on a line of any length: a backspace takes back one character.
Pressed(line, c) ==
  IF c # "BACKSPACE" THEN Append(line, c)
  ELSE IF line = <<>> THEN line ELSE Front(line)

\* The line after each number of keys, and the line the user meant.
History(keys) ==
  LET line[n \in 0 .. Len(keys)] ==
        IF n = 0 THEN <<>> ELSE Pressed(line[n - 1], keys[n])
  IN line
Edited(keys) == History(keys)[Len(keys)]

\* At some point it did not fit.
TooLong(keys) ==
  \E n \in 0 .. Len(keys) : Len(Edited(SubSeq(keys, 1, n))) > Capacity - 1

\* line is s without the blanks around it.
IsTrimmed(line, s) ==
  \E i, j \in 0 .. Len(s) :
    /\ i + j <= Len(s)
    /\ line = SubSeq(s, i + 1, Len(s) - j)
    /\ \A k \in DOMAIN s : k <= i \/ k > Len(s) - j => s[k] = "BLANK"
    /\ line # <<>> => "BLANK" \notin {Head(line), Last(line)}

\* Each end of line delivers the line the user meant, and nothing of it if it was
\* ever too long, whatever was erased or typed afterwards; nothing of a line
\* leaks into the next one.
DeliversTheLine ==
  [][EndLine =>
       IF TooLong(typed) THEN answer' = Answer("TOO_LONG", <<>>)
       ELSE \E i, j \in 0 .. Len(Edited(typed)) :
              LET line == SubSeq(Edited(typed), i + 1, j)
              IN IsTrimmed(line, Edited(typed)) /\ answer' = Delivered(line)]_lineVars
=============================================================================
