--------------------------- MODULE SnapshotParser ---------------------------
(***************************************************************************)
(* From the text of a section to the chunks that are cited (ecfr/parse.py  *)
(* parse_part, _PathTracker and _chunk).                                   *)
(*                                                                         *)
(* A section of the CFR is an outline, (a)(1)(i)(A)(1)(i), of which only   *)
(* the designators that a paragraph introduces are in its text.  Here the  *)
(* section is read one paragraph after the other; what the outline really  *)
(* is, which the code must find out, is the observer `outline`.  A         *)
(* paragraph is chunked as soon as its path is known: the code does so in  *)
(* a second pass over the same list.                                       *)
(***************************************************************************)
EXTENDS Integers, Sequences, SequencesExt

CONSTANTS
    Widths,       \* bound: how many siblings there are at each level of the outline
    Lengths,      \* the lengths of paragraphs
    MaxDepth,     \* _MAX_DEPTH
    TargetChars,  \* _TARGET_CHARS
    MaxChars      \* _MAX_CHARS

ASSUME ParserAssumption ==
    /\ Widths \in Seq(1..26)
    /\ Len(Widths) <= 6 /\ Len(Widths) <= MaxDepth
    /\ Lengths \subseteq Nat \ {0}
    /\ MaxDepth \in Nat
    /\ TargetChars \in Nat /\ MaxChars \in Nat

VARIABLES
    stack,     \* the designators of _PathTracker
    expected,  \* its expected_top, as the number of a letter
    buf,       \* the chunk that _chunk fills
    outline,   \* observer: where in the outline the last paragraph is, a number per level
    doubt      \* observer: see ReadParagraph

parserVars == <<stack, expected, buf, outline, doubt>>

-----------------------------------------------------------------------------
(* Designators.  Of a token only this is ever tested: whether it is a      *)
(* number, in capitals or not, its place in the alphabet if it is a single *)
(* letter, and its value if it is a number or a roman numeral; else 0.     *)

RomanLetters == [l \in {3, 4, 9, 12, 13, 22, 24} |->
    CASE l = 9 -> 1 [] l = 22 -> 5 [] l = 24 -> 10 [] l = 12 -> 50
      [] l = 3 -> 100 [] l = 4 -> 500 [] l = 13 -> 1000]

Letter(family, n) ==
    [family |-> family, letter |-> n, number |-> IF n \in DOMAIN RomanLetters THEN RomanLetters[n] ELSE 0]

Roman(n) ==
    IF \E l \in DOMAIN RomanLetters : RomanLetters[l] = n
    THEN Letter("lower", CHOOSE l \in DOMAIN RomanLetters : RomanLetters[l] = n)
    ELSE [family |-> "lower", letter |-> 0, number |-> n]

Digits(n) == [family |-> "digit", letter |-> 0, number |-> n]

\* The n-th designator of a level.
Designator(level, n) ==
    CASE level = 1 -> Letter("lower", n)
      [] level \in {2, 5} -> Digits(n)
      [] level \in {3, 6} -> Roman(n)
      [] level = 4 -> Letter("upper", n)

\* The path of a paragraph at place p of the outline.
TruePath(p) == [level \in DOMAIN p |-> Designator(level, p[level])]

\* _is_successor, within _same_family.
IsSuccessor(prev, cur) ==
    /\ prev.family = cur.family
    /\ \/ prev.number # 0 /\ cur.number = prev.number + 1
       \/ prev.letter # 0 /\ cur.letter = prev.letter + 1

FirstOfSequence == {Digits(1), Letter("lower", 1), Letter("upper", 1), Roman(1), Letter("upper", 9)}

-----------------------------------------------------------------------------
(* _PathTracker                                                            *)

Push(t, tok) == IF Len(t.stack) >= MaxDepth THEN t ELSE [t EXCEPT !.stack = Append(@, tok)]

\* The levels below the top that the token continues.
Continued(t, tok) == {l \in 2..Len(t.stack) : IsSuccessor(t.stack[l], tok)}

\* Faulty: the deeper levels are left.
ContinuedAtKeeping(levels, l, tok) == [levels EXCEPT ![l] = tok]

\* The levels below l are closed.
ContinuedAt(levels, l, tok) == Append(SubSeq(levels, 1, l - 1), tok)

IsExpected(t, tok) == tok.family = "lower" /\ tok.letter = t.expected

\* advance.  Of the levels the token continues it is the deepest.
Advanced(t, tok) ==
    IF IsExpected(t, tok)
    THEN [stack |-> <<tok>>, expected |-> t.expected + 1]
    ELSE IF tok \in FirstOfSequence \/ Continued(t, tok) = {}
    THEN Push(t, tok)
    ELSE [t EXCEPT !.stack = ContinuedAt(@, Max(Continued(t, tok)), tok)]

-----------------------------------------------------------------------------
(* The outline.                                                            *)

Levels == 6

\* The next place: a sibling of the last one or of one above it, or its first child.
Siblings(p) == {[SubSeq(p, 1, l) EXCEPT ![l] = @ + 1] : l \in DOMAIN p}
Children(p) == IF Len(p) < Levels THEN {Append(p, 1)} ELSE {}
Places(p) == Siblings(p) \union Children(p)

\* The bound.
Within(q) == Len(q) <= Len(Widths) /\ q[Len(q)] <= Widths[Len(q)]

Token(p) == Designator(Len(p), p[Len(p)])

\* Where else the token of q could lead from p.
Rivals(p, q) == {r \in Places(p) \ {q} : Token(r) = Token(q)}

\* "(I)" after "(H)".
IsNinthCapital(q) == Len(q) = 4 /\ q[4] = 9

\* For how many designators of the top level the path may be wrong from q on, if it may be wrong
\* for d before it: for one, unless it is the top level that is in doubt.
DoubtAfter(d, p, q) ==
    LET top == Len(q) = 1
        lost == IF \E r \in Rivals(p, q) : top \/ Len(r) = 1 THEN 2
                ELSE IF Rivals(p, q) # {} \/ IsNinthCapital(q) THEN 1 ELSE 0
    IN  Max({lost, IF top /\ d > 0 THEN d - 1 ELSE d})

-----------------------------------------------------------------------------
(* parse_part                                                              *)

NoChunk == [path |-> <<>>, len |-> 0, text |-> <<>>, sure |-> TRUE]

ParserInit ==
    /\ stack = <<>>
    /\ expected = 1
    /\ buf = NoChunk
    /\ outline = <<>>
    /\ doubt = 0

\* flush; the paragraph begins a chunk.
NewChunk(path, length) ==
    [path |-> path, len |-> length + 1, text |-> <<outline'>>, sure |-> doubt' = 0]

IsFull(length) == buf.len >= TargetChars \/ buf.len + length > MaxChars

\* _chunk, for one more paragraph.
Chunked(path, length) ==
    IF buf.text = <<>> \/ IsFull(length)
    THEN NewChunk(path, length)
    ELSE [buf EXCEPT !.len = @ + length + 1, !.text = Append(@, outline')]

\* A paragraph with the designators of these places, if any, and the path of the last.
ReadParagraph(places, length) ==
    LET read[n \in 0..Len(places)] ==
            IF n = 0 THEN [tracker |-> [stack |-> stack, expected |-> expected],
                           at |-> outline, doubt |-> doubt]
            ELSE [tracker |-> Advanced(read[n - 1].tracker, Token(places[n])), at |-> places[n],
                  doubt |-> DoubtAfter(read[n - 1].doubt, read[n - 1].at, places[n])]
        last == read[Len(places)]
    IN  /\ stack' = last.tracker.stack
        /\ expected' = last.tracker.expected
        /\ outline' = last.at
        /\ doubt' = last.doubt
        /\ buf' = Chunked(stack', length)

\* The last chunk is flushed, and the next section has a tracker of its own.
EndSection ==
    /\ buf.text # <<>>
    /\ stack' = <<>>
    /\ expected' = 1
    /\ buf' = NoChunk
    /\ outline' = <<>>
    /\ doubt' = 0

\* None, one, or two, as in "(ii) Optional practical training—(A) General."
Introduced ==
    LET one == {q \in Places(outline) : Within(q)}
    IN  {<<>>} \union {<<q>> : q \in one}
               \union {<<q, Append(q, 1)>> : q \in {r \in one : Len(r) < Len(Widths)}}

ParserNext ==
    \/ \E places \in Introduced, length \in Lengths : ReadParagraph(places, length)
    \/ EndSection

ParserSpec == ParserInit /\ [][ParserNext]_parserVars

-----------------------------------------------------------------------------
(* Properties.                                                             *)

\* The paragraph just read has its path, and the chunk that of its first paragraph, as long as
\* a reader who knows how outlines go on could tell it from the designators; and after a doubt
\* again from the next designator of the top level on, or the second if that level was in doubt.
\* A chunk that is too long is a single paragraph.
ChunksAreCitable ==
    /\ doubt = 0 => stack = TruePath(outline)
    /\ buf.text # <<>> /\ buf.sure => buf.path = TruePath(buf.text[1])
    /\ buf.len - 1 > MaxChars => Len(buf.text) = 1

\* "Nothing else may reset the stack — this stops a roman (i) deep inside (h)'s
\* subtree from being mistaken for the top-level (i)" (_PathTracker.advance).
TopIsKept == outline # <<>> => stack[1] = Designator(1, outline[1])

=============================================================================
