------------------------------ MODULE Chunking ------------------------------
(***************************************************************************)
(* ingestion/chunking.py: a text is cut into windows of whole lines, each  *)
(* of which repeats the tail of the one before it.                         *)
(*                                                                         *)
(* A text is a sequence of lines.  A line is the blanks before it, its     *)
(* tokens, and the blanks and newlines after it; a token is TRUE if a      *)
(* character ends where it ends.  A character of several tokens has FALSE  *)
(* for all but its last, and decoding a prefix that ends inside it gives   *)
(* one replacement character.                                              *)
(***************************************************************************)
EXTENDS Integers, SequencesExt, FiniteSetsExt

CONSTANTS ChunkMax,     \* settings.chunk_max_tokens
          ChunkTarget,  \* settings.chunk_target_tokens
          OverlapPct    \* settings.chunk_overlap_ratio, in percent

ASSUME ChunkAssumption == /\ ChunkMax \in Nat \ {0} /\ ChunkTarget \in Nat \ {0}
                          /\ OverlapPct \in 0..100

\* A line of n tokens is cut into this many pieces.
PieceCount(n) == (n + ChunkMax - 1) \div ChunkMax

\* The last token of a line completes its character.  If the line is split, the text of piece
\* p, where it is not empty, is again[p] tokens: it is encoded by itself.
Line == {line \in [before: Nat, tokens: Seq(BOOLEAN), after: Nat, again: Seq(Nat \ {0})] :
           LET n == Len(line.tokens)
           IN  /\ n > 0 => line.tokens[n]
               /\ n > ChunkMax => Len(line.again) = PieceCount(n)}

\* len(decode(tokens[:n])): the characters completed, and one more for a torn one.
Chars(line, n) ==
  Cardinality({k \in 1..n : line.tokens[k]}) + (IF n > 0 /\ ~line.tokens[n] THEN 1 ELSE 0)

\* f[1] + ... + f[n]
SumTo(f, n) ==
  LET sum[k \in 0..n] == IF k = 0 THEN 0 ELSE sum[k - 1] + f[k]
  IN  sum[n]

\* Where line k of text begins: each line before it takes its blanks and characters.
Offset(text, k) ==
  SumTo([l \in DOMAIN text |->
           text[l].before + Chars(text[l], Len(text[l].tokens)) + text[l].after], k - 1)

\* _token_count of the text of piece p of a line, its tokens first..last.  A whole line has its
\* own; the text of a piece that only completes a torn character is empty; that of another
\* piece is encoded again, to as many tokens as were cut, to fewer (the tokens that complete a
\* torn character are not in it) or to more (without what precedes it, the encoding may split
\* it into words elsewhere).
TokenCount(line, p, first, last) ==
  IF last - first + 1 = Len(line.tokens) THEN Len(line.tokens)
  ELSE IF Chars(line, first - 1) = Chars(line, last) THEN 0
  ELSE line.again[p]

\* Piece p of line k: its tokens first..last, the span (text, start, end) has for them, and
\* how many tokens the window counts for it.
Unit(text, k, p, first, last) ==
  LET start == Offset(text, k) + text[k].before
  IN  [line |-> k, first |-> first, last |-> last,
       start |-> start + Chars(text[k], first - 1), end |-> start + Chars(text[k], last),
       count |-> TokenCount(text[k], p, first, last)]

\* Variant: no line is split.
WholeLine(text, k) == <<Unit(text, k, 1, 1, Len(text[k].tokens))>>

\* _hard_split: pieces of at most ChunkMax tokens, one for a line that fits, none for a blank one.
Pieces(text, k) ==
  LET length == Len(text[k].tokens)
  IN  [p \in 1..PieceCount(length) |->
         Unit(text, k, p, (p - 1) * ChunkMax + 1, Min({p * ChunkMax, length}))]

\* The units of a text: _split_units, then the first loop of chunk_text.
Units(text) ==
  LET upto[k \in 0..Len(text)] == IF k = 0 THEN <<>> ELSE upto[k - 1] \o Pieces(text, k)
  IN  upto[Len(text)]

\* The tokens of units i..(j - 1), each counted by itself.
Tokens(units, i, j) ==
  LET counts == [u \in DOMAIN units |-> units[u].count]
  IN  SumTo(counts, j - 1) - SumTo(counts, i - 1)

\* The window from unit i ends before unit j: none is left, the target is reached, or it has
\* tokens and the next unit would take it over the maximum.
Stop(units, i) ==
  Min({j \in (i + 1)..(Len(units) + 1) :
         \/ j > Len(units)
         \/ Tokens(units, i, j) >= ChunkTarget
         \/ Tokens(units, i, j) > 0 /\ Tokens(units, i, j + 1) > ChunkMax})

\* How many units of the window i..(j - 1) the next one repeats: one if it has two, more
\* while they fit the overlap, never all of them.
Back(units, i, j) ==
  LET fits(b) == b <= 1 \/ Tokens(units, j - b, j) * 100 <= Tokens(units, i, j) * OverlapPct
  IN  Max({b \in 0..(j - i - 1) : fits(b)})

Chunk(units, i, j, ordinal) ==
  [ordinal |-> ordinal, from |-> i, to |-> j - 1, start |-> units[i].start, end |-> units[j - 1].end]

\* chunk_text: window n begins at unit at[n - 1]; the last one reaches the end.
ChunkText(text) ==
  LET units == Units(text)
      at[n \in Nat] ==
        IF n = 0 THEN 1
        ELSE LET i == at[n - 1]
                 j == Stop(units, i)
             IN  IF j > Len(units) THEN i ELSE j - Back(units, i, j)
      count == Min({n \in 1..Len(units) : Stop(units, at[n - 1]) > Len(units)})
  IN  IF units = <<>> THEN <<>>
      ELSE [n \in 1..count |-> Chunk(units, at[n - 1], Stop(units, at[n - 1]), n - 1)]

-----------------------------------------------------------------------------
(* What a chunking promises. *)

\* Every character of every line lies in the span of a unit of a chunk.  No piece is cut from
\* more tokens than the maximum and a line that fits is in one piece.  A chunk is counted at
\* more than the maximum only if it is one piece of a line that was split, for its text is
\* encoded again.  Chunks follow each other without a gap and each begins after the last; it
\* may lie inside it, when the next line does not fit beside the overlap.  Their spans are
\* spans of the text, and empty only where the text ends in a torn character.
GoodChunking(text, chunks) ==
  LET units == Units(text)
      Length(k) == Len(text[k].tokens)
      Whole(u) == u.last - u.first + 1 = Length(u.line)
      Covered(k, n) == \E c \in ToSet(chunks) : \E u \in c.from..c.to :
                         LET at == Offset(text, k) + text[k].before + n
                         IN  units[u].line = k /\ units[u].start <= at /\ at < units[u].end
      size == Offset(text, Len(text) + 1)
  IN  /\ \A k \in DOMAIN text : \A n \in 0..(Chars(text[k], Length(k)) - 1) : Covered(k, n)
      /\ \A u \in ToSet(units) : /\ u.last - u.first < ChunkMax
                                 /\ Length(u.line) <= ChunkMax => Whole(u)
      /\ \A c \in ToSet(chunks) :
           /\ Tokens(units, c.from, c.to + 1) > ChunkMax =>
                Tokens(units, c.from, c.to) = 0 /\ ~Whole(units[c.to])
           /\ 0 <= c.start /\ c.end <= size
           /\ c.start < c.end \/ (c.start = c.end /\ c.to = Len(units))
      /\ \A n \in 1..(Len(chunks) - 1) :
           LET c == chunks[n]
               d == chunks[n + 1]
           IN  /\ c.from < d.from /\ d.from <= c.to + 1 /\ c.to <= d.to
               /\ c.start <= d.start /\ c.end <= d.end
               /\ d.ordinal = c.ordinal + 1
=============================================================================
