------------------------------ MODULE Chunking ------------------------------
(***************************************************************************)
(* chunk_text (cam/services/document/chunking.py).  Of a character it      *)
(* matters whether it is a "newline", the "stop" that ends a sentence (the *)
(* blank of ". ", "; ", ...) or part of a "word"; newlines and stops are   *)
(* blank.  Offsets count from 0, a chunk holds text[start..end-1].         *)
(***************************************************************************)
EXTENDS Naturals, Sequences, FiniteSetsExt

Clamp(overlap, size) == IF overlap < size THEN overlap ELSE size - 1

\* text.rfind within text[start..end-1], as a position in the window; a separator
\* has two characters, so the one that ends it is never the first of the window
Cuts(text, start, end, kind) ==
  {p \in 0..(end - start - 1) : text[start + p + 1] = kind /\ (kind = "stop" => p > 0)}

\* the end of the window, snapped back to the last newline or, if there is none in
\* its second half, to the last newline or stop
WindowEnd(text, start, size) ==
  LET n     == Len(text)
      end   == IF start + size < n THEN start + size ELSE n
      lines == {p \in Cuts(text, start, end, "newline") : 2 * p >= size}
      stops == {p \in Cuts(text, start, end, "stop") : 2 * p >= size}
      snap  == IF lines # {} THEN Max(lines) ELSE Max(stops)
  IN IF end < n /\ lines \cup stops # {} THEN start + snap + 1 ELSE end

Advance_ByOverlap(start, end, overlap) == end + overlap
\* the next window overlaps the last one, and starts after it at least
Advance(start, end, overlap) == IF end - overlap > start THEN end - overlap ELSE start + 1

Blank(text, start, end) == \A p \in (start + 1)..end : text[p] # "word"

\* the loop from a position on; it ends with the window that reaches the end of the text
ChunksFrom(text, size, overlap) ==
  LET from[start \in 0..Len(text)] ==
        IF start = Len(text) THEN <<>>
        ELSE LET end   == WindowEnd(text, start, size)
                 piece == IF Blank(text, start, end) THEN <<>>
                          ELSE <<[start |-> start, end |-> end]>>
             IN IF end >= Len(text) THEN piece
                ELSE piece \o from[Advance(start, end, overlap)]
  IN from

Chunks(text, size, overlap) ==
  IF size = 0 THEN <<>> ELSE ChunksFrom(text, size, Clamp(overlap, size))[0]
=============================================================================
