---------------------------- MODULE MCFrameAlloc ----------------------------
(* FrameAlloc for TLC, and the loop of find_free against its definition as
   the first clear bit of a range.                                          *)
EXTENDS FrameAlloc

CONSTANT WORD   \* bits of a word of the bitmap, 64 in the code

\* Mutation of find_free_loop: a full word skips the next one too.
find_free_loopSkips(start, end) ==
    LET full(w) == \A i \in w * WORD .. (w + 1) * WORD - 1 : i \in used
        walk[i \in 0 .. TOTAL + 2 * WORD] ==
            IF i >= end THEN NoFrame
            ELSE IF full(i \div WORD) THEN walk[(i \div WORD + 2) * WORD]
            ELSE IF i \notin used THEN i
            ELSE walk[i + 1]
    IN  walk[start]

\* The loop of find_free: full words are skipped, other bits tested one by one
find_free_loop(start, end) ==
    LET full(w) == \A i \in w * WORD .. (w + 1) * WORD - 1 : i \in used
        walk[i \in 0 .. TOTAL + 2 * WORD] ==
            IF i >= end THEN NoFrame
            ELSE IF full(i \div WORD) THEN walk[(i \div WORD + 1) * WORD]
            ELSE IF i \notin used THEN i
            ELSE walk[i + 1]
    IN  walk[start]

\* Whatever bits are set, the loop of find_free with its jumps over full words
\* finds the first clear bit of the range, and nothing past its end.
LoopFindsFirst ==
    \A start, end \in 0 .. TOTAL :
        find_free_loop(start, end) = find_free(start, end)
=============================================================================
