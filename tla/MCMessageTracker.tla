------------------------- MODULE MCMessageTracker -------------------------
EXTENDS MessageTracker

Frame(counts) == [counts |-> counts, cut |-> FALSE]
CutFrame(counts) == [counts |-> counts, cut |-> TRUE]

\* Second messages at each of the alignments 6, 4, 2 and 0, with the end of the
\* frame inside a word and on a word boundary, and a frame cut short the way
\* the test program's is.
MCFrames == {Frame(<<3, 0>>), Frame(<<0, 1>>), Frame(<<1, 2>>),
             Frame(<<3, 3, 0>>), CutFrame(<<2, 3>>)}
MCCounts == {0, 1, 2, 3}
=============================================================================
