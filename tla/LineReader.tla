----------------------------- MODULE LineReader -----------------------------
(***************************************************************************)
(* How the REPL reads a chunk: lines, as long as brackets are open or the  *)
(* last one ends in a comma or a backslash.                                *)
(***************************************************************************)
EXTENDS Integers, Sequences, SequencesExt, FiniteSetsExt

CONSTANTS Lines,      \* the lines that may be typed, sequences of characters
          EndOfInput, \* what readline returns at the end of the input
          QuitLine,   \* ":q"
          MaxLines    \* bound: the lines of a session

ASSUME LinesAssumption == MaxLines \in Nat

VARIABLES input,      \* the lines read so far, as one string
          groupings,  \* p, the brackets left open
          prompt,     \* "first", "more", "done", "exited", or "undefined"
          lines_read

lineVars == <<input, groupings, prompt, lines_read>>

LineInit == input = <<>> /\ groupings = 0 /\ prompt = "first" /\ lines_read = 0

Opening == {"(", "[", "{"}
Closing == {")", "]", "}"}
Count(s, chars) == Cardinality({i \in DOMAIN s : s[i] \in chars})

\* p after the first n characters, and where counting stops: at a bracket that
\* closes nothing.
Level(line, p, n) == p + Count(SubSeq(line, 1, n), Opening) - Count(SubSeq(line, 1, n), Closing)
CountGroupings(line, p) ==
    LET excessive == {n \in DOMAIN line : line[n] \in Closing /\ Level(line, p, n) < 0}
    IN  Level(line, p, IF excessive = {} THEN Len(line) ELSE Min(excessive))

\* As CountMore would be if each line were counted on its own.
CountMoreAnew(line) == CountGroupings(line, 0)
CountMore(line) == CountGroupings(line, groupings)

\* The condition of the loop, for what s and p are then.  Of an empty string it
\* reads the character before the first.
Continues(s, p) == IF s = <<>> THEN {p > 0, TRUE}
                   ELSE {Last(s) \in {"\\", ","} \/ p > 0}

Asks(p) == /\ prompt = p
           /\ lines_read < MaxLines /\ lines_read' = lines_read + 1
Goes(s, p) == /\ input' = s /\ groupings' = p
              /\ \E more \in Continues(s, p) : prompt' = IF more THEN "more" ELSE "done"
Leaves(p) == prompt' = p /\ UNCHANGED <<input, groupings>>

FirstLine(line) ==
    /\ Asks("first")
    /\ IF line \in {EndOfInput, QuitLine} THEN Leaves("exited")
       ELSE Goes(line, CountGroupings(line, 0))

\* The end of the input is passed on to strcmp; an empty line frees the buffer the
\* lexer is then given.
NextLine(line) ==
    /\ Asks("more")
    /\ IF line = EndOfInput \/ line = <<>> THEN Leaves("undefined")
       ELSE Goes(input \o <<"\n">> \o line, CountMore(line))

NextChunk == /\ prompt = "done" /\ prompt' = "first"
             /\ input' = <<>> /\ groupings' = 0
             /\ UNCHANGED lines_read
-----------------------------------------------------------------------------
\* The loop of main.c:105-127 gives the parser no chunk with a bracket open, over
\* any number of lines, unless one of its brackets closes nothing: the parser
\* never stops in the middle of what the user is still writing.
ChunksClosed ==
    prompt = "done" /\ (\A n \in DOMAIN input : Level(input, 0, n) >= 0)
    => Level(input, 0, Len(input)) = 0
=============================================================================
