----------------------------- MODULE FileReader -----------------------------
(***************************************************************************)
(* How main() reads the file it is given: fgets by fgets, behind what the  *)
(* buffer holds as a C string, in a buffer that is doubled as it fills up. *)
(***************************************************************************)
EXTENDS Integers, Sequences

CONSTANTS Chars,      \* the characters of a file
          Files,      \* the contents a file may have
          FirstSize,  \* the 128 characters the buffer starts with
          LineSize    \* the 64 that fgets is given at most

ASSUME FilesAssumption == Files \subseteq Seq(Chars)
ASSUME SizesAssumption == FirstSize \in Nat /\ FirstSize >= 2 /\ LineSize \in Nat /\ LineSize >= 2

VARIABLES file,      \* what the file contains
          access,    \* "ok", "missing", or "unreadable" as a directory is
          reading,   \* "open", "reading", "read", or "undefined"
          offset,    \* how much of the file has been read
          at_end,    \* feof
          size,      \* of the buffer, which has one character more
          buffer     \* the characters in it, up to the terminator

readerVars == <<file, access, reading, offset, at_end, size, buffer>>

ReaderInit == /\ file \in Files /\ access \in {"ok", "missing", "unreadable"}
              /\ reading = "open" /\ offset = 0 /\ at_end = FALSE
              /\ size = FirstSize /\ buffer = <<>>

\* fopen, whose result goes to feof unchecked.
OpenFile == /\ reading = "open"
            /\ reading' = IF access = "missing" THEN "undefined" ELSE "reading"
            /\ UNCHANGED <<file, access, offset, at_end, size, buffer>>

Newline == "\n"
Nul == "NUL"
Terminates(s, n) == /\ \A j \in 1 .. n : s[j] # Nul
                    /\ n < Len(s) => s[n + 1] = Nul

Room == size - Len(buffer)
Limit == (IF Room < LineSize THEN Room ELSE LineSize) - 1
EndsLine(k) == k > 0 /\ file[offset + k] = Newline

\* fgets takes k characters: up to a newline, the limit or the end of the file.
Takes(k) == /\ offset + k <= Len(file)
            /\ \A j \in 1 .. k - 1 : file[offset + j] # Newline
            /\ k = Limit \/ offset + k = Len(file) \/ EndsLine(k)

\* As MeetsEnd would be if what has no newline were taken for the last line.
MeetsEndEarly(k) == ~EndsLine(k)
MeetsEnd(k) == k < Limit /\ ~EndsLine(k)

\* As Grown would be if the buffer grew when it is full.
GrownLate(length) == IF length >= size THEN 2 * size ELSE size
Grown(length) == IF length + 1 >= size THEN 2 * size ELSE size

\* As Piece would be if each line were put at the start of the buffer.
PieceAlone(k) == SubSeq(file, offset + 1, offset + k)
\* What the buffer holds once fgets has taken k characters.
Piece(k) == buffer \o SubSeq(file, offset + 1, offset + k)

\* One turn of the loop; what is behind a NUL of the file is written over by the
\* next.  Of an unreadable file nothing is read, and its end is never met.
ReadSome ==
    /\ reading = "reading" /\ ~at_end /\ access = "ok"
    /\ \E k \in 0 .. Limit :
          /\ Takes(k)
          /\ \E n \in 0 .. Len(Piece(k)) :
                Terminates(Piece(k), n) /\ buffer' = SubSeq(Piece(k), 1, n)
          /\ offset' = offset + k
          /\ at_end' = MeetsEnd(k)
    /\ size' = Grown(Len(buffer'))
    /\ UNCHANGED <<file, access, reading>>

EndReading == /\ reading = "reading" /\ at_end
              /\ reading' = "read"
              /\ UNCHANGED <<file, access, offset, at_end, size, buffer>>

ReaderNext == OpenFile \/ ReadSome \/ EndReading

ReaderSpec == ReaderInit /\ [][ReaderNext]_readerVars
-----------------------------------------------------------------------------
\* What main.c:259-262 must keep: fgets always has room for a character and the
\* terminator, without which the loop would never end, and what it may write,
\* the terminator behind it too, fits the buffer.
RoomLeft == Room >= 2 /\ Len(buffer) + Limit + 1 <= size + 1

\* The text given to the compiler is the file's, piece after piece, whatever the
\* lengths of its lines and of the buffer, if there is no NUL in it.
TextKept == (\A j \in DOMAIN file : file[j] # Nul) => buffer = SubSeq(file, 1, offset)

\* The whole of a readable file is read: each turn gets further or meets the end,
\* and the loop of main.c:257 ends.
ReadingEnds == (reading = "reading" /\ access = "ok") ~> (reading = "read" /\ offset = Len(file))
=============================================================================
