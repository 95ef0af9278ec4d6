-------------------------------- MODULE Input -------------------------------
(***************************************************************************)
(* From a file or the keyboard to the tokens the parser asks for: the two  *)
(* branches of main() up to lang_parser, and the lexer each of them makes. *)
(***************************************************************************)
EXTENDS FileReader, LineReader, Lexer

\* readline returns a C string, as fgets does: there is no NUL in what is read.
ASSUME CharsAssumption == Chars \subseteq STRING /\ Lines \subseteq Seq(STRING \ {Nul})

VARIABLE channel  \* "file" or "console"

vars == <<channel, readerVars, lineVars, lexVars>>

Init == /\ LexerOff /\ LineInit /\ ReaderInit
        /\ \/ channel = "file"
           \/ channel = "console" /\ access = "missing" /\ file = <<>>

ReadFile == /\ channel = "file" /\ lexing = "off" /\ ReaderNext
            /\ UNCHANGED <<channel, lineVars, lexVars>>

ReadLine == /\ channel = "console" /\ lexing = "off"
            /\ \/ \E line \in Lines : FirstLine(line) \/ NextLine(line)
               \/ FirstLine(EndOfInput) \/ FirstLine(QuitLine) \/ NextLine(EndOfInput)
            /\ UNCHANGED <<channel, readerVars, lexVars>>

Begin == /\ lexing = "off"
         /\ \/ channel = "file" /\ reading = "read" /\ BeginLexing(buffer)
            \/ channel = "console" /\ prompt = "done" /\ BeginLexing(input)
         /\ UNCHANGED <<channel, readerVars, lineVars>>

\* The parser asks for tokens, and goes back.
Parse == (LexNext \/ PutBack) /\ UNCHANGED <<channel, readerVars, lineVars>>

\* The parser may end anywhere; cleanup_lexer, and the next chunk.
EndChunk == /\ channel = "console" /\ lexing = "idle" /\ NextChunk
            /\ lexing' = "off"
            /\ UNCHANGED <<channel, readerVars, string, at, tokens, token_pos, comment, token, i, put_backs>>

Next == ReadFile \/ ReadLine \/ Begin \/ Parse \/ EndChunk

\* main() is one thread, which nothing but the user keeps waiting: what it has begun,
\* a turn of the loop that reads or of the loop of lex_next, it goes on with.
Fairness == WF_vars(ReadFile) /\ WF_vars(Working /\ Parse)

Spec == Init /\ [][Next]_vars /\ Fairness
-----------------------------------------------------------------------------
TypeOK ==
    /\ channel \in {"file", "console"} /\ access \in {"ok", "missing", "unreadable"}
    /\ reading \in {"open", "reading", "read", "undefined"}
    /\ offset \in 0 .. Len(file) /\ at_end \in BOOLEAN /\ size \in Nat
    /\ prompt \in {"first", "more", "done", "exited", "undefined"}
    /\ lines_read \in 0 .. MaxLines /\ groupings \in Int
    /\ lexing \in {"off", "idle", "skip", "scan"} /\ comment \in BOOLEAN /\ token_pos \in 0 .. Len(tokens)
    /\ put_backs \in 0 .. MaxPutBacks
    /\ at.pos \in Nat /\ at.lino \in Nat \ {0} /\ at.charpos \in Nat \cup {-1}
    /\ lexing # "off" => string = (IF channel = "file" THEN buffer ELSE input)
=============================================================================
