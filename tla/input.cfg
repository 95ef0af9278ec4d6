CONSTANTS
    Chars <- MCChars
    Files <- MCFiles
    FirstSize = 2
    LineSize = 3
    Lines <- MCLines
    EndOfInput = EndOfInput
    QuitLine = QuitLine
    MaxLines = 3
    Reserved <- MCReserved
    MaxPutBacks = 1
SPECIFICATION Spec
INVARIANTS TypeOK RoomLeft TextKept ChunksClosed LexemesExact OperandsAreTagged PositionsRight CursorInside
PROPERTIES ReadingEnds GivenInOrder TokenEnds
CHECK_DEADLOCK FALSE
