CONSTANTS
    FileLists <- MCFileLists
    Numbers = {"7"}
    Zero = "0"
    NULL = NULL
SPECIFICATION Spec
PROPERTIES ReadingEnds
INVARIANTS
    ReadersOK ReadAsWritten CutIsNothing
