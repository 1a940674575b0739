SPECIFICATION Spec
CONSTANTS
    Threads = {t1, t2}
    MaxSeq = 6
    Size = 3
    Word = 3
PROPERTIES
    Implements
