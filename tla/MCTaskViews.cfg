CONSTANTS
    a = a  b = b  w1 = w1  w2 = w2  r1 = r1
    Task = {a, b}
    Writer = {w1, w2}
    Reader = {r1}
    MaxWrites = 2
    Nobody = Nobody
SPECIFICATION Spec
SYMMETRY symmetric
INVARIANTS
    TypeOK
    AnswersAreOneMoment
    NobodyReadsAChangingMap
