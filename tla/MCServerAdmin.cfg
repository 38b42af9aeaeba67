SPECIFICATION Spec
CONSTANTS
    Default = d
    Issued = {k1}
    Sids = {s1, s2}
    Missing = Missing
    Torn = Torn
    MaxBytes = 1
SYMMETRY Interchangeable
INVARIANTS RevokedStayOut IssuedRemembered NothingCountedTwice
