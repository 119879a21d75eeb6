\* Two sources, three saves, one crash or deletion.
SPECIFICATION LtmSpec
CONSTANTS
    f1 = f1
    f2 = f2
    Facts = {f1, f2}
    Resemble <- AllResemble
    Sources = {s1, s2}
    Savers = {w1, w2}
    MaxSaves = 3
    MaxFaults = 1
PROPERTIES
    UndoRestoresReplaced
CHECK_DEADLOCK FALSE
