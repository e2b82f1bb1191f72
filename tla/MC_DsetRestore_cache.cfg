\* A set created twice under -exist, then destroyed, stays in the cache.
CONSTANTS
    s1 = s1
    s2 = s2
    e1 = e1
    e2 = e2
    NoSet = NoSet
    NoElem = NoElem
    Sets <- MCSets
    Elems <- MCElems
    MaxLine = 4
    BufCap = 2
    LineExist = {FALSE}
SYMMETRY Symmetry
SPECIFICATION Spec
INVARIANT CacheSound
