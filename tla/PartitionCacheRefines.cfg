SPECIFICATION Spec
CONSTANTS
    c1 = c1
    c2 = c2
    c3 = c3
    p1 = p1
    p2 = p2
    small = small
    full = full
    big = big
    huge = huge
    Caches = {c1, c2, c3}
    Records = {small, full, big, huge}
    Size <- MCSize
    Limit = 3
    Paths = {p1, p2}
    PathOf <- MCPathOf
    NoFile = NoFile
 
 
INVARIANT MemoryBounded
PROPERTY BufferSpec
