CONSTANTS
    Proc = {p1, p2, p3}
    initproc = p1
    NPAGE = 17
    PGSIZE = 2
    KERNBASE = 10
    NPTE = 2
    NKPT = 1
    Programs <- MCPrograms
    Growths <- MCGrowths
    NONE = NONE
SPECIFICATION Spec
INVARIANTS
    TypeOK
    PagesAccounted
    ImagesWhole
    
SYMMETRY MCSymmetry
