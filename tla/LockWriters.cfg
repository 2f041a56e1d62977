\* Writers of both modes; those that append in place never rebuild.
SPECIFICATION Spec
CONSTANTS
    Proc = {p1, p2, p3}
    Nobody = Nobody
    Inode = {i1, i2, i3, i4}
    NoInode = NoInode
    Item = {x1}
    Mode = {"plain", "atomic"}
    Deleters = {"atomic"}
SYMMETRY Symmetry
INVARIANTS
    TypeOK
    
    
