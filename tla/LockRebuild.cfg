\* Plain writers that delete, so that a commit may rebuild.
SPECIFICATION Spec
CONSTANTS
    Proc = {p1, p2}
    Nobody = Nobody
    Inode = {i1, i2, i3}
    NoInode = NoInode
    Item = {x1}
    Mode = {"plain"}
    Deleters = {"plain"}
SYMMETRY Symmetry
INVARIANTS
    WritersEditTheLatest
