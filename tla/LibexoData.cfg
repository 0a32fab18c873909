SPECIFICATION MCSafeSpec
CONSTANTS
    Thread = {t1, t2, t3}
    UShort = 5
    SIZE = 2
    Consumer = {"c", "d"}
    Word = 4
    MaxItems = 5
    Polling = {"p"}
    Ending = {"e"}
    Endless = {"n"}
    Waiter = {"v", "w"}
    MaxWakes = 3
    Comp = {"nic", "mem", "dummy"}
    Client = {"u", "v"}
    MaxRefs = 2
    Kinds = {"slab", "span", "tracker", "metadata", "layout", "avl", "list", "channel", "table",
             "topology", "masks"}
    Block = {b1, b2}
    Worker = {w1, w2}
    None = None
    Node = {n1, n2, n3}
INVARIANTS
    StructuresReadTrue
    MasksReadTrue
    AllocationsApart
PROPERTIES
    FreeListIsFifo
SYMMETRY Symmetry
CHECK_DEADLOCK FALSE
