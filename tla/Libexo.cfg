SPECIFICATION MCSpec
CONSTANTS
    Thread = {t1, t2, t3}
    UShort = 5
    SIZE = 2
    Consumer = {"c", "d"}
    Word = 4
    MaxItems = 5
    Polling = {"p"}
    Ending = {"e"}
    Endless = {"n"}
    Waiter = {"v", "w"}
    MaxWakes = 3
    Comp = {"nic", "mem", "dummy"}
    Client = {"u", "v"}
    MaxRefs = 2
    Kinds = {"ticket", "spmc", "numa", "queue", "threads", "events", "components"}
    Block = {b1, b2}
    Worker = {w1, w2}
    None = None
    Node = {n1, n2, n3}
INVARIANTS
    LibexoInv
    MutualExclusion
    ObjectLifetimes
PROPERTIES
    FirstComeFirstServed
    BuffersAreFifo
    LibexoProgress
CHECK_DEADLOCK FALSE
