SPECIFICATION Spec
CONSTANTS
    a = a
    b = b
    d = d
    ta = ta
    tb = tb
    td = td
    p1 = p1
    p2 = p2
    Node = {a, b}
    Stoppable = {a}
    Caller = {ta, tb}
    Home <- MCTwoHomes
    Conn = {1, 2}
    Port = {p1, p2}
INVARIANTS OpenIsRegistered AddressesAreCurrent RequestsOnCurrentPeer
CHECK_DEADLOCK FALSE
