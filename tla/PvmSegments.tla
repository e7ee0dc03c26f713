------------------------------ MODULE PvmSegments ------------------------------
(***************************************************************************)
(* polkavm.Memory (common.go): four segments, each with an address, its    *)
(* bytes and one access mode.  A range must lie within one segment;        *)
(* otherwise the code looks for the first page that lacks the access and   *)
(* faults on it.  Bytes are 0 or 1.                                        *)
(***************************************************************************)
EXTENDS Integers, Sequences, FiniteSets, FiniteSetsExt

CONSTANTS PageSize, MemoryZoneSize, RegWord

ASSUME SegmentsAssumption ==
    /\ PageSize \in Nat \ {0}
    /\ MemoryZoneSize \in Nat \ {0} /\ MemoryZoneSize % PageSize = 0
    /\ RegWord \in Nat /\ RegWord > MemoryZoneSize

\* The order in which the segments are tried.
Order == <<"stack", "rw", "ro", "args">>
Segments == {Order[i] : i \in 1 .. 4}

Segment == [address : Nat, access : {"R", "W", "none"}, data : Seq({0, 1})]
Memories == [Segments -> Segment]

\* The zero value of the struct.
NoMemory == [s \in Segments |-> [address |-> 0, access |-> "none", data |-> <<>>]]

-----------------------------------------------------------------------------
(* Reading and writing.                                                    *)

End(s) == s.address + Len(s.data)

\* Mutant: only the start of the range is compared with the segment's end.
Holds_Start(s, x, n) == x >= s.address /\ x < End(s)

\* The end of the range is a uint64 sum.
Holds(s, x, n) == x >= s.address /\ (x + n) % RegWord <= End(s)

First(P(_)) ==
    LET hits == {i \in 1 .. 4 : P(Order[i])}
    IN  IF hits = {} THEN "none" ELSE Order[Min(hits)]

SegmentOf(m, x, n) == First(LAMBDA s : Holds(m[s], x, n))

SegmentAt(m, x) == First(LAMBDA s : x >= m[s].address /\ x < End(m[s]))

GetAccess(m, page) ==
    LET s == SegmentAt(m, page * PageSize)
    IN  IF s = "none" THEN "none" ELSE m[s].access

\* Mutant: the search begins after the first page.
Fault_Second(m, x, n, allowed) ==
    LET bad == {p \in (x \div PageSize + 1) .. (((x + n) % RegWord) \div PageSize) :
                    GetAccess(m, p) \notin allowed}
    IN  IF bad = {} THEN [res |-> "panic", page |-> 0]
        ELSE [res |-> "fault", page |-> Min(bad)]

\* The first page of the range whose access is not among the allowed ones.
Fault(m, x, n, allowed) ==
    LET bad == {p \in (x \div PageSize) .. (((x + n) % RegWord) \div PageSize) :
                    GetAccess(m, p) \notin allowed}
    IN  IF bad = {} THEN [res |-> "panic", page |-> 0]
        ELSE [res |-> "fault", page |-> Min(bad)]

\* What Read and Write decide, before any byte is copied.
Access(m, x, n, allowed) ==
    LET s == SegmentOf(m, x, n) IN
    IF x < MemoryZoneSize THEN [res |-> "panic", page |-> 0]
    ELSE IF s # "none" /\ x + n >= RegWord THEN [res |-> "crash", page |-> 0]
    ELSE IF s # "none" /\ m[s].access \in allowed THEN [res |-> "ok", page |-> 0]
    ELSE Fault(m, x, n, allowed)

Read(m, x, n) == Access(m, x, n, {"R", "W"})

Write(m, x, n) == Access(m, x, n, {"W"})

\* The memory after n times the byte b is written at x.
Written(m, x, n, b) ==
    LET s == SegmentOf(m, x, n)
        lo == x - m[s].address
    IN  [m EXCEPT ![s].data =
            [i \in DOMAIN @ |-> IF i \in (lo + 1) .. (lo + n) THEN b ELSE @[i]]]

=============================================================================
