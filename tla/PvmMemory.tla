------------------------------ MODULE PvmMemory ------------------------------
(***************************************************************************)
(* The memory of a PVM program: its layout (initialisation.go) and the     *)
(* loads, stores and sbrk of the interpreter (mutations.go, instance.go)   *)
(* on the segments of PvmSegments.                                         *)
(*                                                                         *)
(* Addresses are uint64 sums of a register and an immediate, so they wrap  *)
(* at RegWord and may lie beyond the 32-bit address space; slicing a       *)
(* segment at such an address stops the process ("crash").                 *)
(*                                                                         *)
(* The page, the zone and the address space are constants; the code has    *)
(* 2^12, 2^16, 2^24 for the input, 2^32 and 2^64.                          *)
(***************************************************************************)
EXTENDS PvmSegments

CONSTANTS
    InputDataSize, AddressSpaceSize,
    Program,    \* blobs: sizes ro, rw, stack, pages; code and its declared size
    ArgsSize,   \* the sizes of the arguments
    Address,    \* the addresses that programs access
    Length,     \* the lengths of their loads and stores
    Request,    \* the sizes they ask sbrk for
    MaxStores   \* bound on the stores of a program

ASSUME MemoryAssumption ==
    /\ AddressSpaceSize \in Nat /\ AddressSpaceSize % MemoryZoneSize = 0
    /\ InputDataSize \in Nat /\ InputDataSize % PageSize = 0
    /\ RegWord > AddressSpaceSize
    /\ \A p \in Program : {p.ro, p.rw, p.stack, p.pages} \subseteq Nat
    /\ ArgsSize \subseteq Nat
    /\ Address \subseteq 0 .. (RegWord - 1)
    /\ Length \subseteq 1 .. MemoryZoneSize
    /\ Request \subseteq Nat /\ MaxStores \in Nat

VARIABLES
    program,    \* the blob that is invoked
    mem,        \* segment name -> [address, data, access]
    out,        \* the last operation and its outcome
    stores      \* the number of stores so far, for the bound

memoryVars == <<program, mem, out, stores>>

StackAddressHigh == AddressSpaceSize - 2 * MemoryZoneSize - InputDataSize
ArgsAddressLow == AddressSpaceSize - MemoryZoneSize - InputDataSize

AlignTo(x, n) == IF x % n = 0 THEN x ELSE ((x + n) \div n) * n
alignToPage(x) == AlignTo(x, PageSize)
alignToZone(x) == AlignTo(x, MemoryZoneSize)

-----------------------------------------------------------------------------
(* A program's blob and the layout of its memory.                          *)

\* copySized: n bytes of the program's data, which are 1, padded with zeros.
copySized(n, size) == [i \in 1 .. size |-> IF i <= n THEN 1 ELSE 0]

\* E3(|o|), E3(|w|), E2(z) and E3(s) precede the data, E4(|c|) the code.
HeaderSize == 11
BlobSize(p) == HeaderSize + p.ro + p.rw + 4 + p.code

\* ParseBlob compares the length of the data with its size before it reads the
\* data, and the declared size of the code with all but |w| + 4 bytes of the blob.
ParseBlob(p) ==
    /\ p.rw = 0
    /\ BlobSize(p) - (p.rw + 4) = p.codeSize

\* Is the layout accepted?  The size of the read-only data is not counted.
Accepted(l) ==
    5 * MemoryZoneSize + alignToZone(l.rw + l.pages * PageSize)
        + alignToZone(l.stack) + InputDataSize <= AddressSpaceSize

InitializeMemory(l, args) ==
    [ro    |-> [address |-> MemoryZoneSize, access |-> "R",
                data |-> copySized(l.ro, alignToPage(l.ro))],
     rw    |-> [address |-> 2 * MemoryZoneSize + alignToZone(l.ro), access |-> "W",
                data |-> copySized(l.rw, alignToPage(l.rw) + l.pages * PageSize)],
     stack |-> [address |-> StackAddressHigh - alignToPage(l.stack), access |-> "W",
                data |-> copySized(0, alignToPage(l.stack))],
     args  |-> [address |-> ArgsAddressLow, access |-> "R",
                data |-> copySized(args, alignToPage(args))]]

-----------------------------------------------------------------------------
(* The heap.                                                               *)

HeapPointer(m) == End(m.rw)

\* A larger heap is a new slice of zeros, as long as the new heap pointer.
Grown(m, pointer) ==
    [m EXCEPT !.rw.data = [i \in 1 .. alignToPage(pointer) |-> 0]]

-----------------------------------------------------------------------------
(* The instructions.  A program goes on while they succeed.                *)

ProgramRuns == out.res = "ok"

Outcome(op, x, n, r) == [op |-> op, at |-> x, len |-> n, res |-> r.res, page |-> r.page]

\* A program whose blob or layout is refused panics before its first instruction.
MemoryInit ==
    \E p \in Program, n \in ArgsSize :
        LET starts == ParseBlob(p) /\ Accepted(p) IN
        /\ program = p
        /\ mem = IF starts THEN InitializeMemory(p, n) ELSE NoMemory
        /\ out = Outcome("start", 0, 0,
                         [res |-> IF starts THEN "ok" ELSE "panic", page |-> 0])
        /\ stores = 0

Load ==
    \E x \in Address, n \in Length :
        /\ ProgramRuns
        /\ out' = Outcome("load", x, n, Read(mem, x, n))
        /\ UNCHANGED <<program, mem, stores>>

Store ==
    \E x \in Address, n \in Length :
        /\ ProgramRuns
        /\ stores < MaxStores /\ stores' = stores + 1
        /\ UNCHANGED program
        /\ LET r == Write(mem, x, n) IN
           /\ out' = Outcome("store", x, n, r)
           /\ mem' = IF r.res = "ok" THEN Written(mem, x, n, 1) ELSE mem

\* The register receives the end of the heap, here the page of the outcome.
Sbrk ==
    \E size \in Request :
        /\ ProgramRuns
        /\ UNCHANGED <<program, stores>>
        /\ LET h == HeapPointer(mem)
               new == (h + size) % RegWord
               grown == IF new > h THEN Grown(mem, new) ELSE mem
           IN
           IF size = 0 THEN
                /\ out' = Outcome("sbrk", h, 0, [res |-> "ok", page |-> h])
                /\ UNCHANGED mem
           ELSE IF new >= mem.stack.address THEN
                /\ out' = Outcome("sbrk", h, size, [res |-> "fault", page |-> new])
                /\ UNCHANGED mem
           ELSE
                /\ mem' = grown
                /\ out' = Outcome("sbrk", h, size,
                                  [res |-> "ok", page |-> HeapPointer(grown)])

MemoryNext == Load \/ Store \/ Sbrk

MemorySpec == MemoryInit /\ [][MemoryNext]_memoryVars

-----------------------------------------------------------------------------
(* Properties.                                                             *)

\* Every segment has whole pages of bytes, and an outcome is a success, a page
\* fault, a panic of the program or a crash of the process.
MemoryTypeOK ==
    /\ program \in Program
    /\ \A s \in Segments :
        /\ mem[s].address \in 0 .. AddressSpaceSize
        /\ \A i \in DOMAIN mem[s].data : mem[s].data[i] \in {0, 1}
        /\ Len(mem[s].data) % PageSize = 0
        /\ mem[s].access \in {"R", "W", "none"}
    /\ stores \in 0 .. MaxStores
    /\ out.op \in {"start", "load", "store", "sbrk"}
    /\ out.res \in {"ok", "fault", "panic", "crash"}

\* Byte x may be read (allowed = R, W) or written (allowed = W).
Allowed(m, x, allowed) ==
    \E s \in Segments : x >= m[s].address /\ x < End(m[s]) /\ m[s].access \in allowed

\* No segment reaches the next one.
Apart(m) ==
    \A s, t \in Segments :
        s # t /\ m[s].address <= m[t].address /\ Len(m[s].data) > 0
            => End(m[s]) < m[t].address

\* While no segment reaches another one, a page fault of a load or store names the
\* first page of its range that lacks the access ("find the minimum page that is
\* not readable", common.go 59, and "return min(page) where the issue was found",
\* 100), although segments are searched and not pages, and the search goes on to
\* the page after the range.
FaultsAtFirstBadPage ==
    Apart(mem) /\ out.op \in {"load", "store"} /\ out.res = "fault" =>
        LET allowed == IF out.op = "load" THEN {"R", "W"} ELSE {"W"}
            bad == {x \in out.at .. (out.at + out.len - 1) : ~Allowed(mem, x, allowed)}
        IN  bad # {} /\ out.page = Min(bad) \div PageSize

\* When sbrk succeeds, the bytes that were asked for lie in the heap: from the
\* old heap pointer on, size bytes can be written (Sbrk, common.go 110-126).  A
\* request so large that the sum with the heap pointer wraps is answered without
\* any growth.
GrowthAvailable ==
    out.op = "sbrk" /\ out.res = "ok" /\ out.at + out.len < RegWord =>
        \A x \in out.at .. (out.at + out.len - 1) : Allowed(mem, x, {"W"})

\* A load that succeeds reads readable bytes only, to the last one: the range may
\* not leave the segment in which it begins (Read, common.go 43-55).
LoadsReadable ==
    out.op = "load" /\ out.res = "ok" =>
        \A x \in out.at .. (out.at + out.len - 1) : Allowed(mem, x, {"R", "W"})

\* What the memory grants, by a load or by sbrk, can be accessed (Read and Sbrk,
\* common.go 43-55 and 110-126).
GrantedIsAccessible == LoadsReadable /\ GrowthAvailable

\* The layout leaves room for all of its parts, "5Z_Z + Z(|o|) + Z(|w| + zZ_P) +
\* Z(s) + Z_I ≤ 2^32" (initialisation.go 36), so a program starts with its heap
\* below its stack.  The code leaves Z(|o|) out.
LayoutFits == out.op = "start" => End(mem.rw) <= mem.stack.address

\* sbrk answers with the start of the new bytes: "ω′D ≡ min(x ∈ NR): x ≥ h,
\* Nx⋅⋅⋅+ωA ~⊆ Vμ, Nx⋅⋅⋅+ωA ⊆ V∗μ′" (mutations.go 232-235).  The code answers with
\* the end of the heap.
SbrkAnswersStart ==
    out.op = "sbrk" /\ out.res = "ok" =>
        \A x \in out.page .. (out.page + out.len - 1) : Allowed(mem, x, {"W"})

\* The heap never reaches the stack, "where the next memory segment begins"
\* (common.go 117), in a program whose layout had it below.  The code makes the
\* heap as long as the new pointer is high.
HeapBelowStack ==
    out.op = "sbrk" /\ out.at <= mem.stack.address => End(mem.rw) <= mem.stack.address

\* Addresses count modulo the address space, "☇ if min(x) mod 2^32 < 2^16"
\* (common.go 37): an access at 2^32 + x ends as the access at x does.  The code
\* takes the whole register.
AddressesWrap ==
    out.op = "load" =>
        out.res = Read(mem, out.at % AddressSpaceSize, out.len).res

\* A blob of the form "E3(|o|) ⌢ E3(|w|) ⌢ E2(z) ⌢ E3(s) ⌢ o ⌢ w ⌢ E4(|c|) ⌢ c = p"
\* (program.go 26), which declares the size that its code has, is parsed.
WellFormedParsed == program.codeSize = program.code => ParseBlob(program)

=============================================================================
