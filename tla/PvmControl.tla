----------------------------- MODULE PvmControl -----------------------------
(***************************************************************************)
(* The control flow of the PVM interpreter: how a program blob becomes     *)
(* code, bitmask, jump table and block starts (polkavm/program.go,         *)
(* interpreter/instance.go), how a step fetches, pays for and decodes an   *)
(* instruction (interpreter/step.go), where it continues, and how the loop *)
(* resumes after a host call (interpreter/invocations.go).                 *)
(*                                                                         *)
(* What an instruction computes is PvmAlu's and PvmMemory's business: here *)
(* a branch condition, the address of an indirect jump and whether memory  *)
(* can be accessed are choices.  The opcodes are grouped by the type of    *)
(* their operands and by what they do to the counter; one byte stands for  *)
(* each group.  A byte has ByteSize values, its low part names a register. *)
(*                                                                         *)
(* An index that Go refuses ends the whole client: status "crash".         *)
(***************************************************************************)
EXTENDS Integers, Sequences

CONSTANTS
    ByteSize,       \* values of a byte, 256 in the code
    RegPart,        \* values of its low part, 16 in the code
    ImmMax,         \* the longest immediate, 4 in the code
    ExtWidth,       \* the extended immediate, 8 in the code
    BitmaskMax,     \* the furthest that Skip looks, 24 in the code
    GasWord,        \* values of a Gas, 2^64 in the code
    HostCharge,     \* what host calls charge: Transfer's may be negative
    UnknownCharge,  \* what a host call that does not exist costs, 10 in the code
    Blob,           \* the program blobs that are run
    StartGas        \* the gas limits

ASSUME ControlAssumption ==
    /\ {ByteSize, RegPart, ImmMax, ExtWidth, BitmaskMax} \subseteq Nat \ {0}
    /\ {GasWord, UnknownCharge} \subseteq Nat \ {0}
    /\ StartGas \subseteq Int /\ HostCharge \subseteq Int
    /\ \A p \in Blob :
        /\ {p.length, p.entry, p.mask} \subseteq Nat
        /\ p.sizes \in {"good", "bad", "absurd"}
        /\ p.code \in [0 .. p.length - 1 -> 0 .. ByteSize - 1]
        /\ p.mask >= p.length => p.bits \in [0 .. p.length - 1 -> BOOLEAN]

VARIABLES
    blob,           \* the program
    code, bitmask,  \* its code and bitmask, one octet longer than the blob's
    blocks,         \* basicBlockInstructions
    counter,        \* instructionCounter
    gasRemaining,
    status          \* "running", "host", or how the invocation ended

controlVars == <<blob, code, bitmask, blocks, counter, gasRemaining, status>>
loaded == <<blob, code, bitmask, blocks>>

Least(x, y) == IF x < y THEN x ELSE y
Positive(x) == IF x < 0 THEN 0 ELSE x

-----------------------------------------------------------------------------
(* Opcodes.                                                                *)

\* Byte k stands for the opcodes of group k + 1; the bytes above are no opcode.
Groups == <<
    [type |-> "None", does |-> "trap"],         [type |-> "None", does |-> "fallthrough"],
    [type |-> "Offset", does |-> "jump"],       [type |-> "RegImm", does |-> "djump"],
    [type |-> "Reg2Offset", does |-> "branch"], [type |-> "Imm", does |-> "ecalli"],
    [type |-> "RegImmOffset", does |-> "branch"],
    [type |-> "RegImmOffset", does |-> "loadjump"],
    [type |-> "Reg2Imm2", does |-> "djump"],    [type |-> "Reg3", does |-> "set"],
    [type |-> "RegReg", does |-> "set"],        [type |-> "RegReg", does |-> "access"],
    [type |-> "RegImmExt", does |-> "set"],     [type |-> "Imm2", does |-> "access"],
    [type |-> "RegImm", does |-> "set"],        [type |-> "RegImm", does |-> "access"],
    [type |-> "RegImm2", does |-> "access"],    [type |-> "Reg2Imm", does |-> "set"],
    [type |-> "Reg2Imm", does |-> "access"] >>

InstructionForType(o) ==
    IF o < Len(Groups) THEN Groups[o + 1] ELSE [type |-> "None", does |-> "unknown"]

\* Mutant: a jump is free.
GasCosts_FreeJump(o) == IF o < Len(Groups) /\ o # 2 THEN 1 ELSE 0

GasCosts(o) == IF o < Len(Groups) THEN 1 ELSE 0

IsBasicBlockTermination(o) ==
    InstructionForType(o).does
        \in {"trap", "fallthrough", "jump", "djump", "loadjump", "branch"}

-----------------------------------------------------------------------------
(* Instantiate.                                                            *)

\* The octets between the instruction at i and the next one marked in k.
Skip(i, k) ==
    LET near == {j \in 0 .. BitmaskMax : i + 1 + j \in DOMAIN k /\ k[i + 1 + j]}
    IN  IF near # {} THEN CHOOSE j \in near : \A m \in near : j <= m
        ELSE IF i + 2 + BitmaskMax \in DOMAIN k THEN BitmaskMax ELSE 0

\* Mutant: a block starts at the octet after the opcode that ends the last one.
BlockStarts_NextOctet(p) ==
    {0} \cup {i + 1 : i \in {n \in 0 .. p.length - 1 :
                                p.bits[n] /\ IsBasicBlockTermination(p.code[n])}}

\* Computed before the trailing octet is appended, so without it.
BlockStarts(p) ==
    {0} \cup {i + 1 + Skip(i, p.bits) :
                i \in {n \in 0 .. p.length - 1 :
                        p.bits[n] /\ IsBasicBlockTermination(p.code[n])}}

ControlInit ==
    /\ blob \in Blob
    /\ code = <<>> /\ bitmask = <<>> /\ blocks = {}
    /\ counter = 0
    /\ gasRemaining \in StartGas
    /\ status = "start"

\* A blob whose parts cannot be decoded is a panic; sizes that cannot be allocated,
\* and a mask of fewer bits than the code has octets, are a crash.  The bits past
\* the code are cut off.
Deblob(p) ==
    IF p.sizes = "bad" THEN "panic"
    ELSE IF p.sizes = "absurd" \/ p.mask < p.length THEN "crash" ELSE "running"

Instantiate ==
    /\ status = "start"
    /\ status' = Deblob(blob)
    /\ IF Deblob(blob) = "running"
       THEN /\ code' = [i \in 0 .. blob.length |->
                            IF i < blob.length THEN blob.code[i] ELSE 0]
            /\ bitmask' = [i \in 0 .. blob.length |->
                            IF i < blob.length THEN blob.bits[i] ELSE TRUE]
            /\ blocks' = BlockStarts(blob)
            /\ counter' = blob.entry
       ELSE UNCHANGED <<code, bitmask, blocks, counter>>
    /\ UNCHANGED <<blob, gasRemaining>>

-----------------------------------------------------------------------------
(* Fetching and decoding at the counter.                                   *)

skip == Skip(counter, bitmask)
opcode == code[counter]
type == InstructionForType(opcode).type
does == InstructionForType(opcode).does

\* Where the first immediate or offset starts, counted from the counter.
Operands ==
    CASE type \in {"Imm", "Offset"} -> 1
      [] type = "Reg2Imm2" -> 3
      [] OTHER -> 2

\* The octet that tells the length of the first of two immediates.
LengthOctet == code[counter + Operands - 1]

lenX ==
    CASE type \in {"Imm", "Offset"} -> Least(ImmMax, skip)
      [] type \in {"RegImm", "Reg2Imm", "Reg2Offset"} -> Least(ImmMax, Positive(skip - 1))
      [] type \in {"Imm2", "Reg2Imm2"} -> Least(ImmMax, LengthOctet % 8)
      [] type \in {"RegImm2", "RegImmOffset"} -> Least(ImmMax, (LengthOctet \div RegPart) % 8)

lenY ==
    IF type \in {"Imm2", "RegImm2", "RegImmOffset", "Reg2Imm2"}
    THEN Least(ImmMax, Positive(skip - lenX - (Operands - 1)))
    ELSE 0

HasLengthOctet == type \in {"Imm2", "RegImm2", "RegImmOffset", "Reg2Imm2"}

\* "out of bound code access": the instruction needs more octets than there are.
OutOfBounds ==
    LET needs(n) == blob.length + 1 < counter + n
    IN  CASE type = "None" -> FALSE
          [] type = "RegReg" -> needs(1)
          [] type = "Reg3" -> needs(2)
          [] type = "RegImmExt" -> needs(2 + ExtWidth)
          [] HasLengthOctet -> ~needs(Operands) => needs(Operands + lenX + lenY)
          [] OTHER -> needs(Operands + lenX)

\* Three registers are read from two octets although one was asked for.
ReadsPastCode == type = "Reg3" /\ counter + 2 > blob.length

\* n octets of the code at i, little endian, and with the sign extended.
Octets(i, n) ==
    LET upTo[j \in 0 .. n] ==
            IF j = 0 THEN 0 ELSE upTo[j - 1] + code[i + j - 1] * ByteSize^(j - 1)
    IN  upTo[n]
SignExtend(v, n) == IF n > 0 /\ 2 * v >= ByteSize^n THEN v - ByteSize^n ELSE v

\* The offset is the last of the operands.
target ==
    LET at == counter + Operands + (IF type = "RegImmOffset" THEN lenX ELSE 0)
        n == IF type = "RegImmOffset" THEN lenY ELSE lenX
    IN  counter + SignExtend(Octets(at, n), n)

-----------------------------------------------------------------------------
(* One step.                                                               *)

Pay == gasRemaining' = gasRemaining - GasCosts(opcode)
Affordable == gasRemaining >= GasCosts(opcode)

\* There is an octet at the counter: Skip and the index are evaluated first.
Fetches == status = "running" /\ counter <= blob.length

\* The instruction whose operands are in place is executed.
Executes(what) ==
    /\ Fetches /\ Affordable /\ Pay
    /\ does = what /\ ~OutOfBounds /\ ~ReadsPastCode
    /\ UNCHANGED loaded

After(i) == i + 1 + Skip(i, bitmask)

Stop(how) == status' = how /\ UNCHANGED counter
GoOn(i) == counter' = i /\ UNCHANGED status

\* The counter that the invocation was given lies past the code.
OffTheCode ==
    /\ status = "running" /\ ~Fetches
    /\ Stop("crash")
    /\ UNCHANGED <<loaded, gasRemaining>>

DeductGas ==
    /\ Fetches /\ ~Affordable
    /\ Stop("out of gas")
    /\ UNCHANGED <<loaded, gasRemaining>>

\* Not an opcode, or one whose operands run past the end.
BadInstruction ==
    /\ Fetches /\ Affordable /\ Pay
    /\ \/ does = "unknown" /\ Stop("panic")
       \/ OutOfBounds /\ Stop("panic")
       \/ ~OutOfBounds /\ ReadsPastCode /\ Stop("crash")
    /\ UNCHANGED loaded

Trap == Executes("trap") /\ Stop("panic")
Fallthrough == Executes("fallthrough") /\ GoOn(After(counter))
Ecalli == Executes("ecalli") /\ Stop("host")

SetAndSkip == Executes("set") /\ GoOn(After(counter))

\* Loads, stores and sbrk: they skip only when the memory lets them.
AccessMemory ==
    /\ Executes("access")
    /\ GoOn(After(counter)) \/ Stop("fault")

\* The message of the panic shows the opcode at the target.
branch ==
    IF target \in blocks THEN GoOn(target)
    ELSE IF target \in 0 .. blob.length THEN Stop("panic") ELSE Stop("crash")

Jump == Executes("jump") /\ branch

\* The six branches on two registers, and the ten on a register and an immediate.
Branch ==
    /\ Executes("branch") /\ type = "Reg2Offset"
    /\ branch \/ GoOn(After(counter))

BranchImm ==
    /\ Executes("branch") /\ type = "RegImmOffset"
    /\ branch \/ GoOn(After(counter))

\* The register is set, and the counter moved on, before the jump.
LoadImmAndJump ==
    /\ Executes("loadjump")
    /\ \/ target \in blocks /\ GoOn(target)
       \/ /\ target \notin blocks
          /\ counter' = After(counter)
          /\ status' = IF target \in 0 .. blob.length THEN "panic" ELSE "crash"

AddressReturnToHost == -1   \* 2^32 - 2^16, larger than any table

djump(address) ==
    IF address = AddressReturnToHost THEN Stop("halt")
    ELSE IF address = 0 \/ address > 2 * Len(blob.table) \/ address % 2 # 0
    THEN Stop("panic")
    ELSE IF blob.table[address \div 2] \in blocks
    THEN GoOn(blob.table[address \div 2])
    ELSE Stop("panic")

JumpIndirect ==
    /\ Executes("djump") /\ type = "RegImm"
    /\ \E address \in {AddressReturnToHost} \cup 0 .. 2 * Len(blob.table) + 1 :
        djump(address)

\* The register is set before the jump, and the counter not moved.
LoadImmAndJumpIndirect ==
    /\ Executes("djump") /\ type = "Reg2Imm2"
    /\ \E address \in {AddressReturnToHost} \cup 0 .. 2 * Len(blob.table) + 1 :
        djump(address)

-----------------------------------------------------------------------------
(* The host call: how it answers and what it does is its own affair.       *)

WrapGas(g) == ((g + GasWord \div 2) % GasWord) - GasWord \div 2

\* A call that cannot be paid for charges nothing.  Its error ends an accumulation;
\* a refinement drops it and goes on.  A call may also stop the process.
HostCall ==
    /\ status = "host"
    /\ \E charge \in HostCharge :
        gasRemaining' = IF gasRemaining < charge THEN gasRemaining
                        ELSE WrapGas(gasRemaining - charge)
    /\ \/ status' = "running" /\ counter' = After(counter)
       \/ Stop("host error")
       \/ Stop("crash")
    /\ UNCHANGED loaded

\* A number that names no host call is charged for without a comparison.
HostCallUnknown ==
    /\ status = "host"
    /\ gasRemaining' = gasRemaining - UnknownCharge
    /\ status' = "running" /\ counter' = After(counter)
    /\ UNCHANGED loaded

Step ==
    \/ OffTheCode \/ DeductGas \/ BadInstruction \/ Trap \/ Fallthrough \/ Ecalli
    \/ SetAndSkip \/ AccessMemory \/ Jump \/ Branch \/ BranchImm
    \/ LoadImmAndJump \/ JumpIndirect \/ LoadImmAndJumpIndirect

ControlNext == Instantiate \/ Step \/ HostCall \/ HostCallUnknown

ControlSpec ==
    ControlInit /\ [][ControlNext]_controlVars /\ WF_controlVars(ControlNext)

-----------------------------------------------------------------------------
(* Properties.                                                             *)

\* Instructions are no longer than Skip can see, and the last one is not a
\* terminator with operands: its block would start inside them.
WellFormed(p) ==
    LET starts == {i \in 0 .. p.length - 1 : p.bits[i]}
    IN  /\ 0 \in starts
        /\ p.entry \in starts
        /\ \A i \in starts :
            \E j \in starts \cup {p.length} : j \in i + 1 .. i + 1 + BitmaskMax
        /\ \A i \in starts :
            \/ \E j \in starts : j > i
            \/ i = p.length - 1
            \/ ~IsBasicBlockTermination(p.code[i])

\* Whatever the branches, the indirect jumps and the host calls do, a well-formed
\* program is executed at instruction starts only: no octet of an operand is ever
\* taken for an opcode (instance.go 16-23 and 92-130, invocations.go 54).
StaysOnInstructions ==
    status \in {"running", "host"} /\ WellFormed(blob) =>
        counter = blob.length \/ blob.bits[counter]

\* An invocation ends, or host calls give it gas for ever: no program runs on from
\* its own gas, loops included, as each step but the last pays (step.go 17,
\* invocations.go 47-66).  Transfer adds gas when its limit, read as a signed
\* number, is negative (accumulate_functions.go 207-211); a sum past the greatest
\* Gas turns negative, and the next instruction finds none.
InvocationEnds ==
    \/ <>(status \notin {"start", "running", "host"})
    \/ []<><<HostCall /\ gasRemaining' > gasRemaining>>_controlVars

=============================================================================
