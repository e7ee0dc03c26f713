-------------------------------- MODULE MCPvm --------------------------------
(***************************************************************************)
(* The four models of the virtual machine side by side.  They share no     *)
(* state: a behaviour belongs to one of them, and the others stand still.  *)
(*                                                                         *)
(* PvmAlu has 8-bit registers: 32-bit instructions work on 4 bits, a byte  *)
(* is one bit.  The operands are the neighbourhoods of 0, of the half and  *)
(* the full width, of the least and the greatest signed half word and word *)
(* and of the greatest word, with some values in between.                  *)
(*                                                                         *)
(* PvmMemory and RefineMachines have pages of 2 bytes and zones of 4, and  *)
(* addresses in registers that count to 64.                                *)
(*                                                                         *)
(* PvmControl has octets of 5 bits, immediates of up to 2 octets and       *)
(* instructions of up to 3: gaps in the bitmask are longer in some         *)
(* programs.                                                               *)
(***************************************************************************)
EXTENDS PvmAlu, PvmMemory, RefineMachines, PvmControl

MCOperand ==
    0 .. 4 \cup 7 .. 9 \cup 14 .. 17 \cup {37} \cup 126 .. 129
        \cup {170} \cup 240 .. 241 \cup 247 .. 249 \cup 254 .. 255

\* Each declared size of the code is the true one or the one ParseBlob expects.
MCProgram ==
    {p \in [ro : {0, 1, 5}, rw : {0, 1}, stack : {0, 2, 3}, pages : {0, 1, 2},
            code : {1}, codeSize : {1, 12, 13, 17}] :
        p.codeSize \in {p.code, BlobSize(p) - (p.rw + 4)}}

MCAddress == {0, 3} \cup 4 .. 31 \cup {36, 62, 63}

AluOver == regA = 0 /\ regB = 0 /\ regD = 0 /\ imm = 0 /\ instr = "MoveReg"

MemoryOver ==
    /\ program = CHOOSE p \in MCProgram : ~ParseBlob(p)
    /\ mem = NoMemory
    /\ out = Outcome("start", 0, 0, [res |-> "panic", page |-> 0])
    /\ stores = 0

RefineOver ==
    /\ phase = "done"
    /\ gas = 0
    /\ machines = <<>> /\ map = "made"
    /\ segments = <<>>
    /\ err = "none"
    /\ last = NoCall
    /\ result = [kind |-> "ok", why |-> "halt", segments |-> <<>>]

\* Blobs that do not become a program: sizes that are wrong or absurd, and a mask
\* with a bit less than the code has octets.
MCRefused ==
    [length : {0}, code : {<<>>}, bits : {<<>>}, table : {<<>>}, entry : {0},
     mask : {0}, sizes : {"bad", "absurd"}]
    \cup [length : {1}, code : [{0} -> {1}], bits : {<<>>}, table : {<<>>},
          entry : {0}, mask : {0}, sizes : {"good"}]

\* All programs of two octets, those of three over half of the opcodes, those of
\* four over the jumps; 30 and 31 are the offsets -2 and -1, and no opcodes.  The
\* short ones are also entered inside and past the code.
MCBlob ==
    LET programs(n, octets, entries) ==
            [length : {n}, code : [0 .. n - 1 -> octets],
             bits : {k \in [0 .. n - 1 -> BOOLEAN] : k[0]},
             table : {<<n - 1, n>>}, entry : entries, mask : {8}, sizes : {"good"}]
    IN  programs(2, 0 .. 19 \cup {30, 31}, {0, 1, 2, 3})
        \cup programs(3, 0 .. 9 \cup {13, 30}, {0})
        \cup programs(4, {1, 2, 4, 5, 30}, {0})
        \cup MCRefused

\* A call that costs, and a transfer that gives.
MCHostCharge == {2, -5}

ControlOver ==
    /\ blob = CHOOSE p \in MCRefused : Deblob(p) = "panic"
    /\ code = <<>> /\ bitmask = <<>> /\ blocks = {}
    /\ counter = 0
    /\ gasRemaining = 0
    /\ status = "panic"

VARIABLE part  \* the model that the behaviour belongs to

MCInit ==
    \/ part = "alu" /\ AluInit /\ MemoryOver /\ RefineOver /\ ControlOver
    \/ part = "memory" /\ AluOver /\ MemoryInit /\ RefineOver /\ ControlOver
    \/ part = "refine" /\ AluOver /\ MemoryOver /\ RefineInit /\ ControlOver
    \/ part = "control" /\ AluOver /\ MemoryOver /\ RefineOver /\ ControlInit

MCNext ==
    /\ \/ part = "alu" /\ AluNext /\ UNCHANGED <<memoryVars, refineVars, controlVars>>
       \/ part = "memory" /\ MemoryNext /\ UNCHANGED <<aluVars, refineVars, controlVars>>
       \/ part = "refine" /\ RefineNext /\ UNCHANGED <<aluVars, memoryVars, controlVars>>
       \/ part = "control" /\ ControlNext /\ UNCHANGED <<aluVars, memoryVars, refineVars>>
    /\ UNCHANGED part

\* The interpreter's loop runs on until a step ends it.
MCSpec ==
    /\ MCInit
    /\ [][MCNext]_<<aluVars, memoryVars, refineVars, controlVars, part>>
    /\ WF_controlVars(part = "control" /\ ControlNext)

=============================================================================
