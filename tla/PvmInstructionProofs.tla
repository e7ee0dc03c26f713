------------------------ MODULE PvmInstructionProofs ------------------------
(***************************************************************************)
(* The instructions of the virtual machine.  For every program: one that   *)
(* is well formed is executed at its instructions.  The arithmetic keeps   *)
(* the promises of the comments of mutations.go for all contents of the    *)
(* registers and not those alone that a run tries.                         *)
(***************************************************************************)
EXTENDS PvmControl, PvmAlu, WellFoundedInduction, TLAPS

HIDE ControlAssumption
HIDE AluAssumption

-----------------------------------------------------------------------------
(* Numbers.                                                                *)

\* A nonempty set of natural numbers has a least element.
LEMMA LeastExists ==
  ASSUME NEW S, S \subseteq Nat, S # {}
  PROVE  \E m \in S : \A n \in S : m <= n
<1>1. PICK m \in S : \A n \in S : ~ (<<n, m>> \in OpToRel(<, Nat))
  BY NatLessThanWellFounded, WFMin
<1>2. ASSUME NEW n \in S, n < m PROVE FALSE
  <2>1. <<n, m>> \in OpToRel(<, Nat)
    BY <1>2 DEF OpToRel
  <2> QED BY <1>1, <2>1
<1> QED BY <1>2

-----------------------------------------------------------------------------
(* PvmControl.                                                             *)

\* The instruction starts of a program.
Starts(p) == {i \in 0 .. p.length - 1 : p.bits[i]}

\* While a program runs, its mask is complete; code and bitmask are the blob's with one octet more, an
\* instruction that traps; the counter is at an instruction or at that octet, and
\* a host call was made by an instruction.
ControlIInv ==
  /\ blob \in Blob
  /\ status \in {"running", "host"} =>
      /\ blob.mask >= blob.length
      /\ code = [i \in 0 .. blob.length |-> IF i < blob.length THEN blob.code[i] ELSE 0]
      /\ bitmask = [i \in 0 .. blob.length |->
                       IF i < blob.length THEN blob.bits[i] ELSE TRUE]
      /\ blocks = BlockStarts(blob)
      /\ WellFormed(blob) =>
          /\ counter \in Starts(blob) \cup {blob.length}
          /\ status = "host" => counter # blob.length

\* Skip returns the distance to the next mark that it can see.
LEMMA SkipSees ==
  ASSUME NEW k, NEW n \in Nat, DOMAIN k = 0 .. n - 1, NEW i \in 0 .. n - 1,
         NEW j \in i + 1 .. i + 1 + BitmaskMax, j < n, k[j]
  PROVE  /\ Skip(i, k) \in Nat
         /\ i + 1 + Skip(i, k) < n
         /\ k[i + 1 + Skip(i, k)]
<1> DEFINE near == {m \in 0 .. BitmaskMax : i + 1 + m \in DOMAIN k /\ k[i + 1 + m]}
<1>1. BitmaskMax \in Nat
  BY ControlAssumption
<1>2. j - i - 1 \in 0 .. BitmaskMax /\ i + 1 + (j - i - 1) = j /\ j \in DOMAIN k
  BY <1>1
<1>3. near \subseteq Nat /\ near # {}
  <2>1. 0 .. BitmaskMax \subseteq Nat
    BY <1>1
  <2>2. j - i - 1 \in near
    BY <1>2, Zenon
  <2>3. near \subseteq 0 .. BitmaskMax
    BY Zenon
  <2> HIDE DEF near
  <2> QED BY <2>1, <2>2, <2>3, Zenon
<1>4. Skip(i, k) = CHOOSE m \in near : \A q \in near : m <= q
  BY <1>3 DEF Skip
<1>5. \E m \in near : \A q \in near : m <= q
  <2> HIDE DEF near
  <2> QED BY <1>3, LeastExists
<1>6. Skip(i, k) \in near
  BY <1>4, <1>5
<1> QED BY <1>1, <1>6

\* The instruction after one of a well-formed program.
LEMMA AfterStart ==
  ASSUME ControlIInv, status \in {"running", "host"}, WellFormed(blob),
         NEW i \in Starts(blob)
  PROVE  After(i) \in Starts(blob) \cup {blob.length}
<1>1. blob.length \in Nat /\ BitmaskMax \in Nat /\ i \in 0 .. blob.length - 1
  BY ControlAssumption DEF ControlIInv, Starts
<1>2. bitmask = [n \in 0 .. blob.length |-> IF n < blob.length THEN blob.bits[n] ELSE TRUE]
  BY DEF ControlIInv
<1>3. PICK j \in Starts(blob) \cup {blob.length} : j \in i + 1 .. i + 1 + BitmaskMax
  BY DEF WellFormed, Starts
<1>4. j \in 0 .. blob.length /\ bitmask[j]
  BY <1>1, <1>2, <1>3 DEF Starts
<1>5. DOMAIN bitmask = 0 .. (blob.length + 1) - 1
  BY <1>1, <1>2
<1>6. /\ Skip(i, bitmask) \in Nat
      /\ i + 1 + Skip(i, bitmask) < blob.length + 1
      /\ bitmask[i + 1 + Skip(i, bitmask)]
  BY <1>1, <1>3, <1>4, <1>5, SkipSees
<1> DEFINE a == i + 1 + Skip(i, bitmask)
<1>7. a \in 0 .. blob.length /\ bitmask[a]
  BY <1>1, <1>6
<1> HIDE DEF a
<1>8. a \in Starts(blob) \cup {blob.length}
  BY <1>1, <1>2, <1>7 DEF Starts
<1> QED BY <1>8 DEF a, After

\* Every block of a well-formed program starts at an instruction or at the end.
LEMMA BlocksAreStarts ==
  ASSUME NEW p \in Blob, p.mask >= p.length, WellFormed(p)
  PROVE  BlockStarts(p) \subseteq Starts(p) \cup {p.length}
<1>1. p.length \in Nat /\ BitmaskMax \in Nat /\ DOMAIN p.bits = 0 .. p.length - 1
  BY ControlAssumption
<1>2. 0 \in Starts(p)
  BY DEF WellFormed, Starts
<1>3. ASSUME NEW i \in 0 .. p.length - 1, p.bits[i], IsBasicBlockTermination(p.code[i])
      PROVE  i + 1 + Skip(i, p.bits) \in Starts(p) \cup {p.length}
  <2>1. i \in Starts(p)
    BY <1>3 DEF Starts
  <2>2. CASE \E j \in Starts(p) : j > i
    <3>1. PICK j \in Starts(p) : j > i
      BY <2>2
    <3>2. PICK n \in Starts(p) \cup {p.length} : n \in i + 1 .. i + 1 + BitmaskMax
      BY <2>1 DEF WellFormed, Starts
    <3>3. \E q \in Starts(p) : q \in i + 1 .. i + 1 + BitmaskMax
      BY <1>1, <3>1, <3>2 DEF Starts
    <3>4. PICK q \in Starts(p) : q \in i + 1 .. i + 1 + BitmaskMax
      BY <3>3
    <3>5. q < p.length /\ p.bits[q]
      BY <1>1 DEF Starts
    <3>6. /\ Skip(i, p.bits) \in Nat
          /\ i + 1 + Skip(i, p.bits) < p.length
          /\ p.bits[i + 1 + Skip(i, p.bits)]
      BY <1>1, <3>4, <3>5, SkipSees
    <3>7. i + 1 + Skip(i, p.bits) \in 0 .. p.length - 1
      BY <1>1, <3>6
    <3> QED BY <3>6, <3>7, Zenon DEF Starts
  <2>3. CASE i = p.length - 1
    <3>1. \A m \in Nat : i + 1 + m \notin DOMAIN p.bits
      BY <1>1, <2>3
    <3>2. BitmaskMax \in Nat
      BY ControlAssumption
    <3>3. i + 2 + BitmaskMax \notin DOMAIN p.bits
      BY <1>1, <2>3, <3>2
    <3>4. {j \in 0 .. BitmaskMax : i + 1 + j \in DOMAIN p.bits /\ p.bits[i + 1 + j]} = {}
      BY <3>1, <3>2
    <3>5. Skip(i, p.bits) = 0
      BY <3>3, <3>4 DEF Skip
    <3> QED BY <1>1, <2>3, <3>5
  <2> QED BY <1>3, <2>1, <2>2, <2>3 DEF WellFormed, Starts
<1> QED BY <1>2, <1>3 DEF BlockStarts

\* The octet after the program traps.
LEMMA EndTraps ==
  ASSUME ControlIInv, status = "running", counter = blob.length
  PROVE  does = "trap"
<1>1. blob.length \in Nat
  BY ControlAssumption DEF ControlIInv
<1>2. code[blob.length] = 0
  BY <1>1 DEF ControlIInv
<1>3. Len(Groups) = 19 /\ Groups[1] = [type |-> "None", does |-> "trap"]
  BY DEF Groups
<1> QED BY <1>2, <1>3 DEF does, opcode, InstructionForType

\* A machine that has stopped is at no instruction, so nothing is to show.
LEMMA StopStep ==
  ASSUME ControlIInv, UNCHANGED loaded, status' \notin {"running", "host"}
  PROVE  ControlIInv'
BY DEF ControlIInv, loaded

\* An instruction that does not trap continues after itself or at a block.
LEMMA GoOnStep ==
  ASSUME ControlIInv, NEW what, what # "trap", Executes(what),
         NEW i, i = After(counter) \/ i \in blocks, GoOn(i)
  PROVE  ControlIInv'
<1>1. status = "running" /\ status' = "running" /\ counter' = i /\ UNCHANGED loaded
  BY DEF Executes, Fetches, GoOn
<1>2. blob' = blob /\ code' = code /\ bitmask' = bitmask /\ blocks' = blocks
  BY <1>1 DEF loaded
<1>3. ASSUME WellFormed(blob) PROVE i \in Starts(blob) \cup {blob.length}
  <2>1. counter # blob.length
    BY <1>1, EndTraps DEF Executes
  <2>2. counter \in Starts(blob)
    BY <1>1, <1>3, <2>1 DEF ControlIInv
  <2>3. After(counter) \in Starts(blob) \cup {blob.length}
    BY <1>1, <1>3, <2>2, AfterStart
  <2>4. blocks \subseteq Starts(blob) \cup {blob.length}
    BY <1>1, <1>3, BlocksAreStarts DEF ControlIInv
  <2> QED BY <2>3, <2>4
<1> QED BY <1>1, <1>2, <1>3 DEF ControlIInv

\* A dynamic jump halts, panics or lands on a block.
LEMMA DjumpStep ==
  ASSUME ControlIInv, Executes("djump"), NEW address, djump(address)
  PROVE  ControlIInv'
<1>1. UNCHANGED loaded
  BY DEF Executes
<1>2. \/ \E how \in {"halt", "panic"} : Stop(how)
      \/ \E i \in blocks : GoOn(i)
  BY DEF djump
<1>3. CASE \E how \in {"halt", "panic"} : Stop(how)
  BY <1>1, <1>3, StopStep DEF Stop
<1>4. CASE \E i \in blocks : GoOn(i)
  BY <1>4, GoOnStep
<1> QED BY <1>2, <1>3, <1>4

\* A branch crashes, panics or lands on a block.
LEMMA BranchStep ==
  ASSUME ControlIInv, NEW what, what # "trap", Executes(what), branch
  PROVE  ControlIInv'
<1>1. UNCHANGED loaded
  BY DEF Executes
<1>2. \/ \E how \in {"crash", "panic"} : Stop(how)
      \/ \E i \in blocks : GoOn(i)
  BY DEF branch
<1>3. CASE \E how \in {"crash", "panic"} : Stop(how)
  BY <1>1, <1>3, StopStep DEF Stop
<1>4. CASE \E i \in blocks : GoOn(i)
  BY <1>4, GoOnStep
<1> QED BY <1>2, <1>3, <1>4

\* Every step of a well-formed program keeps to its instructions.
LEMMA ControlStep ==
  ASSUME ControlIInv, ControlNext
  PROVE  ControlIInv'
<1>1. CASE Instantiate
  <2>1. CASE Deblob(blob) = "running"
    <3>1. blob' = blob /\ status' = "running" /\ counter' = blob.entry
      BY <1>1, <2>1 DEF Instantiate
    <3>2. WellFormed(blob) => blob.entry \in Starts(blob)
      BY DEF WellFormed, Starts
    <3>3. /\ code' = [i \in 0 .. blob.length |->
                         IF i < blob.length THEN blob.code[i] ELSE 0]
          /\ bitmask' = [i \in 0 .. blob.length |->
                            IF i < blob.length THEN blob.bits[i] ELSE TRUE]
          /\ blocks' = BlockStarts(blob)
      BY <1>1, <2>1 DEF Instantiate
    <3>4. blob.mask >= blob.length
      BY <2>1, ControlAssumption DEF Deblob, ControlIInv
    <3> QED BY <3>1, <3>2, <3>3, <3>4 DEF ControlIInv
  <2>2. CASE Deblob(blob) # "running"
    <3>1. status' \in {"panic", "crash"} /\ UNCHANGED loaded
      BY <1>1, <2>2 DEF Instantiate, Deblob, loaded
    <3> QED BY <3>1, StopStep
  <2> QED BY <2>1, <2>2
<1>2. CASE DeductGas
  BY <1>2, StopStep DEF DeductGas, Stop, loaded
<1>3. CASE BadInstruction
  BY <1>3, StopStep DEF BadInstruction, Stop
<1>4. CASE Trap
  BY <1>4, StopStep DEF Trap, Stop, Executes
<1>5. CASE Fallthrough
  BY <1>5, GoOnStep DEF Fallthrough
<1>6. CASE Ecalli
  <2>1. counter # blob.length
    BY <1>6, EndTraps DEF Ecalli, Executes, Fetches
  <2> QED BY <1>6, <2>1 DEF Ecalli, Executes, Fetches, Stop, loaded, ControlIInv
<1>7. CASE SetAndSkip
  BY <1>7, GoOnStep DEF SetAndSkip
<1>8. CASE AccessMemory
  <2>1. CASE GoOn(After(counter))
    BY <1>8, <2>1, GoOnStep DEF AccessMemory
  <2>2. CASE Stop("fault")
    BY <1>8, <2>2, StopStep DEF AccessMemory, Stop, Executes
  <2> QED BY <1>8, <2>1, <2>2 DEF AccessMemory
<1>9. CASE Jump
  BY <1>9, BranchStep DEF Jump
<1>10. CASE Branch
  BY <1>10, BranchStep, GoOnStep DEF Branch
<1>11. CASE BranchImm
  BY <1>11, BranchStep, GoOnStep DEF BranchImm
<1>12. CASE LoadImmAndJump
  <2>1. CASE target \in blocks /\ GoOn(target)
    BY <1>12, <2>1, GoOnStep DEF LoadImmAndJump
  <2>2. CASE status' = IF target \in 0 .. blob.length THEN "panic" ELSE "crash"
    BY <1>12, <2>2, StopStep DEF LoadImmAndJump, Executes
  <2> QED BY <1>12, <2>1, <2>2 DEF LoadImmAndJump
<1>13. CASE JumpIndirect
  BY <1>13, DjumpStep DEF JumpIndirect
<1>14. CASE LoadImmAndJumpIndirect
  BY <1>14, DjumpStep DEF LoadImmAndJumpIndirect
<1>15. ASSUME status = "host", UNCHANGED loaded, status' = "running",
              counter' = After(counter)
       PROVE  ControlIInv'
  <2>1. blob' = blob /\ code' = code /\ bitmask' = bitmask /\ blocks' = blocks
    BY <1>15 DEF loaded
  <2>2. WellFormed(blob) => counter' \in Starts(blob) \cup {blob.length}
    BY <1>15, <2>1, AfterStart DEF ControlIInv
  <2> QED BY <1>15, <2>1, <2>2 DEF ControlIInv
<1>16. CASE HostCall
  <2>1. CASE Stop("host error") \/ Stop("crash")
    BY <1>16, <2>1, StopStep DEF HostCall, Stop
  <2>2. CASE status' = "running" /\ counter' = After(counter)
    BY <1>15, <1>16, <2>2 DEF HostCall
  <2> QED BY <1>16, <2>1, <2>2 DEF HostCall
<1>17. CASE HostCallUnknown
  BY <1>15, <1>17 DEF HostCallUnknown
<1>18. CASE OffTheCode
  BY <1>18, StopStep DEF OffTheCode, Stop, loaded
<1> QED
  BY <1>1, <1>2, <1>3, <1>4, <1>5, <1>6, <1>7, <1>8, <1>9, <1>10, <1>11, <1>12,
     <1>13, <1>14, <1>16, <1>17, <1>18 DEF ControlNext, Step

\* The invariant above holds in every reachable state of the interpreter's loop.
THEOREM ControlInvariance == ControlSpec => []ControlIInv
<1>1. ControlInit => ControlIInv
  BY DEF ControlInit, ControlIInv
<1>2. ControlIInv /\ [ControlNext]_controlVars => ControlIInv'
  BY ControlStep DEF controlVars, ControlIInv
<1> QED BY <1>1, <1>2, PTL DEF ControlSpec

\* A well-formed program is executed at instruction starts only, whatever branches,
\* indirect jumps and host calls do: no octet of an operand is taken for an opcode
\* (Skip and the block starts of instance.go 16-23 and 92-130).
THEOREM InstructionsTheorem == ControlSpec => []StaysOnInstructions
<1>1. ControlIInv => StaysOnInstructions
  BY DEF ControlIInv, StaysOnInstructions, Starts
<1> QED BY <1>1, ControlInvariance, PTL

-----------------------------------------------------------------------------
(* PvmAlu: numbers.                                                        *)

\* Division by a positive number, as TLA+ defines it.
LEMMA ModFacts ==
  ASSUME NEW a \in Int, NEW n \in Nat \ {0}
  PROVE  /\ a % n \in 0 .. n - 1
         /\ a \div n \in Int
         /\ a = n * (a \div n) + (a % n)
OBVIOUS

\* Multiples of n are n apart.
LEMMA Multiples ==
  ASSUME NEW n \in Nat \ {0}, NEW a \in Int, NEW b \in Int, a < b
  PROVE  n * a + n <= n * b
<1> DEFINE d == b - a - 1
<1>1. d \in Nat /\ b = a + 1 + d
  OBVIOUS
<1> HIDE DEF d
<1>2. n * b = n * a + n + n * d /\ n * d >= 0
  BY <1>1
<1> QED BY <1>2

\* Quotient and remainder are determined.
LEMMA DivMod ==
  ASSUME NEW n \in Nat \ {0}, NEW a \in Int, NEW q \in Int, NEW r \in Int,
         0 <= r, r < n, a = n * q + r
  PROVE  a \div n = q /\ a % n = r
<1> DEFINE p == a \div n
           t == a % n
<1>1. p \in Int /\ t \in 0 .. n - 1 /\ a = n * p + t
  BY ModFacts
<1> HIDE DEF p, t
<1>2. ~(p < q)
  <2> SUFFICES ASSUME p < q PROVE FALSE
    OBVIOUS
  <2>1. n * p + n <= n * q
    BY <1>1, Multiples
  <2> QED BY <1>1, <2>1
<1>3. ~(q < p)
  <2> SUFFICES ASSUME q < p PROVE FALSE
    OBVIOUS
  <2>1. n * q + n <= n * p
    BY <1>1, Multiples
  <2> QED BY <1>1, <2>1
<1>4. p = q
  BY <1>1, <1>2, <1>3
<1>5. t = r
  BY <1>1, <1>4
<1> QED BY <1>4, <1>5 DEF p, t

\* A number below the modulus is its own remainder.
LEMMA SmallMod ==
  ASSUME NEW n \in Nat \ {0}, NEW a \in Int, 0 <= a, a < n
  PROVE  a % n = a
<1>1. a = n * 0 + a
  OBVIOUS
<1> QED BY <1>1, DivMod

\* Whole multiples do not change a remainder.
LEMMA ModShift ==
  ASSUME NEW n \in Nat \ {0}, NEW a \in Int, NEW k \in Int
  PROVE  (a + n * k) % n = a % n /\ (a + n * k) \div n = (a \div n) + k
<1> DEFINE q == a \div n
           r == a % n
           e == a + n * k
           f == q + k
<1>1. q \in Int /\ r \in 0 .. n - 1 /\ a = n * q + r
  BY ModFacts
<1> HIDE DEF q, r
<1>2. n * (q + k) = n * q + n * k /\ n * q \in Int /\ n * k \in Int
  BY <1>1
<1>3. e \in Int /\ f \in Int /\ e = n * f + r
  BY <1>1, <1>2
<1> HIDE DEF e, f
<1>4. e \div n = f /\ e % n = r
  BY <1>1, <1>3, DivMod
<1> QED BY <1>4 DEF e, f, q, r

\* A remainder may be taken before multiplying.
LEMMA ModTimes ==
  ASSUME NEW n \in Nat \ {0}, NEW a \in Int, NEW p \in Int
  PROVE  ((a % n) * p) % n = (a * p) % n
<1> DEFINE q == a \div n
           r == a % n
           e == r * p
           k == q * p
<1>1. q \in Int /\ r \in Int /\ a = n * q + r
  BY ModFacts
<1> HIDE DEF q, r
<1>2. e \in Int /\ k \in Int
  BY <1>1
<1>3. a * p = e + n * k
  BY <1>1
<1> HIDE DEF e, k
<1>4. (e + n * k) % n = e % n
  BY <1>2, ModShift
<1> QED BY <1>3, <1>4 DEF e, r

\* Dividing twice, and the digits of a number.
LEMMA DivTwice ==
  ASSUME NEW m \in Nat \ {0}, NEW n \in Nat \ {0}, NEW a \in Int
  PROVE  /\ a \div (m * n) = (a \div m) \div n
         /\ (a % (m * n)) % m = a % m
         /\ (a % (m * n)) \div m = (a \div m) % n
<1> DEFINE q == a \div m
           r == a % m
           t == q \div n
           u == q % n
           e == m * u + r
           w == m * n
<1>1. q \in Int /\ r \in 0 .. m - 1 /\ a = m * q + r
  BY ModFacts
<1> HIDE DEF q, r
<1>2. t \in Int /\ u \in 0 .. n - 1 /\ q = n * t + u
  BY <1>1, ModFacts
<1> HIDE DEF t, u
<1>3. w \in Nat \ {0}
  BY SMT
<1>4. e \in Int /\ 0 <= e /\ e < w
  <2>1. m * u + m <= m * n
    BY <1>2, Multiples
  <2>2. m * u \in Nat
    BY <1>2
  <2> QED BY <1>1, <2>1, <2>2
<1>5. a = w * t + e
  <2>1. m * q = m * (n * t) + m * u
    BY <1>1, <1>2
  <2>2. m * (n * t) = w * t
    BY <1>2
  <2>3. w * t \in Int /\ m * u \in Int
    BY <1>2
  <2> DEFINE x == w * t
             y == m * u
  <2>4. x \in Int /\ y \in Int /\ m * q = x + y
    BY <2>1, <2>2, <2>3
  <2> HIDE DEF x, y
  <2>5. a = x + (y + r)
    BY <1>1, <2>4
  <2> QED BY <2>5 DEF x, y
<1> HIDE DEF w
<1>6. a \div w = t /\ a % w = e
  <2> HIDE DEF e
  <2> QED BY <1>2, <1>3, <1>4, <1>5, DivMod
<1>7. e \div m = u /\ e % m = r
  <2>1. e = m * u + r /\ u \in Int /\ r \in Int /\ 0 <= r /\ r < m
    BY <1>1, <1>2
  <2> HIDE DEF e
  <2> QED BY <1>4, <2>1, DivMod
<1> QED BY <1>6, <1>7 DEF w, t, u, q, r


\* Powers of two are positive.
LEMMA Powers == \A k \in 0 .. W : 2^k \in Nat \ {0}
<1> SUFFICES ASSUME NEW k0 \in 0 .. W, 2^k0 \notin Nat \ {0} PROVE FALSE
  OBVIOUS
<1>1. W \in Nat /\ \A k \in 0 .. (W - 1) : 2^(k + 1) = 2 * 2^k
  BY AluAssumption
<1> DEFINE Bad == {k \in 0 .. W : 2^k \notin Nat \ {0}}
<1>2. PICK k \in Bad : \A m \in Bad : k <= m
  <2>1. Bad \subseteq Nat
    BY <1>1
  <2>2. k0 \in Bad
    OBVIOUS
  <2> HIDE DEF Bad
  <2> QED BY <2>1, <2>2, LeastExists
<1>3. k \in 0 .. W /\ 2^k \notin Nat \ {0}
  BY <1>2
<1>4. CASE k = 0
  <2>1. 2^0 = 1
    OBVIOUS
  <2> QED BY <1>3, <1>4, <2>1
<1>5. CASE k # 0
  <2> DEFINE j == k - 1
  <2>1. j \in 0 .. (W - 1) /\ j \in 0 .. W /\ j + 1 = k /\ ~(k <= j)
    BY <1>1, <1>3, <1>5
  <2>2. j \notin Bad
    BY <1>2, <2>1
  <2>3. 2^j \in Nat \ {0}
    BY <2>1, <2>2
  <2> HIDE DEF j
  <2>4. 2^k = 2 * 2^j
    BY <1>1, <2>1
  <2> QED BY <1>3, <2>3, <2>4
<1> QED BY <1>4, <1>5

\* The law of exponents, up to the width of a register.
LEMMA PowerSum ==
  ASSUME NEW i \in Nat, NEW j \in Nat, i + j <= W
  PROVE  2^(i + j) = 2^i * 2^j
<1> SUFFICES ASSUME 2^(i + j) # 2^i * 2^j PROVE FALSE
  OBVIOUS
<1>1. W \in Nat /\ \A k \in 0 .. (W - 1) : 2^(k + 1) = 2 * 2^k
  BY AluAssumption
<1> DEFINE Bad == {k \in Nat : i + k <= W /\ 2^(i + k) # 2^i * 2^k}
<1>2. PICK k \in Bad : \A m \in Bad : k <= m
  <2>1. Bad \subseteq Nat /\ Bad # {}
    BY <1>1
  <2> HIDE DEF Bad
  <2> QED BY <2>1, LeastExists
<1>3. k \in Nat /\ i + k <= W /\ 2^(i + k) # 2^i * 2^k
  BY <1>2
<1>4. CASE k = 0
  <2>1. 2^0 = 1
    OBVIOUS
  <2>2. i \in 0 .. W /\ i + 0 = i
    BY <1>1, <1>3
  <2>3. 2^i \in Nat
    BY <2>2, Powers
  <2>4. 2^i * 1 = 2^i
    BY <2>3
  <2> QED BY <1>3, <1>4, <2>1, <2>2, <2>4
<1>5. CASE k # 0
  <2> DEFINE h == k - 1
             g == i + h
  <2>1. /\ h \in Nat /\ h + 1 = k /\ ~(k <= h) /\ g + 1 = i + k
        /\ h \in 0 .. (W - 1) /\ g \in 0 .. (W - 1) /\ i + h <= W
    BY <1>1, <1>3, <1>5
  <2>2. h \notin Bad
    BY <1>2, <2>1
  <2>3. 2^g = 2^i * 2^h
    BY <2>1, <2>2
  <2> HIDE DEF h, g
  <2>4. 2^(g + 1) = 2 * 2^g /\ 2^(h + 1) = 2 * 2^h
    BY <1>1, <2>1
  <2>5. i \in 0 .. W /\ h \in 0 .. W
    BY <1>1, <1>3, <2>1
  <2> DEFINE x == 2^i
             y == 2^h
  <2>6. x \in Nat /\ y \in Nat
    BY <2>5, Powers
  <2>7. 2^(i + k) = 2 * (x * y) /\ 2^k = 2 * y
    BY <2>1, <2>3, <2>4
  <2>8. 2^(i + k) # x * (2 * y)
    BY <1>3, <2>7
  <2> HIDE DEF x, y
  <2>9. 2 * (x * y) = x * (2 * y)
    BY <2>6
  <2> QED BY <2>7, <2>8, <2>9
<1> QED BY <1>4, <1>5

\* The widths of registers, and the values that fit them.
LEMMA Widths ==
  /\ W \in Nat /\ H \in Nat /\ W = H + H /\ H >= 4 /\ H - 1 \in Nat /\ W - 1 \in Nat
  /\ 2^W \in Nat \ {0} /\ 2^H \in Nat \ {0}
  /\ 2^W = 2^H * 2^H
  /\ H < 2^H /\ \E k \in Nat : 2^H = H * k
<1>1. /\ W \in Nat /\ H \in Nat /\ W = H + H /\ H >= 4 /\ H - 1 \in Nat /\ W - 1 \in Nat
      /\ H \in {4, 8, 16, 32}
  BY AluAssumption DEF H
<1>2. 2^W \in Nat \ {0} /\ 2^H \in Nat \ {0}
  BY <1>1, Powers
<1>3. 2^W = 2^H * 2^H
  BY <1>1, PowerSum
<1>4. PICK j \in {2, 3, 4, 5} : 2^j = H /\ j < H
  <2>1. 2^2 = 4 /\ 2^3 = 8 /\ 2^4 = 16 /\ 2^5 = 32
    OBVIOUS
  <2> QED BY <1>1, <2>1
<1>5. j < H
  BY <1>4
<1> DEFINE k == H - j
           k1 == k - 1
<1>6. k \in Nat /\ j \in Nat /\ j + k = H /\ j + k <= W /\ k \in 0 .. W /\ k1 \in 0 .. (W - 1) /\ k1 + 1 = k
  BY <1>1, <1>4, <1>5
<1> HIDE DEF k, k1
<1>7. 2^H = H * 2^k
  <2>1. 2^(j + k) = 2^j * 2^k
    BY <1>6, PowerSum
  <2> QED BY <1>4, <1>6, <2>1
<1>8. 2^k \in Nat /\ 2^k = 2 * 2^k1 /\ 2^k1 \in Nat \ {0}
  <2>1. k1 \in 0 .. W
    BY <1>1, <1>6
  <2>2. 2^(k1 + 1) = 2 * 2^k1
    BY <1>6, AluAssumption
  <2> QED BY <1>6, <2>1, <2>2, Powers
<1>9. 2^k >= 2
  BY <1>8
<1>10. H < H * 2^k
  <2> DEFINE m == 2^k
  <2>1. m \in Nat /\ 1 < m
    BY <1>8, <1>9
  <2> HIDE DEF m
  <2>2. H \in Nat \ {0}
    BY <1>1
  <2>3. H * 1 + H <= H * m
    BY <2>1, <2>2, Multiples
  <2> QED BY <1>1, <2>1, <2>3 DEF m
<1> QED BY <1>1, <1>2, <1>3, <1>7, <1>8, <1>10

\* The sign bit of a width is half of its range.
LEMMA HalfRange ==
  ASSUME NEW n \in Nat, 1 <= n, n <= W
  PROVE  2^n \in Nat \ {0} /\ 2^(n - 1) \in Nat \ {0} /\ 2^n = 2^(n - 1) + 2^(n - 1)
<1> DEFINE m == n - 1
<1>1. n \in 0 .. W /\ m \in 0 .. W /\ m \in 0 .. (W - 1) /\ m + 1 = n
  BY Widths
<1>2. 2^n \in Nat \ {0} /\ 2^m \in Nat \ {0}
  BY <1>1, Powers
<1> HIDE DEF m
<1>3. 2^(m + 1) = 2 * 2^m
  BY <1>1, AluAssumption
<1>4. 2^n = 2^m + 2^m
  BY <1>1, <1>2, <1>3
<1> QED BY <1>2, <1>4 DEF m

\* 2^n divides 2^W.
LEMMA PowerDivides ==
  ASSUME NEW n \in Nat, n <= W
  PROVE  \E k \in Nat \ {0} : 2^W = 2^n * k
<1> DEFINE m == W - n
<1>1. m \in Nat /\ n + m = W /\ n + m <= W /\ m \in 0 .. W
  BY Widths
<1> HIDE DEF m
<1>2. 2^(n + m) = 2^n * 2^m
  BY <1>1, PowerSum
<1>3. 2^m \in Nat \ {0}
  BY <1>1, Powers
<1> QED BY <1>1, <1>2, <1>3

-----------------------------------------------------------------------------
(* Conversions.                                                            *)

\* The integers that n bits can hold in two's complement.
Fits(i, n) == i \in Int /\ -(2^(n - 1)) <= i /\ i < 2^(n - 1)

\* Reading n bits as an integer: it fits, and has the same low bits.
LEMMA SignedFacts ==
  ASSUME NEW x \in Int, NEW n \in Nat, 1 <= n, n <= W
  PROVE  /\ Fits(Signed(x, n), n)
         /\ \E k \in Int : Signed(x, n) = x + 2^n * k
         /\ Signed(x, n) % 2^n = x % 2^n
<1> DEFINE M == 2^n
           h == 2^(n - 1)
           q == x \div M
           r == x % M
           s == Signed(x, n)
<1>1. M \in Nat \ {0} /\ h \in Nat \ {0} /\ M = h + h
  BY HalfRange
<1>2. s = IF r >= h THEN r - M ELSE r
  BY DEF Signed
<1>3. Fits(s, n) <=> s \in Int /\ -h <= s /\ s < h
  BY DEF Fits
<1> HIDE DEF M, h, s
<1>4. q \in Int /\ r \in 0 .. M - 1 /\ x = M * q + r
  BY <1>1, ModFacts
<1> HIDE DEF q, r
<1>5. s \in Int /\ -h <= s /\ s < h
  BY <1>1, <1>2, <1>4
<1> DEFINE k == IF r >= h THEN 0 - q - 1 ELSE 0 - q
<1>6. k \in Int
  BY <1>4
<1>7. s = x + M * k
  <2> DEFINE m == M * q
  <2>1. m \in Int /\ x = m + r
    BY <1>1, <1>4
  <2>2. M * (0 - q) = 0 - m /\ M * (0 - q - 1) = 0 - m - M
    BY <1>1, <1>4
  <2> HIDE DEF m
  <2>3. CASE r >= h
    BY <1>1, <1>2, <1>4, <2>1, <2>2, <2>3
  <2>4. CASE ~(r >= h)
    BY <1>1, <1>2, <1>4, <2>1, <2>2, <2>4
  <2> QED BY <2>3, <2>4
<1> HIDE DEF k
<1>8. (x + M * k) % M = x % M
  BY <1>1, <1>6, ModShift
<1> QED BY <1>3, <1>5, <1>6, <1>7, <1>8 DEF M, s

\* An integer that fits is read back from its low bits.
LEMMA SignedOf ==
  ASSUME NEW n \in Nat, 1 <= n, n <= W, NEW i, Fits(i, n),
         NEW x \in Int, x % 2^n = i % 2^n
  PROVE  Signed(x, n) = i
<1> DEFINE M == 2^n
           h == 2^(n - 1)
           r == x % M
<1>1. M \in Nat \ {0} /\ h \in Nat \ {0} /\ M = h + h
  BY HalfRange
<1>2. i \in Int /\ -h <= i /\ i < h
  BY DEF Fits
<1>3. Signed(x, n) = IF r >= h THEN r - M ELSE r
  BY DEF Signed
<1>4. r = i % M
  OBVIOUS
<1> HIDE DEF M, h, r
<1>5. CASE i >= 0
  <2>1. 0 <= i /\ i < M
    BY <1>1, <1>2, <1>5
  <2>2. i % M = i
    BY <1>1, <1>2, <2>1, SmallMod
  <2> QED BY <1>1, <1>2, <1>3, <1>4, <2>2
<1>6. CASE i < 0
  <2> DEFINE t == i + M
  <2>1. i = M * (-1) + t /\ 0 <= t /\ t < M /\ t \in Int /\ t >= h /\ -1 \in Int
    BY <1>1, <1>2, <1>6
  <2> HIDE DEF t
  <2>2. i % M = t
    BY <1>1, <1>2, <2>1, DivMod
  <2>3. t - M = i
    BY <1>1, <1>2 DEF t
  <2> QED BY <1>1, <1>2, <1>3, <1>4, <2>1, <2>2, <2>3
<1> QED BY <1>2, <1>5, <1>6

\* Cutting an integer to a register keeps its low bits.
LEMMA UnsignedFacts ==
  ASSUME NEW i \in Int
  PROVE  /\ Unsigned(i) \in 0 .. (2^W - 1)
         /\ \A n \in Nat : n <= W => Unsigned(i) % 2^n = i % 2^n
<1>1. 2^W \in Nat \ {0}
  BY Widths
<1>2. Unsigned(i) \in 0 .. (2^W - 1)
  BY <1>1, ModFacts DEF Unsigned
<1>3. ASSUME NEW n \in Nat, n <= W PROVE Unsigned(i) % 2^n = i % 2^n
  <2>1. PICK k \in Nat \ {0} : 2^W = 2^n * k
    BY <1>3, PowerDivides
  <2>2. 2^n \in Nat \ {0}
    <3>1. n \in 0 .. W
      BY <1>3, Widths
    <3> QED BY <3>1, Powers
  <2> DEFINE m == 2^n
  <2>3. m \in Nat \ {0}
    BY <2>2
  <2> HIDE DEF m
  <2>4. (i % (m * k)) % m = i % m
    BY <2>1, <2>3, DivTwice
  <2> QED BY <2>1, <2>4 DEF Unsigned, m
<1> QED BY <1>2, <1>3

\* An integer that fits a register survives the way there and back.
LEMMA SignedUnsigned ==
  ASSUME NEW i, Fits(i, W)
  PROVE  Signed(Unsigned(i), W) = i
<1>1. i \in Int
  BY DEF Fits
<1>2. Unsigned(i) \in Int /\ Unsigned(i) % 2^W = i % 2^W
  BY <1>1, UnsignedFacts, Widths
<1>3. 1 <= W /\ W <= W /\ W \in Nat
  BY Widths
<1> QED BY <1>2, <1>3, SignedOf

\* What fits a half word fits a word, and its image in a register is sign-extended.
LEMMA HalfExtended ==
  ASSUME NEW i, Fits(i, H)
  PROVE  /\ Fits(i, W)
         /\ sext(Unsigned(i), H) = Unsigned(i)
<1>1. i \in Int
  BY DEF Fits
<1>2. H \in Nat /\ 1 <= H /\ H <= W /\ W = H + H /\ W \in Nat
  BY Widths
<1>3. Unsigned(i) \in Int /\ Unsigned(i) % 2^H = i % 2^H
  BY <1>1, <1>2, UnsignedFacts
<1>4. Signed(Unsigned(i), H) = i
  BY <1>2, <1>3, SignedOf
<1>5. Fits(i, W)
  <2> DEFINE h == H - 1
             w == W - 1
             g == 2^h
             k == 2^H
  <2>1. h \in Nat /\ H \in Nat /\ h + H = w /\ h + H <= W /\ h \in 0 .. W
    BY <1>2
  <2>2. 2^(h + H) = g * k
    BY <2>1, PowerSum
  <2>3. g \in Nat \ {0} /\ k \in Nat \ {0}
    BY <2>1, Powers, Widths
  <2>4. 2^w = g * k
    BY <2>1, <2>2
  <2>5. -g <= i /\ i < g
    BY DEF Fits
  <2> HIDE DEF g, k, w
  <2>6. g <= g * k
    BY <2>3
  <2>7. g * k \in Int
    BY <2>3
  <2>8. -(2^w) <= i /\ i < 2^w
    BY <1>1, <2>3, <2>4, <2>5, <2>6, <2>7
  <2> QED BY <1>1, <2>8 DEF Fits, w
<1> QED BY <1>4, <1>5 DEF sext

\* sext looks at the low n bits only, and its result is sign-extended.
LEMMA SextFacts ==
  ASSUME NEW x \in Int
  PROVE  /\ sext(x, H) = Unsigned(Signed(x, H))
         /\ Fits(Signed(x, H), H)
         /\ sext(x, H) \in 0 .. (2^W - 1)
         /\ sext(x, H) % 2^H = x % 2^H
         /\ sext(sext(x, H), H) = sext(x, H)
<1>1. H \in Nat /\ 1 <= H /\ H <= W /\ W = H + H /\ W \in Nat
  BY Widths
<1>2. Fits(Signed(x, H), H) /\ Signed(x, H) % 2^H = x % 2^H
  BY <1>1, SignedFacts
<1>3. Signed(x, H) \in Int
  BY <1>2 DEF Fits
<1>4. /\ Unsigned(Signed(x, H)) \in 0 .. (2^W - 1)
      /\ Unsigned(Signed(x, H)) % 2^H = Signed(x, H) % 2^H
  BY <1>1, <1>3, UnsignedFacts
<1> QED BY <1>2, <1>4, HalfExtended DEF sext

\* Sign extension looks at the low half alone.
LEMMA SextSame ==
  ASSUME NEW x \in Int, NEW y \in Int, x % 2^H = y % 2^H
  PROVE  sext(x, H) = sext(y, H)
BY DEF sext, Signed

-----------------------------------------------------------------------------
(* Divisions and shifts.                                                   *)

\* The magnitude of an integer is zero for zero alone.
LEMMA MagnitudeFacts ==
  ASSUME NEW i \in Int
  PROVE  Magnitude(i) \in Nat /\ (Magnitude(i) = 0 <=> i = 0)
BY DEF Magnitude

\* Go's quotient is no larger than the dividend.
LEMMA QuoFacts ==
  ASSUME NEW i \in Int, NEW j \in Int, j # 0
  PROVE  /\ Quo(i, j) \in Int
         /\ Magnitude(Quo(i, j)) <= Magnitude(i)
         /\ Quo(i, j) > 0 => (i < 0 <=> j < 0)
         /\ Magnitude(j) > 1 /\ i # 0 => Magnitude(Quo(i, j)) < Magnitude(i)
<1> DEFINE I == Magnitude(i)
           J == Magnitude(j)
           p == I \div J
           r == I % J
           q == Quo(i, j)
<1>1. I \in Nat /\ J \in Nat \ {0}
  BY DEF Magnitude
<1>2. q = IF (i < 0) = (j < 0) THEN p ELSE -p
  BY DEF Quo
<1>3. (i < 0 => i = -I) /\ (~(i < 0) => i = I) /\ (j < 0 => j = -J) /\ (~(j < 0) => j = J)
  BY DEF Magnitude
<1>4. i = 0 <=> I = 0
  BY DEF Magnitude
<1> HIDE DEF I, J, q
<1>5. p \in Int /\ r \in 0 .. J - 1 /\ I = J * p + r
  BY <1>1, ModFacts
<1> HIDE DEF p, r
<1>6. p >= 0
  <2> SUFFICES ASSUME p < 0 PROVE FALSE
    BY <1>5
  <2>1. J * p + J <= J * 0
    BY <1>1, <1>5, Multiples
  <2> QED BY <1>1, <1>5, <2>1
<1>7. p <= J * p /\ (J > 1 => p + p <= J * p) /\ J * p \in Int
  BY <1>1, <1>5, <1>6
<1>8. p <= I /\ (J > 1 /\ I # 0 => p < I)
  BY <1>1, <1>5, <1>6, <1>7
<1>9. q \in Int /\ (q = p \/ q = -p)
  BY <1>2, <1>5
<1>10. Magnitude(q) = p
  BY <1>6, <1>9, <1>5 DEF Magnitude
<1>11. q > 0 => (i < 0 <=> j < 0)
  BY <1>2, <1>5, <1>6
<1> QED BY <1>4, <1>8, <1>9, <1>10, <1>11 DEF q, I, J

\* The floor of a negative fraction is below the negated quotient unless the division
\* is exact.
LEMMA NegativeFloor ==
  ASSUME NEW n \in Nat \ {0}, NEW a \in Int
  PROVE  /\ (-a) \div n = -(a \div n) - (IF a % n = 0 THEN 0 ELSE 1)
         /\ (-a) % n = 0 <=> a % n = 0
<1> DEFINE q == a \div n
           r == a % n
           b == -a
<1>1. q \in Int /\ r \in 0 .. n - 1 /\ a = n * q + r
  BY ModFacts
<1> HIDE DEF q, r
<1>2. CASE r = 0
  <2> DEFINE u == -q
  <2>1. u \in Int /\ b \in Int /\ b = n * u + 0
    BY <1>1, <1>2
  <2> HIDE DEF u, b
  <2>2. b \div n = u /\ b % n = 0
    BY <2>1, DivMod
  <2> QED BY <1>1, <1>2, <2>2 DEF b, u, q, r
<1>3. CASE r # 0
  <2> DEFINE u == -q - 1
             v == n - r
  <2>1. u \in Int /\ v \in Int /\ 0 < v /\ v < n /\ b \in Int /\ b = n * u + v
    BY <1>1, <1>3
  <2> HIDE DEF u, v, b
  <2>2. b \div n = u /\ b % n = v
    BY <2>1, DivMod
  <2> QED BY <1>1, <1>3, <2>1, <2>2 DEF b, u, q, r
<1> QED BY <1>2, <1>3

\* Go's quotient is the floor, or one more where the signs differ and the division is
\* inexact.
LEMMA QuoValue ==
  ASSUME NEW i \in Int, NEW j \in Int, j # 0
  PROVE  Quo(i, j) = Floor(i, j) + (IF Inexact(i, j) THEN 1 ELSE 0)
<1> DEFINE I == Magnitude(i)
           J == Magnitude(j)
<1>1. I \in Nat /\ J \in Nat \ {0}
  BY DEF Magnitude
<1>2. Quo(i, j) = IF (i < 0) = (j < 0) THEN I \div J ELSE -(I \div J)
  BY DEF Quo
<1>3. Inexact(i, j) <=> (i < 0) # (j < 0) /\ i % J # 0
  BY DEF Inexact
<1>4. Floor(i, j) = IF j > 0 THEN i \div j ELSE (-i) \div (-j)
  BY DEF Floor
<1>5. (i < 0 => i = -I) /\ (~(i < 0) => i = I) /\ (j < 0 => -j = J) /\ (j > 0 => j = J)
  BY DEF Magnitude
<1> HIDE DEF I, J
<1>6. I \div J \in Int /\ (-I) \div J = -(I \div J) - (IF I % J = 0 THEN 0 ELSE 1)
      /\ ((-I) % J = 0 <=> I % J = 0)
  <2>1. I \in Int /\ J \in Nat \ {0}
    BY <1>1
  <2>2. I \div J \in Int
    BY <2>1, ModFacts, Zenon
  <2>3. /\ (-I) \div J = -(I \div J) - (IF I % J = 0 THEN 0 ELSE 1)
        /\ ((-I) % J = 0 <=> I % J = 0)
    BY <2>1, NegativeFloor, Zenon
  <2> QED BY <2>2, <2>3
<1>7. CASE i < 0 /\ j < 0
  <2>1. -i = I /\ -j = J
    BY <1>1, <1>5, <1>7
  <2> QED BY <1>2, <1>3, <1>4, <1>6, <1>7, <2>1
<1>8. CASE i < 0 /\ j > 0
  <2>1. i = -I /\ j = J
    BY <1>5, <1>8
  <2> QED BY <1>2, <1>3, <1>4, <1>6, <1>8, <2>1
<1>9. CASE ~(i < 0) /\ j < 0
  <2>1. i = I /\ -j = J
    BY <1>5, <1>9
  <2> QED BY <1>2, <1>3, <1>4, <1>6, <1>9, <2>1
<1>10. CASE ~(i < 0) /\ j > 0
  <2>1. i = I /\ j = J
    BY <1>5, <1>10
  <2> QED BY <1>2, <1>3, <1>4, <1>6, <1>10, <2>1
<1> QED BY <1>7, <1>8, <1>9, <1>10

\* The quotient fits the width of its operands, but for the least integer and -1.
LEMMA QuoFits ==
  ASSUME NEW n \in Nat, 1 <= n, n <= W, NEW i, Fits(i, n), NEW j, Fits(j, n), j # 0,
         ~(i = -(2^(n - 1)) /\ j = -1)
  PROVE  Fits(Quo(i, j), n)
<1> DEFINE h == 2^(n - 1)
           q == Quo(i, j)
<1>1. h \in Nat \ {0}
  BY HalfRange
<1>2. i \in Int /\ -h <= i /\ i < h /\ j \in Int /\ ~(i = -h /\ j = -1)
  BY DEF Fits
<1>3. /\ q \in Int
      /\ Magnitude(q) <= Magnitude(i)
      /\ q > 0 => (i < 0 <=> j < 0)
      /\ Magnitude(j) > 1 /\ i # 0 => Magnitude(q) < Magnitude(i)
  BY <1>2, QuoFacts
<1>4. Fits(q, n) <=> q \in Int /\ -h <= q /\ q < h
  BY DEF Fits
<1> HIDE DEF h, q
<1>5. -h <= q
  BY <1>1, <1>2, <1>3 DEF Magnitude
<1>6. q < h
  BY <1>1, <1>2, <1>3 DEF Magnitude
<1> QED BY <1>3, <1>4, <1>5, <1>6 DEF q

\* So does the remainder as smod computes it.
LEMMA SmodFits ==
  ASSUME NEW n \in Nat, 1 <= n, n <= W, NEW i, Fits(i, n), NEW j, Fits(j, n), j # 0
  PROVE  Fits(smod(i, j, n), n)
<1> DEFINE h == 2^(n - 1)
           M == 2^n
           A == abs(i, n)
           B == abs(j, n)
           r == Rem(A, B)
<1>1. h \in Nat \ {0} /\ M \in Nat \ {0} /\ M = h + h
  BY HalfRange
<1>2. i \in Int /\ j \in Int /\ -h <= j /\ j < h
  BY DEF Fits
<1>3. Magnitude(i) \in Int /\ Magnitude(j) \in Int
  BY <1>2, MagnitudeFacts
<1>4. A \in Int /\ B \in Int /\ -h <= B /\ B < h
  BY <1>3, SignedFacts DEF abs, Fits
<1>5. B # 0
  <2> DEFINE J == Magnitude(j)
  <2>1. J \in Nat \ {0} /\ J <= h
    BY <1>1, <1>2 DEF Magnitude
  <2>2. B = IF J % M >= h THEN (J % M) - M ELSE J % M
    BY DEF abs, Signed
  <2> HIDE DEF J, M, h, B
  <2>3. J = M * 0 + J /\ 0 <= J /\ J < M
    BY <1>1, <2>1
  <2>4. J % M = J
    BY <1>1, <2>1, <2>3, DivMod
  <2> QED BY <1>1, <2>1, <2>2, <2>4
<1>6. smod(i, j, n) = IF i < 0 THEN -r ELSE r
  BY DEF smod
<1>7. Fits(smod(i, j, n), n) <=>
        smod(i, j, n) \in Int /\ -h <= smod(i, j, n) /\ smod(i, j, n) < h
  BY DEF Fits
<1> HIDE DEF h, M, A, B
<1>8. r \in Int /\ -h < r /\ r < h
  <2> DEFINE I == Magnitude(A)
             J == Magnitude(B)
             t == I % J
  <2>1. I \in Nat /\ J \in Nat \ {0} /\ J <= h
    BY <1>1, <1>4, <1>5 DEF Magnitude
  <2>2. r = IF A < 0 THEN -t ELSE t
    BY DEF Rem
  <2> HIDE DEF I, J, r
  <2> HIDE DEF h
  <2>3. t \in 0 .. J - 1
    <3>1. I \in Int /\ J \in Nat \ {0}
      BY <2>1
    <3> QED BY <3>1, ModFacts
  <2> HIDE DEF t
  <2> QED BY <1>1, <2>1, <2>2, <2>3
<1> HIDE DEF r
<1> QED BY <1>1, <1>6, <1>7, <1>8

\* The magnitude of abs is that of its argument, and abs is not negative unless its
\* argument is the least integer.
LEMMA AbsFacts ==
  ASSUME NEW n \in Nat, 1 <= n, n <= W, NEW i, Fits(i, n)
  PROVE  /\ abs(i, n) \in Int /\ Magnitude(abs(i, n)) = Magnitude(i)
         /\ i # -(2^(n - 1)) => abs(i, n) = Magnitude(i)
<1> DEFINE h == 2^(n - 1)
           M == 2^n
           I == Magnitude(i)
<1>1. h \in Nat \ {0} /\ M \in Nat \ {0} /\ M = h + h
  BY HalfRange
<1>2. i \in Int /\ -h <= i /\ i < h
  BY DEF Fits
<1>3. I \in Nat /\ I <= h /\ (i # -h => I < h) /\ (i = -h => I = h)
  BY <1>1, <1>2 DEF Magnitude
<1>4. abs(i, n) = IF I % M >= h THEN (I % M) - M ELSE I % M
  BY DEF abs, Signed
<1> HIDE DEF h, M, I
<1>5. I % M = I
  BY <1>1, <1>3, SmallMod
<1>6. abs(i, n) = IF I >= h THEN I - M ELSE I
  BY <1>4, <1>5
<1>7. abs(i, n) \in Int /\ (i # -h => abs(i, n) = I)
  BY <1>1, <1>3, <1>6
<1>8. Magnitude(abs(i, n)) = I
  BY <1>1, <1>3, <1>6 DEF Magnitude
<1> QED BY <1>7, <1>8 DEF h, I

\* smod is the promised remainder unless its dividend is the least integer.
LEMMA SmodValue ==
  ASSUME NEW n \in Nat, 1 <= n, n <= W, NEW i, Fits(i, n), NEW j, Fits(j, n),
         i # -(2^(n - 1))
  PROVE  smod(i, j, n) = SignedRemainder(i, j)
<1> DEFINE A == abs(i, n)
           B == abs(j, n)
           I == Magnitude(i)
           J == Magnitude(j)
<1>1. i \in Int /\ j \in Int
  BY DEF Fits
<1>2. A = I /\ Magnitude(A) = I /\ Magnitude(B) = J
  BY AbsFacts
<1>3. I \in Nat /\ (i < 0 => i = -I) /\ (~(i < 0) => i = I)
  BY <1>1 DEF Magnitude
<1>4. smod(i, j, n) = IF j = 0 THEN i ELSE IF i < 0 THEN -Rem(A, B) ELSE Rem(A, B)
  BY DEF smod
<1>5. Rem(A, B) = IF A < 0 THEN -(I % J) ELSE I % J
  BY <1>2 DEF Rem
<1>6. SignedRemainder(i, j) = IF j = 0 THEN i ELSE IF i < 0 THEN -(I % J) ELSE i % J
  BY DEF SignedRemainder
<1> HIDE DEF A, B, I, J
<1>7. Rem(A, B) = I % J
  BY <1>2, <1>3, <1>5
<1> QED BY <1>3, <1>4, <1>6, <1>7

\* The quotient by a power of two that a shift to the right is fits, too.
LEMMA SarFits ==
  ASSUME NEW n \in Nat, 1 <= n, n <= W, NEW i, Fits(i, n), NEW k \in Nat
  PROVE  Fits(Sar(i, k, n), n)
<1> DEFINE h == 2^(n - 1)
           p == 2^k
           q == i \div p
<1>1. h \in Nat \ {0}
  BY HalfRange
<1>2. i \in Int /\ -h <= i /\ i < h
  BY DEF Fits
<1>3. CASE k >= n
  <2>1. Sar(i, k, n) = IF i < 0 THEN -1 ELSE 0
    BY <1>3 DEF Sar
  <2> QED BY <1>1, <2>1 DEF Fits
<1>4. CASE ~(k >= n)
  <2>1. k \in 0 .. W
    BY <1>4, Widths
  <2>2. p \in Nat \ {0}
    BY <2>1, Powers
  <2>3. Sar(i, k, n) = q
    BY <1>4 DEF Sar
  <2>4. Fits(q, n) <=> q \in Int /\ -h <= q /\ q < h
    BY DEF Fits
  <2> HIDE DEF h, p
  <2> DEFINE r == i % p
  <2>5. q \in Int /\ r \in 0 .. p - 1 /\ i = p * q + r
    BY <1>2, <2>2, ModFacts
  <2> HIDE DEF q, r
  <2>6. CASE q >= 0
    <3>1. q <= p * q /\ p * q \in Int
      BY <2>2, <2>5, <2>6
    <3> QED BY <1>1, <1>2, <2>2, <2>3, <2>4, <2>5, <2>6, <3>1
  <2>7. CASE q < 0
    <3>1. p * q + p <= q + 1
      <4> DEFINE g == -q - 1
      <4>1. g \in Nat /\ q = -g - 1
        BY <2>5, <2>7
      <4> HIDE DEF g
      <4>2. p * q = -(p * g) - p /\ p * g >= g /\ p * g \in Int
        BY <2>2, <4>1
      <4> QED BY <2>2, <4>1, <4>2
    <3>2. p * q \in Int
      BY <2>2, <2>5
    <3>3. i <= q
      BY <1>2, <2>2, <2>5, <3>1, <3>2
    <3> QED BY <1>1, <1>2, <2>3, <2>4, <2>5, <2>7, <3>3
  <2> QED BY <2>5, <2>6, <2>7
<1> QED BY <1>3, <1>4

-----------------------------------------------------------------------------
(* The instructions of 32 bits.                                            *)

WordRange == 0 .. (2^W - 1)

\* What a register, its low half and the integers they stand for range over.
LEMMA WordFacts ==
  ASSUME NEW x \in WordRange
  PROVE  /\ x \in Nat /\ x < 2^W
         /\ x % 2^H \in Nat /\ x % 2^H < 2^H
         /\ Fits(Signed(x, W), W) /\ Signed(x, W) \in Int
         /\ Fits(Signed(x, H), H) /\ Signed(x, H) \in Int
<1>1. x \in Nat /\ x < 2^W
  BY Widths DEF WordRange
<1>2. x % 2^H \in 0 .. 2^H - 1
  BY <1>1, Widths, ModFacts
<1>3. 1 <= H /\ H <= W /\ 1 <= W /\ W <= W
  BY Widths
<1>4. Fits(Signed(x, W), W) /\ Fits(Signed(x, H), H)
  BY <1>1, <1>3, Widths, SignedFacts
<1> QED BY <1>1, <1>2, <1>4, Widths DEF Fits

\* The two words that the divisions write as constants.
LEMMA Constants ==
  /\ Fits(-1, H) /\ Unsigned(-1) = 2^W - 1
  /\ Fits(0, H) /\ Unsigned(0) = 0
<1> DEFINE M == 2^W
<1>1. 2^(H - 1) \in Nat \ {0} /\ M \in Nat \ {0}
  BY Widths, HalfRange
<1>2. Fits(-1, H) /\ Fits(0, H)
  BY <1>1 DEF Fits
<1>3. Unsigned(-1) = (-1) % M /\ Unsigned(0) = 0 % M
  BY DEF Unsigned
<1> HIDE DEF M
<1>4. (-1) % M = M - 1
  <2>1. /\ -1 \in Int /\ M - 1 \in Int /\ 0 <= M - 1 /\ M - 1 < M
        /\ -1 = M * (-1) + (M - 1)
    BY <1>1
  <2> QED BY <1>1, <2>1, DivMod
<1>5. 0 % M = 0
  <2>1. 0 \in Int /\ 0 <= 0 /\ 0 < M
    BY <1>1
  <2> QED BY <1>1, <2>1, SmallMod
<1> QED BY <1>2, <1>3, <1>4, <1>5 DEF M

\* The shifts and rotations of n bits give integers.
LEMMA ShiftTypes ==
  ASSUME NEW n \in Nat, 1 <= n, n <= W, NEW x \in Int
  PROVE  /\ \A k \in Nat : Shl(x, k, n) \in Int /\ Shr(x, k, n) \in Int
         /\ \A k \in Int : RotateLeft(x, k, n) \in Int
<1>1. \A k \in Nat : k <= n => 2^k \in Nat \ {0}
  BY Powers, Widths
<1>2. ASSUME NEW k \in Nat PROVE Shl(x, k, n) \in Int /\ Shr(x, k, n) \in Int
  <2>1. CASE k >= n
    BY <2>1 DEF Shl, Shr
  <2>2. CASE ~(k >= n)
    <3> DEFINE p == 2^k
               M == 2^n
    <3>1. p \in Nat \ {0} /\ M \in Nat \ {0}
      BY <1>1, <2>2
    <3>2. Shl(x, k, n) = (x * p) % M /\ Shr(x, k, n) = x \div p
      BY <2>2 DEF Shl, Shr
    <3> HIDE DEF p, M
    <3>3. x * p \in Int
      BY <3>1
    <3>4. (x * p) % M \in Int /\ x \div p \in Int
      BY <3>1, <3>3, ModFacts
    <3> QED BY <3>2, <3>4
  <2> QED BY <2>1, <2>2
<1>3. ASSUME NEW k \in Int PROVE RotateLeft(x, k, n) \in Int
  <2>0. k % n \in 0 .. n - 1
    <3>1. n \in Nat \ {0}
      OBVIOUS
    <3> QED BY <3>1, ModFacts
  <2> DEFINE s == k % n
             p == 2^s
             t == 2^(n - s)
             M == 2^n
  <2>1. s \in 0 .. n - 1
    BY <2>0
  <2>2. RotateLeft(x, k, n) = ((x * p) % M) + (x \div t)
    BY DEF RotateLeft
  <2> HIDE DEF s
  <2>3. p \in Nat \ {0} /\ t \in Nat \ {0} /\ M \in Nat \ {0}
    BY <1>1, <2>1
  <2> HIDE DEF p, t, M
  <2>4. x * p \in Int
    BY <2>3
  <2>5. (x * p) % M \in Int /\ x \div t \in Int
    BY <2>3, <2>4, ModFacts
  <2> QED BY <2>2, <2>5
<1> QED BY <1>2, <1>3

\* The 32-bit instructions of three registers give sign-extended half words.
LEMMA Reg32Extended ==
  ASSUME NEW x \in WordRange, NEW y \in WordRange, NEW m \in Reg32Ops
  PROVE  Reg32(m, x, y) = sext(Reg32(m, x, y), H)
<1> DEFINE lx == x % 2^H
           ly == y % 2^H
           sx == Signed(x, H)
           sy == Signed(y, H)
<1>1. /\ x \in Int /\ y \in Int /\ lx \in Nat /\ ly \in Nat
      /\ Fits(sx, H) /\ Fits(sy, H) /\ sx \in Int /\ sy \in Int
  BY WordFacts
<1>2. H \in Nat \ {0} /\ 1 <= H /\ H <= W
  BY Widths
<1>3. ly % H \in Nat
  BY <1>1, <1>2, ModFacts
<1>4. \A v \in Int : sext(v, H) = sext(sext(v, H), H)
  BY SextFacts
<1>5. \A i : Fits(i, H) => Unsigned(i) = sext(Unsigned(i), H)
  BY HalfExtended
<1>6. 2^W - 1 = sext(2^W - 1, H) /\ 0 = sext(0, H)
  BY <1>5, Constants
<1>7. CASE m = "Add32"
  <2>1. Reg32(m, x, y) = sext(x + y, H)
    BY <1>7 DEF Reg32
  <2> QED BY <1>1, <1>4, <2>1
<1>8. CASE m = "Sub32"
  <2>1. Reg32(m, x, y) = sext(x - y, H)
    BY <1>8 DEF Reg32
  <2> QED BY <1>1, <1>4, <2>1
<1>9. CASE m = "Mul32"
  <2>1. Reg32(m, x, y) = sext(x * y, H)
    BY <1>9 DEF Reg32
  <2>2. x * y \in Int
    BY <1>1
  <2> QED BY <1>4, <2>1, <2>2
<1>10. CASE m = "DivUnsigned32"
  <2>1. Reg32(m, x, y) = IF ly = 0 THEN 2^W - 1 ELSE sext(lx \div ly, H)
    BY <1>10 DEF Reg32
  <2> HIDE DEF lx, ly
  <2>2. ly # 0 => lx \div ly \in Int
    BY <1>1, ModFacts
  <2> QED BY <1>4, <1>6, <2>1, <2>2
<1>11. CASE m = "DivSigned32"
  <2>1. Reg32(m, x, y) = IF sy = 0 THEN 2^W - 1
                         ELSE IF sx = -2^(H - 1) /\ sy = -1 THEN Unsigned(sx)
                         ELSE Unsigned(Quo(sx, sy))
    BY <1>11 DEF Reg32
  <2> HIDE DEF sx, sy
  <2>2. sy # 0 /\ ~(sx = -2^(H - 1) /\ sy = -1) => Fits(Quo(sx, sy), H)
    BY <1>1, <1>2, QuoFits
  <2> QED BY <1>1, <1>5, <1>6, <2>1, <2>2
<1>12. CASE m = "RemUnsigned32"
  <2>1. Reg32(m, x, y) = IF ly = 0 THEN sext(lx, H) ELSE sext(lx % ly, H)
    BY <1>12 DEF Reg32
  <2> HIDE DEF lx, ly
  <2>2. ly # 0 => lx % ly \in Int
    BY <1>1, ModFacts
  <2> QED BY <1>1, <1>4, <2>1, <2>2
<1>13. CASE m = "RemSigned32"
  <2>1. Reg32(m, x, y) = IF sy = 0 THEN Unsigned(sx)
                         ELSE IF sx = -2^(H - 1) /\ sy = -1 THEN 0
                         ELSE Unsigned(smod(sx, sy, H))
    BY <1>13 DEF Reg32
  <2> HIDE DEF sx, sy
  <2>2. sy # 0 => Fits(smod(sx, sy, H), H)
    BY <1>1, <1>2, SmodFits
  <2> QED BY <1>1, <1>5, <1>6, <2>1, <2>2
<1>14. CASE m = "ShiftLogicalLeft32"
  <2>1. Reg32(m, x, y) = sext(Shl(lx, ly % H, H), H)
    BY <1>14 DEF Reg32
  <2> HIDE DEF lx, ly
  <2>2. Shl(lx, ly % H, H) \in Int
    BY <1>1, <1>2, <1>3, ShiftTypes
  <2> QED BY <1>4, <2>1, <2>2
<1>15. CASE m = "ShiftLogicalRight32"
  <2>1. Reg32(m, x, y) = sext(Shr(lx, ly % H, H), H)
    BY <1>15 DEF Reg32
  <2> HIDE DEF lx, ly
  <2>2. Shr(lx, ly % H, H) \in Int
    BY <1>1, <1>2, <1>3, ShiftTypes
  <2> QED BY <1>4, <2>1, <2>2
<1>16. CASE m = "ShiftArithmeticRight32"
  <2>1. Reg32(m, x, y) = Unsigned(Sar(sx, ly % H, H))
    BY <1>16 DEF Reg32
  <2> HIDE DEF sx, ly
  <2>2. Fits(Sar(sx, ly % H, H), H)
    BY <1>1, <1>2, <1>3, SarFits
  <2> QED BY <1>5, <2>1, <2>2
<1> QED
  BY <1>7, <1>8, <1>9, <1>10, <1>11, <1>12, <1>13, <1>14, <1>15, <1>16 DEF Reg32Ops

\* So do those of two registers and an immediate, but for the rotations.
LEMMA Imm32Extended ==
  ASSUME NEW x \in WordRange, NEW v \in WordRange, NEW old, NEW m \in Imm32Ops \cap HalfOps
  PROVE  Imm32(m, x, v, old) = sext(Imm32(m, x, v, old), H)
<1> DEFINE lx == x % 2^H
           lv == v % 2^H
           sx == Signed(x, H)
           sv == Signed(v, H)
<1>1. /\ x \in Nat /\ v \in Nat /\ lx \in Nat /\ lv \in Nat
      /\ Fits(sx, H) /\ Fits(sv, H)
  BY WordFacts
<1>2. H \in Nat /\ 1 <= H /\ H <= W /\ W \in Nat /\ 1 <= W
  BY Widths
<1>3. \A u \in Int : sext(u, H) = sext(sext(u, H), H)
  BY SextFacts
<1>4. \A i : Fits(i, H) => Unsigned(i) = sext(Unsigned(i), H)
  BY HalfExtended
<1>5. CASE m = "AddImm32"
  <2>1. Imm32(m, x, v, old) = sext(x + v, H)
    BY <1>5 DEF Imm32
  <2> QED BY <1>1, <1>3, <2>1
<1>6. CASE m = "MulImm32"
  <2>1. Imm32(m, x, v, old) = sext(x * v, H)
    BY <1>6 DEF Imm32
  <2>2. x * v \in Int
    BY <1>1
  <2> QED BY <1>3, <2>1, <2>2
<1>7. CASE m = "ShiftLogicalLeftImm32"
  <2>1. Imm32(m, x, v, old) = sext(Shl(lx, v, H), H)
    BY <1>7 DEF Imm32
  <2> HIDE DEF lx
  <2>2. Shl(lx, v, H) \in Int
    BY <1>1, <1>2, ShiftTypes
  <2> QED BY <1>3, <2>1, <2>2
<1>8. CASE m = "ShiftLogicalRightImm32"
  <2>1. Imm32(m, x, v, old) = sext(Shr(lx, v, H), H)
    BY <1>8 DEF Imm32
  <2> HIDE DEF lx
  <2>2. Shr(lx, v, H) \in Int
    BY <1>1, <1>2, ShiftTypes
  <2> QED BY <1>3, <2>1, <2>2
<1>9. CASE m = "ShiftArithmeticRightImm32"
  <2>1. Imm32(m, x, v, old) = Unsigned(Sar(sx, v, H))
    BY <1>9 DEF Imm32
  <2> HIDE DEF sx
  <2>2. Fits(Sar(sx, v, H), H)
    BY <1>1, <1>2, SarFits
  <2> QED BY <1>4, <2>1, <2>2
<1>10. CASE m = "NegateAndAddImm32"
  <2>1. Imm32(m, x, v, old) = sext(v - x, H)
    BY <1>10 DEF Imm32
  <2> QED BY <1>1, <1>3, <2>1
<1>11. CASE m = "ShiftLogicalLeftImmAlt32"
  <2>1. Imm32(m, x, v, old) = sext(Shl(v, x, W), H)
    BY <1>11 DEF Imm32
  <2>2. Shl(v, x, W) \in Int
    BY <1>1, <1>2, ShiftTypes
  <2> QED BY <1>3, <2>1, <2>2
<1>12. CASE m = "ShiftLogicalRightImmAlt32"
  <2>1. Imm32(m, x, v, old) = sext(Shr(lv, lx, H), H)
    BY <1>12 DEF Imm32
  <2> HIDE DEF lx, lv
  <2>2. Shr(lv, lx, H) \in Int
    BY <1>1, <1>2, ShiftTypes
  <2> QED BY <1>3, <2>1, <2>2
<1>13. CASE m = "ShiftArithmeticRightImmAlt32"
  <2>1. Imm32(m, x, v, old) = Unsigned(Sar(sv, lx, H))
    BY <1>13 DEF Imm32
  <2> HIDE DEF lx, sv
  <2>2. Fits(Sar(sv, lx, H), H)
    BY <1>1, <1>2, SarFits
  <2> QED BY <1>4, <2>1, <2>2
<1>14. m \in {"AddImm32", "MulImm32", "ShiftLogicalLeftImm32", "ShiftLogicalRightImm32",
              "ShiftArithmeticRightImm32", "NegateAndAddImm32", "ShiftLogicalLeftImmAlt32",
              "ShiftLogicalRightImmAlt32", "ShiftArithmeticRightImmAlt32"}
  BY DEF Imm32Ops, HalfOps, Reg32Ops
<1> QED
  BY <1>5, <1>6, <1>7, <1>8, <1>9, <1>10, <1>11, <1>12, <1>13, <1>14

\* The rotations of 32 bits.
LEMMA RotationsExtended ==
  ASSUME NEW x \in WordRange, NEW k \in Int
  PROVE  sext(RotateLeft(x % 2^H, k, H), H) = sext(sext(RotateLeft(x % 2^H, k, H), H), H)
<1>1. x % 2^H \in Nat
  BY WordFacts
<1>2. H \in Nat /\ 1 <= H /\ H <= W
  BY Widths
<1>3. RotateLeft(x % 2^H, k, H) \in Int
  BY <1>1, <1>2, ShiftTypes
<1> QED BY <1>3, SextFacts

-----------------------------------------------------------------------------
(* The divisions.                                                          *)

\* The integer that n bits stand for, by cases.
LEMMA SignedCases ==
  ASSUME NEW x \in Int, NEW n \in Nat, 1 <= n, n <= W
  PROVE  /\ x % 2^n \in Int /\ 0 <= x % 2^n /\ x % 2^n < 2^n
         /\ Signed(x, n) = 0 <=> x % 2^n = 0
         /\ Signed(x, n) = -1 => x % 2^n = 2^n - 1
         /\ Signed(x, n) = -2^(n - 1) => x % 2^n = 2^(n - 1)
<1> DEFINE M == 2^n
           h == 2^(n - 1)
           r == x % M
<1>1. M \in Nat \ {0} /\ h \in Nat \ {0} /\ M = h + h
  BY HalfRange
<1>2. Signed(x, n) = IF r >= h THEN r - M ELSE r
  BY DEF Signed
<1> HIDE DEF M, h
<1>3. r \in 0 .. M - 1
  BY <1>1, ModFacts
<1> HIDE DEF r
<1>4. /\ r \in Int /\ 0 <= r /\ r < M
      /\ Signed(x, n) = 0 <=> r = 0
      /\ Signed(x, n) = -1 => r = M - 1
      /\ Signed(x, n) = -h => r = h
  BY <1>1, <1>2, <1>3
<1> QED BY <1>4 DEF M, h, r

\* div_u and rem_u give quotient and remainder, in both widths.
LEMMA UnsignedDivisions ==
  ASSUME NEW x \in WordRange, NEW y \in WordRange
  PROVE  /\ y # 0 =>
              LET q == Reg64("DivUnsigned64", x, y)
                  r == Reg64("RemUnsigned64", x, y)
              IN  x = q * y + r /\ r < y
         /\ y % 2^H # 0 =>
              LET q == Reg32("DivUnsigned32", x, y)
                  r == Reg32("RemUnsigned32", x, y) % 2^H
              IN  x % 2^H = (q % 2^H) * (y % 2^H) + r /\ r < y % 2^H
<1>1. x \in Nat /\ y \in Nat /\ x % 2^H \in Nat /\ x % 2^H < 2^H /\ y % 2^H \in Nat
  BY WordFacts
<1>2. \A a \in Nat, b \in Nat \ {0} :
        /\ a \div b \in Nat /\ a % b \in Nat
        /\ a = (a \div b) * b + (a % b) /\ a % b < b /\ a \div b <= a /\ a % b <= a
  <2> TAKE a \in Nat, b \in Nat \ {0}
  <2> DEFINE q == a \div b
             r == a % b
  <2>1. q \in Int /\ r \in 0 .. b - 1 /\ a = b * q + r
    BY ModFacts
  <2> HIDE DEF q, r
  <2>2. q >= 0
    <3> SUFFICES ASSUME q < 0 PROVE FALSE
      BY <2>1
    <3>1. b * q + b <= b * 0
      BY <2>1, Multiples
    <3> QED BY <2>1, <3>1
  <2>3. b * q >= q /\ b * q \in Int /\ b * q = q * b
    BY <2>1, <2>2
  <2> QED BY <2>1, <2>2, <2>3 DEF q, r
<1>3. ASSUME y # 0
      PROVE  LET q == Reg64("DivUnsigned64", x, y)
                 r == Reg64("RemUnsigned64", x, y)
             IN  x = q * y + r /\ r < y
  <2>1. /\ Reg64("DivUnsigned64", x, y) = x \div y
        /\ Reg64("RemUnsigned64", x, y) = x % y
    BY <1>3 DEF Reg64
  <2> QED BY <1>1, <1>2, <1>3, <2>1
<1>4. ASSUME y % 2^H # 0
      PROVE  LET q == Reg32("DivUnsigned32", x, y)
                 r == Reg32("RemUnsigned32", x, y) % 2^H
             IN  x % 2^H = (q % 2^H) * (y % 2^H) + r /\ r < y % 2^H
  <2> DEFINE lx == x % 2^H
             ly == y % 2^H
             q == lx \div ly
             r == lx % ly
  <2>1. /\ Reg32("DivUnsigned32", x, y) = sext(q, H)
        /\ Reg32("RemUnsigned32", x, y) = sext(r, H)
    BY <1>4 DEF Reg32
  <2>2. lx \in Nat /\ lx < 2^H /\ ly \in Nat \ {0}
    BY <1>1, <1>4
  <2> HIDE DEF lx, ly
  <2>3. q \in Nat /\ r \in Nat /\ lx = q * ly + r /\ r < ly /\ q <= lx /\ r <= lx
    BY <1>2, <2>2
  <2> HIDE DEF q, r
  <2>4. 2^H \in Nat \ {0}
    BY Widths
  <2>5. q % 2^H = q /\ r % 2^H = r
    BY <2>2, <2>3, <2>4, SmallMod
  <2>6. sext(q, H) % 2^H = q /\ sext(r, H) % 2^H = r
    BY <2>3, <2>5, SextFacts
  <2> QED BY <2>1, <2>3, <2>6 DEF lx, ly
<1> QED BY <1>3, <1>4

\* div_s_64 is Go's quotient, or wraps least / -1.
LEMMA SignedDivision64 ==
  ASSUME NEW x \in WordRange, NEW y \in WordRange, y # 0
  PROVE  LET d == Reg64("DivSigned64", x, y)
         IN  \/ Signed(d, W) = Quo(Signed(x, W), Signed(y, W))
             \/ Signed(x, W) = -2^(W - 1) /\ Signed(y, W) = -1 /\ d = x
<1> DEFINE sx == Signed(x, W)
           sy == Signed(y, W)
           d == Reg64("DivSigned64", x, y)
<1>1. /\ x \in Int /\ y \in Int /\ Fits(sx, W) /\ Fits(sy, W) /\ sx \in Int /\ sy \in Int
      /\ 0 <= x /\ x < 2^W /\ 0 <= y /\ y < 2^W
  BY WordFacts
<1>2. W \in Nat /\ 1 <= W /\ W <= W /\ 2^W \in Nat \ {0}
  BY Widths
<1>3. x % 2^W = x /\ y % 2^W = y
  BY <1>1, <1>2, SmallMod
<1>4. sy # 0
  BY <1>1, <1>2, <1>3, SignedCases
<1>5. d = IF sx = -2^(W - 1) /\ sy = -1 THEN Unsigned(sx) ELSE Unsigned(Quo(sx, sy))
  BY <1>4 DEF Reg64
<1>6. CASE sx = -2^(W - 1) /\ sy = -1
  <2>1. d = sx % 2^W
    BY <1>5, <1>6 DEF Unsigned
  <2>2. sx % 2^W = x % 2^W
    BY <1>1, <1>2, SignedFacts
  <2> QED BY <1>3, <1>6, <2>1, <2>2
<1>7. CASE ~(sx = -2^(W - 1) /\ sy = -1)
  <2>1. d = Unsigned(Quo(sx, sy))
    BY <1>5, <1>7
  <2> HIDE DEF sx, sy, d
  <2>2. Fits(Quo(sx, sy), W)
    BY <1>1, <1>2, <1>4, <1>7, QuoFits
  <2>3. Signed(d, W) = Quo(sx, sy)
    BY <2>1, <2>2, SignedUnsigned
  <2> QED BY <2>3 DEF sx, sy, d
<1> QED BY <1>6, <1>7

\* So does div_s_32 on the low halves.
LEMMA SignedDivision32 ==
  ASSUME NEW x \in WordRange, NEW y \in WordRange, y % 2^H # 0
  PROVE  LET d == Reg32("DivSigned32", x, y)
         IN  \/ Signed(d, W) = Quo(Signed(x, H), Signed(y, H))
             \/ Signed(x, H) = -2^(H - 1) /\ Signed(y, H) = -1 /\ d = sext(x, H)
<1> DEFINE sx == Signed(x, H)
           sy == Signed(y, H)
           d == Reg32("DivSigned32", x, y)
<1>1. /\ x \in Int /\ y \in Int /\ Fits(sx, H) /\ Fits(sy, H) /\ sx \in Int /\ sy \in Int
  BY WordFacts
<1>2. H \in Nat /\ 1 <= H /\ H <= W
  BY Widths
<1>3. sy # 0
  BY <1>1, <1>2, SignedCases
<1>4. d = IF sx = -2^(H - 1) /\ sy = -1 THEN Unsigned(sx) ELSE Unsigned(Quo(sx, sy))
  BY <1>3 DEF Reg32
<1>5. CASE sx = -2^(H - 1) /\ sy = -1
  <2>1. d = sext(x, H)
    BY <1>4, <1>5 DEF sext
  <2> QED BY <1>5, <2>1
<1>6. CASE ~(sx = -2^(H - 1) /\ sy = -1)
  <2>1. d = Unsigned(Quo(sx, sy))
    BY <1>4, <1>6
  <2> HIDE DEF sx, sy, d
  <2>2. Fits(Quo(sx, sy), H)
    BY <1>1, <1>2, <1>3, <1>6, QuoFits
  <2>3. Fits(Quo(sx, sy), W)
    BY <2>2, HalfExtended
  <2>4. Signed(d, W) = Quo(sx, sy)
    BY <2>1, <2>3, SignedUnsigned
  <2> QED BY <2>4 DEF sx, sy, d
<1> QED BY <1>5, <1>6

\* rem_s is the promised remainder at both widths; the case that the code sets apart
\* has remainder zero.
LEMMA SignedRemainders ==
  ASSUME NEW x \in WordRange, NEW y \in WordRange
  PROVE  /\ Signed(x, W) # -2^(W - 1) =>
              Reg64("RemSigned64", x, y)
                = Unsigned(SignedRemainder(Signed(x, W), Signed(y, W)))
         /\ Signed(x, H) # -2^(H - 1) =>
              Reg32("RemSigned32", x, y)
                = Unsigned(SignedRemainder(Signed(x, H), Signed(y, H)))
<1>1. H \in Nat /\ 1 <= H /\ H <= W /\ W \in Nat /\ 1 <= W /\ W <= W
  BY Widths
<1>2. ASSUME NEW i \in Int PROVE SignedRemainder(i, -1) = 0
  <2> DEFINE m == -1
             r == Magnitude(i) % 1
  <2>1. m + 1 = 0 /\ m \in Int
    OBVIOUS
  <2>2. r = 0 /\ i % 1 = 0
    BY <1>2 DEF Magnitude
  <2> HIDE DEF m, r
  <2>3. Magnitude(m) = 1 /\ m # 0
    BY <2>1 DEF Magnitude
  <2>4. SignedRemainder(i, m) = IF i < 0 THEN -r ELSE 0
    BY <2>2, <2>3 DEF SignedRemainder, r
  <2> QED BY <2>2, <2>4 DEF m
<1>3. Unsigned(0) = 0
  BY Constants
<1>4. ASSUME NEW i \in Int PROVE SignedRemainder(i, 0) = i
  BY DEF SignedRemainder
<1>5. Signed(x, W) # -2^(W - 1) =>
        Reg64("RemSigned64", x, y) = Unsigned(SignedRemainder(Signed(x, W), Signed(y, W)))
  <2> DEFINE sx == Signed(x, W)
             sy == Signed(y, W)
             d == Reg64("RemSigned64", x, y)
  <2> SUFFICES ASSUME sx # -2^(W - 1) PROVE d = Unsigned(SignedRemainder(sx, sy))
    OBVIOUS
  <2>1. Fits(sx, W) /\ Fits(sy, W) /\ sx \in Int /\ sy \in Int
    BY WordFacts
  <2>2. d = IF sy = 0 THEN Unsigned(sx)
            ELSE IF sx = -2^(H - 1) /\ sy = -1 THEN 0 ELSE Unsigned(smod(sx, sy, W))
    BY DEF Reg64
  <2> HIDE DEF sx, sy, d
  <2>3. smod(sx, sy, W) = SignedRemainder(sx, sy)
    BY <1>1, <2>1, SmodValue
  <2>4. CASE sy = 0
    BY <1>4, <2>1, <2>2, <2>4
  <2>5. CASE sy = -1
    <3>1. SignedRemainder(sx, sy) = 0
      BY <1>2, <2>1, <2>5
    <3> QED BY <1>3, <2>2, <2>3, <2>5, <3>1
  <2>6. CASE sy # 0 /\ sy # -1
    BY <2>2, <2>3, <2>6
  <2> QED BY <2>4, <2>5, <2>6
<1>6. Signed(x, H) # -2^(H - 1) =>
        Reg32("RemSigned32", x, y) = Unsigned(SignedRemainder(Signed(x, H), Signed(y, H)))
  <2> DEFINE sx == Signed(x, H)
             sy == Signed(y, H)
             d == Reg32("RemSigned32", x, y)
  <2> SUFFICES ASSUME sx # -2^(H - 1) PROVE d = Unsigned(SignedRemainder(sx, sy))
    OBVIOUS
  <2>1. Fits(sx, H) /\ Fits(sy, H) /\ sx \in Int /\ sy \in Int
    BY WordFacts
  <2>2. d = IF sy = 0 THEN Unsigned(sx)
            ELSE IF sx = -2^(H - 1) /\ sy = -1 THEN 0 ELSE Unsigned(smod(sx, sy, H))
    BY DEF Reg32
  <2> HIDE DEF sx, sy, d
  <2>3. smod(sx, sy, H) = SignedRemainder(sx, sy)
    BY <1>1, <2>1, SmodValue
  <2>4. CASE sy = 0
    BY <1>4, <2>1, <2>2, <2>4
  <2>5. CASE sy # 0
    BY <2>2, <2>3, <2>5
  <2> QED BY <2>4, <2>5
<1> QED BY <1>5, <1>6

\* Divisions by zero give all ones.
LEMMA DivisionsByZero ==
  ASSUME NEW x \in WordRange, NEW y \in WordRange
  PROVE  /\ y = 0 => /\ Reg64("DivUnsigned64", x, y) = 2^W - 1
                     /\ Reg64("DivSigned64", x, y) = 2^W - 1
         /\ y % 2^H = 0 => /\ Reg32("DivUnsigned32", x, y) = 2^W - 1
                           /\ Reg32("DivSigned32", x, y) = 2^W - 1
<1>1. y \in Int
  BY WordFacts
<1>2. H \in Nat /\ 1 <= H /\ H <= W /\ W \in Nat /\ 1 <= W /\ W <= W /\ 2^W \in Nat \ {0}
  BY Widths
<1>3. ASSUME y = 0 PROVE /\ Reg64("DivUnsigned64", x, y) = 2^W - 1
                         /\ Reg64("DivSigned64", x, y) = 2^W - 1
  <2>1. y % 2^W = 0
    BY <1>1, <1>2, <1>3, SmallMod
  <2>2. Signed(y, W) = 0
    BY <1>1, <1>2, <2>1, SignedCases
  <2> QED BY <1>3, <2>2 DEF Reg64
<1>4. ASSUME y % 2^H = 0 PROVE /\ Reg32("DivUnsigned32", x, y) = 2^W - 1
                               /\ Reg32("DivSigned32", x, y) = 2^W - 1
  <2>1. Signed(y, H) = 0
    BY <1>1, <1>2, <1>4, SignedCases
  <2> QED BY <1>4, <2>1 DEF Reg32
<1> QED BY <1>3, <1>4

-----------------------------------------------------------------------------
(* The upper products.                                                     *)

\* The product of bounded integers is bounded.
LEMMA ProductBound ==
  ASSUME NEW h \in Nat, NEW c \in Nat, NEW i \in Int, NEW j \in Int,
         -h <= i, i <= h, -c <= j, j <= c
  PROVE  i * j \in Int /\ -(h * c) <= i * j /\ i * j <= h * c
<1> DEFINE I == Magnitude(i)
           J == Magnitude(j)
<1>1. I \in Nat /\ I <= h /\ (i = I \/ i = -I) /\ J \in Nat /\ J <= c /\ (j = J \/ j = -J)
  BY DEF Magnitude
<1> HIDE DEF I, J
<1>2. I * J <= h * J /\ h * J <= h * c /\ I * J \in Nat /\ h * J \in Nat /\ h * c \in Nat
  BY <1>1
<1>3. i * j = I * J \/ i * j = -(I * J)
  BY <1>1
<1> QED BY <1>2, <1>3

\* The upper word and the lower word of a product that fits two words.
LEMMA UpperAndLower ==
  ASSUME NEW i \in Int, NEW j \in Int, NEW x \in Int, NEW y \in Int,
         (i * j) % 2^W = (x * y) % 2^W,
         -(2^W * 2^(W - 1)) <= i * j, i * j < 2^W * 2^(W - 1)
  PROVE  Signed(MulUpper(i, j), W) * 2^W + Reg64("Mul64", x, y) = i * j
<1> DEFINE M == 2^W
           h == 2^(W - 1)
           e == i * j
           q == e \div M
           r == e % M
<1>1. M \in Nat \ {0} /\ h \in Nat \ {0}
  BY Widths, HalfRange
<1>2. e \in Int /\ -(M * h) <= e /\ e < M * h
  OBVIOUS
<1>3. Reg64("Mul64", x, y) = r
  BY DEF Reg64, Unsigned
<1>4. MulUpper(i, j) = Unsigned(q)
  BY DEF MulUpper
<1>5. Fits(q, W) <=> q \in Int /\ -h <= q /\ q < h
  BY DEF Fits
<1> HIDE DEF M, h, e
<1>6. q \in Int /\ r \in 0 .. M - 1 /\ e = M * q + r
  BY <1>1, <1>2, ModFacts
<1> HIDE DEF q, r
<1>7. q < h
  <2> SUFFICES ASSUME h <= q PROVE FALSE
    BY <1>1, <1>6
  <2>1. M * h <= M * q /\ M * h \in Int /\ M * q \in Int
    BY <1>1, <1>6
  <2> QED BY <1>1, <1>2, <1>6, <2>1
<1>8. -h <= q
  <2> SUFFICES ASSUME q < -h PROVE FALSE
    BY <1>1, <1>6
  <2>1. M * q + M <= M * (-h)
    BY <1>1, <1>6, Multiples
  <2>2. M * (-h) = -(M * h) /\ M * h \in Int /\ M * q \in Int
    BY <1>1, <1>6
  <2> QED BY <1>1, <1>2, <1>6, <2>1, <2>2
<1>9. Signed(MulUpper(i, j), W) = q
  BY <1>4, <1>5, <1>6, <1>7, <1>8, SignedUnsigned
<1>10. q * M + r = e
  BY <1>1, <1>6
<1> QED BY <1>3, <1>9, <1>10 DEF M, e

\* mul_upper and mul_64 make the exact product, in the three signedness variants.
LEMMA UpperProducts ==
  ASSUME NEW x \in WordRange, NEW y \in WordRange
  PROVE  LET lower == Reg64("Mul64", x, y) IN
         /\ MulUpper(x, y) * 2^W + lower = x * y
         /\ Signed(MulUpper(Signed(x, W), Signed(y, W)), W) * 2^W + lower
                = Signed(x, W) * Signed(y, W)
         /\ Signed(MulUpper(Signed(x, W), y), W) * 2^W + lower = Signed(x, W) * y
<1> DEFINE M == 2^W
           h == 2^(W - 1)
           sx == Signed(x, W)
           sy == Signed(y, W)
           lower == Reg64("Mul64", x, y)
<1>1. M \in Nat \ {0} /\ h \in Nat \ {0} /\ M = h + h
  BY Widths, HalfRange
<1>2. /\ x \in Nat /\ y \in Nat /\ x < M /\ y < M
      /\ sx \in Int /\ -h <= sx /\ sx < h /\ sy \in Int /\ -h <= sy /\ sy < h
  BY WordFacts DEF Fits
<1>3. lower = (x * y) % M
  BY DEF Reg64, Unsigned
<1>4. sx % M = x % M /\ sy % M = y % M
  BY <1>2, Widths, SignedFacts
<1>5. (sx * sy) % M = (x * y) % M /\ (sx * y) % M = (x * y) % M
  <2> HIDE DEF M, sx, sy
  <2>1. M \in Nat \ {0} /\ x \in Int /\ y \in Int /\ sx \in Int /\ sy \in Int
    BY <1>1, <1>2
  <2>2. ((sx % M) * sy) % M = (sx * sy) % M /\ ((sx % M) * y) % M = (sx * y) % M
    BY <2>1, ModTimes
  <2>3. ((x % M) * sy) % M = (x * sy) % M /\ ((x % M) * y) % M = (x * y) % M
    BY <2>1, ModTimes
  <2>4. ((sy % M) * x) % M = (sy * x) % M /\ ((y % M) * x) % M = (y * x) % M
    BY <2>1, ModTimes
  <2>5. sy * x = x * sy /\ y * x = x * y
    BY <2>1
  <2>6. (x * sy) % M = (x * y) % M
    BY <1>4, <2>4, <2>5, Zenon
  <2> QED BY <1>4, <2>2, <2>3, <2>6, Zenon
<1>6. -(M * h) <= sx * sy /\ sx * sy < M * h
  <2> HIDE DEF M, h, sx, sy
  <2>1. sx * sy \in Int /\ -(h * h) <= sx * sy /\ sx * sy <= h * h
    BY <1>1, <1>2, ProductBound
  <2>2. M * h = h * h + h * h /\ h * h >= 1 /\ h * h \in Int
    BY <1>1
  <2> QED BY <2>1, <2>2
<1>7. -(M * h) <= sx * y /\ sx * y < M * h
  <2> HIDE DEF M, h, sx, sy
  <2> DEFINE c == M - 1
  <2>1. c \in Nat /\ -c <= y /\ y <= c
    BY <1>1, <1>2
  <2>2. h * c = M * h - h
    BY <1>1
  <2> HIDE DEF c
  <2>3. sx * y \in Int /\ -(h * c) <= sx * y /\ sx * y <= h * c
    BY <1>1, <1>2, <2>1, ProductBound
  <2>4. M * h \in Int
    BY <1>1
  <2> QED BY <1>1, <2>2, <2>3, <2>4
<1>8. Signed(MulUpper(sx, sy), W) * M + lower = sx * sy
  <2> HIDE DEF sx, sy
  <2> QED BY <1>2, <1>5, <1>6, UpperAndLower
<1>9. Signed(MulUpper(sx, y), W) * M + lower = sx * y
  <2> HIDE DEF sx, sy
  <2> QED BY <1>2, <1>5, <1>7, UpperAndLower
<1>10. MulUpper(x, y) * M + lower = x * y
  <2> DEFINE e == x * y
             q == e \div M
             r == e % M
  <2>1. MulUpper(x, y) = q % M
    BY DEF MulUpper, Unsigned
  <2>2. lower = r
    BY <1>3
  <2> HIDE DEF lower, M
  <2>3. e \in Nat /\ e < M * M
    <3>1. x * y <= x * M /\ x * M < M * M /\ x * y \in Nat /\ x * M \in Nat /\ M * M \in Nat
      BY <1>1, <1>2
    <3> QED BY <3>1
  <2> HIDE DEF e
  <2>4. q \in Int /\ r \in 0 .. M - 1 /\ e = M * q + r
    <3>1. e \in Int /\ M \in Nat \ {0}
      BY <1>1, <2>3
    <3> QED BY <3>1, ModFacts
  <2> HIDE DEF q, r
  <2>5. q >= 0
    <3> SUFFICES ASSUME q < 0 PROVE FALSE
      BY <2>4
    <3>1. M * q + M <= M * 0
      BY <1>1, <2>4, Multiples
    <3> QED BY <1>1, <2>3, <2>4, <3>1
  <2>6. q < M
    <3> SUFFICES ASSUME M <= q PROVE FALSE
      BY <1>1, <2>4
    <3>1. M * M <= M * q /\ M * M \in Int /\ M * q \in Int
      BY <1>1, <2>4
    <3> QED BY <1>1, <2>3, <2>4, <3>1
  <2>7. q % M = q
    BY <1>1, <2>4, <2>5, <2>6, SmallMod
  <2>8. q * M + r = e
    BY <1>1, <2>4
  <2> QED BY <2>1, <2>2, <2>7, <2>8 DEF e
<1> QED BY <1>8, <1>9, <1>10

-----------------------------------------------------------------------------
(* The rotations.                                                          *)

\* A word of n bits splits at any bit below.
LEMMA PowerSplit ==
  ASSUME NEW n \in Nat, n <= W, NEW j \in Nat, j < n
  PROVE  /\ 2^j \in Nat \ {0} /\ 2^(n - j) \in Nat \ {0} /\ 2^(n - j - 1) \in Nat \ {0}
         /\ 2^n = 2^j * 2^(n - j) /\ 2^(n - j) = 2 * 2^(n - j - 1)
<1> DEFINE u == n - j
           v == n - j - 1
<1>1. u \in Nat /\ v \in Nat /\ j + u = n /\ v + 1 = u /\ u <= W /\ v <= W - 1 /\ j <= W
  BY Widths
<1> HIDE DEF u, v
<1>2. 2^j \in Nat \ {0} /\ 2^u \in Nat \ {0} /\ 2^v \in Nat \ {0}
  BY <1>1, Powers, Widths
<1>3. 2^(j + u) = 2^j * 2^u
  BY <1>1, PowerSum
<1>4. 2^(v + 1) = 2 * 2^v
  <2>1. v \in 0 .. (W - 1)
    BY <1>1, Widths
  <2> QED BY <2>1, AluAssumption
<1> QED BY <1>1, <1>2, <1>3, <1>4 DEF u, v

\* The bits below n depend on the value modulo 2^n alone.
LEMMA LowBits ==
  ASSUME NEW n \in Nat, n <= W, NEW j \in Nat, j < n, NEW y \in Int
  PROVE  Bit(y % 2^n, j) = Bit(y, j)
<1> DEFINE T == 2^j
           U == 2^(n - j)
           V == 2^(n - j - 1)
           z == y % (T * U)
           c == y \div T
<1>1. T \in Nat \ {0} /\ U \in Nat \ {0} /\ V \in Nat \ {0} /\ 2^n = T * U /\ U = 2 * V
  BY PowerSplit
<1>2. Bit(y % 2^n, j) = (z \div T) % 2 /\ Bit(y, j) = c % 2
  BY <1>1 DEF Bit
<1> HIDE DEF T, U, V
<1>3. z \div T = c % U
  BY <1>1, DivTwice, ZenonT(60)
<1>4. c \in Int
  BY <1>1, ModFacts
<1> HIDE DEF z, c
<1>5. 2 \in Nat \ {0}
  OBVIOUS
<1>6. (c % (2 * V)) % 2 = c % 2
  BY <1>1, <1>4, <1>5, DivTwice, ZenonT(60)
<1> QED BY <1>1, <1>2, <1>3, <1>6

\* The bits of a word of n bits after a rotation to the left by s.
LEMMA RotatedBits ==
  ASSUME NEW n \in Nat, 1 <= n, n <= W, NEW x \in Nat, x < 2^n, NEW k \in Int,
         NEW j \in Nat, j < n
  PROVE  /\ k % n <= j => Bit(RotateLeft(x, k, n), j) = Bit(x, j - (k % n))
         /\ j < k % n  => Bit(RotateLeft(x, k, n), j) = Bit(x, n - (k % n) + j)
<1> DEFINE s == k % n
           P == 2^(n - s)
           S == 2^s
           M == 2^n
           g == x \div P
           l == x % P
           D == RotateLeft(x, k, n)
<1>1. s \in Nat /\ s < n
  <2>1. n \in Nat \ {0}
    OBVIOUS
  <2> QED BY <2>1, ModFacts, SMTT(60)
<1>2. D = ((x * S) % M) + g
  BY DEF RotateLeft
<1> HIDE DEF s, D
<1>3. S \in Nat \ {0} /\ P \in Nat \ {0} /\ M = S * P
  BY <1>1, PowerSplit
<1> HIDE DEF P, S, M
<1>4. g \in Int /\ l \in 0 .. P - 1 /\ x = P * g + l
  BY <1>3, ModFacts
<1> HIDE DEF g, l
<1>5. 0 <= g /\ g < S
  <2>1. ~(g < 0)
    <3> SUFFICES ASSUME g < 0 PROVE FALSE
      OBVIOUS
    <3>1. P * g + P <= P * 0
      BY <1>3, <1>4, Multiples
    <3> QED BY <1>3, <1>4, <3>1
  <2>2. ~(S <= g)
    <3> SUFFICES ASSUME S <= g PROVE FALSE
      OBVIOUS
    <3>1. P * S <= P * g /\ P * S = S * P /\ P * S \in Int /\ P * g \in Int
      BY <1>3, <1>4
    <3> QED BY <1>3, <1>4, <3>1 DEF M
  <2> QED BY <1>3, <1>4, <2>1, <2>2
<1>6. (x * S) % M = S * l
  <2> DEFINE e == x * S
             r == S * l
  <2>1. e = M * g + r
    BY <1>3, <1>4
  <2>2. e \in Int /\ r \in Int /\ M \in Nat \ {0}
    BY <1>3, <1>4
  <2>3. 0 <= r /\ r < M
    <3>1. S * l + S <= S * P
      BY <1>3, <1>4, Multiples
    <3>2. S * l >= 0 /\ S * l \in Int
      BY <1>3, <1>4
    <3> QED BY <1>3, <3>1, <3>2
  <2> HIDE DEF e, r
  <2>4. e % M = r
    BY <1>4, <2>1, <2>2, <2>3, DivMod
  <2> QED BY <2>4 DEF e, r
<1>7. D = S * l + g /\ D \in Int /\ S * l \in Int
  BY <1>2, <1>3, <1>4, <1>6
<1>8. 2 \in Nat \ {0}
  OBVIOUS
<1>9. ASSUME s <= j PROVE Bit(D, j) = Bit(x, j - s)
  <2> DEFINE t == j - s
             w == n - s
             T == 2^t
  <2>1. t \in Nat /\ w \in Nat /\ t < w /\ w <= W /\ s + t = j /\ s + t <= W
    BY <1>1, <1>9, Widths
  <2>2. P = 2^w
    BY DEF P
  <2>3. 2^(s + t) = S * T
    BY <1>1, <2>1, PowerSum DEF S
  <2>4. Bit(D, j) = (D \div (S * T)) % 2
    BY <2>1, <2>3 DEF Bit
  <2> HIDE DEF t, w
  <2>5. T \in Nat \ {0}
    BY <2>1, PowerSplit
  <2>6. D \div S = l
    BY <1>3, <1>4, <1>5, <1>7, DivMod
  <2>7. D \div (S * T) = (D \div S) \div T
    <3> HIDE DEF T
    <3> QED BY <1>3, <1>7, <2>5, DivTwice
  <2>8. Bit(D, j) = Bit(l, t)
    BY <2>4, <2>6, <2>7 DEF Bit
  <2>9. Bit(x % 2^w, t) = Bit(x, t)
    BY <2>1, LowBits
  <2> QED BY <2>2, <2>8, <2>9 DEF l, t
<1>10. ASSUME j < s PROVE Bit(D, j) = Bit(x, n - s + j)
  <2> DEFINE w == n - s
             T == 2^j
             U == 2^(s - j)
             V == 2^(s - j - 1)
  <2>1. s <= W
    BY <1>1, Widths
  <2>2. T \in Nat \ {0} /\ U \in Nat \ {0} /\ V \in Nat \ {0} /\ S = T * U /\ U = 2 * V
    BY <1>1, <1>10, <2>1, PowerSplit DEF S
  <2>3. w \in Nat /\ w + j <= W
    BY <1>1, <1>10, Widths
  <2>4. 2^(w + j) = P * T
    BY <2>3, PowerSum DEF P
  <2>5. Bit(x, w + j) = (x \div (P * T)) % 2
    BY <2>4 DEF Bit
  <2>6. Bit(D, j) = (D \div T) % 2
    BY DEF Bit
  <2> HIDE DEF w, T, U, V
  <2>7. x \div (P * T) = g \div T
    <3>1. x \in Int /\ P \in Nat \ {0} /\ T \in Nat \ {0}
      BY <1>3, <2>2
    <3>2. x \div (P * T) = (x \div P) \div T
      BY <3>1, DivTwice, ZenonT(60)
    <3> QED BY <3>2 DEF g
  <2> DEFINE c == U * l
             f == V * l
             b == g \div T
  <2>8. c \in Int /\ f \in Int /\ c = 2 * f /\ S * l = T * c
    BY <1>4, <2>2
  <2>9. b \in Int
    BY <1>4, <2>2, ModFacts
  <2> HIDE DEF c, f
  <2>10. (g + T * c) \div T = b + c
    BY <1>4, <2>2, <2>8, ModShift
  <2>11. D = g + T * c
    BY <1>4, <1>7, <2>8
  <2> HIDE DEF b
  <2>12. (b + 2 * f) % 2 = b % 2
    BY <1>8, <2>8, <2>9, ModShift
  <2>13. (D \div T) % 2 = b % 2
    BY <2>8, <2>10, <2>11, <2>12
  <2> QED BY <2>5, <2>6, <2>7, <2>13 DEF b, w
<1> QED BY <1>9, <1>10 DEF s, D

\* Rotations to the left move bit i to bit i + k, and to the right bit i + k to bit i.
LEMMA RotationsMoveBits ==
  ASSUME NEW n \in Nat, 1 <= n, n <= W, NEW x \in Nat, x < 2^n, NEW k \in Int,
         NEW i \in 0 .. (n - 1)
  PROVE  /\ (i + k) % n \in 0 .. (n - 1)
         /\ Bit(RotateLeft(x, k, n), (i + k) % n) = Bit(x, i)
         /\ Bit(RotateLeft(x, -k, n), i) = Bit(x, (i + k) % n)
<1> DEFINE q == k \div n
           s == k % n
           p == (-k) \div n
           t == (-k) % n
<1>1. n \in Nat \ {0} /\ i \in Int /\ i + k \in Int /\ -k \in Int
  OBVIOUS
<1>2. q \in Int /\ s \in 0 .. n - 1 /\ k = n * q + s
  BY <1>1, ModFacts
<1>3. p \in Int /\ t \in 0 .. n - 1 /\ -k = n * p + t
  BY <1>1, ModFacts
<1>4. (i + k) % n \in 0 .. (n - 1)
  BY <1>1, ModFacts
<1>5. Bit(RotateLeft(x, k, n), (i + k) % n) = Bit(x, i)
  <2> DEFINE e == i + k
             j == e % n
  <2>1. CASE i + s < n
    <3> DEFINE r == i + s
    <3> HIDE DEF q, s
    <3>1. r \in Int /\ 0 <= r /\ r < n /\ e = n * q + r /\ e \in Int
      BY <1>2, <2>1
    <3> HIDE DEF r, e
    <3>2. j = r
      BY <1>1, <1>2, <3>1, DivMod
    <3>3. r \in Nat /\ s <= r /\ r - s = i
      BY <1>2, <3>1 DEF r
    <3>4. k % n <= r => Bit(RotateLeft(x, k, n), r) = Bit(x, r - (k % n))
      BY <3>1, <3>3, RotatedBits, ZenonT(60)
    <3>5. Bit(RotateLeft(x, k, n), r) = Bit(x, i)
      BY <3>3, <3>4 DEF s
    <3> QED BY <3>2, <3>5 DEF e
  <2>2. CASE ~(i + s < n)
    <3> DEFINE r == i + s - n
               u == q + 1
    <3> HIDE DEF q, s
    <3>1. r \in Int /\ 0 <= r /\ r < n /\ u \in Int /\ e \in Int
      BY <1>2, <2>2
    <3>2. e = n * u + r
      <4>1. n * u = n * q + n /\ n * q \in Int
        BY <1>2
      <4> QED BY <1>2, <4>1
    <3> HIDE DEF r, e, u
    <3>3. j = r
      BY <1>1, <3>1, <3>2, DivMod
    <3>4. r \in Nat /\ r < s /\ n - s + r = i
      BY <1>2, <3>1 DEF r
    <3>5. r < k % n => Bit(RotateLeft(x, k, n), r) = Bit(x, n - (k % n) + r)
      <4>1. r \in Nat /\ r < n
        BY <3>1, <3>4
      <4>2. /\ k % n <= r => Bit(RotateLeft(x, k, n), r) = Bit(x, r - (k % n))
            /\ r < k % n  => Bit(RotateLeft(x, k, n), r) = Bit(x, n - (k % n) + r)
        BY <4>1, RotatedBits, ZenonT(60)
      <4> QED BY <4>2
    <3>6. Bit(RotateLeft(x, k, n), r) = Bit(x, i)
      BY <3>4, <3>5 DEF s
    <3> QED BY <3>3, <3>6 DEF e
  <2> QED BY <2>1, <2>2
<1>6. Bit(RotateLeft(x, -k, n), i) = Bit(x, (i + k) % n)
  <2>1. /\ (-k) % n <= i => Bit(RotateLeft(x, -k, n), i) = Bit(x, i - ((-k) % n))
        /\ i < (-k) % n  => Bit(RotateLeft(x, -k, n), i) = Bit(x, n - ((-k) % n) + i)
    <3> DEFINE m == -k
    <3>1. m \in Int /\ i \in Nat /\ i < n
      OBVIOUS
    <3> HIDE DEF m
    <3>2. /\ m % n <= i => Bit(RotateLeft(x, m, n), i) = Bit(x, i - (m % n))
          /\ i < m % n  => Bit(RotateLeft(x, m, n), i) = Bit(x, n - (m % n) + i)
      BY <3>1, RotatedBits, ZenonT(60)
    <3> QED BY <3>2 DEF m
  <2> DEFINE e == i + k
             j == e % n
             o == -p
  <2>2. o \in Int /\ k = n * o - t /\ n * o \in Int
    <3> HIDE DEF p, t
    <3>1. n * (-p) = -(n * p) /\ n * p \in Int
      BY <1>3
    <3> QED BY <1>3, <3>1
  <2>3. CASE t <= i
    <3> DEFINE r == i - t
    <3> HIDE DEF t, o
    <3>1. r \in Int /\ 0 <= r /\ r < n /\ e = n * o + r /\ e \in Int
      BY <1>3, <2>2, <2>3
    <3> HIDE DEF r, e
    <3>2. j = r
      BY <1>1, <2>2, <3>1, DivMod
    <3>3. Bit(RotateLeft(x, -k, n), i) = Bit(x, r)
      BY <2>1, <2>3 DEF t, r
    <3> QED BY <3>2, <3>3 DEF e
  <2>4. CASE ~(t <= i)
    <3> DEFINE r == n - t + i
               u == o - 1
    <3> HIDE DEF t, o
    <3>1. r \in Int /\ 0 <= r /\ r < n /\ u \in Int /\ e \in Int /\ i < t
      BY <1>3, <2>2, <2>4
    <3>2. e = n * u + r
      <4>1. n * u = n * o - n /\ n * o \in Int
        BY <2>2
      <4> QED BY <1>3, <2>2, <4>1
    <3> HIDE DEF r, e, u
    <3>3. j = r
      BY <1>1, <3>1, <3>2, DivMod
    <3>4. Bit(RotateLeft(x, -k, n), i) = Bit(x, r)
      BY <2>1, <3>1 DEF t, r
    <3> QED BY <3>3, <3>4 DEF e
  <2> QED BY <2>3, <2>4
<1> QED BY <1>4, <1>5, <1>6

-----------------------------------------------------------------------------
(* The machine.                                                            *)

\* What D holds: the fixed word when the machine is ready, and else the result of
\* the last instruction from A, B, the immediate and that fixed word.
ResultInv ==
  /\ regA \in WordRange /\ regB \in WordRange /\ imm \in WordRange /\ sext(imm, H) = imm
  /\ Ready => regD = 2^W - 3
  /\ instr \in Reg32Ops => regD = Reg32(instr, regA, regB)
  /\ instr \in Reg64Ops => regD = Reg64(instr, regA, regB)
  /\ instr \in WordOps => regD = Word(instr, regA, regB, 2^W - 3)
  /\ instr \in Imm32Ops => regD = Imm32(instr, regA, imm, 2^W - 3)
  /\ instr \in Imm64Ops => regD = Imm64(instr, regA, imm)

\* The names of the two opcodes are swapped twice.
LEMMA NamesCancel == \A op : Reg2ImmMethod(OpcodeConstant(op)) = op
BY DEF Reg2ImmMethod, OpcodeConstant

\* Every instruction belongs to one form.
LEMMA FormsDisjoint ==
  /\ "none" \notin UnaryOps \cup Imm32Ops \cup Imm64Ops \cup Reg32Ops \cup Reg64Ops \cup WordOps
  /\ UnaryOps \cap (Imm32Ops \cup Imm64Ops \cup Reg32Ops \cup Reg64Ops \cup WordOps) = {}
  /\ Imm32Ops \cap (Imm64Ops \cup Reg32Ops \cup Reg64Ops \cup WordOps) = {}
  /\ Imm64Ops \cap (Reg32Ops \cup Reg64Ops \cup WordOps) = {}
  /\ Reg32Ops \cap (Reg64Ops \cup WordOps) = {}
  /\ Reg64Ops \cap WordOps = {}
<1>1. "none" \notin UnaryOps \cup Imm32Ops \cup Imm64Ops \cup Reg32Ops \cup Reg64Ops \cup WordOps
  BY DEF UnaryOps, Imm32Ops, Imm64Ops, Reg32Ops, Reg64Ops, WordOps
<1>2. UnaryOps \cap (Imm32Ops \cup Imm64Ops \cup Reg32Ops \cup Reg64Ops \cup WordOps) = {}
  BY DEF UnaryOps, Imm32Ops, Imm64Ops, Reg32Ops, Reg64Ops, WordOps
<1>3. Imm32Ops \cap (Imm64Ops \cup Reg32Ops \cup Reg64Ops \cup WordOps) = {}
  BY DEF Imm32Ops, Imm64Ops, Reg32Ops, Reg64Ops, WordOps
<1>4. Imm64Ops \cap (Reg32Ops \cup Reg64Ops \cup WordOps) = {}
  BY DEF Imm64Ops, Reg32Ops, Reg64Ops, WordOps
<1>5. Reg32Ops \cap (Reg64Ops \cup WordOps) = {} /\ Reg64Ops \cap WordOps = {}
  BY DEF Reg32Ops, Reg64Ops, WordOps
<1> QED BY <1>1, <1>2, <1>3, <1>4, <1>5

\* Each step keeps the invariant.
LEMMA ResultStep == ResultInv /\ [AluNext]_aluVars => ResultInv'
<1> SUFFICES ASSUME ResultInv, [AluNext]_aluVars PROVE ResultInv'
  OBVIOUS
<1>1. CASE UNCHANGED aluVars
  BY <1>1 DEF aluVars, ResultInv, Ready
<1>2. CASE RegReg
  <2>1. /\ instr' \in UnaryOps /\ regA' = regA /\ regB' = regB /\ imm' = imm
    BY <1>2 DEF RegReg
  <2> QED BY <2>1, FormsDisjoint DEF ResultInv, Ready
<1>3. CASE Reg2Imm
  <2>1. PICK op \in Imm32Ops \cup Imm64Ops, v \in Immediate :
          /\ Ready
          /\ LET m == Reg2ImmMethod(OpcodeConstant(op)) IN
             regD' = IF m \in Imm32Ops THEN Imm32(m, regA, v, regD) ELSE Imm64(m, regA, v)
          /\ imm' = v /\ instr' = op /\ regA' = regA /\ regB' = regB
    BY <1>3 DEF Reg2Imm
  <2>2. regD' = IF op \in Imm32Ops THEN Imm32(op, regA, v, regD) ELSE Imm64(op, regA, v)
    BY <2>1, NamesCancel
  <2>3. regD = 2^W - 3 /\ v \in WordRange /\ sext(v, H) = v
    BY <2>1, AluAssumption DEF ResultInv, Immediate, WordRange
  <2> QED BY <2>1, <2>2, <2>3, FormsDisjoint DEF ResultInv, Ready
<1>4. CASE Reg3
  <2>1. PICK op \in Reg32Ops \cup Reg64Ops \cup WordOps :
          /\ Ready
          /\ regD' = CASE op \in Reg32Ops -> Reg32(op, regA, regB)
                       [] op \in Reg64Ops -> Reg64(op, regA, regB)
                       [] op \in WordOps  -> Word(op, regA, regB, regD)
          /\ instr' = op /\ regA' = regA /\ regB' = regB /\ imm' = imm
    BY <1>4 DEF Reg3
  <2>2. /\ op \in Reg32Ops => regD' = Reg32(op, regA, regB)
        /\ op \in Reg64Ops => regD' = Reg64(op, regA, regB)
        /\ op \in WordOps => regD' = Word(op, regA, regB, regD)
    BY <2>1, FormsDisjoint
  <2>3. regD = 2^W - 3
    BY <2>1 DEF ResultInv
  <2> QED BY <2>1, <2>2, <2>3, FormsDisjoint DEF ResultInv, Ready
<1>5. CASE LoadImm64
  <2>1. instr' = "none" /\ regD' = 2^W - 3 /\ imm' = 0 /\ regA' = regA /\ regB' = regB
    BY <1>5 DEF LoadImm64
  <2>2. 0 \in WordRange /\ sext(0, H) = 0
    BY Widths, Constants, HalfExtended DEF WordRange
  <2> QED BY <2>1, <2>2, FormsDisjoint DEF ResultInv, Ready
<1> QED BY <1>1, <1>2, <1>3, <1>4, <1>5 DEF AluNext

\* So do the initial states.
LEMMA ResultInit == AluInit => ResultInv
<1> SUFFICES ASSUME AluInit PROVE ResultInv
  OBVIOUS
<1>1. 0 \in WordRange /\ Operand \subseteq WordRange /\ sext(0, H) = 0
  BY AluAssumption, Widths, Constants, HalfExtended DEF WordRange
<1> QED BY <1>1, FormsDisjoint DEF AluInit, ResultInv, Ready

\* The results of 32-bit instructions are sign-extended.
LEMMA ExtendedResults == ResultInv => HalfResultsExtended
<1> SUFFICES ASSUME ResultInv, instr \in HalfOps PROVE regD = sext(regD, H)
  BY DEF HalfResultsExtended
<1>1. regA \in WordRange /\ regB \in WordRange /\ imm \in WordRange
  BY DEF ResultInv
<1>2. regA \in Int /\ regB \in Int /\ imm \in Int /\ regA % 2^H \in Int
  BY <1>1, WordFacts
<1>3. CASE instr \in Reg32Ops
  BY <1>1, <1>3, Reg32Extended DEF ResultInv
<1>4. CASE instr \in Imm32Ops
  BY <1>1, <1>4, Imm32Extended DEF ResultInv
<1>5. CASE instr = "RotR32Imm"
  <2>1. regD = sext(RotateLeft(regA % 2^H, -imm, H), H)
    BY <1>5 DEF ResultInv, Imm64Ops, Imm64
  <2> QED BY <1>1, <1>2, <2>1, RotationsExtended
<1>6. CASE instr = "RotR32ImmAlt"
  <2>1. regD = sext(RotateLeft(imm % 2^H, -(regA % 2^H), H), H)
    BY <1>6 DEF ResultInv, Imm64Ops, Imm64
  <2> QED BY <1>1, <1>2, <2>1, RotationsExtended
<1>7. CASE instr = "RotL32"
  <2>1. regD = sext(RotateLeft(regA % 2^H, regB, H), H)
    BY <1>7 DEF ResultInv, WordOps, Word
  <2> QED BY <1>1, <1>2, <2>1, RotationsExtended
<1>8. CASE instr = "RotR32"
  <2>1. regD = sext(RotateLeft(regA % 2^H, -regB, H), H)
    BY <1>8 DEF ResultInv, WordOps, Word
  <2> QED BY <1>1, <1>2, <2>1, RotationsExtended
<1> QED BY <1>3, <1>4, <1>5, <1>6, <1>7, <1>8 DEF HalfOps, Imm32Ops

\* The quotients are the promised ones.
LEMMA PromisedQuotients == ResultInv => QuotientsPromised
<1> SUFFICES ASSUME ResultInv PROVE QuotientsPromised
  OBVIOUS
<1>1. regA \in WordRange /\ regB \in WordRange
  BY DEF ResultInv
<1>2. /\ instr = "DivUnsigned64" => regD = Reg64("DivUnsigned64", regA, regB)
      /\ instr = "DivSigned64" => regD = Reg64("DivSigned64", regA, regB)
      /\ instr = "DivUnsigned32" => regD = Reg32("DivUnsigned32", regA, regB)
      /\ instr = "DivSigned32" => regD = Reg32("DivSigned32", regA, regB)
  BY DEF ResultInv, Reg64Ops, Reg32Ops
<1>3. instr = "DivUnsigned64" /\ regB # 0 =>
        LET r == Reg64("RemUnsigned64", regA, regB)
        IN  regA = regD * regB + r /\ r < regB
  BY <1>1, <1>2, UnsignedDivisions
<1>4. instr = "DivUnsigned32" /\ regB % 2^H # 0 =>
        LET r == Reg32("RemUnsigned32", regA, regB) % 2^H
        IN  regA % 2^H = (regD % 2^H) * (regB % 2^H) + r /\ r < regB % 2^H
  BY <1>1, <1>2, UnsignedDivisions
<1> DEFINE quotient(a, b) == Floor(a, b) + (IF Inexact(a, b) THEN 1 ELSE 0)
<1>5. instr = "DivSigned64" /\ regB # 0 =>
        \/ Signed(regD, W) = quotient(Signed(regA, W), Signed(regB, W))
        \/ Signed(regA, W) = -2^(W - 1) /\ Signed(regB, W) = -1 /\ regD = regA
  <2> SUFFICES ASSUME instr = "DivSigned64", regB # 0,
                      Signed(regD, W) = Quo(Signed(regA, W), Signed(regB, W))
               PROVE  Signed(regD, W) = quotient(Signed(regA, W), Signed(regB, W))
    BY <1>1, <1>2, SignedDivision64
  <2>1. Signed(regB, W) # 0
    <3>1. W \in Nat /\ 1 <= W /\ W <= W /\ 2^W \in Nat \ {0} /\ regB \in Int
          /\ 0 <= regB /\ regB < 2^W
      BY <1>1, Widths, WordFacts
    <3>2. regB % 2^W = regB
      BY <3>1, SmallMod
    <3> QED BY <3>1, <3>2, SignedCases
  <2>2. Signed(regA, W) \in Int /\ Signed(regB, W) \in Int
    BY <1>1, WordFacts
  <2> QED BY <2>1, <2>2, QuoValue
<1>6. instr = "DivSigned32" /\ regB % 2^H # 0 =>
        \/ Signed(regD, W) = quotient(Signed(regA, H), Signed(regB, H))
        \/ Signed(regA, H) = -2^(H - 1) /\ Signed(regB, H) = -1 /\ regD = sext(regA, H)
  <2> SUFFICES ASSUME instr = "DivSigned32", regB % 2^H # 0,
                      Signed(regD, W) = Quo(Signed(regA, H), Signed(regB, H))
               PROVE  Signed(regD, W) = quotient(Signed(regA, H), Signed(regB, H))
    BY <1>1, <1>2, SignedDivision32
  <2>1. Signed(regB, H) # 0
    <3>1. H \in Nat /\ 1 <= H /\ H <= W /\ regB \in Int
      BY <1>1, Widths, WordFacts
    <3> QED BY <3>1, SignedCases
  <2>2. Signed(regA, H) \in Int /\ Signed(regB, H) \in Int
    BY <1>1, WordFacts
  <2> QED BY <2>1, <2>2, QuoValue
<1>7. instr \in {"DivUnsigned64", "DivSigned64"} /\ regB = 0 => regD = 2^W - 1
  BY <1>1, <1>2, DivisionsByZero
<1>8. instr \in {"DivUnsigned32", "DivSigned32"} /\ regB % 2^H = 0 => regD = 2^W - 1
  BY <1>1, <1>2, DivisionsByZero
<1> QED BY <1>3, <1>4, <1>5, <1>6, <1>7, <1>8, Zenon DEF QuotientsPromised

\* So are the remainders.
LEMMA PromisedRemainders == ResultInv => RemaindersPromised
<1> SUFFICES ASSUME ResultInv PROVE RemaindersPromised
  OBVIOUS
<1>1. regA \in WordRange /\ regB \in WordRange
  BY DEF ResultInv
<1>2. /\ instr = "RemSigned64" => regD = Reg64("RemSigned64", regA, regB)
      /\ instr = "RemSigned32" => regD = Reg32("RemSigned32", regA, regB)
  BY DEF ResultInv, Reg64Ops, Reg32Ops
<1> QED BY <1>1, <1>2, SignedRemainders DEF RemaindersPromised

\* The low halves of sums, differences and products of half words are the promised
\* ones.
LEMMA PromisedSums == ResultInv => HalfSums
<1> SUFFICES ASSUME ResultInv PROVE HalfSums
  OBVIOUS
<1>1. regA \in Int /\ regB \in Int /\ imm \in Int
  BY WordFacts DEF ResultInv
<1>2. /\ instr = "Add32" => regD = sext(regA + regB, H)
      /\ instr = "Sub32" => regD = sext(regA - regB, H)
      /\ instr = "Mul32" => regD = sext(regA * regB, H)
  BY DEF ResultInv, Reg32Ops, Reg32
<1>3. /\ instr = "AddImm32" => regD = sext(regA + imm, H)
      /\ instr = "MulImm32" => regD = sext(regA * imm, H)
      /\ instr = "NegateAndAddImm32" => regD = sext(imm - regA, H)
  BY DEF ResultInv, Imm32Ops, Imm32
<1>4. \A i \in Int : sext(i, H) % 2^H = i % 2^H
  BY SextFacts
<1>5. /\ regA + regB \in Int /\ regA - regB \in Int /\ regA * regB \in Int
      /\ regA + imm \in Int /\ regA * imm \in Int /\ imm - regA \in Int
  BY <1>1
<1> QED BY <1>2, <1>3, <1>4, <1>5, Zenon DEF HalfSums

\* The results of mul_upper are.
LEMMA ExactProducts == ResultInv => WideProduct
<1> SUFFICES ASSUME ResultInv PROVE WideProduct
  OBVIOUS
<1>1. regA \in WordRange /\ regB \in WordRange
  BY DEF ResultInv
<1>2. /\ instr = "MulUpperUnsignedUnsigned" => regD = MulUpper(regA, regB)
      /\ instr = "MulUpperSignedSigned" => regD = MulUpper(Signed(regA, W), Signed(regB, W))
      /\ instr = "MulUpperSignedUnsigned" => regD = MulUpper(Signed(regA, W), regB)
  BY DEF ResultInv, WordOps, Word
<1> QED BY <1>1, <1>2, UpperProducts DEF WideProduct

\* A register's low half and the register agree modulo the width of the half.
LEMMA AmountFacts ==
  ASSUME NEW y \in WordRange
  PROVE  /\ (y % 2^H) % H = y % H
         /\ \A i \in Int : (i + (y % 2^H)) % H = (i + y) % H
         /\ y % H \in Nat /\ y % H < H /\ y % W \in Nat /\ y % W < W
<1>1. PICK k \in Nat : 2^H = H * k
  BY Widths
<1>2. H \in Nat \ {0} /\ W \in Nat \ {0} /\ 2^H \in Nat \ {0} /\ y \in Int
  BY Widths, WordFacts
<1>3. k # 0
  BY <1>1, <1>2
<1>4. (y % (H * k)) % H = y % H
  BY <1>2, <1>3, DivTwice, ZenonT(60)
<1>5. y % H \in 0 .. H - 1 /\ y % W \in 0 .. W - 1
  BY <1>2, ModFacts
<1>6. ASSUME NEW i \in Int PROVE (i + (y % 2^H)) % H = (i + y) % H
  <2> DEFINE l == y % 2^H
             q == y \div 2^H
             c == k * q
             a == i + l
  <2>1. q \in Int /\ l \in Int /\ y = 2^H * q + l
    <3> DEFINE M == 2^H
    <3>1. M \in Nat \ {0}
      BY <1>2
    <3> HIDE DEF M
    <3>2. y \div M \in Int /\ y % M \in 0 .. M - 1 /\ y = M * (y \div M) + (y % M)
      BY <1>2, <3>1, ModFacts
    <3> QED BY <3>1, <3>2 DEF M
  <2> HIDE DEF q, l
  <2>2. c \in Int /\ 2^H * q = H * c /\ H * c \in Int
    BY <1>1, <1>2, <2>1
  <2> HIDE DEF c
  <2>3. a \in Int /\ i + y = a + H * c
    BY <1>2, <2>1, <2>2
  <2> HIDE DEF a
  <2>4. (a + H * c) % H = a % H
    BY <1>2, <2>2, <2>3, ModShift
  <2> QED BY <2>3, <2>4 DEF a, l
<1> QED BY <1>1, <1>4, <1>5, <1>6, Widths

\* A half word shifted to the left is the low half of the product.
LEMMA LeftShift32 ==
  ASSUME NEW x \in WordRange, NEW s \in Nat, s < H
  PROVE  sext(Shl(x % 2^H, s, H), H) = sext(x * 2^s, H)
<1> DEFINE M == 2^H
           p == 2^s
           e == x * p
           la == x % M
<1>1. Shl(la, s, H) = (la * p) % M
  BY Widths DEF Shl
<1>2. M \in Nat \ {0} /\ p \in Nat \ {0} /\ x \in Int
  <2>1. s \in 0 .. W
    BY Widths
  <2> QED BY <2>1, Widths, Powers, WordFacts
<1>3. (la * p) % M = e % M
  <2> HIDE DEF M, p
  <2>1. M \in Nat \ {0} /\ p \in Int /\ x \in Int
    BY <1>2
  <2> QED BY <2>1, ModTimes
<1>4. sext(e % M, H) = sext(e, H)
  <2> HIDE DEF p
  <2>1. e \in Int
    BY <1>2
  <2> HIDE DEF e
  <2>2. (e % M) \in 0 .. M - 1
    BY <1>2, <2>1, ModFacts
  <2>3. (e % M) % M = e % M
    <3> DEFINE r == e % M
    <3>1. r \in Int /\ 0 <= r /\ r < M
      BY <1>2, <2>2
    <3> HIDE DEF r
    <3> QED BY <1>2, <3>1, SmallMod DEF r
  <2> QED BY <1>2, <2>1, <2>2, <2>3, SextSame
<1> QED BY <1>1, <1>3, <1>4

\* The amounts of shifts by a register wrap around.
LEMMA WrappedShifts == ResultInv => RegisterShiftsWrap
<1> SUFFICES ASSUME ResultInv PROVE RegisterShiftsWrap
  OBVIOUS
<1> DEFINE la == regA % 2^H
           s == regB % H
<1>1. regA \in WordRange /\ regB \in WordRange
  BY DEF ResultInv
<1>2. /\ (regB % 2^H) % H = s /\ s \in Nat /\ s < H /\ ~(s >= H)
      /\ regB % W \in Nat /\ ~(regB % W >= W)
  BY <1>1, AmountFacts, Widths
<1>3. instr = "ShiftLogicalLeft32" => regD = sext(regA * 2^s, H)
  <2>1. instr = "ShiftLogicalLeft32" => regD = sext(Shl(la, s, H), H)
    BY <1>2 DEF ResultInv, Reg32Ops, Reg32
  <2>2. sext(Shl(la, s, H), H) = sext(regA * 2^s, H)
    <3> HIDE DEF s
    <3> QED BY <1>1, <1>2, LeftShift32
  <2> QED BY <2>1, <2>2
<1>4. instr = "ShiftLogicalRight32" => regD = sext(la \div 2^s, H)
  BY <1>2 DEF ResultInv, Reg32Ops, Reg32, Shr
<1>5. instr = "ShiftArithmeticRight32" => regD = Unsigned(Signed(regA, H) \div 2^s)
  BY <1>2 DEF ResultInv, Reg32Ops, Reg32, Sar
<1>6. instr = "ShiftLogicalLeft64" => regD = (regA * 2^(regB % W)) % 2^W
  BY <1>2 DEF ResultInv, Reg64Ops, Reg64, Shl
<1>7. instr = "ShiftLogicalRight64" => regD = regA \div 2^(regB % W)
  BY <1>2 DEF ResultInv, Reg64Ops, Reg64, Shr
<1>8. instr = "ShiftArithmeticRight64" => regD = Unsigned(Signed(regA, W) \div 2^(regB % W))
  BY <1>2 DEF ResultInv, Reg64Ops, Reg64, Sar
<1> QED BY <1>3, <1>4, <1>5, <1>6, <1>7, <1>8 DEF RegisterShiftsWrap

\* An immediate is the same number as a half word and as a word.
LEMMA ImmediateSigned ==
  ASSUME NEW v \in WordRange, sext(v, H) = v
  PROVE  Signed(v, W) = Signed(v, H) /\ Fits(Signed(v, H), H)
<1>1. Fits(Signed(v, H), H) /\ v = Unsigned(Signed(v, H))
  BY WordFacts, SextFacts
<1>2. Fits(Signed(v, H), W)
  BY <1>1, HalfExtended
<1>3. Signed(Unsigned(Signed(v, H)), W) = Signed(v, H)
  BY <1>2, SignedUnsigned
<1> QED BY <1>1, <1>3

\* From half of the width on, a shift of a half word to the right leaves its sign.
LEMMA SarSign ==
  ASSUME NEW i, Fits(i, H), NEW k \in Nat, H <= k, k < W
  PROVE  i \div 2^k = IF i < 0 THEN -1 ELSE 0
<1> DEFINE h == 2^(H - 1)
           P == 2^k
           m == H - 1
           d == k - m
           D == 2^d
<1>1. m \in Nat /\ d \in Nat /\ m + d = k /\ m + d <= W /\ d \in 0 .. W /\ m \in 0 .. W
  BY Widths
<1>2. 2^(m + d) = 2^m * 2^d
  <2> HIDE DEF m, d
  <2> QED BY <1>1, PowerSum
<1>3. P = h * D
  BY <1>1, <1>2
<1>4. h \in Nat \ {0} /\ D \in Nat \ {0}
  <2> HIDE DEF d
  <2> QED BY <1>1, Powers
<1>5. i \in Int /\ -h <= i /\ i < h
  BY DEF Fits
<1> HIDE DEF h, D, P
<1>6. P \in Nat \ {0} /\ h <= P
  BY <1>3, <1>4
<1>7. CASE i < 0
  <2> DEFINE r == i + P
  <2>1. r \in Int /\ 0 <= r /\ r < P /\ i = P * (-1) + r
    BY <1>4, <1>5, <1>6, <1>7
  <2> HIDE DEF r
  <2>2. i \div P = -1
    BY <1>5, <1>6, <2>1, DivMod
  <2> QED BY <1>7, <2>2 DEF P
<1>8. CASE ~(i < 0)
  <2>1. 0 <= i /\ i < P /\ 0 \in Int /\ i = P * 0 + i
    BY <1>4, <1>5, <1>6, <1>8
  <2>2. i \div P = 0
    BY <1>5, <1>6, <2>1, DivMod, Zenon
  <2> QED BY <1>8, <2>2 DEF P
<1> QED BY <1>7, <1>8

\* The shifts with an immediate do what their mnemonics say, below the width.
LEMMA ShiftsInWidth == ResultInv => ImmediateShiftsInWidth
<1> SUFFICES ASSUME ResultInv, ShiftAmount < ShiftWidth PROVE ImmediateShiftsWrap
  BY DEF ImmediateShiftsInWidth
<1> DEFINE k == ShiftAmount % ShiftWidth
           n == ShiftWidth
<1>1. /\ regA \in WordRange /\ imm \in WordRange /\ regA \in Nat /\ imm \in Nat
      /\ sext(imm, H) = imm /\ H \in Nat \ {0} /\ W \in Nat \ {0} /\ H < W
      /\ H < 2^H /\ 2^H \in Nat \ {0}
  BY WordFacts, Widths DEF ResultInv
<1>2. ShiftAmount \in Nat /\ n \in {H, W} /\ ShiftAmount < n
  BY <1>1 DEF ShiftAmount, ShiftWidth
<1>3. k = ShiftAmount /\ k \in Nat /\ k < n /\ k < W
  <2>1. k = ShiftAmount
    <3> DEFINE a == ShiftAmount
    <3>1. a \in Int /\ 0 <= a /\ a < n /\ n \in Nat \ {0}
      BY <1>1, <1>2
    <3> HIDE DEF a, n
    <3>2. a % n = a
      BY <3>1, SmallMod
    <3> QED BY <3>2 DEF a, n
  <2> QED BY <1>1, <1>2, <2>1
<1>4. /\ instr \in {"ShiftLogicalLeftImm32", "ShiftLogicalRightImm32",
                    "ShiftArithmeticRightImm32"} => k = imm /\ n = H
      /\ instr \in {"ShiftLogicalLeftImm64", "ShiftLogicalRightImm64",
                    "ShiftArithmeticRightImm64"} => k = imm /\ n = W
      /\ instr \in {"ShiftLogicalLeftImmAlt32", "ShiftLogicalRightImmAlt32",
                    "ShiftArithmeticRightImmAlt32"} => k = regA /\ n = H
      /\ instr \in {"ShiftLogicalLeftImmAlt64", "ShiftLogicalRightImmAlt64",
                    "ShiftArithmeticRightImmAlt64"} => k = regA /\ n = W
  BY <1>3 DEF ShiftAmount, ShiftWidth, AltShifts, ImmShifts32
<1> HIDE DEF k, n
<1>5. n = H => ~(k >= H) /\ k % 2^H = k
  BY <1>1, <1>2, <1>3, SmallMod
<1>6. ~(k >= W)
  BY <1>1, <1>3
<1>7. instr = "ShiftLogicalLeftImm32" => regD = sext(regA * 2^k, H)
  <2>1. instr = "ShiftLogicalLeftImm32" => regD = sext(Shl(regA % 2^H, k, H), H) /\ n = H
    BY <1>4 DEF ResultInv, Imm32Ops, Imm32
  <2> QED BY <1>1, <1>3, <2>1, LeftShift32
<1>8. instr = "ShiftLogicalRightImm32" => regD = sext((regA % 2^H) \div 2^k, H)
  BY <1>4, <1>5 DEF ResultInv, Imm32Ops, Imm32, Shr
<1>9. instr = "ShiftArithmeticRightImm32" => regD = Unsigned(Signed(regA, H) \div 2^k)
  BY <1>4, <1>5 DEF ResultInv, Imm32Ops, Imm32, Sar
<1>10. instr = "ShiftLogicalLeftImm64" => regD = (regA * 2^k) % 2^W
  BY <1>4, <1>6 DEF ResultInv, Imm64Ops, Imm64, Shl
<1>11. instr = "ShiftLogicalRightImm64" => regD = regA \div 2^k
  BY <1>4, <1>6 DEF ResultInv, Imm64Ops, Imm64, Shr
<1>12. instr = "ShiftArithmeticRightImm64" => regD = Unsigned(Signed(regA, W) \div 2^k)
  BY <1>4, <1>6 DEF ResultInv, Imm64Ops, Imm64, Sar
<1>13. instr = "ShiftLogicalLeftImmAlt32" => regD = sext(imm * 2^k, H)
  <2>1. instr = "ShiftLogicalLeftImmAlt32" => regD = sext((imm * 2^k) % 2^W, H)
    BY <1>4, <1>6 DEF ResultInv, Imm32Ops, Imm32, Shl
  <2> DEFINE e == imm * 2^k
  <2>2. e \in Int
    <3>1. k \in 0 .. W
      BY <1>3, Widths
    <3>2. 2^k \in Nat
      BY <3>1, Powers
    <3> QED BY <1>1, <3>2
  <2> HIDE DEF e
  <2>3. Unsigned(e) \in Int /\ Unsigned(e) % 2^H = e % 2^H
    <3>1. H \in Nat /\ H <= W /\ 2^W \in Int
      BY Widths
    <3>2. Unsigned(e) \in 0 .. (2^W - 1) /\ Unsigned(e) % 2^H = e % 2^H
      BY <2>2, <3>1, UnsignedFacts
    <3> QED BY <3>1, <3>2
  <2>4. sext(Unsigned(e), H) = sext(e, H)
    BY <2>2, <2>3, SextSame
  <2> QED BY <2>1, <2>4 DEF Unsigned, e
<1>14. instr = "ShiftLogicalRightImmAlt32" => regD = sext((imm % 2^H) \div 2^k, H)
  BY <1>4, <1>5 DEF ResultInv, Imm32Ops, Imm32, Shr
<1>15. instr = "ShiftArithmeticRightImmAlt32" => regD = Unsigned(Signed(imm, H) \div 2^k)
  BY <1>4, <1>5 DEF ResultInv, Imm32Ops, Imm32, Sar
<1>16. instr = "ShiftLogicalLeftImmAlt64" => regD = (imm * 2^k) % 2^W
  BY <1>4, <1>6 DEF ResultInv, Imm64Ops, Imm64, Shl
<1>17. instr = "ShiftLogicalRightImmAlt64" => regD = imm \div 2^k
  BY <1>4, <1>6 DEF ResultInv, Imm64Ops, Imm64, Shr
<1>18. instr = "ShiftArithmeticRightImmAlt64" => regD = Unsigned(Signed(imm, W) \div 2^k)
  <2>1. instr = "ShiftArithmeticRightImmAlt64" => regD = Unsigned(Sar(Signed(imm, H), k, H))
    BY <1>4 DEF ResultInv, Imm64Ops, Imm64
  <2>2. Signed(imm, W) = Signed(imm, H) /\ Fits(Signed(imm, H), H)
    BY <1>1, ImmediateSigned
  <2>3. Sar(Signed(imm, H), k, H) = Signed(imm, H) \div 2^k
    <3>1. CASE k >= H
      BY <1>1, <1>3, <2>2, <3>1, SarSign DEF Sar
    <3>2. CASE ~(k >= H)
      BY <3>2 DEF Sar
    <3> QED BY <3>1, <3>2
  <2> QED BY <2>1, <2>2, <2>3
<1> QED
  BY <1>7, <1>8, <1>9, <1>10, <1>11, <1>12, <1>13, <1>14, <1>15, <1>16, <1>17, <1>18,
     Zenon DEF ImmediateShiftsWrap, k

\* The rotations of a register, of either width, in the form of RotationsPermuteBits.
LEMMA RegisterRotations ==
  ASSUME NEW x \in WordRange, NEW k \in Int
  PROVE  /\ \A i \in 0 .. (W - 1) :
              /\ Bit(RotateLeft(x, k, W), (i + k) % W) = Bit(x, i)
              /\ Bit(RotateLeft(x, -k, W), i) = Bit(x, (i + k) % W)
         /\ \A i \in 0 .. (H - 1) :
              /\ Bit(sext(RotateLeft(x % 2^H, k, H), H), (i + k) % H) = Bit(x, i)
              /\ Bit(sext(RotateLeft(x % 2^H, -k, H), H), i) = Bit(x, (i + k) % H)
<1>1. x \in Nat /\ x < 2^W /\ x % 2^H \in Nat /\ x % 2^H < 2^H
  BY WordFacts
<1>2. H \in Nat /\ 1 <= H /\ H <= W /\ W \in Nat /\ 1 <= W /\ W <= W
  BY Widths
<1>3. ASSUME NEW i \in 0 .. (W - 1)
      PROVE  /\ Bit(RotateLeft(x, k, W), (i + k) % W) = Bit(x, i)
             /\ Bit(RotateLeft(x, -k, W), i) = Bit(x, (i + k) % W)
  BY <1>1, <1>2, RotationsMoveBits
<1>4. ASSUME NEW i \in 0 .. (H - 1)
      PROVE  /\ Bit(sext(RotateLeft(x % 2^H, k, H), H), (i + k) % H) = Bit(x, i)
             /\ Bit(sext(RotateLeft(x % 2^H, -k, H), H), i) = Bit(x, (i + k) % H)
  <2> DEFINE l == x % 2^H
             j == (i + k) % H
             L == RotateLeft(l, k, H)
             R == RotateLeft(l, -k, H)
  <2>1. j \in 0 .. (H - 1) /\ Bit(L, j) = Bit(l, i) /\ Bit(R, i) = Bit(l, j)
    BY <1>1, <1>2, RotationsMoveBits
  <2>2. L \in Int /\ R \in Int
    BY <1>1, <1>2, ShiftTypes
  <2> HIDE DEF L, R, j
  <2>3. i \in Nat /\ i < H /\ j \in Nat /\ j < H
    BY <1>2, <2>1
  <2>4. Bit(l, i) = Bit(x, i) /\ Bit(l, j) = Bit(x, j)
    BY <1>1, <1>2, <2>3, LowBits
  <2>5. \A y \in Int, b \in Nat : b < H => Bit(sext(y, H), b) = Bit(y, b)
    <3> TAKE y \in Int, b \in Nat
    <3> HAVE b < H
    <3>1. sext(y, H) % 2^H = y % 2^H /\ sext(y, H) \in Int
      BY SextFacts, Widths
    <3>2. Bit(y % 2^H, b) = Bit(y, b)
      BY <1>2, LowBits
    <3>3. Bit(sext(y, H) % 2^H, b) = Bit(sext(y, H), b)
      BY <1>2, <3>1, LowBits
    <3> QED BY <3>1, <3>2, <3>3
  <2> QED BY <2>1, <2>2, <2>3, <2>4, <2>5 DEF L, R, j
<1> QED BY <1>3, <1>4

\* The results of rotations are the permuted bits of the operand.
LEMMA PermutedBits == ResultInv => RotationsPermuteBits
<1> SUFFICES ASSUME ResultInv PROVE RotationsPermuteBits
  OBVIOUS
<1>1. regA \in WordRange /\ regB \in WordRange /\ imm \in WordRange
  BY DEF ResultInv
<1>2. regA \in Int /\ regB \in Int /\ imm \in Int /\ regA % 2^H \in Int
  BY <1>1, WordFacts
<1>3. instr = "RotL64" => \A i \in 0 .. (W - 1) : Bit(regD, (i + regB) % W) = Bit(regA, i)
  <2>1. instr = "RotL64" => regD = RotateLeft(regA, regB, W)
    BY DEF ResultInv, WordOps, Word
  <2> QED BY <1>1, <1>2, <2>1, RegisterRotations
<1>4. instr = "RotL32" => \A i \in 0 .. (H - 1) : Bit(regD, (i + regB) % H) = Bit(regA, i)
  <2>1. instr = "RotL32" => regD = sext(RotateLeft(regA % 2^H, regB, H), H)
    BY DEF ResultInv, WordOps, Word
  <2> QED BY <1>1, <1>2, <2>1, RegisterRotations
<1>5. instr = "RotR64" => \A i \in 0 .. (W - 1) : Bit(regD, i) = Bit(regA, (i + regB) % W)
  <2>1. instr = "RotR64" => regD = RotateLeft(regA, -regB, W)
    BY DEF ResultInv, WordOps, Word
  <2> QED BY <1>1, <1>2, <2>1, RegisterRotations
<1>6. instr = "RotR32" => \A i \in 0 .. (H - 1) : Bit(regD, i) = Bit(regA, (i + regB) % H)
  <2>1. instr = "RotR32" => regD = sext(RotateLeft(regA % 2^H, -regB, H), H)
    BY DEF ResultInv, WordOps, Word
  <2> QED BY <1>1, <1>2, <2>1, RegisterRotations
<1>7. instr = "RotR64Imm" => \A i \in 0 .. (W - 1) : Bit(regD, i) = Bit(regA, (i + imm) % W)
  <2>1. instr = "RotR64Imm" => regD = RotateLeft(regA, -imm, W)
    BY DEF ResultInv, Imm64Ops, Imm64
  <2> QED BY <1>1, <1>2, <2>1, RegisterRotations
<1>8. instr = "RotR64ImmAlt" => \A i \in 0 .. (W - 1) : Bit(regD, i) = Bit(imm, (i + regA) % W)
  <2>1. instr = "RotR64ImmAlt" => regD = RotateLeft(imm, -regA, W)
    BY DEF ResultInv, Imm64Ops, Imm64
  <2> QED BY <1>1, <1>2, <2>1, RegisterRotations
<1>9. instr = "RotR32Imm" => \A i \in 0 .. (H - 1) : Bit(regD, i) = Bit(regA, (i + imm) % H)
  <2>1. instr = "RotR32Imm" => regD = sext(RotateLeft(regA % 2^H, -imm, H), H)
    BY DEF ResultInv, Imm64Ops, Imm64
  <2> QED BY <1>1, <1>2, <2>1, RegisterRotations
<1>10. instr = "RotR32ImmAlt" => \A i \in 0 .. (H - 1) : Bit(regD, i) = Bit(imm, (i + regA) % H)
  <2> DEFINE l == regA % 2^H
  <2>1. instr = "RotR32ImmAlt" => regD = sext(RotateLeft(imm % 2^H, -l, H), H)
    BY DEF ResultInv, Imm64Ops, Imm64
  <2>2. \A i \in 0 .. (H - 1) : (i + l) % H = (i + regA) % H
    BY <1>1, AmountFacts, Widths
  <2> HIDE DEF l
  <2>3. l \in Int
    BY <1>2 DEF l
  <2>4. instr = "RotR32ImmAlt" => \A i \in 0 .. (H - 1) : Bit(regD, i) = Bit(imm, (i + l) % H)
    BY <1>1, <2>1, <2>3, RegisterRotations
  <2> QED BY <2>2, <2>4
<1> QED BY <1>3, <1>4, <1>5, <1>6, <1>7, <1>8, <1>9, <1>10, Zenon DEF RotationsPermuteBits

\* D always holds the result that the last instruction computes from the registers and
\* its immediate (mutations.go, as step.go dispatches it).
THEOREM ResultInvariance == AluSpec => []ResultInv
<1>1. AluInit => ResultInv
  BY ResultInit
<1>2. ResultInv /\ [AluNext]_aluVars => ResultInv'
  BY ResultStep
<1> QED BY <1>1, <1>2, PTL DEF AluSpec

\* Every instruction of 32 bits, division, upper product, rotation, shift by a register
\* and shift with swapped operands puts into D what its comment in mutations.go
\* promises, for all register contents of the code's 64 bits and of 8, 16 and 32.
THEOREM ResultsTheorem == AluSpec => []ResultsPromised
<1>1. ResultInv => ResultsPromised
  BY ExtendedResults, PromisedSums, PromisedQuotients, PromisedRemainders, ExactProducts,
     PermutedBits, WrappedShifts, ShiftsInWidth
     DEF ResultsPromised
<1> QED BY <1>1, ResultInvariance, PTL

=============================================================================
