---------------------------- MODULE RefineMachines ----------------------------
(***************************************************************************)
(* Refinement of a work item: Refine.InvokePVM (refine.go), the loop that  *)
(* runs the program and serves its host calls (invocations.go) and the     *)
(* host calls themselves (refine_functions.go): exported segments and the  *)
(* inner machines that a program creates, fills, runs and expunges.        *)
(*                                                                         *)
(* The program is nondeterministic: it makes any host call with any        *)
(* arguments and ends in any way.  Whether a range of its own memory can   *)
(* be accessed is a choice ("ok"); the memory of inner machines is that of *)
(* PvmSegments.  A run of an inner machine has any outcome.  A step of the *)
(* model is one host call, the ecalli instruction that makes it included.  *)
(*                                                                         *)
(* "crash" stands for a run-time panic of the process: an allocation of an *)
(* absurd size, an index out of range, a write to a nil map.               *)
(***************************************************************************)
EXTENDS PvmSegments

CONSTANTS
    GasLimit,            \* the gas limits of work items
    HostCost,            \* the gas that a host call costs; an instruction costs 1
    ExportOffset,        \* segments exported by earlier work items
    MaxNumberOfEntries,  \* the limit of segments in a work package
    MaxPageIndex,        \* the number of pages of the address space
    Key,                 \* the numbers by which programs name machines
    Counter,             \* instruction counters
    Page, PageCount,     \* the arguments of Zero and Void
    InnerAddress, InnerLength  \* ranges of an inner machine's memory

ASSUME RefineAssumption ==
    /\ GasLimit \subseteq Nat /\ HostCost \in Nat \ {0}
    /\ ExportOffset \in Nat /\ MaxNumberOfEntries \in Nat
    /\ ExportOffset <= MaxNumberOfEntries
    /\ Key \subseteq Nat /\ Counter \subseteq Nat
    /\ Page \subseteq Nat /\ PageCount \subseteq Nat
    /\ InnerAddress \subseteq Nat /\ InnerLength \subseteq Nat

VARIABLES
    phase,      \* "start", "run" or "done"
    gas,
    machines,   \* IntegratedPVMMap: key -> [ic, ram]
    map,        \* is the map "made" or "nil"?
    segments,   \* the exported segments, numbered in the order of the exports
    err,        \* the error of the last host call, which InvokePVM drops
    last,       \* the last host call, the machine and pages it named, its answer
    result      \* what InvokePVM returns, and how the program ended

refineVars == <<phase, gas, machines, map, segments, err, last, result>>

NoCall == [call |-> "none", n |-> 0, pages |-> {}, answer |-> "none"]

-----------------------------------------------------------------------------
(* The memory of inner machines, page by page.                             *)

\* Zeros are written to these pages.
Zeroed(ram, pages) ==
    [s \in Segments |-> [ram[s] EXCEPT !.data =
        [i \in DOMAIN @ |->
            IF (ram[s].address + i - 1) \div PageSize \in pages THEN 0 ELSE @[i]]]]

\* SetAccess for these pages: a segment has one access mode for all of its pages.
SetAccess(ram, pages, access) ==
    [s \in Segments |->
        IF \E q \in pages : SegmentAt(ram, q * PageSize) = s
        THEN [ram[s] EXCEPT !.access = access] ELSE ram[s]]

Before(pages, stop) == {q \in pages : q < stop}

\* The bytes are shared with the stored machine, so the pages before the first
\* failure stay zeroed; the access modes are those of a copy.
ZeroPages(ram, pages) ==
    LET bad == {q \in pages : SegmentAt(ram, q * PageSize) = "none"} IN
    IF bad = {}
    THEN [answer |-> "OK", ram |-> SetAccess(Zeroed(ram, pages), pages, "W")]
    ELSE [answer |-> "fault", ram |-> Zeroed(ram, Before(pages, Min(bad)))]

VoidPages(ram, pages) ==
    LET bad == {q \in pages : GetAccess(ram, q) # "W"} IN
    IF bad = {}
    THEN [answer |-> "OK", ram |-> SetAccess(Zeroed(ram, pages), pages, "none")]
    ELSE [answer |-> IF GetAccess(ram, Min(bad)) = "none" THEN "HUH" ELSE "fault",
          ram |-> Zeroed(ram, Before(pages, Min(bad)))]

\* p + c is a uint64 sum.
PagesOf(p, c) == p .. (((p + c) % RegWord) - 1)
BadPages(p, c) == p < MemoryZoneSize \div PageSize \/ (p + c) % RegWord >= MaxPageIndex

\* Mutant: the next key is the number of machines.
findSmallestMissingKey_Count(m) == Cardinality(DOMAIN m)

findSmallestMissingKey(m) ==
    CHOOSE n \in 0 .. Cardinality(DOMAIN m) :
        n \notin DOMAIN m /\ 0 .. (n - 1) \subseteq DOMAIN m

-----------------------------------------------------------------------------
(* Start and end of a refinement.                                          *)

RefineInit ==
    /\ phase = "start"
    /\ gas \in GasLimit
    /\ machines = <<>> /\ map = "made"
    /\ segments = <<>>
    /\ err = "none"
    /\ last = NoCall
    /\ result = [kind |-> "none", why |-> "none", segments |-> <<>>]

Finish(kind, why, segs) ==
    /\ phase' = "done"
    /\ result' = [kind |-> kind, why |-> why, segments |-> segs]

\* The code is missing or too large, the blob is refused, or the program begins.
Start ==
    /\ phase = "start"
    /\ UNCHANGED <<gas, machines, map, segments, err, last>>
    /\ \/ Finish("bad", "none", <<>>)
       \/ Finish("big", "none", <<>>)
       \/ Finish("panic", "none", <<>>)
       \/ phase' = "run" /\ UNCHANGED result

Running == phase = "run" /\ gas >= 1

\* What is returned when the loop has ended, whatever ended it: A0 bytes at A1.
ReadResult(why) ==
    /\ UNCHANGED <<gas, machines, map, segments, err, last>>
    /\ \/ Finish("ok", why, segments)
       \/ Finish("panic", why, <<>>)
       \/ Finish("fault", why, <<>>)
       \/ Finish("crash", why, <<>>)

\* The program halts, traps or touches an inaccessible page.
ProgramEnds == Running /\ \E why \in {"halt", "trap", "fault"} : ReadResult(why)

OutOfGas == phase = "run" /\ gas < 1 /\ ReadResult("gas")

-----------------------------------------------------------------------------
(* Host calls.                                                             *)

Charged == Running /\ gas - 1 >= HostCost

\* The gas after an instruction and a host call.
Charge(g) == g - 1 - HostCost

Errors == {"panic", "gas", "account", "fault"}

\* A host call on machine n: its answer in A0 or its error, which the closure of
\* InvokePVM keeps to itself.
Answer(call, n, pages, answer) ==
    /\ last' = [call |-> call, n |-> n, pages |-> pages, answer |-> answer]
    /\ err' = IF answer \in Errors THEN answer ELSE "none"
    /\ gas' = Charge(gas)
    /\ UNCHANGED <<phase, result>>

\* A host call stops the process.
Crash(call) ==
    /\ Finish("crash", call, <<>>)
    /\ UNCHANGED <<gas, machines, map, segments, err, last>>

\* Every host call of refine_functions.go first compares the gas with its cost.
CallOutOfGas ==
    /\ Running /\ gas - 1 < HostCost
    /\ gas' = gas - 1
    /\ err' = "gas"
    /\ last' = [NoCall EXCEPT !.answer = "gas"]
    /\ UNCHANGED <<phase, machines, map, segments, result>>

\* A number that names no host call is charged for without a comparison.
UnknownCall ==
    /\ Running
    /\ gas' = Charge(gas)
    /\ last' = [NoCall EXCEPT !.call = "unknown", !.answer = "WHAT"]
    /\ UNCHANGED <<phase, machines, map, segments, err, result>>

GasRemaining ==
    /\ Charged
    /\ Answer("GasRemaining", 0, {}, "OK")
    /\ UNCHANGED <<machines, map, segments>>

\* The context that is returned for an unknown account is empty.
HistoricalLookup ==
    /\ Charged
    /\ \/ /\ Answer("HistoricalLookup", 0, {}, "account")
          /\ machines' = <<>> /\ map' = "nil" /\ segments' = <<>>
       \/ /\ \E answer \in {"panic", "NONE", "OK"} :
                Answer("HistoricalLookup", 0, {}, answer)
          /\ UNCHANGED <<machines, map, segments>>

\* An index of 2^63 or more is negative as an int, and passes the comparison.
Fetch ==
    /\ Charged
    /\ \/ /\ \E answer \in {"panic", "NONE", "OK"} : Answer("Fetch", 0, {}, answer)
          /\ UNCHANGED <<machines, map, segments>>
       \/ Crash("Fetch")

Full(s) == ExportOffset + Len(s) >= MaxNumberOfEntries

\* The range is read before the limit is checked.
Export ==
    /\ Charged
    /\ UNCHANGED <<machines, map>>
    /\ \E ok \in BOOLEAN :
        /\ Answer("Export", 0, {},
                  IF ~ok THEN "panic" ELSE IF Full(segments) THEN "FULL" ELSE "OK")
        /\ segments' = IF ok /\ ~Full(segments)
                       THEN Append(segments, Len(segments) + 1) ELSE segments

\* An absurd length, or a machine for the nil map, stops the process.
Machine ==
    /\ Charged
    /\ UNCHANGED segments
    /\ \/ /\ \E answer \in {"panic", "HUH"} : Answer("Machine", 0, {}, answer)
          /\ UNCHANGED <<machines, map>>
       \/ Crash("Machine")
       \/ /\ map = "made" /\ UNCHANGED map
          /\ \E i \in Counter :
                LET n == findSmallestMissingKey(machines) IN
                /\ machines' = [k \in DOMAIN machines \cup {n} |->
                                    IF k = n THEN [ic |-> i, ram |-> NoMemory]
                                    ELSE machines[k]]
                /\ Answer("Machine", n, {}, "OK")

\* A copy out of an inner machine.  An absurd length cannot be allocated.
Peek ==
    /\ Charged
    /\ UNCHANGED <<machines, map, segments>>
    /\ \E n \in Key, x \in InnerAddress, z \in InnerLength, absurd, ok \in BOOLEAN :
        LET r == Read(machines[n].ram, x, z) IN
        IF n \notin DOMAIN machines THEN Answer("Peek", n, {}, "WHO")
        ELSE IF absurd \/ r.res = "crash" THEN Crash("Peek")
        ELSE Answer("Peek", n, {},
                    IF r.res # "ok" THEN "OOB" ELSE IF ok THEN "OK" ELSE "panic")

\* A copy into an inner machine; the program's own memory is read first.
Poke ==
    /\ Charged
    /\ UNCHANGED <<map, segments>>
    /\ \E n \in Key, x \in InnerAddress, z \in InnerLength, absurd, ok \in BOOLEAN :
        LET r == Write(machines[n].ram, x, z) IN
        IF n \notin DOMAIN machines
        THEN Answer("Poke", n, {}, "WHO") /\ UNCHANGED machines
        ELSE IF absurd \/ (ok /\ r.res = "crash") THEN Crash("Poke")
        ELSE /\ Answer("Poke", n, {},
                       IF ~ok THEN "panic" ELSE IF r.res # "ok" THEN "OOB" ELSE "OK")
             /\ machines' = IF ok /\ r.res = "ok"
                            THEN [machines EXCEPT ![n].ram = Written(@, x, z, 1)]
                            ELSE machines

\* The pages are checked before the machine is looked up.
Zero ==
    /\ Charged
    /\ UNCHANGED <<map, segments>>
    /\ \E n \in Key, p \in Page, c \in PageCount :
        LET pages == PagesOf(p, c)
            r == ZeroPages(machines[n].ram, pages)
        IN
        IF BadPages(p, c) THEN Answer("Zero", n, {}, "HUH") /\ UNCHANGED machines
        ELSE IF n \notin DOMAIN machines
        THEN Answer("Zero", n, {}, "WHO") /\ UNCHANGED machines
        ELSE /\ Answer("Zero", n, pages, r.answer)
             /\ machines' = [machines EXCEPT ![n].ram = r.ram]

\* The machine is looked up before the pages are checked.
Void ==
    /\ Charged
    /\ UNCHANGED <<map, segments>>
    /\ \E n \in Key, p \in Page, c \in PageCount :
        LET pages == PagesOf(p, c)
            r == VoidPages(machines[n].ram, pages)
        IN
        IF n \notin DOMAIN machines
        THEN Answer("Void", n, {}, "WHO") /\ UNCHANGED machines
        ELSE IF BadPages(p, c) THEN Answer("Void", n, {}, "HUH") /\ UNCHANGED machines
        ELSE /\ Answer("Void", n, pages, r.answer)
             /\ machines' = [machines EXCEPT ![n].ram = r.ram]

\* The machine after a run that stopped at i: past a host call, and unchanged
\* when the results could not be written or the code was refused.
Resumed(m, n, i, outcome, wrote) ==
    IF ~wrote \/ outcome = "refused" THEN m
    ELSE [m EXCEPT ![n].ic = IF outcome = "HOST" THEN i + 1 ELSE i]

\* Gas and registers are read first, the results written before the machine is
\* updated.  A machine without memory leaves it as it is.  The counter is any number
\* that Machine was given: one past the code stops the process, and so do an
\* instruction cut short and an error that Invoke does not know.
Invoke ==
    /\ Charged
    /\ UNCHANGED <<map, segments>>
    /\ \E n \in Key, i \in Counter, read \in BOOLEAN, wrote \in BOOLEAN :
       \E outcome \in {"refused", "OOG", "HALT", "HOST", "FAULT", "PANIC"} :
        IF ~read THEN Answer("Invoke", n, {}, "panic") /\ UNCHANGED machines
        ELSE IF n \notin DOMAIN machines
        THEN Answer("Invoke", n, {}, "WHO") /\ UNCHANGED machines
        ELSE \/ Crash("Invoke")
             \/ /\ machines' = Resumed(machines, n, i, outcome, wrote)
                /\ Answer("Invoke", n, {},
                          IF outcome = "refused" THEN "PANIC"
                          ELSE IF wrote THEN outcome ELSE "panic")

Expunge ==
    /\ Charged
    /\ UNCHANGED <<map, segments>>
    /\ \E n \in Key :
        IF n \notin DOMAIN machines
        THEN Answer("Expunge", n, {}, "WHO") /\ UNCHANGED machines
        ELSE /\ Answer("Expunge", n, {}, "OK")
             /\ machines' = [k \in DOMAIN machines \ {n} |-> machines[k]]

RefineNext ==
    \/ Start \/ ProgramEnds \/ OutOfGas \/ CallOutOfGas \/ UnknownCall
    \/ GasRemaining \/ HistoricalLookup \/ Fetch \/ Export
    \/ Machine \/ Peek \/ Poke \/ Zero \/ Void \/ Invoke \/ Expunge

RefineSpec == RefineInit /\ [][RefineNext]_refineVars

-----------------------------------------------------------------------------
(* Properties.                                                             *)

\* The state has its types, and a context without a map has no machines: after a
\* failed lookup the context is the zero value (refine_functions.go 46).
RefineTypeOK ==
    /\ phase \in {"start", "run", "done"}
    /\ gas \in Int
    /\ DOMAIN machines \subseteq Nat /\ IsFiniteSet(DOMAIN machines)
    /\ machines \in [DOMAIN machines -> [ic : Nat, ram : Memories]]
    /\ map \in {"made", "nil"} /\ (map = "nil" => machines = <<>>)
    /\ segments \in Seq(Nat)
    /\ err \in Errors \cup {"none"}
    /\ DOMAIN last = DOMAIN NoCall
    /\ result.kind \in {"none", "ok", "bad", "big", "panic", "fault", "crash"}

\* A lookup of an account that is not there drops the whole context, machines and
\* segments (refine_functions.go 46), and its error is dropped in turn (refine.go
\* 106).
ContextLost == last'.call = "HistoricalLookup" /\ last'.answer = "account"

\* But for that lookup, a host call changes no machine except the one that it names,
\* and a new machine replaces none, although keys of expunged machines are used
\* again (findSmallestMissingKey, refine_functions.go 542-548).
OtherMachinesKept ==
    [][\/ ContextLost
       \/ \A n \in DOMAIN machines :
            n # last'.n \/ last'.call = "Machine" =>
                n \in DOMAIN machines' /\ machines'[n] = machines[n]]_refineVars

\* "if error is nil (meaning halt or ∎) should return a result as bytes"
\* (invocations.go 11): only a program that halts has a result.  InvokeHostCall
\* drops the reason for which the loop ended (59).
OkMeansHalt == result.kind = "ok" => result.why = "halt"

\* A host call that ends the program with a panic or out of gas is the last one:
\* "if r ∈ {∞, ☇} then (r, [])" (refine.go 115).  The closure returns no error
\* (106), and the program goes on.
HostErrorsEnd ==
    [][phase = "run" /\ err \in {"panic", "gas"} =>
        Len(result'.segments) = 0 /\ phase' = "done"]_refineVars

\* Exported segments are only added to, "Append x to e" (refine_functions.go 205),
\* until the refinement returns them.  A lookup of an unknown account returns an
\* empty context (46), and the program goes on with it.
ExportsKept ==
    [][Len(segments') >= Len(segments)
        /\ SubSeq(segments', 1, Len(segments)) = segments]_refineVars

\* Zero makes pages of a machine writable, "(u′A)p..+c = [W, W, ...]"
\* (refine_functions.go 358), and answers OK (refine_functions_test.go 632).  The
\* memory of a new machine has no segments, and SetAccess adds none.
ZeroGivesPages ==
    last.call = "Zero" /\ last.pages # {} =>
        /\ last.answer = "OK"
        /\ \A q \in last.pages : GetAccess(machines[last.n].ram, q) = "W"

=============================================================================
