# Verification of strawberry

TLA+ models of strawberry, a JAM node in Go: the part that follows the chain,
the state transition of a block, the virtual machine that services run in, and
the peer-to-peer layer. TLC checks the models on small instances; TLAPS proves
the central properties for every value of the constants. `PROJECT.json` lists
the parts of the system, the runs, the source lines of every definition, the
hazards and the theorems.

## 1. The system

| part | state | operations | module |
|---|---|---|---|
| block service (`internal/chain/service.go`) | header store, known leaves, latest finalized block | `HandleNewHeader` by many goroutines | `BlockService` |
| chain store and block requests (`internal/store`, `pkg/network/handlers`) | stored blocks, one request and its stream | `PutBlock`, `GetBlockSequence`, `HandleStream`, `RequestBlocks` | `ChainStore` |
| codec (`pkg/serialization/codec/jam`) | none | `Marshal`, `Unmarshal` | `Codec` |
| Safrole (`statetransition`, `safrole`) | validator sets, entropy pool, ticket accumulator, sealing keys, markers | `UpdateSafroleState` per block | `Safrole` |
| block seal | the state of Safrole | sealing and verification of a header | `BlockSeal` |
| disputes | good, bad, wonky reports, offenders | `CalculateNewJudgements` per block | `Disputes` |
| cores | one assignment per core, recent blocks | disputes, assurances, timeouts, guarantees of a block | `CoreReports` |
| guarantors and authorizers | entropy, validator sets, authorizer pools | rotation, checks and pools of a block | `Guarantors` |
| recent history | recent blocks, their roots and mountain ranges | `UpdateRecentBlocks`, check of an anchor | `RecentHistory` |
| accumulation queue | ring of waiting reports, ring of accumulated packages | `CalculateWorkReportsAndAccumulate` | `Accumulation` |
| accumulation rounds | services, gas, transfers, hash pairs | `SequentialDelta`, `ParallelDelta` with goroutines | `Accumulator` |
| one accumulate run | context pair, storage | accumulate and general host calls | `AccumulateContext` |
| preimages of a service | requests and their histories, stored preimages | solicit, forget, provide, lookup | `Preimages` |
| refinement | inner machines, exported segments, gas | refine host calls, the host-call loop | `RefineMachines` |
| PVM memory | four segments | read, write, sbrk, layout of a blob | `PvmSegments`, `PvmMemory` |
| PVM control flow | counter, gas, basic blocks | fetch, decoding, branches, jumps, host-call returns | `PvmControl` |
| PVM arithmetic | registers | arithmetic, logic, shifts | `PvmAlu` |
| peers | connections, peer set, locks, loops | `ConnectToPeer`, `OnConnection`, `RequestBlocks`, `Start`, `Stop` | `PeerNetwork` |

How they interact. `UpdateState` runs, for each block: Safrole, disputes (which
clear cores), assurances and guarantees (which clear and fill cores),
accumulation of available reports (queue, then rounds, then one PVM run per
service), history, authorizer pools and statistics. The function for the preimage
extrinsic, `CalculateIntermediateServiceState`, is called by tests only; `Preimages`
models it with the host calls that request what it provides. Refinement runs
outside of blocks, when a report is made. Headers and blocks reach the block
service over the peer network.

What makes it hard: header handlers interleave between every two accesses of the
store; Go maps are shared by structs that were copied, so goroutines and contexts
that look independent are not; slots and balances are unsigned and differences
wrap; epochs and slots may be skipped; errors of inner calls are sometimes
dropped, so a run goes on in a state that its author did not expect; the two ends
of a connection close independently.

## 2. Modules and the code

Each component has a module `X` with its state, actions and properties, an
`MCX` with the instance's constants. Theorems are in modules of their own, which
extend the components they are about and `TLAPS` (section 5). Components that share no state are checked side by side
where they belong to one subsystem: a behaviour belongs to one of them, chosen by
the variable `part`, and the others stand still.

| MC module | parts |
|---|---|
| `MCBlockService` | `BlockService`, `ChainStore`, `Codec` |
| `MCSafrole` | `Safrole`, with `BlockSeal` as operators on its states |
| `MCGuarantors` | `Guarantors` (which extends `CoreReports`), `RecentHistory` |
| `MCAccumulation` | `Accumulation`, `Accumulator` |
| `MCServiceCalls` | `Preimages`, `AccumulateContext` |
| `MCPvm` | `PvmAlu`, `PvmMemory`, `RefineMachines`, `PvmControl` |

The header comment of each module says what its data abstraction is. Common to
all:

- A hash is injective, so things are identified with their hashes. A signature,
  proof or certificate is right or wrong. VRF outputs are fresh values.
- A block, call or extrinsic that the code refuses leaves the state alone, so
  early returns are guards. Where the code has changed something before it
  fails, the model has changed it too (shared maps in `AccumulateContext`,
  `Accumulator` and `Preimages`; zeroed pages in `RefineMachines`).
- Unsigned subtraction is taken modulo `Word` where it can go below zero.
- Variables called history (offences, accepted, offered, accumulated, kept, unspent...)
  only record what happened, for the properties.

**BlockService.** `stored`, `leaves`, `finalized` and, per goroutine, a program
counter with the locals of `HandleNewHeader`. `bs.Mu` is held only in `AddLeaf`,
`RemoveLeaf`, `UpdateLatestFinalized` and at the start of
`isDescendantOfFinalized`, so each of these is a step, and so is each access to
the store, which may fail.

**ChainView** is what that service promises a reader of the chain: a tree that
grows by one header on a parent of the tree, and a finalized block that is buried
whenever it is named. `BlockService` instantiates it with `stored` and
`finalized`; the handlers, their walks and the leaves map to nothing.

**ChainStore.** `blocks`, `closed` and one CE 128 request with both of its ends:
the handler reads the store one operation at a time, blocks are put and the store
is closed in between, a read may fail, the answer goes over the stream as a size
and then block by block, and the stream may break after any of them.

**Codec.** `marshal` and `unmarshal` as recursive operators over types, one
operator per function of the code, on bytes of `ByteBits` bits. A short read fills
with zeros, as `bytes.Buffer.Read` into a fresh slice does.

**Safrole.** One action `ImportBlock` for the whole of `UpdateSafroleState`:
entropy, rotation at an epoch change (also when epochs are skipped), tickets,
accumulator, sealing series and markers.

**BlockSeal.** Operators on the states of `Safrole`: who may seal a slot, the
contexts a seal and a VRF signature are made under, signing and verification, with
tickets and with fallback keys.

**Disputes.** One action `ImportDisputes` per block with its dispute extrinsic,
with the rotation of current and archived validators as it happens around it.

**CoreReports.** One action per block, in the order of `UpdateState`: disputes
clear cores, available reports leave, stale ones are dropped, guarantees enter,
the recent blocks are shifted.

**Guarantors** composes `CoreReports` with what makes a guarantee sound: the
permutation of validators over cores and its rotation, the validator set and the
entropy the code picks for the guarantee's slot, the credentials, and the
authorizer pools with their queues.

**RecentHistory.** One action per block: the state root of the newest recent
block is filled in, the accumulation tree of the block becomes a leaf of the
mountain range, the list is cut to its limit. The check of an anchor is an
operator. Hashes are terms.

**Accumulation.** One action per block: split into immediate and queued reports,
the editing function, the ring positions, the gas that limits how many are
taken, the shift of the history.

**Accumulator.** `StartRound` takes the prefix of reports that fits and starts
the goroutines, one per service and one each for the manager, assign and designate
service. `ReadGas` is Delta1's look into the shared map of privileged gas; `Load`
and `Store` are the accesses of a service's program to its shared storage map, and
`Bless` writes the map of privileged gas. Two goroutines at one map, one of them
writing, may make the Go runtime abort the process (`MapRace`). `MergeService` and
`MergePrivileged` are the critical sections; `EndRound` is `wg.Wait`, the
recombination of the accounts and privileged services, and the recursion.

**AccumulateContext.** One action per host call on the context pair, and one per
way a run ends (halt, trap, out of gas, failure in a host call). What the two
contexts have of their own (accounts, transfers, indices, privileged fields) is in
`x` and `y`; the maps that they, and the state before the block, share are variables
beside them. Solicit and forget, which work on maps of one account, are in
`Preimages`.

**Preimages.** Host calls solicit and forget, the preimage extrinsic and the
passing of slots; `LookupPreimage` is an operator.

**RefineMachines.** One action per refine host call, the ecalli instruction
included, and the ways the program ends. The program itself may do anything. It
uses the memory of `PvmSegments` for inner machines.

**PvmSegments, PvmMemory.** The segments of `polkavm.Memory` with access modes;
the layout and sizes of a blob; loads, stores and sbrk.

**PvmAlu.** Every arithmetic instruction as the Go code computes it, next to the
results the comments promise, written with mathematical integers.

**PvmControl.** Deblob with blobs it refuses and sizes that stop the process, and
the interpreter loop: fetch, gas, lengths of operands and skips from the bitmask,
basic blocks, branches, the jump table, and the resumption after a host call, over
all small bitmasks. The entry point may lie behind the code and the bitmask may be
shorter than the code, which stop the process ("crash"). A host call charges gas, and
transfer with a negative limit gives some; gas is a signed word. What an instruction
does to data is left open.

**PeerNetwork.** Two-ended connections, the accept loop, `OnConnection` under the
peer lock, a stream loop per end, callers that dial and request, lost and
delayed CLOSE frames, idle timeouts, `Stop`. A request is waiting to be taken
("request"), taken by the loop of the other end, which reads its kind without a
context ("taken"), or handled; it ends with the answer, with the connection or with
the caller's context.

## 3. Runs

Runs that pass. Deadlock is not checked where the system really may stop (a bound
on slots, calls or gas is reached, a program ends).

| run | properties | what it shows |
|---|---|---|
| `block_service` | TipsAreLeaves, AnswersAreLines, DecodesWhatWasEncoded, HandlersReturn, ImplementsChainView | Two concurrent HandleNewHeader calls over a forked header tree with a header that claims a slot below its parent's, the store failing at any point: together they implement ChainView, a tree that grows by one attached header at a time and a finalized block that is buried whenever it is named; no tip is forgotten; and under weak fairness of each goroutine every call returns; and a block request served from a store that grows, fails and closes while it is read, over a stream that may break, is answered with a line of the chain or not at all; and every kind of value the codec encodes is decoded to itself, whatever follows it. |
| `safrole` | SealersAreCurrent, SlotsHaveOneAuthor, SealedWasAnnounced, BestTicketsKept | Three epochs of blocks with ticket extrinsics good and bad, gaps that skip slots and a whole epoch, offenders and newly designated validators: who may seal, under which entropy, and which tickets win; and on every state reached, what SealBlock signs and VerifyBlockSeal accepts. |
| `disputes` | JudgedOnce, OffendedOnce, SignedByItsEpoch | Dispute extrinsics of two reports and four keys over four epochs, one of which may be skipped: every report judged once, no key made an offender twice, verdicts signed by the validators of their epoch. |
| `core_reports` | PackagesOnCoresDistinct, DependenciesReported, ReportsLeaveForCause | Blocks with guarantees, assurances and verdicts over two cores and three packages, with timeouts, dropped recent blocks and dependencies: no package is on two cores, what a report depends on was reported, and a report leaves its core only by a verdict, by assurances or by timeout. |
| `guarantors` | AuthorizersSpentOnce, AnchorsCommitToHistory, GuarantorsKeepTheirCores | Reports signed by any two of four validators of three sets, over three epochs of two rotations with skipped slots and pools of two authorizers: from the second rotation on a guarantee is checked with the keys that were assigned when it was made, and an authorizer is used at most as often as it entered a pool; and over seven blocks of which the state keeps three, an anchor is accepted exactly if its roots are those of a recent block and commit to the whole chain below it. |
| `accumulation` | StruckWasAccumulated, WaitsAnEpochAtMost, TransfersIndependentOfSchedule, PairsIndependentOfSchedule, AccumulationReturns | A chain of three dependent reports over two epochs with skipped slots and a gas limit below the demand: dependencies are struck off only by accumulation, nothing waits longer than an epoch. And every schedule of the goroutines of one and of several rounds, a service that is also the manager and blesses others, a report that never fits and an abort over a shared map: transfers and hash pairs do not depend on the schedule, and the accumulation returns unless a program runs for ever. |
| `service_calls` | StoredWasRequested, NewNeverEnriches, RecentLookupsStable, CreatedAccountsKept | Requests, supplies and forgets of two preimages in any order over six slots: what is stored was requested, and what a lookup at a recent slot answers changes only by a forget under a length that is not the preimage's. Every sequence of up to five host calls of an accumulate run and every way it can end: created accounts are never replaced, New never wraps the balance. |
| `peer_network` | OpenIsRegistered, AddressesAreCurrent, RequestsOnCurrentPeer | Two nodes that dial each other, request blocks over streams whose first octet is waited for, cancel requests and lose connections, one of which stops: no open connection is outside the peer set, the address map never leads to a replaced peer, and a request in flight runs on the registered connection. |
| `peer_network_stop` | StopWindsDown | After Stop the node comes to rest, whatever holds or waits for the peer lock and whatever streams wait for their first octet: its connections are handled and closed and its calls under way have returned. |
| `pvm` | StaysOnInstructions, ResultsPromised, FaultsAtFirstBadPage, GrantedIsAccessible, OtherMachinesKept, InvocationEnds | Every arithmetic instruction on all pairs of boundary operands gives the result of its comment, but for the cases that section 4 shows to be refuted. Programs of all small layouts load, store and grow their heap: faults name the first bad page. Every sequence of refine host calls that the gas allows: a call changes only the machine it names, unless it drops the whole context. Every small program, entered inside or past its code, run by the interpreter loop with host calls that cost or give gas: the counter is at an instruction whenever one is executed, and every invocation ends unless host calls go on for ever. |

Runs that TLC must refute: each states what a comment of the repository says of
the code, and the counterexample is a behaviour of the code. The entry under
`findings` quotes the line.

| run | property | what the counterexample shows |
|---|---|---|
| `finality_reverts` | FinalityNeverReverts | With one caller, a reliable store and the code's six generations, LatestFinalized moves back to an ancestor of the block it named. |
| `unavailable_accumulated` | AccumulatedWasAvailable | A report is handed to accumulation in the block that guarantees it, before any validator has assured it. |

### Bounds

- `block_service`: a tree of five headers with a fork and a header whose slot is
  below its parent's; any header may arrive before its parent; two handlers, so
  every pair of critical sections interleaves; two generations to finality, so
  that finality moves more than once. The store holds the same tree, blocks come
  in any order, requests name any start, both directions and up to three blocks.
  The codec has bytes of three bits, so a natural of nine bits passes every
  threshold of the code's 64, all 512 of them are encoded, and lengths reach the
  three-byte form. `finality_reverts` has the code's six generations and
  a chain of ten headers after Genesis with one fork.
- `safrole`: epochs of four slots, eight slots and gaps of up to five: two epoch
  changes, and an epoch without any block. Ticket lists hold good, bad,
  unsorted and duplicate tickets, two attempts per validator.
- `disputes`: six validators (one third is 2, the supermajority 5), two reports,
  four epochs, steps that skip one.
- `core_reports`: two cores, three packages, one depending on another, three
  validators, timeout 3, history 2: a block can leave the history while a report
  it guards is still on its core, which is the case `U <= H + 1` is about.
- `guarantors`: two cores, four validators, epochs of two rotations, ten slots, so
  that guarantees of the rotation before meet both an epoch change and a rotation;
  pools of two. For the history seven blocks, whose range has had one, two and
  three peaks, of which the state keeps three; pairs come in either order.
- `accumulation`: four packages with a chain of dependencies, epochs of five
  slots, gaps of up to six, gas for one report where a block may bring two.
  For the rounds three services and one that is created, of which the first is the
  manager and blesses another as its successor; no, some and other privileged gas;
  reports that fit together, one that never fits.
- `service_calls`: for preimages two hashes, two lengths, `D = 2`, six slots, room
  for one item; for the context up to five calls, a balance that covers two new
  accounts, a next index that wraps around the set of free ones.
- `peer_network`: two nodes, one caller each, two connections, two ports; a node
  that stops. `peer_network_stop` has one port, which matters to addresses only.
- `pvm`: eight-bit registers with boundary operands for the arithmetic; halves
  and bytes scale with the width, so every sign, carry and shift case of 64 bits
  occurs. Pages of two bytes, zones of four, an address space of 32 in registers
  of six bits for the memory; one store per program, since a byte that was
  written is told apart from one that was not; requests to sbrk that grow the
  heap, that meet the stack, and one so large that the sum with the heap pointer
  wraps, which the code answers without growing anything. For the control flow bytes of 32
  values, one per group of opcodes: all programs of two bytes, those of three over
  half of the groups and those of four over the jumps, with every bitmask that
  starts with an instruction, entries inside and behind the code, three units of gas
  in words of 16, host calls that take two units or give five, and a jump table that
  leads to the last byte and behind it; and blobs with short bitmasks and with sizes
  that Deblob refuses or stops at. Gas for four host calls for
  refinement, which is what create, create, expunge, create needs; room for two
  segments.

### Fairness

- `block_service`: weak fairness of each goroutine. The Go scheduler runs every
  runnable goroutine and no step waits for another handler; a mutex is held for
  one step only.
- `accumulation`: weak fairness of the start and the end of a round and of its
  goroutines once their programs have ended. That a program ends is not assumed, as
  host calls can give gas: `AccumulationReturns` allows for a program that runs for
  ever, and for the abort of the process over a shared map.
- `peer_network_stop`: weak fairness of loops, of lock acquisition (Go's mutexes
  do not starve), of failing calls, of the first octet of a stream while both ends
  are open (the requester has written it), and of an end learning, by frame or by
  idle timeout, that the other end is gone. Strong fairness of the check for the end
  of the loop: AcceptStream takes a stream that is there before it looks at the
  context, and new requests are not so dense that it always finds one. No fairness of
  answers, of cancelled requests, of new calls, or of `Start` and `Stop`.
- `pvm`: weak fairness of the interpreter's loop, which is one goroutine that
  never blocks. The gas ends it, unless host calls raise the gas for ever, which
  `InvocationEnds` names as the only other outcome.

Every other run checks safety only and needs no fairness.

## 4. Where the comments and the code part

Modelling the code met the following disagreements between the code and its own
comments. The comment's statement is kept as a property of the module, and TLC
refutes it. Two have a run, which is named; for the others, name the property as the
only INVARIANT or PROPERTY in the configuration of the component's passing run. Some
need other constants or another specification:

- `BuriedIsFinalized`: the configuration of `finality_reverts`, with the code's
  six generations.
- `GasWithinLimit`: `GasMaps <- MCNoGas`.
- `NoneWaitsInVain`: `GasLimit = 8`, gas for every report, so that none waits for
  want of gas.
- `FullWriteUndone`: `Balance0 = 8`, so that a write is refused.
- `PeersHaveTheirAddress`: three nodes, `Node = {a, b, d}`,
  `Caller = {ta, tb, td}`, `Home <- MCThreeHomes`, `Conn = {1, 2, 3}`.
- `ClosureIsHandled`, `StopCompletes`: `SPECIFICATION FairSpec`, as in
  `peer_network_stop`.

**BlockService.**

- `BuriedIsFinalized`. HandleNewHeader calls checkFinalization with the parent of the new header, and checkFinalization collects six headers from there, so a block is finalized only by its sixth descendant. internal/chain/service.go:32 says "A block is considered finalized when it has a chain of 5 descendant blocks".
- `LeavesAreTips`. AddLeaf is called without looking for stored children: a header announced again, or one whose child is handled by another goroutine between its PutHeader and its AddLeaf, ends up a leaf although its child is stored. internal/chain/service.go:39 says "Leaf represents a block with no known children (a tip of the chain)".
- `NewLeavesDescend`. The descendant check uses a copy of LatestFinalized read before PutHeader and AddLeaf; another goroutine can finalize a block of a different fork in between. internal/chain/service.go:174 says "Only update leaves if this is a descendant of finalized block".
- `FinalityNeverReverts` (run `finality_reverts`). UpdateLatestFinalized takes whatever block lies six headers below the parent of the new header, also one below the block already finalized; internal/chain/service.go:27 says it "Tracks the most recently finalized block".

**Safrole.**

- `SealingTicketsAnnounced`. The sealing tickets are Z of newValidatorState's accumulator, into which the tickets of the epoch-change block have just been merged (line 593), so a block that changes the epoch and carries a better ticket replaces a winner that WinningTicketMark already published; the comment says "γ′s ≡ Z(γa) if e′ = e + 1 ∧ m ≥ Y ∧ |γa| = E" (internal/statetransition/state_transition.go:515), γa being the accumulator before the block, as in "Hw ≡ Z(γa)" (internal/statetransition/state_transition.go:524).
- `SubmittedTicketsKept`. The accumulator is reset to the empty list after the block's own tickets were merged into it, so tickets accepted in the first block of an epoch are lost; comments say "Equation 6.35: n ⊆ γ′a" (internal/statetransition/state_transition.go:583) and "γ′a ≡ [xy^^ x ∈ n ∪ {∅ if e′ > e, γa otherwise}]E" (internal/statetransition/state_transition.go:448).

**Disputes.**

- `AlwaysSignedByItsEpoch`. UpdateState passes the validators of before the block with the slot of the block, so in the first block of an epoch a verdict of the epoch that just ended is checked against ArchivedValidators, the set of the epoch before it; the comment says "where k = κ if a = ⌊τ/E⌋, λ otherwise" (internal/statetransition/state_transition.go:1060), τ being the slot before the block.
- `OffendersAreValidators`. verifyCulprits and verifyFaults check a signature under whatever key the extrinsic carries and never look the key up among the validators; the comment says "k ∈ k,    (Key must be valid validator)" (internal/statetransition/state_transition.go:948).
- `BadReportsHaveCulprits`. processNegativeVerdict counts all culprits of the extrinsic, not those of the verdict's report, so a report is found bad without a culprit of its own; the comment says "∀(r, 0) ∈ V : |{(r, ...) ∈ c}| ≥ 2  (For negative verdicts, must have at least 2 culprits)" (internal/statetransition/state_transition.go:869).

**CoreReports.**

- `AccumulatedWasAvailable` (run `unavailable_accumulated`). GetAvailableWorkReports returns every report on a core after the block, those the block guarantees included; internal/statetransition/state_transition.go:2175 says "W ≡ [ ρ†[c]w | c <− N_C, ∑ [a∈E_A] a_f [c] > 2/3 V ]".
- `FreedCoresReportable`. The guarantees of a block are validated on the core assignments of before the block, so a core that the block's verdicts or assurances free is still busy and a guarantee for it refuses the block; internal/statetransition/state_transition.go:1623 says "ρ‡[wc] = ∅ ∨ Ht ≥ ρ‡[wc]t + U", ρ‡ being the assignments after disputes and assurances.
- `AvailableBySupermajority`. slices.IsSortedFunc accepts equal neighbours, so a validator's second assurance is counted again; the comment at internal/statetransition/state_transition.go:2122 says "(126) ∀i ∈ {1 ... |E_A|} ∶ EA[i − 1]v < EA[i]v".
- `AnchorsRecent`. The code refuses a lookup anchor at or after H_t - L and accepts older ones; the comment at internal/statetransition/state_transition.go:1432 says "∀x ∈ x ∶ xt ≥ Ht − L (eq. 11.33 0.5.0)".
- `FreshGuaranteeInRange`. (newTimeslot/R - 1)*R is computed in uint32 and wraps to 2^32 - R while newTimeslot < R, so every guarantee is ErrTimeslotOutOfRange; the comment at internal/statetransition/state_transition.go:1186 says "R(⌊τ′/R⌋ - 1) ≤ t ≤ τ′", which holds for t = τ′.

**Accumulation.**

- `WaitingReportsKept`. (timeslotPerEpoch - Timeslot(i)) % TimeslotsPerEpoch is computed in uint32; for i greater than the slot of the epoch it wraps to 2^32 + m - i, and 2^32 is not a multiple of the epoch length, so the loop reads and writes other entries and leaves some unwritten; the comment at internal/statetransition/state_transition.go:1864 says "ϑ′↺m−i ≡ E(ϑ↺m−i, ξ′E−1)".
- `NoneWaitsInVain`. accumulationPriority takes no report of a round, drops them all for the next and returns the empty list of the last round; its comment at internal/statetransition/state_transition.go:1878 says "Q(r ⟦(W, {H})⟧) → ⟦W⟧ (eq. 12.8)", the reports whose dependencies are accumulated.

**Accumulator.**

- `PrivilegedFieldsFromTheirService`. ParallelDelta takes ValidatorKeys from the run of AssignServiceId and PendingAuthorizersQueues (line 2566) from the run of DesignateServiceId; internal/service/service.go:149 says "Assign service ID (a) - the service able to effect an alteration of the PendingAuthorizersQueues." and :150 says "Designate service ID (v) - the service able to effect an alteration of the NextValidators in ValidatorState."
- `ServicesSurvive`. newCtx puts only the accumulated service into the context, so K(d) without the keys of the result is every other service, and ParallelDelta deletes them; the comment at internal/statetransition/state_transition.go:2477 says "m = ⋃[s∈s](K(d) ∖ K((∆1(o, w, f , s)o)d))", the services that a run removed.
- `StorageShowsAccumulations`. The context copies the account but not its storage map, so the runs for the manager, assign and designate service, of which ParallelDelta keeps one field each, write the same map as the run of the service itself, unsynchronised; the comment at internal/statetransition/state_transition.go:2474 says "n = ⋃[s∈s]({(∆1(o, w, f , s)o)d ∖ K(d ∖ {s})})", and :2581 asks for "deterministic output".
- `GasWithinLimit`. InvokePVM returns uint64(remainingGas), the gas left, and ParallelDelta sums it up as the gas used, so a round that used everything leaves the next one the whole limit; internal/statetransition/state_transition.go:2443 says of the result "uint64, // total gas used".

**Preimages.**

- `EarlyAvailabilityStable`. timeslot-jamtime.PreimageExpulsionPeriod is unsigned and wraps in the first 28,800 slots, so every Y is below it and a preimage that was just forgotten is expunged; the comment at internal/polkavm/host_call/accumulate_functions.go:439 says "if (xs)l[h, z] ∈ {[], [X, Y]}, Y < t − D".
- `AvailableIsStored`. len of a missing PreimageMeta entry is 0, so Forget of a hash with a length nobody requested takes the case for an empty request and deletes PreimageLookup[h]; the request under the real length still says what internal/service/service.go:128 states: "h ∈ [h0]: The preimage is available and has been from time h0."
- `ProvidedWasSolicited`. preimageHasBeenSolicited tests len(existingMeta) == 0, which a missing key satisfies; its comment at internal/statetransition/state_transition.go:133 says "R(d, s, h, l) ≡ h ∉ d[s]p ∧ d[s]l[(h, l)] = []", and :166 skips what "has not been solicited".

**AccumulateContext.**

- `TransfersCovered`. Balance-newBalance is unsigned and wraps around when the amount exceeds the balance, so the comparison with the threshold passes; the comments at internal/polkavm/host_call/accumulate_functions.go:242 say "let b = (xs)b − a" and "if b < (xs)t".
- `FullWriteUndone`. a := s copies the struct and shares the storage map, so a.Storage[k] = valueData has changed s too when FULL is answered; internal/polkavm/host_call/general_functions.go:189 says "return service account 'a' as opposed to 's' for not successful paths".
- `UpgradeKept`. Lookup, Read, Write and Info store currentService, read from the state before the block, back into the context, which undoes Upgrade and the balance New has paid; internal/polkavm/host_call/accumulate_functions.go:192 says "(ω′7, (X′s)c, (X′s)g , (X′s)m) = (OK, c, g, m) if c ≠ ∇".
- `GivenIndexExists`. The account is stored under newId, the bumped index, and register A0 holds the index before; internal/polkavm/host_call/accumulate_functions.go:155 says "ω′7 = x_i" and :166 "(x'u)d = (xu)d ∪ {xi ↦ a, xs ↦ s}".
- `CreatedIndexUnique`. CheckIndex is given the accounts of the context, which newCtx fills with the service alone, so it does not see the other services; internal/service/util.go:18 says it "checks if the identifier is unique across all services".
- `TrapReturnsCheckpoint`. InvokeHostCall returns a nil error for every exit that is not a host call, and InvokePVM takes the regular context; internal/polkavm/interpreter/invocations.go:11 says "if error is nil (meaning halt or ∎) should return a result as bytes otherwise error as one of: - ErrOutOfGas (∞) - ErrPanic (☇) - ErrPageFault (F)".
- `FailureKeepsCheckpoint`. Both contexts hold the same maps, and these are the ones of the state before the block, so the returned exceptional context shows every write; internal/statetransition/accumulate.go:56 says "I(u, s), I(u, s)", two contexts.

**PeerNetwork.**

- `NoDuplicateConnections`. ConnectToPeer looks the address up, releases the lock and then dials; and a peer that connected to this node is registered under its ephemeral port, not under the listen address that is looked up. The run reaches a dial of a peer with an open registered connection, which OnConnection then closes. The comment says "It prevents duplicate connections to the same peer." (pkg/network/peer/node.go:210)
- `PeersHaveTheirAddress`. AddPeer overwrites the address entry of a peer with another key, and RemovePeer deletes the entry whoever it belongs to; a peer that is still registered under its key is then not found under its address. The comment says the set "maintains mappings between peer identifiers (Ed25519 keys, network addresses, validator indices) and Peer objects" (pkg/network/peer/node.go:46-47)
- `ReplacementConnects`. When two nodes dial each other and each registers its own connection first, each closes it in favour of the connection that the other one closes: none is left, and both keep a dead peer. The comment says "close existing connection and replace with new one" (pkg/network/peer/node.go:186)
- `ClosureIsHandled`. The error of a connection closed by the peer is neither the context's nor the idle timeout, so the loop logs it and calls AcceptStream again, which fails at once, forever. The comment says the loop "handles connection closure and timeouts" (pkg/network/protocol/manager.go:56)
- `StopCompletes`. Stop receives from t.done, which only Start creates; before Start the channel is nil and the receive blocks forever. The comment says "Stop gracefully shuts down the transport and all active connections" (pkg/network/transport/transport.go:170)

**PvmAlu.**

- `ImmediateShiftsWrap`. ShiftLogicalLeftImm32 shifts uint32(ωB) by the whole immediate, so an immediate of 32 or more (or a negative one) gives 0; mutations.go:422 says "shlo_l_imm_32 ω′A = X4((ωB ⋅ 2^νX mod 32) mod 2^32)". The same holds of the five other shifts by an immediate.
- `SignedLessThan`. SetLessThanSigned compares int32(ωA) with int32(ωB), so a large positive register can be less than a small one; mutations.go:809 says "set_lt_s ω′D = Z8(ωA) < Z8(ωB)".
- `RemainderSign`. smod64 negates abs64(a) % abs64(b), but abs64 of the least integer is negative and Go's % keeps its sign, so rem_s of -2^63 by 3 is +2; mutations.go:892 says "smod (a Z, b Z) → Z a if b = 0 otherwise sgn(a)(|a| mod |b|) (eq. A.32)".
- `QuotientFloor`. DivSigned64 uses Go's division, which rounds towards zero; mutations.go:705 says "⎩ Z−1_8(⌊ Z8(ωA) ÷ Z8(ωB) ⌋) 	otherwise", which rounds down.

**PvmMemory.**

- `WellFormedParsed`. ParseBlob compares len(program.RWData) with the declared size before RWData is decoded (line 41), and the declared code size with the length of data[|w|+4:], which still holds the header and the read-only data; so every blob of the form program.go:26 gives, "ParseBlob let E3(|o|) ⌢ E3(|w|) ⌢ E2(z) ⌢ E3(s) ⌢ o ⌢ w ⌢ E4(|c|) ⌢ c = p (eq. A.32)", is refused.
- `LayoutFits`. InitializeMemory adds 5Z_Z, the heap, the stack and the input, but not the read-only data, so a layout whose heap reaches over its stack is accepted; initialisation.go:36 says "5Z_Z + Z(|o|) + Z(|w| + zZ_P) + Z(s) + Z_I ≤ 2^32 (eq. A.35)".
- `SbrkAnswersStart`. Memory.Sbrk returns rw.address + len(rw.data) after the heap has grown; mutations.go:232-235 says "ω′D ≡ min(x ∈ NR) ∶ x ≥ h, Nx⋅⋅⋅+ωA ~⊆ Vμ, Nx⋅⋅⋅+ωA ⊆ V∗μ′", the start of the new bytes.
- `HeapBelowStack`. Memory.Sbrk compares the new heap pointer with the stack's address and then allocates alignToPage(newHeapPointer) bytes, without subtracting rw.address, so the heap reaches over the stack (and its old contents are gone); common.go:117 says of the stack "where the next memory segment begins".
- `AddressesWrap`. Read and Write take the whole 64-bit address; common.go:37 says "☇ if min(x) mod 2^32 < 2^16". An address just below 2^64 passes the segment check because address+len wraps, and slicing the segment there stops the process.

**RefineMachines.**

- `OkMeansHalt`. The loop of InvokeHostCall breaks on every error that is not a host call and returns a nil error, so InvokeWholeProgram returns bytes and segments for a program that trapped, faulted or ran out of gas. Its comment says "if error is nil (meaning halt or ∎) should return a result as bytes otherwise error as one of: ErrOutOfGas (∞), ErrPanic (☇), ErrPageFault (F)" (internal/polkavm/interpreter/invocations.go:11-15).
- `HostErrorsEnd`. The host-call closure assigns the error of a host call to a captured variable and returns nil, so a refinement goes on after a host call that panicked or had too little gas, and returns its segments. The comment says "if r ∈ {∞, ☇} then (r, [])" (internal/refine/refine.go:115).
- `ExportsKept`. A lookup of an unknown account returns an empty RefineContextPair, which the refinement goes on with: segments exported before are lost, and the next Machine call writes to a nil map. Export says "Append x to e" (internal/polkavm/host_call/refine_functions.go:205), and refinement returns that e, "(g, r, (m, e)) = ΨM(...)" (internal/refine/refine.go:109).
- `ZeroGivesPages`. A machine is created with the zero value of Memory, which has no segments, and SetAccess only changes the mode of a segment that exists, so Zero fails for every page of a machine that Machine has made. The comments say "(u′A)p..+c = [W, W, ...]" (internal/polkavm/host_call/refine_functions.go:358) and "u = {V▸[0,0,...], A▸[∅, ∅, ...]}" (248).

**Met while modelling, without a property.** What the models do here follows the
code:

- `FindChildren` skips a block it cannot read, and `GetBlockSequence` takes an
  error of it for the end of the chain (internal/store/chain.go:226): an
  ascending answer may be cut short without the requester learning of it.
- `Unmarshal` accepts a message that ends inside a number, an array of bytes or a
  length: `Read` returns what is left and the rest is zero
  (decode.go:402, 449, 522). The codec run decodes whole messages only.
- Signed integers decode, but `marshal` of an int8, int16, int32 or int64 calls
  `encodeCustomPrimitive`, which converts to the same type and calls `marshal`
  again, without end (encode.go:96). `encodeBits` tests `length%8` where it means
  the number of bits (encode.go:301). The repository encodes neither.
- Guarantees are checked against the recent blocks of before the block, in which
  the newest has the zero hash for a state root; "β†[SβS − 1]s = Hr"
  (state_transition.go:319) is applied later, so an anchor at the parent block
  with its real root is "bad state root". `AnchorsCommitToHistory` says so.
- `PriorStateRoot` of a header is stored and compared with nothing.
- `CalculateNewCoreAssignments` is given the validator sets of before the block
  with the entropy of after it, while the comment on
  `determineValidatorsAndDataForPermutation` says "G ≡ (P(η₂', τ'), Φ(κ'))": the block that opens
  an epoch checks guarantees with the sets of the epoch before.
- `PendingAuthorizersQueues` that an accumulation assigns are used for the pools
  of that block and not stored by `UpdateState`.
- The comment on the offenders (state_transition.go:788) makes the key of every
  fault an offender, "ψ'o ≡ ψo ∪ {k | (r, k, s) ∈ c} ∪ {k | (r, v, k, s) ∈ f}"; the
  code (processPositiveVerdict) records those of faults that vote against a report
  which a verdict of the same extrinsic finds good, and no others.
- `Yield` stores its hash in the context, and nothing reads it from there.
- `transfer` costs its base plus a limit that the program chooses, read as a signed
  number (accumulate_functions.go:206-211): a negative one adds to the gas, so gas
  alone bounds no program that makes such calls. `InvocationEnds` and
  `AccumulationReturns` say so.
- A lookup of an unknown account in a refinement drops all inner machines with the
  context (refine_functions.go:45); `OtherMachinesKept` excepts it (`ContextLost`).
- Deblob cuts the bitmask to the length of the code (program.go:95), which stops the
  process if it is shorter; and Skip slices it behind the counter (program.go:102),
  which does for an entry point behind the code.
- The validator statistics never rotate: `UpdateState` passes the block's own slot
  as the slot before it (state_transition.go:67), and 2306 compares the two epochs.
- A taken branch outside of the code is meant to end in ☇, but the message of the
  error evaluates `i.code[target]` first (instance.go:97), which
  stops the process: status "crash" in `PvmControl`.

## 5. Proofs

Eight modules hold theorems. All are of the form `Spec => []P` or, for the action
properties `JudgementsStand`, `BestTicketsKept`, `ReportsLeaveForCause`,
`GuarantorsKeepTheirCores`, `RecentAvailabilityStable`, `RecentLookupsStable`,
`CreatedAccountsKept` and `OtherMachinesKept` and for the refinement `ImplementsChainView`, `Spec => P`. Each
follows the same layout: lemmas about the operators, `Init => IInv`,
`IInv /\ [Next]_vars => IInv'` with a step per action, and the theorems from `IInv`.
A module that holds proofs of several components names the assumptions on each
with `HIDE` and cites them where they are used. The inductive invariants, the
assumptions on the constants, and why the properties need them:

### BlockServiceProofs

**BlockService.** Assumes a tree in which Genesis has no parent among the headers and natural slots (`HeadersAssumption`), and `Generations > 0`. That the ancestry is stored needs what each handler knows at each point: the walk of `isDescendantOfFinalized` leaves the header only through a stored parent (`DescendInv`), so the header is put only after its parent (`PutInv`). That a finalized block is buried needs the chain that `checkFinalization` has walked, as a witness function, at every depth (`WalkInv`, `BuriedInv`); other handlers only add to the store, so such chains persist (`AboveMonotone`). For `ViewTheorem` every step maps to an import of a header whose parent is stored (`PutInv`), to a finalization of a buried block (`WalkInv`) or to a stutter.

- `TipsTheorem` (`TipsAreLeaves`): For every header tree and any number of concurrent handlers, no tip of the chain is ever missing from KnownLeaves.
- `AncestryTheorem` (`AncestryStored`): The store never has a header whose parent is missing.
- `BuriedTheorem` (`FinalizedIsBuried`): For every Generations, only a block with that many stored descendants in a chain is finalized.
- `ViewTheorem` (`ImplementsChainView`): Every behaviour of the service with any number of concurrent calls is one of the atomic chain view: headers are stored on stored parents, and only a stored header buried under enough stored generations is made final.
- `LeavesTheorem` (`LeavesAreStored`): Every leaf is a stored header at or above the slot of Genesis.
- `TypeTheorem` (`TypeOK`): Type correctness of BlockService.

**ChainStore.** Assumes that parents have no cycles, which hashes give, and that keys of the database are ordered (`StoreAssumption`). `StoreIInv` says of each point of the handler what it has: the blocks collected are a line (`IsLine`), the block it is about to take continues it (`Continues`), and when it replies with fewer than it was asked for, no block that was stored at the time of the request continues the line (`LineEnds`); the stream carries a prefix of that line with its size in front, so the requester has all of it or nothing.

- `AnswersTheorem` (`AnswersAreLines`): For every tree of blocks and every request, an answer that arrives is a line of the chain from where the request starts, cut short only where what was stored ends.

### ValidatorsProofs

**BlockSeal.** Assumes that every validator set leaves someone who is no offender (`SomeoneLeft`), without which nobody could have made a ticket. A signature determines key, context and message (`SignatureUnique`), so a header that verifies was signed by the owner of its slot (`OwnerInRing`, `OwnTicket`, `VerifiedHeader`); that tickets and entropies moved in step comes from `SealersTheorem`.

- `OneAuthorTheorem` (`SlotsHaveOneAuthor`): Every entry of the sealing series but an offender's zeroed key has exactly one author among the current validators, whose seal VerifyBlockSeal accepts and nobody else's.

**Disputes.** Assumes at least three validators and well-formed extrinsics. `JudgementsInv` adds which validator set was current in which epoch (`ActiveInv`), that what was proved is on the lists (`OffenceInv`) and that verdicts are of the past (`PastInv`); uniqueness rests on the sortedness checks of the extrinsic (`SortedKeysUnique`, `SortedReportsUnique`) and on three vote counts being different numbers.

- `JudgementsTypeTheorem` (`DisputesTypeOK`): The judgements stay well formed for any number of validators and any extrinsics.
- `JudgedOnceTheorem` (`JudgedOnce`): No report is ever in two of the good, bad and wonky lists.
- `ProvedTheorem` (`OffendersAreProved`): Every offender guaranteed a report found bad or voted against one found good.
- `OffendedOnceTheorem` (`OffendedOnce`): A key is made an offender at most once, whatever sequence of extrinsics names it.
- `GoodTheorem` (`GoodReportsHaveFaults`): Every report found good has an offender that voted against it.
- `StandTheorem` (`JudgementsStand`): No judgement or offence is ever taken back.
- `SignersTheorem` (`SignedByItsEpoch`): Outside epoch-change blocks a verdict counts only with the signatures of the validators of its epoch.

**Safrole.** Assumes `E > 0`, `Y <= E` and well-formed ticket lists. `IInv` adds `MarkInv`: once the submission period is over, a full accumulator is the one the winning-tickets marker published; this is what the first block of the next epoch turns into sealing tickets (`SealedByTickets`, `SealedByKeys`). The contest needs a second invariant, `RankedInv`: the accumulator is a finite set without two tickets of one identifier. In such a set the identifiers below a ticket's number it (`RankOrder`), so the cut at `E` keeps the lowest `E` and whatever it drops has `E` below it (`LowestFacts`); an extrinsic joins such a set because its identifiers rise and are new (`RisingOrder`, `JoinedDistinct`).

- `TypeTheorem` (`TypeOK`): The Safrole state stays well formed, for any epoch length and any validator vectors.
- `SealersTheorem` (`SealersAreCurrent`): Every key or ticket that may seal a block belongs to the current validators and to the entropy a seal is checked with, across any sequence of epoch changes and skipped epochs.
- `ContestTheorem` (`ContestIsAnnounced`): The accumulator only ever holds answers to the contest the last epoch marker announced.
- `AnnouncedTheorem` (`SealedWasAnnounced`): Tickets seal an epoch only after its winners were announced; only the epoch-change block can alter them.
- `RankedTheorem` (`AccumulatorRanked`): The accumulator never holds two tickets with one identifier nor more than an epoch of them.
- `BestTicketsTheorem` (`BestTicketsKept`): Within an epoch a ticket is displaced only by E tickets with lower identifiers, and not at all once the submission period is over, for every epoch length and every extrinsic.

### CoreReportsProofs

**CoreReports.** Assumes `U <= H + 1`: the timeout is at most one slot longer than the history. A package is not on two cores because the recent blocks still know every report that can stay on its core (`HeldInv`), and they do because blocks are at least a slot apart (`SlotsInv`), so that a block is dropped only when its reports are stale.

- `TypeTheorem` (`TypeOK`): The shape of the core assignments and of the recent blocks, at most H of them.
- `StaleTheorem` (`NoStaleReports`): No report outlives its timeout, for every timeout U and every gap between blocks.
- `DistinctTheorem` (`PackagesOnCoresDistinct`): A package is never on two cores, for every U <= H + 1: a recent block is dropped only when its reports are stale.
- `DependenciesTheorem` (`DependenciesReported`): What a report on a core depends on was reported before it or with it.
- `LeaveTheorem` (`ReportsLeaveForCause`): A report leaves its core only after a verdict on it, after enough assurances of it or after its timeout.

**Guarantors.** Assumes a rotation period that divides the epoch, and pools and queues of at least one. For the pools the argument counts occurrences (`OneFewer`): removing the used authorizer takes one away, the cut to the newest takes away more, the queue adds one (`PoolsInv`). For the guarantors `InForceInv` says that every remembered slot of this rotation or the one before has the guarantors of the sets and entropies that the state holds for its epoch; an epoch change moves those sets and entropies one place on, and the rotations of two slots are at most one apart only if their epochs are (`RotationFacts`).

- `AuthorizersTheorem` (`AuthorizersSpentOnce`): An authorizer is used at most as often as it entered a pool, for every pool size, queue and extrinsic.
- `GuarantorsTheorem` (`GuarantorsKeepTheirCores`): For every rotation period that divides the epoch: from the second rotation on and outside blocks that open an epoch, a guarantee of this or the previous rotation is checked with the keys that were assigned when it was made.

### AccumulationProofs

**Accumulation.** Assumes `E > 0`, slots below the word size and an epoch no longer than it. `IInv` adds that the history names only accumulated packages, and `RingInv`: a waiting report is in the place of its slot, with the places that the wrapped index never reaches, and the slots in which it no longer reaches the others, told apart (`InPlace`). The lemma `PriorityEmpty` shows that `AccumulationPriority` is always empty, the fact behind `NoneWaitsInVain` (section 4).

- `TypeTheorem` (`TypeOK`): The shape of the accumulation queue and history, for every epoch length.
- `EditedTheorem` (`QueueEdited`): Nothing in the queue is, or waits for, a package of the accumulation history.
- `StruckTheorem` (`StruckWasAccumulated`): A dependency is struck off only by the accumulation of the package it names, also when gas ran out.
- `WaitsTheorem` (`WaitsAnEpochAtMost`): For every epoch length and every word size at least as large, no report waits in the ready queue for an epoch or longer, although the index of the loop wraps.

### PreimagesProofs

**Preimages.** Assumes `D` and the slots below the word size. `IInv` adds that a history is ordered and ends in the past, and is empty for a missing key. `RecentTheorem` goes through each host call with the histories' three shapes; a lookup also needs the bytes and the request, and `LookupTheorem` shows that both stay as long as the history tells of a recent availability, unless forget deletes the bytes for a request of another length.

- `TypeTheorem` (`TypeOK`): The preimage maps of a service keep their type for every set of hashes, lengths and slots.
- `OrderedTheorem` (`HistoryOrdered`): Every history is an ordered list of at most three slots of the past.
- `StoredTheorem` (`StoredWasRequested`): A stored preimage always has a supplied request under its own hash and length.
- `RecentTheorem` (`RecentAvailabilityStable`): No sequence of solicits, forgets and supplies changes whether a preimage was available at one of the last D slots.
- `LookupTheorem` (`RecentLookupsStable`): What a lookup at one of the last D slots answers stays the same, whatever is solicited, forgotten and supplied, unless the preimage is forgotten under a length that is not its own.

**AccumulateContext.** Assumes finitely many storage keys, balances below their word, and an account that covers its threshold at the start. `ContextIInv` is the type of the pair with the invariant of the balance; the balance needs the threshold without wrap-around (`ThresholdFacts`) and the difference in New modulo the word. `CreatedTheorem` is about `CheckIndex`: the index it returns is free.

- `ContextTypeTheorem` (`ContextTypeOK`): The context pair of an accumulate run stays well formed under any sequence of host calls.
- `BalanceTheorem` (`NewNeverEnriches`): For every balance width, base and item price, the balance stays between the base and what it was at first, so that the unsigned difference in New never wraps.
- `CreatedTheorem` (`CreatedAccountsKept`): An account that New created is never replaced by a later call of the run, for every set of indices.

### PvmMemoryProofs

**PvmMemory.** Assumes zones of whole pages, an address space of whole zones, inputs of whole pages, registers wider than the address space, and accesses of at most a zone. `MemoryIInv` has the shape that `InitializeMemory` gives and sbrk keeps: segments begin and end at the boundaries of pages (`Shape`), and the heap of a running program is writable. A segment of whole pages either holds a page or has no byte of it, so the walk of the code over pages finds the page of the first byte that lacks the access; the rest is arithmetic of `\div` and `%`.

- `FaultsTheorem` (`FaultsAtFirstBadPage`): For every size of page, zone, address space and register and every layout, a page fault names the first page of the access that lacks it, as long as no segment reaches another.
- `GrantedTheorem` (`GrantedIsAccessible`): What a load was given is readable throughout, and what sbrk has granted is writable unless the request wraps around.

**RefineMachines.** Assumes positive costs and natural pages, addresses and gas (`RefineAssumption`). The type invariant carries that the machines are finitely many, so that `findSmallestMissingKey` finds one, and that a nil map holds none.

- `RefineTypeTheorem` (`RefineTypeOK`): The machines, segments and gas of a refinement stay well formed under every sequence of host calls.
- `MachinesTheorem` (`OtherMachinesKept`): A refine host call changes no machine but the one it names, for every gas limit and number of machines; only a lookup of an unknown account drops the context with all of them.

### PvmInstructionProofs

**PvmControl.** Assumes bytes in range and, of a blob, only that its bitmask has a value for every byte of the code if it is as long as the code. `ControlIInv`: code and bitmask of a running program are the blob's with one trap more, and the counter is at a mark of the bitmask or at that trap. `SkipSees` shows that a skip never passes a mark it can see; block starts, branches and the jump table lead to marks of well-formed programs only.

- `InstructionsTheorem` (`StaysOnInstructions`): Every well-formed program, of any length, is executed at the instruction starts of its bitmask only, across skips, branches, the jump table and host calls.

**PvmAlu.** Assumes registers of 8, 16, 32 or 64 bits and that powers of two up to the width double (`AluAssumption`; exponentiation has no definition for the provers). `ResultInv` says that D holds what the instruction computes from A, B, the immediate and what D held; every promise then is a lemma about numbers: conversions between signed and unsigned, division with the sign of the dividend (`QuoValue`, `SmodValue`), upper products (`UpperAndLower`), rotations bit by bit (`RotatedBits`), and shifts as products and quotients by a power of two (`AmountFacts`, `LeftShift32`, `SarSign`), for immediates the sign-extended value (`ImmediateSigned`).

- `ResultsTheorem` (`ResultsPromised`): For registers of 8, 16, 32 and 64 bits and all their contents, the instructions give the result of their comment: sums, quotients, remainders, upper products, rotations and shifts, 32-bit results sign-extended. Excepted are the cases in which TLC refutes the comment: RemainderSign, QuotientFloor, ImmediateShiftsWrap and SignedLessThan.

### PeerNetworkProofs

Assumes that callers have a home and that nodes, ports and the null value differ. `IInv` adds that entries of the peer set are ends past their OnConnection, also while the kind of a stream is read (`Handled`), with the right owner and key (`Registered`), addresses lead to ends of the node (`AddressesOwned`), and handled ends belong to established connections (`Linked`, `RequestsLinked`).

- `TypeTheorem` (`TypeOK`): The type invariant of the peer layer, for any nodes, callers, connections and ports.
- `NoLeakTheorem` (`OpenIsRegistered`): A node never has an open connection, past its OnConnection, that its peer set does not hold.
- `AddressTheorem` (`AddressesAreCurrent`): The address map never leads to a peer that has been replaced.
- `RequestTheorem` (`RequestsOnCurrentPeer`): No connection is replaced while a block request runs on it.

### What is not proved

Where an argument would go by induction over a number or a sequence, the proofs
take a least counterexample from the well-foundedness of the natural numbers
(`LeastExists`) or count with the theorems on finite sets. What is defined by
recursion over data stays with TLC:

- liveness (`HandlersReturn`, `AccumulationReturns`, `StopWindsDown`,
  `InvocationEnds`), which the prover does not do;
- `TransfersIndependentOfSchedule` and `PairsIndependentOfSchedule` of
  `Accumulator`: they compare sequences filtered, flattened and sorted by
  operators whose recursion the provers cannot unfold;
- `DecodesWhatWasEncoded` of `Codec` and `AnchorsCommitToHistory` of
  `RecentHistory`, about recursive operators over types and over the mountain
  range.

The statements of section 4, with the runs in which TLC refutes them, have no
theorem.

Only proved: the type invariants, `AncestryStored`, `FinalizedIsBuried`,
`LeavesAreStored`, `ContestIsAnnounced`, `AccumulatorRanked`, `OffendersAreProved`,
`GoodReportsHaveFaults`, `JudgementsStand`, `NoStaleReports`, `QueueEdited`,
`HistoryOrdered` and `RecentAvailabilityStable`, which the theorems establish for every instance and no run
repeats. The type invariants that no theorem states hold on the instances of
section 3 when they are added to the configurations.

## 6. Not modelled, and the plan

`PROJECT.json` lists every part with its status. Out of scope: cryptography,
erasure coding, certificates, logging and start-up, and the field-by-field state
serialization, which have no behaviour a small instance would show.

Also left out: the validator statistics, counters that the repository serializes
and never decides by; the validator grid, which no handler uses; authorization and the
on-transfer entry point, each one sequential run of a program with host calls
modelled elsewhere; the making of a report from a package, which is hashing and
erasure coding around the refinement that `RefineMachines` models; the state trie
and the constant-depth tree with its proofs, pure functions of hashes; and the
conversions of times, which the modules replace by slots and epochs.

What would come next:

1. A composition of `CoreReports` and `Accumulation` through the reports that
   become available, against an abstract pipeline "reported, available,
   accumulated once".
2. A definition of the transfers and pairs of a round by positions and counts
   in place of filtered and sorted sequences, for which the two properties of
   schedules could be proved.
3. `Codec` for bit sequences and for messages that are cut short.
