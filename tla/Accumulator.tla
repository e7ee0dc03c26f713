----------------------------- MODULE Accumulator -----------------------------
(***************************************************************************)
(* The accumulation of a list of work reports: SequentialDelta takes the   *)
(* longest prefix of the reports that fits the gas, hands it to            *)
(* ParallelDelta and goes on with the rest and the gas that is left.       *)
(* ParallelDelta starts one goroutine for every service the reports or the *)
(* privileged gas name and three more for the manager, the assign and the  *)
(* designate service.  Every goroutine runs Delta1 and merges its result   *)
(* under one mutex; wg.Wait lets the round end when all have merged.       *)
(*                                                                         *)
(* A service's program is deterministic.  It reads and writes one counter  *)
(* of its storage, calls bless if Blessing gives it something to set,      *)
(* creates the services NewServices[s], issues the transfers Transfers[s], *)
(* returns a hash when it is in Yielding and calls assign and designate.   *)
(* An account is copied into a context, its storage map is not: every      *)
(* goroutine of a service works on the one map of the initial state; and   *)
(* bless writes into the map of privileged gas that all contexts and       *)
(* SequentialDelta share.  Every access to one of these maps is a step.    *)
(* The Go runtime aborts the process when it sees two of them overlap, one *)
(* being a write (MapRace); when it does not, one happens after the other. *)
(***************************************************************************)
EXTENDS Integers, Sequences, FiniteSets, SequencesExt, Functions

CONSTANTS
  Ids,           \* service indices, numbers
  Existing,      \* the services of the state before the block
  WithCode,      \* the services whose code preimage is known
  RoundLists,   \* lists of work reports; a report maps a service to its
                 \* results' gas
  RoundGasLimit,      \* the gas of the block
  GasWord,          \* 2^64
  GasMaps,       \* AmountOfGasPerServiceId, as the state before the block may
                 \* have it; the empty map is nil
  Manager, Assign, Designate, \* the privileged services before the block
  Blessing,      \* service |-> what its program blesses, if it does: manager,
                 \* assign, designate and a gas map
  NewServices,   \* service |-> the services its program creates
  Transfers,     \* service |-> the receivers of its transfers, in order
  Yielding       \* the services whose program returns a hash

ASSUME AccumulatorAssumption ==
  /\ Ids \subseteq Nat
  /\ Existing \subseteq Ids
  /\ WithCode \subseteq Existing
  /\ Yielding \subseteq WithCode
  /\ {Manager, Assign, Designate} \subseteq Ids
  /\ \A gas \in GasMaps : DOMAIN gas \subseteq Ids
  /\ DOMAIN Blessing \subseteq Ids
  /\ RoundGasLimit \in 0..(GasWord - 1)

VARIABLES
  phase,     \* "call": SequentialDelta is entered; "round"; "returned"; or
             \* "aborted"
  pending,   \* the reports of the call
  gasLimit,  \* the gas of the call
  batch,     \* the reports of the running round
  services,  \* keys of initialAccState.ServiceState
  coded,     \* the services among them that have code
  privileged, \* PrivilegedServices without the gas: manager, assign, designate
  gasOf,     \* the map AmountOfGasPerServiceId that all share
  storage,   \* service |-> the counter in its storage map
  pc,        \* goroutine |-> "start", "load", "store", "bless", "merge" or "done"
  loaded,    \* goroutine |-> the gas limit and the counter it read
  merged,    \* what the goroutines of the round have merged
  setBy,     \* field of the state |-> the service whose run it came from
  output,    \* the transfers and hash pairs of the finished rounds
  runs,      \* service |-> rounds that accumulated it
  burnt      \* gas the programs have really used

stateVars == <<services, coded, privileged>>
mapVars == <<gasOf, storage>>
roundsVars == <<phase, pending, gasLimit, batch, stateVars, mapVars, pc, loaded,
                merged, setBy, output, runs, burnt>>

-----------------------------------------------------------------------------

WorkReportGas(w) == SumFunction(w)

FirstReportsGas(ws, n) ==
  SumFunction([i \in 1..n |-> WorkReportGas(ws[i])])

\* i = max : the gas of the first i reports is at most g
MaxReports(ws, g) ==
  Max({n \in 0..Len(ws) : FirstReportsGas(ws, n) <= g})

\* s = {rs | w \in w, r \in wr} \cup K(f)
ServiceIndices(ws) ==
  UNION {DOMAIN ws[i] : i \in 1..Len(ws)} \cup DOMAIN gasOf

\* The three further goroutines run the privileged services of the state the
\* round is given.
Goroutines(ws) ==
  [kind : {"service"}, svc : ServiceIndices(ws)]
    \cup {[kind |-> k, svc |-> privileged[k]] : k \in DOMAIN privileged}

\* The gas limit Delta1 computes for a service.
ServiceGas(ws, s) ==
  LET own == {i \in 1..Len(ws) : s \in DOMAIN ws[i]}
  IN  (IF s \in DOMAIN gasOf THEN gasOf[s] ELSE 0)
        + SumFunction([i \in own |-> ws[i][s]])

\* Code() of the account of the state is not nil.
HasCode(s) == s \in coded

\* The keys of the context InvokePVM returns: newCtx puts the service alone
\* into it, with the zero account if the state has none, and New adds what the
\* program creates.
ResultServices(s) ==
  {s} \cup (IF HasCode(s) THEN NewServices[s] ELSE {})

Nothing == [gas |-> 0, transfers |-> <<>>, pairs |-> <<>>,
            added |-> {}, excluded |-> {}]

RoundsInit ==
  /\ phase = "call"
  /\ pending \in RoundLists
  /\ gasLimit = RoundGasLimit
  /\ batch = <<>>
  /\ services = Existing
  /\ coded = WithCode
  /\ privileged = [manager |-> Manager, assign |-> Assign, designate |-> Designate]
  /\ gasOf \in GasMaps
  /\ storage = [s \in Ids |-> 0]
  /\ pc = <<>>
  /\ loaded = <<>>
  /\ merged = Nothing
  /\ setBy = [field \in {"privileged", "keys", "queues"} |-> "initial"]
  /\ output = [transfers |-> <<>>, pairs |-> <<>>]
  /\ runs = [s \in Ids |-> 0]
  /\ burnt = 0

\* SequentialDelta up to the start of ParallelDelta's goroutines.
StartRound ==
  /\ phase = "call"
  /\ LET n == MaxReports(pending, gasLimit)
         ws == SubSeq(pending, 1, n)
     IN  IF n = 0
         THEN /\ phase' = "returned"
              /\ UNCHANGED <<pending, batch, pc, loaded, merged, runs>>
         ELSE /\ phase' = "round"
              /\ batch' = ws
              /\ pending' = SubSeq(pending, n + 1, Len(pending))
              /\ pc' = [g \in Goroutines(ws) |->
                          IF HasCode(g.svc) THEN "start" ELSE "merge"]
              /\ loaded' = [g \in Goroutines(ws) |-> [gas |-> 0, count |-> 0]]
              /\ merged' = Nothing
              /\ runs' = [s \in Ids |-> IF s \in ServiceIndices(ws) /\ HasCode(s)
                                        THEN runs[s] + 1 ELSE runs[s]]
  /\ UNCHANGED <<gasLimit, stateVars, mapVars, setBy, output, burnt>>

\* A goroutine goes on to its next step.
Goto(g, step) ==
  /\ pc' = [pc EXCEPT ![g] = step]
  /\ UNCHANGED <<phase, pending, gasLimit, batch, stateVars, output, runs>>

\* Delta1 reads the privileged gas of the service ...
ReadGas(g) ==
  /\ pc[g] = "start"
  /\ loaded' = [loaded EXCEPT ![g].gas = ServiceGas(batch, g.svc)]
  /\ Goto(g, "load")
  /\ UNCHANGED <<mapVars, merged, setBy, burnt>>

\* ... the program reads its counter with the read host call ...
Load(g) ==
  /\ pc[g] = "load"
  /\ loaded' = [loaded EXCEPT ![g].count = storage[g.svc]]
  /\ Goto(g, "store")
  /\ UNCHANGED <<mapVars, merged, setBy, burnt>>

\* ... writes the next value, into the map the initial state holds ...
Store(g) ==
  /\ pc[g] = "store"
  /\ storage' = [storage EXCEPT ![g.svc] = loaded[g].count + 1]
  /\ Goto(g, IF g.svc \in DOMAIN Blessing THEN "bless" ELSE "merge")
  /\ UNCHANGED <<gasOf, loaded, merged, setBy, burnt>>

\* ... and blesses: the gas goes into the shared map, unless that is nil and the
\* context gets one of its own; the rest stays in the context.
Bless(g) ==
  /\ pc[g] = "bless"
  /\ gasOf' = IF gasOf = <<>> THEN gasOf ELSE Blessing[g.svc].gas @@ gasOf
  /\ Goto(g, "merge")
  /\ UNCHANGED <<storage, loaded, merged, setBy, burnt>>

\* Two goroutines are at one map and at least one of them writes.
Racing(g, h) ==
  \/ g.svc = h.svc /\ pc[g] = "store" /\ pc[h] \in {"load", "store"}
  \/ gasOf # <<>> /\ pc[g] = "bless" /\ pc[h] \in {"start", "bless"}

\* "fatal error: concurrent map writes" ends the process.
MapRace ==
  /\ \E g, h \in DOMAIN pc : g # h /\ Racing(g, h)
  /\ phase' = "aborted"
  /\ pc' = <<>>
  /\ loaded' = <<>>
  /\ UNCHANGED <<pending, gasLimit, batch, stateVars, mapVars, merged, setBy,
                 output, runs, burnt>>

TransfersOf(s) ==
  IF HasCode(s)
  THEN [i \in 1..Len(Transfers[s]) |-> [from |-> s, to |-> Transfers[s][i]]]
  ELSE <<>>

\* The critical section of a service's goroutine; the gas a run returns is
\* the gas it has left.
MergeResult(s, left) ==
  [merged EXCEPT
     !.gas = (@ + left) % GasWord,
     !.transfers = @ \o TransfersOf(s),
     !.pairs = IF s \in Yielding /\ HasCode(s) THEN Append(@, s) ELSE @,
     !.added = @ \cup (ResultServices(s) \ (services \ {s})),
     !.excluded = @ \cup (services \ ResultServices(s))]

\* What a run with some gas limit may have left: nothing, all of it, or less than
\* nothing (InvokePVM converts the signed rest).
GasLeft(limit) == {-1, 0, limit}

MergeService(g) ==
  /\ g.kind = "service"
  /\ pc[g] = "merge"
  /\ \E left \in (IF HasCode(g.svc) THEN GasLeft(loaded[g].gas) ELSE {0}) :
        /\ merged' = MergeResult(g.svc, left)
        /\ burnt' = burnt + (loaded[g].gas - left)
  /\ Goto(g, "done")
  /\ UNCHANGED <<mapVars, loaded, setBy>>

\* The field of the new state each of the three further goroutines fills.
FieldOf(kind) ==
  CASE kind = "manager"   -> "privileged"
    [] kind = "assign"    -> "keys"
    [] kind = "designate" -> "queues"

\* Mutant: wg.Done is not reached.
MergePrivileged_NoDone(g) ==
  /\ g.kind # "service"
  /\ pc[g] = "merge"
  /\ setBy' = [setBy EXCEPT ![FieldOf(g.kind)] = IF HasCode(g.svc) THEN g.kind ELSE @]
  /\ Goto(g, "merge")
  /\ UNCHANGED <<mapVars, loaded, merged, burnt>>

MergePrivileged(g) ==
  /\ g.kind # "service"
  /\ pc[g] = "merge"
  /\ setBy' = [setBy EXCEPT ![FieldOf(g.kind)] = IF HasCode(g.svc) THEN g.kind ELSE @]
  /\ Goto(g, "done")
  /\ UNCHANGED <<mapVars, loaded, merged, burnt>>

\* PrivilegedServices of the context that the manager's run returns.
NewPrivileged ==
  LET m == privileged.manager
  IN  IF HasCode(m) /\ m \in DOMAIN Blessing
      THEN [k \in DOMAIN privileged |-> Blessing[m][k]] ELSE privileged

\* wg.Wait has returned: (d \cup n) \ m, and SequentialDelta's decision about
\* another round.  An account that is excluded is gone with its code and its
\* storage; one that is added has neither.
Recombine ==
  /\ phase = "round"
  /\ \A g \in DOMAIN pc : pc[g] = "done"
  /\ services' = (services \cup merged.added) \ merged.excluded
  /\ coded' = coded \ merged.excluded
  /\ storage' = [s \in Ids |-> IF s \in merged.excluded THEN 0 ELSE storage[s]]
  /\ privileged' = NewPrivileged
  /\ LET left == (gasLimit - merged.gas) % GasWord
     IN  /\ phase' = IF pending # <<>> /\ left > 0 THEN "call" ELSE "returned"
         /\ gasLimit' = left
  /\ pc' = <<>>
  /\ loaded' = <<>>
  /\ UNCHANGED <<pending, batch, gasOf, merged, setBy, runs, burnt>>

\* Mutant: the pairs stay in the order of the merges.
EndRound_Unsorted ==
  /\ Recombine
  /\ output' = [transfers |-> output.transfers \o merged.transfers,
                pairs |-> output.pairs \o merged.pairs]

\* The end of a round, with the sort of its pairs.
EndRound ==
  /\ Recombine
  /\ output' = [transfers |-> output.transfers \o merged.transfers,
                pairs |-> output.pairs \o SortSeq(merged.pairs, <)]

Returned == phase \in {"returned", "aborted"} /\ UNCHANGED roundsVars

RoundsNext ==
  \/ StartRound
  \/ \E g \in DOMAIN pc : ReadGas(g)
  \/ \E g \in DOMAIN pc : Load(g)
  \/ \E g \in DOMAIN pc : Store(g)
  \/ \E g \in DOMAIN pc : Bless(g)
  \/ \E g \in DOMAIN pc : MergeService(g)
  \/ \E g \in DOMAIN pc : MergePrivileged(g)
  \/ EndRound
  \/ MapRace
  \/ Returned

RoundsSpec == RoundsInit /\ [][RoundsNext]_roundsVars

\* The scheduler runs SequentialDelta and every goroutine whose program has
\* ended.  That a program ends is not assumed: transfer can add to its gas.
RoundsFairness ==
  /\ WF_roundsVars(StartRound)
  /\ WF_roundsVars(\E g \in DOMAIN pc : MergeService(g) \/ MergePrivileged(g))
  /\ WF_roundsVars(EndRound)

FairRounds == RoundsSpec /\ RoundsFairness

-----------------------------------------------------------------------------

TransfersForReceiver_Unsorted(ts, r) == SelectSeq(ts, LAMBDA t : t.to = r)

\* R(t, d): the transfers of one receiver, sorted by sender, stably.
TransfersForReceiver(ts, r) ==
  LET own == SelectSeq(ts, LAMBDA t : t.to = r)
      ids == SetToSortSeq(Ids, <)
  IN  FlattenSeq([i \in 1..Len(ids) |->
                    SelectSeq(own, LAMBDA t : t.from = ids[i])])

-----------------------------------------------------------------------------

Times(seq, n) == FlattenSeq([i \in 1..n |-> seq])

\* What a receiver is sent is decided by the runs and not by the order in
\* which the goroutines reach the mutex: sorted by sender, it is the transfers
\* of every accumulated service, each as often as the service was accumulated,
\* none lost and none twice (allTransfers, transfersForReceiver).
TransfersIndependentOfSchedule ==
  phase = "returned" =>
    \A r \in Ids :
      LET ids == SetToSortSeq(Ids, <)
          sent(s) == SelectSeq([i \in 1..Len(Transfers[s]) |->
                                  [from |-> s, to |-> Transfers[s][i]]],
                               LAMBDA t : t.to = r)
      IN  TransfersForReceiver(output.transfers, r)
            = FlattenSeq([i \in 1..Len(ids) |-> Times(sent(ids[i]), runs[ids[i]])])

RoundServices == {g.svc : g \in {g \in DOMAIN pc : g.kind = "service"}}

\* The hash pairs a round adds are those of the yielding services of the round
\* in the order of their indices, whatever the schedule (the sort "to ensure
\* deterministic output" and the wait before it).
PairsIndependentOfSchedule ==
  [][phase = "round" /\ phase' \in {"call", "returned"} =>
       output'.pairs = output.pairs \o
         SetToSortSeq({s \in RoundServices : HasCode(s) /\ s \in Yielding}, <)]_roundsVars

\* Every call of SequentialDelta returns, unless a program it runs never ends or
\* the runtime aborts the process over a shared map: whatever gas the runs leave
\* and in whatever order they end, each reaches wg.Done, each round takes reports
\* off the list, and a report that never fits ends the recursion.
AccumulationReturns ==
  \/ <>(phase \in {"returned", "aborted"})
  \/ <>[](\E g \in DOMAIN pc : pc[g] \in {"start", "load", "store", "bless"})

\* The privileged fields come from the runs of the services that may alter
\* them: "Assign service ID (a) - the service able to effect an alteration of
\* the PendingAuthorizersQueues", "Designate service ID (v) - ... of the
\* NextValidators".
PrivilegedFieldsFromTheirService ==
  /\ setBy["keys"] \in {"initial", "designate"}
  /\ setBy["queues"] \in {"initial", "assign"}

\* A service no program ejected is still there after the round: m collects the
\* services that a run removed from the state it was given.
ServicesSurvive == Existing \subseteq services

\* The storage of a service shows its accumulations: n takes the account of a
\* service from its own run, and the runs for the manager, assign and designate
\* service contribute one field each.
StorageShowsAccumulations ==
  phase = "returned" => \A s \in coded : storage[s] = runs[s]

\* The programs of all rounds together use no more than the gas of the block:
\* ParallelDelta returns the "total gas used" that SequentialDelta subtracts.
GasWithinLimit ==
  GasMaps = {<<>>} => burnt <= RoundGasLimit
=============================================================================
