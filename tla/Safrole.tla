------------------------------- MODULE Safrole -------------------------------
(***************************************************************************)
(* Block-production state: UpdateSafroleState and what it calls            *)
(* (internal/statetransition/state_transition.go, internal/safrole,        *)
(* internal/validator), run once for every block UpdateState accepts.      *)
(*                                                                         *)
(* Data abstraction.                                                       *)
(*  - A ticket is the record of what its ring proof was verified against   *)
(*    (the ring of validators and the entropy) and of the place it came    *)
(*    from (block and position); its identifier, a VRF output hash, is a   *)
(*    number, since identifiers are only compared.                         *)
(*  - The accumulator is sorted by identifier whenever it is written, so   *)
(*    it is a set; keeping the first E entries keeps those of rank below   *)
(*    E.  OutsideInSequence permutes it, so a series of sealing tickets is *)
(*    a set too.                                                           *)
(*  - SelectFallbackKeys is a function of an entropy and of the current    *)
(*    validators, and the ring commitment of the next validators: each is  *)
(*    represented by its arguments.                                        *)
(*  - H(entropy ++ VRF output) is a fresh value in every block: the slot   *)
(*    of that block.                                                       *)
(* A block the code refuses leaves the state as it was, so the code's      *)
(* early returns are guards of ImportBlock.                                *)
(***************************************************************************)
EXTENDS Integers, FiniteSets, Sequences

CONSTANTS
    E,              \* TimeslotsPerEpoch
    Y,              \* TicketSubmissionTimeSlots
    MaxTickets,     \* MaxTicketExtrinsicSize
    MaxAttempts,    \* MaxTicketAttempts
    MaxSlot,        \* bound: no block after this slot
    MaxGap,         \* bound: a block comes at most so many slots after the last
    ProofLists,     \* ticket extrinsics a block may carry: sequences of
                    \* [id, attempt, ok], ok if the ring signature verifies
    ValidatorSets,  \* validator vectors the accumulation may designate
    OffenderLists,  \* offender markers a header may carry
    NullKey         \* the zeroed key NullifyOffenders writes

ASSUME EpochAssumption ==
    /\ E \in Nat \ {0}
    /\ Y \in 0..E
    /\ MaxSlot \in Nat
    /\ MaxGap \in Nat

ASSUME TicketAssumption ==
    /\ ProofLists \subseteq Seq([id : Nat, attempt : Nat, ok : BOOLEAN])
    /\ MaxTickets \in Nat
    /\ MaxAttempts \in Nat

\* The keys of an offender are zeroed at its position.
NullifyOffenders(set, offenders) ==
    [i \in DOMAIN set |-> IF set[i] \in offenders THEN NullKey ELSE set[i]]

\* Validator vectors, with offenders zeroed or not.
Vectors ==
    ValidatorSets \cup {NullifyOffenders(v, o) : v \in ValidatorSets, o \in OffenderLists}

VARIABLES
    slot,       \* TimeslotIndex
    eta,        \* EntropyPool
    queued,     \* QueuedValidators
    next,       \* SafroleState.NextValidators
    current,    \* CurrentValidators
    archived,   \* ArchivedValidators
    acc,        \* SafroleState.TicketAccumulator
    commitment, \* SafroleState.RingCommitment
    series,     \* SafroleState.SealingKeySeries
    epochMark,  \* the last EpochMark of SafroleOutput
    winMark,    \* the WinningTicketMark issued in this epoch, {} if none
    prevMark,   \* the one issued in the epoch before
    submitted   \* the tickets of the last block

validators == <<queued, next, current, archived>>
vars == <<slot, eta, validators, acc, commitment, series, epochMark, winMark,
          prevMark, submitted>>

\* Timeslot.ToEpoch, TimeslotInEpoch, IsTicketSubmissionPeriod and
\* IsWinningTicketMarkerPeriod.
ToEpoch(s) == s \div E
TimeslotInEpoch(s) == s % E
IsTicketSubmissionPeriod(s) == TimeslotInEpoch(s) < Y
IsWinningTicketMarkerPeriod(prev, s) == TimeslotInEpoch(prev) < Y /\ Y <= TimeslotInEpoch(s)

\* calculateNewEntropyPool and rotateEntropyPool, with fresh the new hash.
NewEntropyPool(pool, fresh, rotate) ==
    IF rotate
    THEN [pool EXCEPT ![0] = fresh, ![1] = pool[0], ![2] = pool[1], ![3] = pool[2]]
    ELSE [pool EXCEPT ![0] = fresh]

\* The checks of calculateTickets on a sequence of proofs.
TicketsValid(proofs) ==
    /\ Len(proofs) <= MaxTickets
    /\ \A i \in DOMAIN proofs :
        /\ proofs[i].attempt < MaxAttempts
        /\ proofs[i].ok
        /\ \A t \in acc : t.id # proofs[i].id
    /\ \A i \in 1..(Len(proofs) - 1) : proofs[i].id < proofs[i+1].id

\* The tickets calculateTickets returns: the ring verifier is built from the
\* next validators and the proof covers the pool's third entropy, both as they
\* were before this block.
TicketsOf(proofs, s) ==
    {[id |-> proofs[i].id, attempt |-> proofs[i].attempt, ring |-> next,
      entropy |-> eta[2], slot |-> s, pos |-> i] : i \in DOMAIN proofs}

\* Mutant: the accumulator is cut at the wrong end.
Lowest_Highest(tickets) ==
    {t \in tickets : Cardinality({u \in tickets : u.id > t.id}) < E}

\* The first E tickets by identifier.
Lowest(tickets) ==
    {t \in tickets : Cardinality({u \in tickets : u.id < t.id}) < E}

\* What the accumulator becomes before any reset for a new epoch.
Merged(new) == IF new = {} THEN acc ELSE Lowest(acc \cup new)

AccumulatorFull == Cardinality(acc) = E

FallbackKeys(entropy, set) == [kind |-> "keys", entropy |-> entropy, ring |-> set]
SealingTickets(tickets) == [kind |-> "tickets", tickets |-> tickets]

NoMark == [kind |-> "none"]

Init ==
    /\ slot = 0
    /\ eta = [i \in 0..3 |-> 0 - i]
    /\ \E s \in ValidatorSets :
        /\ queued = s /\ next = s /\ current = s /\ archived = s /\ commitment = s
        /\ series = FallbackKeys(0 - 2, s)
    /\ acc = {}
    /\ epochMark = NoMark
    /\ winMark = {}
    /\ prevMark = {}
    /\ submitted = {}

\* No epoch change: only the tickets, the newest entropy and the marker.
SameEpoch(s, new) ==
    /\ ToEpoch(s) = ToEpoch(slot)
    /\ acc' = Merged(new)
    /\ winMark' = IF IsWinningTicketMarkerPeriod(slot, s) /\ AccumulatorFull
                  THEN Merged(new) ELSE winMark
    /\ UNCHANGED <<next, current, archived, commitment, series, epochMark, prevMark>>

\* Mutant: fallback keys are drawn with the entropy of before the rotation.
NewEpoch_OldEntropy(s, new, offenders) ==
    /\ ToEpoch(s) > ToEpoch(slot)
    /\ next' = NullifyOffenders(queued, offenders)
    /\ current' = next
    /\ archived' = current
    /\ commitment' = next'
    /\ series' = IF /\ ToEpoch(s) = ToEpoch(slot) + 1
                    /\ ~IsTicketSubmissionPeriod(slot)
                    /\ AccumulatorFull
                 THEN SealingTickets(Merged(new))
                 ELSE FallbackKeys(eta[2], next)
    /\ epochMark' = [kind |-> "mark", entropy |-> eta[0], ticketsEntropy |-> eta[1],
                     keys |-> next']
    /\ acc' = {}
    /\ prevMark' = IF ToEpoch(s) = ToEpoch(slot) + 1 THEN winMark ELSE {}
    /\ winMark' = {}

\* Mutant: tickets seal the epoch although the submission period had not ended.
NewEpoch_Early(s, new, offenders) ==
    /\ ToEpoch(s) > ToEpoch(slot)
    /\ next' = NullifyOffenders(queued, offenders)
    /\ current' = next
    /\ archived' = current
    /\ commitment' = next'
    /\ series' = IF /\ ToEpoch(s) = ToEpoch(slot) + 1
                    /\ AccumulatorFull
                 THEN SealingTickets(Merged(new))
                 ELSE FallbackKeys(eta'[2], next)
    /\ epochMark' = [kind |-> "mark", entropy |-> eta[0], ticketsEntropy |-> eta[1],
                     keys |-> next']
    /\ acc' = {}
    /\ prevMark' = IF ToEpoch(s) = ToEpoch(slot) + 1 THEN winMark ELSE {}
    /\ winMark' = {}

\* The first block of a later epoch: validators move up one place, the sealing
\* keys are chosen, the accumulator is emptied.
NewEpoch(s, new, offenders) ==
    /\ ToEpoch(s) > ToEpoch(slot)
    /\ next' = NullifyOffenders(queued, offenders)
    /\ current' = next
    /\ archived' = current
    /\ commitment' = next'
    /\ series' = IF /\ ToEpoch(s) = ToEpoch(slot) + 1
                    /\ ~IsTicketSubmissionPeriod(slot)
                    /\ AccumulatorFull
                 THEN SealingTickets(Merged(new))
                 ELSE FallbackKeys(eta'[2], next)
    /\ epochMark' = [kind |-> "mark", entropy |-> eta[0], ticketsEntropy |-> eta[1],
                     keys |-> next']
    /\ acc' = {}
    /\ prevMark' = IF ToEpoch(s) = ToEpoch(slot) + 1 THEN winMark ELSE {}
    /\ winMark' = {}

\* UpdateSafroleState on a block at slot s with these ticket proofs and offender
\* markers; designated is what the block's accumulation leaves in
\* QueuedValidators, assigned by UpdateState after it.
ImportBlock(s, proofs, offenders, designated) ==
    LET new == TicketsOf(proofs, s) IN
    /\ s > slot
    /\ proofs # <<>> => IsTicketSubmissionPeriod(s)
    /\ TicketsValid(proofs)
    /\ new \subseteq Merged(new)
    /\ slot' = s
    /\ eta' = NewEntropyPool(eta, s, ToEpoch(s) > ToEpoch(slot))
    /\ SameEpoch(s, new) \/ NewEpoch(s, new, offenders)
    /\ queued' = designated
    /\ submitted' = new

Next ==
    \E s \in slot + 1 .. slot + MaxGap, proofs \in ProofLists,
       offenders \in OffenderLists, designated \in ValidatorSets :
        s <= MaxSlot /\ ImportBlock(s, proofs, offenders, designated)

Spec == Init /\ [][Next]_vars

-----------------------------------------------------------------------------
Tickets == [id : Nat, attempt : Nat, ring : Vectors, entropy : Int, slot : Nat, pos : Nat]

\* The shape of the state UpdateSafroleState keeps.
TypeOK ==
    /\ slot \in 0..MaxSlot
    /\ eta \in [0..3 -> Int]
    /\ queued \in ValidatorSets
    /\ {next, current, archived, commitment} \subseteq Vectors
    /\ acc \subseteq Tickets
    /\ winMark \subseteq Tickets
    /\ prevMark \subseteq Tickets
    /\ submitted \subseteq Tickets
    /\ series \in [kind : {"keys"}, entropy : Int, ring : Vectors]
                  \cup [kind : {"tickets"}, tickets : SUBSET Tickets]
    /\ epochMark \in {NoMark}
          \cup [kind : {"mark"}, entropy : Int, ticketsEntropy : Int, keys : Vectors]

\* Whoever may seal a block of this epoch is one of the current validators, and
\* proves it with the entropy the seal is checked against: fallback keys are
\* drawn from CurrentValidators by the third entropy of the pool; a sealing
\* ticket was proved a full epoch ago, against the ring and the entropy that the
\* epoch change has since moved to CurrentValidators and to the fourth entropy.
SealersAreCurrent ==
    /\ series.kind = "keys" => series.ring = current /\ series.entropy = eta[2]
    /\ series.kind = "tickets" =>
        \A t \in series.tickets : t.ring = current /\ t.entropy = eta[3]

\* Every ticket in the accumulator answers the contest the epoch marker
\* announced: it was proved against the keys and the tickets entropy of the last
\* EpochMark, which are still the ones the next block is checked against.
ContestIsAnnounced ==
    /\ commitment = next
    /\ epochMark.kind = "mark" =>
        /\ epochMark.keys = next
        /\ epochMark.ticketsEntropy = eta[2]
    /\ \A t \in acc : t.ring = next /\ t.entropy = eta[2]

\* The accumulator holds at most an epoch of tickets, no identifier twice.
AccumulatorRanked ==
    /\ Cardinality(acc) <= E
    /\ \A t, u \in acc : t.id = u.id => t = u

\* Tickets seal an epoch only if the winning tickets marker was issued in the
\* epoch before, and a sealing ticket that the marker does not list came in the
\* block that changed the epoch.
SealedWasAnnounced ==
    series.kind = "tickets" =>
        /\ Cardinality(prevMark) = E
        /\ \A t \in series.tickets \ prevMark : ToEpoch(t.slot) = ToEpoch(slot)

\* Within an epoch a ticket leaves the accumulator only for E better ones, and
\* nothing leaves or enters once the submission period is over.
BestTicketsKept ==
    [][ToEpoch(slot') = ToEpoch(slot) =>
        /\ \A t \in acc \ acc' : Cardinality({u \in acc' : u.id < t.id}) = E
        /\ ~IsTicketSubmissionPeriod(slot) => acc' = acc]_vars

\* What the comment on equation 69 says of the sealing tickets, Z of the
\* accumulator before the block: they are the ones the marker announced.
SealingTicketsAnnounced ==
    series.kind = "tickets" => series.tickets = prevMark

\* What the comment on equation 6.35 says: the tickets of an accepted block are
\* in the accumulator after it.
SubmittedTicketsKept == submitted \subseteq acc
=============================================================================
