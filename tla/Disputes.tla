------------------------------ MODULE Disputes ------------------------------
(***************************************************************************)
(* Judgements: CalculateNewJudgements and what it calls                    *)
(* (internal/statetransition/state_transition.go), with the rotation of    *)
(* the validator sets that verdict signatures are checked against.         *)
(*                                                                         *)
(* Data abstraction.  Report hashes and keys are numbers (only compared).  *)
(* A verdict is its report, its epoch and the count of its positive        *)
(* judgements; ok says that its judgements are sorted and that their       *)
(* signatures verify under the set the code picks.  In a culprit or fault, *)
(* ok says that the signature verifies under its key.  A validator set is  *)
(* the rank at which it became current.  The four slices of Judgements     *)
(* never hold an element twice, so they are sets.  A refused extrinsic     *)
(* leaves the state as it was: the code's errors are guards.               *)
(*                                                                         *)
(* offences, accepted and active are history: what was proved against      *)
(* whom, which verdicts were accepted, which set was current in an epoch.  *)
(***************************************************************************)
EXTENDS Integers, Sequences

CONSTANTS
    V,            \* NumberOfValidators
    MaxEpoch,     \* bound: no block in a later epoch
    MaxSkip,      \* bound: a block is at most so many epochs after the last
    ValidatorKeys,\* ValidatorKeys[n]: the keys of the n-th validator set
    Extrinsics    \* dispute extrinsics a block may carry

Supermajority == (2 * V) \div 3 + 1
OneThird == V \div 3

Verdicts == [report : Nat, epoch : Nat, positive : 0..Supermajority, ok : BOOLEAN]
Culprits == [report : Nat, key : Nat, ok : BOOLEAN]
Faults == [report : Nat, key : Nat, vote : BOOLEAN, ok : BOOLEAN]

ASSUME DisputesAssumption ==
    /\ V \in Nat /\ V >= 3
    /\ MaxEpoch \in Nat
    /\ MaxSkip \in Nat
    /\ Extrinsics \subseteq
         [verdicts : Seq(Verdicts), culprits : Seq(Culprits), faults : Seq(Faults)]

VARIABLES
    epoch,      \* epoch of TimeslotIndex
    CurrentValidators,  \* the number of the set, as for ValidatorKeys
    ArchivedValidators,
    good,       \* Judgements.GoodWorkReports
    bad,        \* Judgements.BadWorkReports
    wonky,      \* Judgements.WonkyWorkReports
    offenders,  \* Judgements.OffendingValidators
    offences,
    accepted,
    active

judgements == <<good, bad, wonky, offenders>>
disputesVars ==
    <<epoch, CurrentValidators, ArchivedValidators, judgements, offences, accepted, active>>

Elements(seq) == {seq[i] : i \in DOMAIN seq}

\* verifySortedUnique, verifyCulprits: each neighbour is smaller than the next,
\* so each element than all the later ones.
SortedByKey(seq) == \A i, j \in DOMAIN seq : i < j => seq[i].key < seq[j].key
SortedByReport(seq) == \A i, j \in DOMAIN seq : i < j => seq[i].report < seq[j].report

NoSet == 0 - 1

DisputesInit ==
    /\ epoch = 0
    /\ ArchivedValidators = 0
    /\ CurrentValidators = 1
    /\ good = {} /\ bad = {} /\ wonky = {} /\ offenders = {}
    /\ offences = {}
    /\ accepted = {}
    /\ active = [e \in 0..MaxEpoch |-> IF e = 0 THEN 1 ELSE NoSet]

\* Mutant: always the current validators.
SignersOf_Current(v, e) == CurrentValidators

\* verifyVerdictSignatures compares the verdict's epoch with that of the new
\* slot, and takes the validators as they were before the block.
SignersOf(v, e) == IF v.epoch = e THEN CurrentValidators ELSE ArchivedValidators
VerdictSigned(v, e) == v.ok /\ v.epoch <= e /\ e - v.epoch <= 1

\* Mutant: only the good reports are looked up.
NotAlreadyJudged_Good(v) == v.report \notin good

\* verifyNotAlreadyJudged
NotAlreadyJudged(v) == v.report \notin good \cup bad \cup wonky

\* verifyFaults: a fault must contradict its verdict; without a verdict, or with
\* one that is not unanimous, it must be a positive vote.
FaultContradicts(f, verdicts) ==
    f.vote # (\E v \in verdicts : v.report = f.report /\ v.positive = Supermajority)

\* processVerdicts, processPositiveVerdict, processNegativeVerdict and
\* processWonkyVerdict: the conditions under which a verdict is accepted.
VerdictAdmissible(v, d) ==
    \/ /\ v.positive = Supermajority
       /\ \E f \in Elements(d.faults) : f.report = v.report /\ ~f.vote
    \/ v.positive = 0 /\ Len(d.culprits) >= 2
    \/ v.positive = OneThird

\* The faults processPositiveVerdict turns into offences.
FaultOffences(d) ==
    {f \in Elements(d.faults) : ~f.vote
        /\ \E v \in Elements(d.verdicts) : v.report = f.report /\ v.positive = Supermajority}

\* processCulprits: the report a culprit guaranteed is found bad by this extrinsic.
CulpritGuaranteedBad(c, d) ==
    \E v \in Elements(d.verdicts) : v.report = c.report /\ v.positive = 0

\* Mutant: a culprit may be an offender already.
CulpritsVerified_Again(d) == SortedByKey(d.culprits)

\* verifyCulprits: none is an offender yet, nor made one by a fault.
CulpritsVerified(d) ==
    /\ SortedByKey(d.culprits)
    /\ \A c \in Elements(d.culprits) :
        /\ c.key \notin offenders
        /\ \A f \in FaultOffences(d) : f.key # c.key

\* copyJudgements, and what is appended to the copy.
CopyWith(list, new) == list \cup new

Judged(d, n) == {v.report : v \in {w \in Elements(d.verdicts) : w.positive = n}}

\* Whether a block of epoch e is the first of its epoch.
BlockOf(e) == IF e > epoch THEN "first" ELSE "later"

\* CalculateNewJudgements on the disputes d of a block in epoch e.
NewJudgements(e, d) ==
    LET verdicts == Elements(d.verdicts)
        faults == Elements(d.faults)
        culprits == Elements(d.culprits)
    IN
    /\ SortedByKey(d.faults)
    /\ SortedByReport(d.verdicts)
    /\ \A v \in verdicts : VerdictSigned(v, e)
    /\ \A c \in culprits : c.ok
    /\ \A f \in faults : f.ok
    /\ \A f \in faults : f.key \notin offenders
    /\ \A v \in verdicts : NotAlreadyJudged(v)
    /\ \A f \in faults : FaultContradicts(f, verdicts)
    /\ \A v \in verdicts : VerdictAdmissible(v, d)
    /\ \A c \in culprits : CulpritGuaranteedBad(c, d)
    /\ CulpritsVerified(d)
    /\ good' = CopyWith(good, Judged(d, Supermajority))
    /\ bad' = CopyWith(bad, Judged(d, 0))
    /\ wonky' = CopyWith(wonky, Judged(d, OneThird))
    /\ offenders' = CopyWith(offenders, {f.key : f \in FaultOffences(d)} \cup {c.key : c \in culprits})
    /\ offences' = offences
        \cup {[kind |-> "fault", key |-> f.key, report |-> f.report] : f \in FaultOffences(d)}
        \cup {[kind |-> "culprit", key |-> c.key, report |-> c.report] : c \in culprits}
    /\ accepted' = accepted
        \cup {[epoch |-> v.epoch, signers |-> SignersOf(v, e), block |-> BlockOf(e)] : v \in verdicts}

\* UpdateState on a block of epoch e: the judgements are computed from the state
\* before the block, and the validator sets move up when the epoch changes.
ImportDisputes(e, d) ==
    /\ NewJudgements(e, d)
    /\ epoch' = e
    /\ IF e > epoch
       THEN /\ CurrentValidators' = CurrentValidators + 1
            /\ ArchivedValidators' = CurrentValidators
            /\ active' = [active EXCEPT ![e] = CurrentValidators + 1]
       ELSE UNCHANGED <<CurrentValidators, ArchivedValidators, active>>

DisputesNext ==
    \E e \in epoch .. epoch + MaxSkip, d \in Extrinsics :
        e <= MaxEpoch /\ ImportDisputes(e, d)

DisputesSpec == DisputesInit /\ [][DisputesNext]_disputesVars

-----------------------------------------------------------------------------
Offences == [kind : {"fault", "culprit"}, key : Nat, report : Nat]

\* The shape of the judgements and of the history.
DisputesTypeOK ==
    /\ epoch \in 0..MaxEpoch
    /\ CurrentValidators \in Nat /\ ArchivedValidators \in Nat
    /\ good \subseteq Nat /\ bad \subseteq Nat /\ wonky \subseteq Nat
    /\ offenders \subseteq Nat
    /\ offences \subseteq Offences
    /\ accepted \subseteq [epoch : 0..MaxEpoch, signers : Nat, block : {"first", "later"}]
    /\ active \in [0..MaxEpoch -> Nat \cup {NoSet}]

\* A report is judged once: it is never in two of the three lists.
JudgedOnce == good \cap bad = {} /\ good \cap wonky = {} /\ bad \cap wonky = {}

\* A judgement is final: no report leaves the list it was put in, no offender is
\* forgiven.
JudgementsStand ==
    [][good \subseteq good' /\ bad \subseteq bad' /\ wonky \subseteq wonky'
        /\ offenders \subseteq offenders']_disputesVars

\* Nobody is an offender without proof: each one guaranteed a report that was
\* found bad, or voted against one that was found good.
OffendersAreProved ==
    \A k \in offenders : \E o \in offences :
        /\ o.key = k
        /\ o.kind = "culprit" => o.report \in bad
        /\ o.kind = "fault" => o.report \in good

\* A validator is made an offender once, for one report: later extrinsics that
\* name it again, and extrinsics that name it twice, are refused.
OffendedOnce == \A o, p \in offences : o.key = p.key => o = p

\* Every report found good has an offender that voted against it.
GoodReportsHaveFaults ==
    \A r \in good : \E o \in offences :
        o.kind = "fault" /\ o.report = r /\ o.key \in offenders

\* In a block that does not change the epoch, a verdict of an epoch that had
\* blocks counts only if the validators of that epoch signed it.
SignedByItsEpoch ==
    \A a \in accepted : a.block = "later" /\ active[a.epoch] # NoSet => a.signers = active[a.epoch]

\* What the comment on verifyVerdictSignatures says of every block: a verdict is
\* signed by the validators of its epoch.
AlwaysSignedByItsEpoch ==
    \A a \in accepted : active[a.epoch] # NoSet => a.signers = active[a.epoch]

\* What the comment on processCulprits says: the key of a culprit or a fault is
\* the key of a validator.
OffendersAreValidators ==
    \A k \in offenders : \E n \in 0..CurrentValidators : k \in ValidatorKeys[n]

\* What the comment on processVerdicts says: a report found bad has two culprits.
BadReportsHaveCulprits ==
    \A r \in bad : \E o, p \in offences :
        o # p /\ o.report = r /\ p.report = r /\ o.kind = "culprit" /\ p.kind = "culprit"
=============================================================================
