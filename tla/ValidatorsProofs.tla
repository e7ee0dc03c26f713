-------------------------- MODULE ValidatorsProofs --------------------------
(***************************************************************************)
(* Who the validators are and what is held against them.  Safety of        *)
(* Safrole and of sealing, for every epoch length, submission period,      *)
(* validator vectors and ticket extrinsics, and of the judgements, for     *)
(* every number of validators, every set of extrinsics and any sequence of *)
(* epochs.                                                                 *)
(***************************************************************************)
EXTENDS BlockSeal, Disputes, FiniteSetTheorems, TLAPS

\* The assumptions on one component are of no use to the proofs about the other.
HIDE DisputesAssumption
HIDE EpochAssumption
HIDE TicketAssumption
HIDE SomeoneLeft

\* The members of a sequence over a set are in the set.
LEMMA MemberOfSeq ==
  ASSUME NEW S, NEW seq \in Seq(S), NEW i \in 1..Len(seq)
  PROVE  seq[i] \in S
OBVIOUS

-----------------------------------------------------------------------------
(* Every entry of the sealing series has one author.  The states reached   *)
(* keep a sealing ticket's ring and entropy in step with the current       *)
(* validators and the fourth entropy; what remains is an argument about    *)
(* signatures in one state.                                                *)

\* A seal is accepted for an entry exactly when it was made with the entry's
\* context by a candidate key that also made the VRF signature: a signature
\* verifies with no other key, context or data.
LEMMA SignatureUnique ==
    ASSUME NEW k, NEW c, NEW d, NEW k2, NEW c2, NEW d2
    PROVE  Verify(k, c, d, Sign(k2, c2, d2)) <=> k = k2 /\ c = c2 /\ d = d2
BY DEF Verify, Sign

\* The owner of a ticket is a member of its ring.
LEMMA OwnerInRing ==
    ASSUME NEW t \in Tickets
    PROVE  Owner(t) \in {t.ring[i] : i \in DOMAIN t.ring}
<1> DEFINE members == {t.ring[i] : i \in DOMAIN t.ring} \ {NullKey}
           likely == t.ring[(t.id % Len(t.ring)) + 1]
<1>1. t.ring \in Vectors
  BY DEF Tickets
<1>2. PICK i \in DOMAIN t.ring : t.ring[i] # NullKey
  BY <1>1, SomeoneLeft
<1>3. \E k \in members : likely \in members => k = likely
  BY <1>2
<1>4. Owner(t) = CHOOSE k \in members : likely \in members => k = likely
  BY DEF Owner
<1> HIDE DEF likely
<1> QED
  BY <1>3, <1>4

\* The signatures of SignBlock: the seal carries the signer and the context of the
\* entry, and covers the content together with the VRF signature.
LEMMA SignedHeader ==
    ASSUME NEW content, NEW entry, NEW key
    PROVE  LET h == SignBlock(content, entry, key)
               vrf == Sign(key, buildVRFContext(<<key, SealContext(entry)>>), "")
           IN  /\ h = [content |-> content, vrf |-> vrf, seal |-> h.seal]
               /\ h.seal = Sign(key, SealContext(entry), <<content, vrf>>)
               /\ OutputHash(h.seal) = <<key, SealContext(entry)>>
<1>1. \A c, data : OutputHash(Sign(key, c, data)) = <<key, c>>
  BY DEF OutputHash, Sign
<1> QED
  BY <1>1 DEF SignBlock, encodeUnsealedHeader

\* If every candidate of an entry but its author is a stranger to the seal's
\* signer, the author's header verifies, another's does not, and a changed one
\* does not.
LEMMA VerifiedHeader ==
    ASSUME NEW entry, NEW key, NEW author, NEW candidates,
           candidates = IF entry.kind = "ticket" THEN {current[i] : i \in DOMAIN current}
                        ELSE {entry.key},
           author \in candidates,
           entry.kind = "ticket" => Identifier(entry.ticket) = <<author, SealContext(entry)>>,
           entry.kind # "ticket" => entry.key = author
    PROVE  LET header == SignBlock("header", entry, key)
           IN  /\ VerifyBlockSignatures(header, entry) <=> key = author
               /\ ~VerifyBlockSignatures([header EXCEPT !.content = "other"], entry)
<1> DEFINE header == SignBlock("header", entry, key)
           changed == [header EXCEPT !.content = "other"]
           context == SealContext(entry)
           vrf == Sign(key, buildVRFContext(<<key, context>>), "")
<1>1. /\ header = [content |-> "header", vrf |-> vrf, seal |-> header.seal]
      /\ header.seal = Sign(key, context, <<"header", vrf>>)
      /\ OutputHash(header.seal) = <<key, context>>
  BY SignedHeader
<1> HIDE DEF header, context, vrf
<1>2. /\ header.content = "header" /\ header.vrf = vrf
      /\ changed.content = "other" /\ changed.vrf = vrf /\ changed.seal = header.seal
  BY <1>1
<1>3. \A k : /\ Verify(k, context, <<"header", vrf>>, header.seal) <=> k = key
             /\ ~Verify(k, context, <<"other", vrf>>, header.seal)
  BY <1>1, SignatureUnique
<1>4. Verify(key, buildVRFContext(<<key, context>>), "", vrf)
  BY SignatureUnique DEF vrf
<1>5. VerifyBlockSignatures(header, entry) <=>
        /\ entry.kind = "ticket" => <<key, context>> = <<author, context>>
        /\ key \in candidates
  <2>1. VerifyBlockSignatures(header, entry) <=>
          /\ entry.kind = "ticket" => OutputHash(header.seal) = Identifier(entry.ticket)
          /\ \E k \in candidates :
              /\ Verify(k, context, <<header.content, header.vrf>>, header.seal)
              /\ Verify(k, buildVRFContext(OutputHash(header.seal)), "", header.vrf)
    BY DEF VerifyBlockSignatures, encodeUnsealedHeader, context
  <2>2. entry.kind = "ticket" => Identifier(entry.ticket) = <<author, context>>
    BY DEF context
  <2> QED
    BY <1>1, <1>2, <1>3, <1>4, <2>1, <2>2
<1>6. ~VerifyBlockSignatures(changed, entry)
  BY <1>2, <1>3 DEF VerifyBlockSignatures, encodeUnsealedHeader, context
<1> HIDE DEF changed
<1>7. VerifyBlockSignatures(header, entry) <=> key = author
  <2>1. CASE entry.kind = "ticket"
    BY <1>5, <2>1
  <2>2. CASE entry.kind # "ticket"
    BY <1>5, <2>2
  <2> QED BY <2>1, <2>2
<1> QED
  BY <1>6, <1>7 DEF header, changed

\* A ticket's entry is for the key its identifier was made with.
LEMMA OwnTicket ==
    ASSUME NEW entry, NEW author, NEW key, entry.kind = "ticket",
           Identifier(entry.ticket) = <<author, SealContext(entry)>>
    PROVE  MaySeal(entry, key) <=> key = author
BY DEF MaySeal, OutputHash, Sign

\* In a state where the sealers are current, every entry has one author.
LEMMA OneAuthor == TypeOK /\ SealersAreCurrent => SlotsHaveOneAuthor
<1> SUFFICES ASSUME TypeOK, SealersAreCurrent,
                    NEW entry \in Entries, entry # [kind |-> "key", key |-> NullKey]
             PROVE  \E author \in {current[i] : i \in DOMAIN current} : \A key \in AllKeys :
                        LET header == SignBlock("header", entry, key)
                        IN  /\ MaySeal(entry, key) <=> key = author
                            /\ VerifyBlockSignatures(header, entry) <=> key = author
                            /\ ~VerifyBlockSignatures([header EXCEPT !.content = "other"], entry)
  BY DEF SlotsHaveOneAuthor
<1>1. CASE series.kind = "tickets"
  <2>1. PICK t \in series.tickets : entry = [kind |-> "ticket", ticket |-> t]
    BY <1>1 DEF Entries
  <2>2. t \in Tickets /\ t.ring = current /\ t.entropy = eta[3]
    BY <1>1 DEF TypeOK, SealersAreCurrent
  <2>3. Owner(t) \in {current[i] : i \in DOMAIN current}
    BY <2>2, OwnerInRing
  <2>4. SealContext(entry) = buildTicketSealContext(t.entropy, t.attempt)
    BY <2>1, <2>2 DEF SealContext
  <2>5. Identifier(t) = <<Owner(t), SealContext(entry)>>
    BY <2>4 DEF Identifier
  <2>6. entry.kind = "ticket" /\ entry.ticket = t
    BY <2>1
  <2>7. \A key : MaySeal(entry, key) <=> key = Owner(t)
    BY <2>5, <2>6, OwnTicket
  <2>8. \A key :
          LET header == SignBlock("header", entry, key)
          IN  /\ VerifyBlockSignatures(header, entry) <=> key = Owner(t)
              /\ ~VerifyBlockSignatures([header EXCEPT !.content = "other"], entry)
    BY <2>3, <2>5, <2>6, VerifiedHeader
  <2> QED
    BY <2>3, <2>7, <2>8
<1>2. CASE series.kind = "keys"
  <2>1. PICK i \in DOMAIN current : entry = [kind |-> "key", key |-> current[i]]
    BY <1>2 DEF Entries, SealersAreCurrent
  <2>2. \A key : MaySeal(entry, key) <=> key = current[i]
    BY <2>1 DEF MaySeal
  <2>3. entry.kind # "ticket" /\ entry.key = current[i]
    BY <2>1
  <2>4. \A key :
          LET header == SignBlock("header", entry, key)
          IN  /\ VerifyBlockSignatures(header, entry) <=> key = current[i]
              /\ ~VerifyBlockSignatures([header EXCEPT !.content = "other"], entry)
    BY <2>3, VerifiedHeader
  <2> QED
    BY <2>2, <2>4
<1> QED
  BY <1>1, <1>2 DEF TypeOK

-----------------------------------------------------------------------------
(* Disputes.                                                               *)

\* The sets verdicts are checked against: the current one is that of the epoch of
\* the state, the archived one that of the epoch before if it had blocks, and no
\* set is recorded for the future.
ActiveInv ==
    /\ active[epoch] = CurrentValidators
    /\ \A e \in 0..MaxEpoch :
        /\ e = epoch - 1 /\ active[e] # NoSet => active[e] = ArchivedValidators
        /\ e > epoch => active[e] = NoSet

\* What has been proved against a key is recorded in the lists.
OffenceInv ==
    \A o \in offences :
        /\ o.key \in offenders
        /\ o.kind = "culprit" => o.report \in bad
        /\ o.kind = "fault" => o.report \in good

PastInv == \A a \in accepted : a.epoch <= epoch

JudgementsInv ==
    /\ DisputesTypeOK /\ JudgedOnce /\ OffendersAreProved /\ OffendedOnce
    /\ GoodReportsHaveFaults /\ SignedByItsEpoch
    /\ ActiveInv /\ OffenceInv /\ PastInv

-----------------------------------------------------------------------------
\* The vote counts that decide are three different numbers.
LEMMA VoteCounts ==
    /\ Supermajority \in Nat /\ OneThird \in Nat
    /\ Supermajority # 0 /\ OneThird # 0 /\ Supermajority # OneThird
<1>1. V \in Nat /\ V >= 3
  BY DisputesAssumption
<1> QED
  BY <1>1 DEF Supermajority, OneThird

\* The members of a list of the extrinsic have the list's type.
LEMMA ElementsType ==
    ASSUME NEW S, NEW seq \in Seq(S)
    PROVE  Elements(seq) \subseteq S
BY MemberOfSeq DEF Elements

\* The lists of a dispute extrinsic have elements of the expected types.
LEMMA ExtrinsicType ==
    ASSUME NEW d \in Extrinsics
    PROVE  /\ Elements(d.verdicts) \subseteq Verdicts
           /\ Elements(d.culprits) \subseteq Culprits
           /\ Elements(d.faults) \subseteq Faults
<1>1. /\ d.verdicts \in Seq(Verdicts)
      /\ d.culprits \in Seq(Culprits)
      /\ d.faults \in Seq(Faults)
  BY DisputesAssumption
<1> QED
  BY <1>1, ElementsType

\* A strictly sorted list names a key once.
LEMMA SortedKeysUnique ==
    ASSUME NEW S, \A x \in S : x.key \in Nat,
           NEW seq \in Seq(S), SortedByKey(seq),
           NEW x \in Elements(seq), NEW y \in Elements(seq), x.key = y.key
    PROVE  x = y
<1>1. PICK i \in DOMAIN seq, j \in DOMAIN seq : x = seq[i] /\ y = seq[j]
  BY DEF Elements
<1>2. i \in Nat /\ j \in Nat /\ DOMAIN seq = 1..Len(seq)
  OBVIOUS
<1>3. x \in S /\ y \in S
  BY ElementsType
<1>4. ~(i < j) /\ ~(j < i)
  BY <1>1, <1>3 DEF SortedByKey
<1> QED
  BY <1>1, <1>2, <1>4

\* Likewise a report.
LEMMA SortedReportsUnique ==
    ASSUME NEW S, \A x \in S : x.report \in Nat,
           NEW seq \in Seq(S), SortedByReport(seq),
           NEW x \in Elements(seq), NEW y \in Elements(seq), x.report = y.report
    PROVE  x = y
<1>1. PICK i \in DOMAIN seq, j \in DOMAIN seq : x = seq[i] /\ y = seq[j]
  BY DEF Elements
<1>2. i \in Nat /\ j \in Nat /\ DOMAIN seq = 1..Len(seq)
  OBVIOUS
<1>3. x \in S /\ y \in S
  BY ElementsType
<1>4. ~(i < j) /\ ~(j < i)
  BY <1>1, <1>3 DEF SortedByReport
<1> QED
  BY <1>1, <1>2, <1>4

-----------------------------------------------------------------------------
\* The genesis judgements satisfy the inductive invariant.
LEMMA JudgementsInit == DisputesInit => JudgementsInv
<1> SUFFICES ASSUME DisputesInit PROVE JudgementsInv
  OBVIOUS
<1>1. 0 \in 0..MaxEpoch /\ MaxEpoch \in Nat
  BY DisputesAssumption
<1>2. DisputesTypeOK
  BY <1>1 DEF DisputesInit, DisputesTypeOK
<1>3. ActiveInv
  BY <1>1 DEF DisputesInit, ActiveInv, NoSet
<1> QED
  BY <1>2, <1>3 DEF DisputesInit, JudgementsInv, JudgedOnce, OffendersAreProved, OffendedOnce,
        GoodReportsHaveFaults, SignedByItsEpoch, OffenceInv, PastInv

\* What an accepted extrinsic does to the four lists.
LEMMA JudgementStep ==
    ASSUME JudgementsInv, NEW e \in 0..MaxEpoch, NEW d \in Extrinsics, NewJudgements(e, d)
    PROVE  /\ good' \subseteq Nat /\ bad' \subseteq Nat /\ wonky' \subseteq Nat
           /\ offenders' \subseteq Nat /\ offences' \subseteq Offences
           /\ JudgedOnce' /\ OffendersAreProved' /\ OffendedOnce'
           /\ GoodReportsHaveFaults' /\ OffenceInv'
<1> DEFINE vs == Elements(d.verdicts)
           cs == Elements(d.culprits)
           fs == FaultOffences(d)
           newFaults == {[kind |-> "fault", key |-> f.key, report |-> f.report] : f \in fs}
           newCulprits == {[kind |-> "culprit", key |-> c.key, report |-> c.report] : c \in cs}
<1>1. /\ vs \subseteq Verdicts
      /\ cs \subseteq Culprits
      /\ Elements(d.faults) \subseteq Faults
  BY ExtrinsicType
<1>2. fs \subseteq Elements(d.faults) /\ fs \subseteq Faults
  BY <1>1 DEF FaultOffences
<1>3. /\ good' = good \cup Judged(d, Supermajority)
      /\ bad' = bad \cup Judged(d, 0)
      /\ wonky' = wonky \cup Judged(d, OneThird)
      /\ offenders' = offenders \cup {f.key : f \in fs} \cup {c.key : c \in cs}
      /\ offences' = offences \cup newFaults \cup newCulprits
  BY DEF NewJudgements, CopyWith
<1>4. /\ \A v \in vs : v.report \notin good \cup bad \cup wonky
      /\ \A f \in fs : f.key \notin offenders
      /\ \A c \in cs : c.key \notin offenders
      /\ \A c \in cs, f \in fs : f.key # c.key
      /\ \A c \in cs : \E v \in vs : v.report = c.report /\ v.positive = 0
      /\ \A f \in fs : \E v \in vs : v.report = f.report /\ v.positive = Supermajority
  BY <1>2 DEF NewJudgements, NotAlreadyJudged, CulpritGuaranteedBad, CulpritsVerified,
         FaultOffences
<1>5. \A v, w \in vs : v.report = w.report => v = w
  <2>1. d.verdicts \in Seq(Verdicts) /\ SortedByReport(d.verdicts)
    BY DisputesAssumption DEF NewJudgements
  <2>2. \A x \in Verdicts : x.report \in Nat
    BY DEF Verdicts
  <2> QED BY <2>1, <2>2, SortedReportsUnique
<1>6. \A c, b \in cs : c.key = b.key => c = b
  <2>1. d.culprits \in Seq(Culprits) /\ SortedByKey(d.culprits)
    BY DisputesAssumption DEF NewJudgements, CulpritsVerified
  <2>2. \A x \in Culprits : x.key \in Nat
    BY DEF Culprits
  <2> QED BY <2>1, <2>2, SortedKeysUnique
<1>7. \A f, g \in fs : f.key = g.key => f = g
  <2>1. d.faults \in Seq(Faults) /\ SortedByKey(d.faults)
    BY DisputesAssumption DEF NewJudgements
  <2>2. \A x \in Faults : x.key \in Nat
    BY DEF Faults
  <2> QED BY <1>2, <2>1, <2>2, SortedKeysUnique
<1>8. /\ good' \subseteq Nat /\ bad' \subseteq Nat /\ wonky' \subseteq Nat
  <2>1. \A v \in vs : v.report \in Nat
    BY <1>1 DEF Verdicts
  <2> QED BY <1>3, <2>1 DEF JudgementsInv, DisputesTypeOK, Judged
<1>9. offenders' \subseteq Nat /\ offences' \subseteq Offences
  <2>1. \A c \in cs : c.key \in Nat /\ c.report \in Nat
    BY <1>1 DEF Culprits
  <2>2. \A f \in fs : f.key \in Nat /\ f.report \in Nat
    BY <1>2 DEF Faults
  <2>3. newFaults \subseteq Offences /\ newCulprits \subseteq Offences
    BY <2>1, <2>2 DEF Offences
  <2> QED BY <1>3, <2>1, <2>2, <2>3 DEF JudgementsInv, DisputesTypeOK
<1>10. JudgedOnce'
  <2>1. \A m, n : m # n => Judged(d, m) \cap Judged(d, n) = {}
    BY <1>5 DEF Judged
  <2>2. \A n : Judged(d, n) \cap (good \cup bad \cup wonky) = {}
    BY <1>4 DEF Judged
  <2>3. /\ Judged(d, Supermajority) \cap Judged(d, 0) = {}
        /\ Judged(d, Supermajority) \cap Judged(d, OneThird) = {}
        /\ Judged(d, 0) \cap Judged(d, OneThird) = {}
    BY <2>1, VoteCounts
  <2>4. good \cap bad = {} /\ good \cap wonky = {} /\ bad \cap wonky = {}
    BY DEF JudgementsInv, JudgedOnce
  <2> QED BY <1>3, <2>2, <2>3, <2>4 DEF JudgedOnce
<1>11. OffenceInv'
  <2> SUFFICES ASSUME NEW o \in offences'
               PROVE  /\ o.key \in offenders'
                      /\ o.kind = "culprit" => o.report \in bad'
                      /\ o.kind = "fault" => o.report \in good'
    BY DEF OffenceInv
  <2>1. CASE o \in offences
    BY <2>1, <1>3 DEF JudgementsInv, OffenceInv
  <2>2. CASE o \in newFaults
    BY <2>2, <1>3, <1>4 DEF Judged
  <2>3. CASE o \in newCulprits
    BY <2>3, <1>3, <1>4 DEF Judged
  <2> QED BY <1>3, <2>1, <2>2, <2>3
<1>12. OffendersAreProved'
  <2> SUFFICES ASSUME NEW k \in offenders' PROVE \E o \in offences' : o.key = k
    BY <1>11 DEF OffendersAreProved, OffenceInv
  <2>1. CASE k \in offenders
    BY <2>1, <1>3 DEF JudgementsInv, OffendersAreProved
  <2>2. ASSUME NEW f \in fs, k = f.key PROVE \E o \in offences' : o.key = k
    <3>1. [kind |-> "fault", key |-> f.key, report |-> f.report] \in offences'
      BY <1>3
    <3> QED BY <3>1, <2>2
  <2>3. ASSUME NEW c \in cs, k = c.key PROVE \E o \in offences' : o.key = k
    <3>1. [kind |-> "culprit", key |-> c.key, report |-> c.report] \in offences'
      BY <1>3
    <3> QED BY <3>1, <2>3
  <2> QED BY <1>3, <2>1, <2>2, <2>3
<1>13. OffendedOnce'
  <2> SUFFICES ASSUME NEW o \in offences', NEW p \in offences', o.key = p.key PROVE o = p
    BY DEF OffendedOnce
  <2>1. \A q \in newFaults \cup newCulprits : q.key \notin offenders
    BY <1>4
  <2>2. \A q \in offences : q.key \in offenders
    BY DEF JudgementsInv, OffenceInv
  <2>3. \A q, r \in newFaults : q.key = r.key => q = r
    BY <1>7
  <2>4. \A q, r \in newCulprits : q.key = r.key => q = r
    BY <1>6
  <2>5. \A q \in newFaults, r \in newCulprits : q.key # r.key
    BY <1>4
  <2>6. \A q, r \in offences : q.key = r.key => q = r
    BY DEF JudgementsInv, OffendedOnce
  <2> QED BY <1>3, <2>1, <2>2, <2>3, <2>4, <2>5, <2>6
<1>14. GoodReportsHaveFaults'
  <2> SUFFICES ASSUME NEW r \in good'
               PROVE  \E o \in offences' : o.kind = "fault" /\ o.report = r /\ o.key \in offenders'
    BY DEF GoodReportsHaveFaults
  <2>1. CASE r \in good
    BY <2>1, <1>3 DEF JudgementsInv, GoodReportsHaveFaults
  <2>2. CASE r \in Judged(d, Supermajority)
    <3>1. PICK v \in vs : v.report = r /\ v.positive = Supermajority
      BY <2>2 DEF Judged
    <3>2. VerdictAdmissible(v, d)
      BY DEF NewJudgements
    <3>3. PICK f \in Elements(d.faults) : f.report = r /\ ~f.vote
      BY <3>1, <3>2, VoteCounts DEF VerdictAdmissible
    <3>4. f \in fs
      BY <3>1, <3>3 DEF FaultOffences
    <3>5. [kind |-> "fault", key |-> f.key, report |-> f.report] \in offences' /\ f.key \in offenders'
      BY <3>4, <1>3
    <3> QED BY <3>3, <3>5
  <2> QED BY <1>3, <2>1, <2>2
<1> QED
  BY <1>8, <1>9, <1>10, <1>11, <1>12, <1>13, <1>14

\* The records of the verdicts a block brings.
Accepted(e, d) ==
    {[epoch |-> v.epoch, signers |-> SignersOf(v, e), block |-> BlockOf(e)] : v \in Elements(d.verdicts)}

AcceptedRecords == [epoch : 0..MaxEpoch, signers : Nat, block : {"first", "later"}]

\* What a block does to the validator sets and to the record of who signed.
LEMMA ImportFacts ==
    ASSUME NEW e \in Nat, NEW d \in Extrinsics, ImportDisputes(e, d)
    PROVE  /\ \A v \in Elements(d.verdicts) : v.epoch \in Nat /\ v.epoch <= e /\ e - v.epoch <= 1
           /\ epoch' = e /\ accepted' = accepted \cup Accepted(e, d)
           /\ e > epoch => /\ CurrentValidators' = CurrentValidators + 1
                           /\ ArchivedValidators' = CurrentValidators
                           /\ active' = [active EXCEPT ![e] = CurrentValidators + 1]
           /\ ~(e > epoch) => UNCHANGED <<CurrentValidators, ArchivedValidators, active>>
<1>1. \A v \in Elements(d.verdicts) : v.epoch \in Nat /\ v.epoch <= e /\ e - v.epoch <= 1
  BY ExtrinsicType, ZenonT(60) DEF ImportDisputes, NewJudgements, VerdictSigned, Verdicts
<1>2. epoch' = e /\ accepted' = accepted \cup Accepted(e, d)
  BY DEF ImportDisputes, NewJudgements, Accepted
<1>3. /\ e > epoch => /\ CurrentValidators' = CurrentValidators + 1
                      /\ ArchivedValidators' = CurrentValidators
                      /\ active' = [active EXCEPT ![e] = CurrentValidators + 1]
      /\ ~(e > epoch) => UNCHANGED <<CurrentValidators, ArchivedValidators, active>>
  BY DEF ImportDisputes
<1> QED
  BY <1>1, <1>2, <1>3

\* The records have their type.
LEMMA AcceptedType ==
    ASSUME MaxEpoch \in Nat, NEW e \in 0..MaxEpoch, NEW d,
           CurrentValidators \in Nat, ArchivedValidators \in Nat,
           \A v \in Elements(d.verdicts) : v.epoch \in Nat /\ v.epoch <= e
    PROVE  Accepted(e, d) \subseteq AcceptedRecords
<1>1. \A v \in Elements(d.verdicts) : v.epoch \in 0..MaxEpoch /\ SignersOf(v, e) \in Nat
  BY DEF SignersOf
<1>2. BlockOf(e) \in {"first", "later"}
  BY DEF BlockOf
<1> QED
  BY <1>1, <1>2 DEF Accepted, AcceptedRecords

\* A block keeps the record of who signed in step with the validator sets.
LEMMA SignerStep ==
    ASSUME JudgementsInv, NEW e \in 0..MaxEpoch, e >= epoch, NEW d \in Extrinsics, ImportDisputes(e, d)
    PROVE  /\ epoch' \in 0..MaxEpoch /\ CurrentValidators' \in Nat /\ ArchivedValidators' \in Nat
           /\ accepted' \subseteq AcceptedRecords
           /\ active' \in [0..MaxEpoch -> Nat \cup {NoSet}]
           /\ SignedByItsEpoch' /\ ActiveInv' /\ PastInv'
<1> DEFINE vs == Elements(d.verdicts)
           new == Accepted(e, d)
<1>1. /\ MaxEpoch \in Nat /\ epoch \in Nat /\ e \in Nat
      /\ CurrentValidators \in Nat /\ ArchivedValidators \in Nat
      /\ active \in [0..MaxEpoch -> Nat \cup {NoSet}]
      /\ accepted \subseteq AcceptedRecords
      /\ epoch \in 0..MaxEpoch
  BY DisputesAssumption DEF JudgementsInv, DisputesTypeOK, AcceptedRecords
<1>2. \A v \in vs : v.epoch \in Nat /\ v.epoch <= e /\ e - v.epoch <= 1
  BY <1>1, ImportFacts
<1>3. epoch' = e /\ accepted' = accepted \cup new
  BY <1>1, ImportFacts
<1>4. /\ e > epoch => /\ CurrentValidators' = CurrentValidators + 1 /\ ArchivedValidators' = CurrentValidators
                      /\ active' = [active EXCEPT ![e] = CurrentValidators + 1]
      /\ ~(e > epoch) => UNCHANGED <<CurrentValidators, ArchivedValidators, active>>
  BY <1>1, ImportFacts
<1>5. accepted' \subseteq AcceptedRecords
  <2>1. new \subseteq AcceptedRecords
    BY <1>1, <1>2, AcceptedType
  <2> HIDE DEF new
  <2> QED BY <1>1, <1>3, <2>1
<1>6. CurrentValidators' \in Nat /\ ArchivedValidators' \in Nat /\ active' \in [0..MaxEpoch -> Nat \cup {NoSet}]
  BY <1>1, <1>4
<1>7. ActiveInv'
  <2>1. CASE e > epoch
    BY <2>1, <1>1, <1>3, <1>4 DEF JudgementsInv, ActiveInv, NoSet
  <2>2. CASE ~(e > epoch)
    BY <2>2, <1>1, <1>3, <1>4 DEF JudgementsInv, ActiveInv
  <2> QED BY <2>1, <2>2
<1>8. PastInv'
  <2>1. \A a \in accepted : a.epoch \in Nat /\ a.epoch <= epoch
    BY <1>1 DEF JudgementsInv, PastInv, AcceptedRecords
  <2>2. \A a \in new : a.epoch <= e
    BY <1>2 DEF Accepted
  <2> HIDE DEF new
  <2> QED BY <1>1, <1>3, <2>1, <2>2 DEF PastInv
<1>9. SignedByItsEpoch'
  <2> SUFFICES ASSUME NEW a \in accepted', a.block = "later", active'[a.epoch] # NoSet
               PROVE  a.signers = active'[a.epoch]
    BY DEF SignedByItsEpoch
  <2>1. CASE a \in accepted
    <3>1. a.epoch \in 0..MaxEpoch /\ a.epoch <= epoch
      BY <2>1, <1>1 DEF JudgementsInv, PastInv, AcceptedRecords
    <3>2. active'[a.epoch] = active[a.epoch]
      BY <3>1, <1>1, <1>4
    <3> QED BY <2>1, <3>2 DEF JudgementsInv, SignedByItsEpoch
  <2>2. CASE a \in new
    <3>1. PICK v \in vs : a = [epoch |-> v.epoch, signers |-> SignersOf(v, e), block |-> BlockOf(e)]
      BY <2>2 DEF Accepted
    <3>2. e = epoch /\ active' = active
      BY <3>1, <1>1, <1>4 DEF BlockOf
    <3>3. CASE v.epoch = e
      BY <3>1, <3>2, <3>3 DEF SignersOf, JudgementsInv, ActiveInv
    <3>4. CASE v.epoch # e
      <4>1. v.epoch = epoch - 1 /\ v.epoch \in 0..MaxEpoch
        BY <3>2, <3>4, <1>1, <1>2
      <4> QED BY <3>1, <3>2, <3>4, <4>1 DEF SignersOf, JudgementsInv, ActiveInv
    <3> QED BY <3>3, <3>4
  <2> QED BY <1>3, <2>1, <2>2
<1> QED
  BY <1>3, <1>5, <1>6, <1>7, <1>8, <1>9

\* CalculateNewJudgements preserves the inductive invariant.
LEMMA JudgementsStep == JudgementsInv /\ [DisputesNext]_disputesVars => JudgementsInv'
<1> SUFFICES ASSUME JudgementsInv, [DisputesNext]_disputesVars PROVE JudgementsInv'
  OBVIOUS
<1>1. CASE DisputesNext
  <2>1. PICK e \in epoch .. epoch + MaxSkip, d \in Extrinsics :
               e <= MaxEpoch /\ ImportDisputes(e, d)
    BY <1>1 DEF DisputesNext
  <2>2. e \in 0..MaxEpoch /\ e >= epoch
    BY <2>1, DisputesAssumption DEF JudgementsInv, DisputesTypeOK
  <2>3. NewJudgements(e, d)
    BY <2>1 DEF ImportDisputes
  <2>4. /\ good' \subseteq Nat /\ bad' \subseteq Nat /\ wonky' \subseteq Nat
        /\ offenders' \subseteq Nat /\ offences' \subseteq Offences
        /\ JudgedOnce' /\ OffendersAreProved' /\ OffendedOnce'
        /\ GoodReportsHaveFaults' /\ OffenceInv'
    BY <2>2, <2>3, JudgementStep
  <2>5. /\ epoch' \in 0..MaxEpoch /\ CurrentValidators' \in Nat /\ ArchivedValidators' \in Nat
        /\ accepted' \subseteq [epoch : 0..MaxEpoch, signers : Nat, block : {"first", "later"}]
        /\ active' \in [0..MaxEpoch -> Nat \cup {NoSet}]
        /\ SignedByItsEpoch' /\ ActiveInv' /\ PastInv'
    BY <2>1, <2>2, SignerStep DEF AcceptedRecords
  <2>6. DisputesTypeOK'
    BY <2>4, <2>5 DEF DisputesTypeOK
  <2> QED BY <2>4, <2>5, <2>6 DEF JudgementsInv
<1>2. CASE UNCHANGED disputesVars
  BY <1>2 DEF disputesVars, judgements, JudgementsInv, DisputesTypeOK, JudgedOnce, OffendersAreProved, OffendedOnce,
        GoodReportsHaveFaults, SignedByItsEpoch, ActiveInv, OffenceInv, PastInv
<1> QED
  BY <1>1, <1>2

-----------------------------------------------------------------------------
\* JudgementsInv is an invariant of every behaviour of the judgements.
THEOREM JudgementsInvariance == DisputesSpec => []JudgementsInv
BY JudgementsInit, JudgementsStep, PTL DEF DisputesSpec

\* The judgements stay well formed.
THEOREM JudgementsTypeTheorem == DisputesSpec => []DisputesTypeOK
BY JudgementsInvariance, PTL DEF JudgementsInv

\* No report is ever judged two ways.
THEOREM JudgedOnceTheorem == DisputesSpec => []JudgedOnce
BY JudgementsInvariance, PTL DEF JudgementsInv

\* Every offender was proved to be one.
THEOREM ProvedTheorem == DisputesSpec => []OffendersAreProved
BY JudgementsInvariance, PTL DEF JudgementsInv

\* Nobody is made an offender twice.
THEOREM OffendedOnceTheorem == DisputesSpec => []OffendedOnce
BY JudgementsInvariance, PTL DEF JudgementsInv

\* A report is found good only with an offender that voted against it.
THEOREM GoodTheorem == DisputesSpec => []GoodReportsHaveFaults
BY JudgementsInvariance, PTL DEF JudgementsInv

\* No judgement is ever taken back.
THEOREM StandTheorem == DisputesSpec => JudgementsStand
<1>1. [DisputesNext]_disputesVars => [good \subseteq good' /\ bad \subseteq bad' /\ wonky \subseteq wonky'
                        /\ offenders \subseteq offenders']_disputesVars
  BY ZenonT(60) DEF DisputesNext, ImportDisputes, NewJudgements, CopyWith, disputesVars, judgements
<1> QED
  BY <1>1, PTL DEF DisputesSpec, JudgementsStand

\* Away from epoch changes, verdicts count only with the signatures of the
\* validators of their epoch.
THEOREM SignersTheorem == DisputesSpec => []SignedByItsEpoch
BY JudgementsInvariance, PTL DEF JudgementsInv

-----------------------------------------------------------------------------
(* Safrole and BlockSeal.                                                  *)

\* Once the submission period is over, a full accumulator is what the winning
\* tickets marker of the epoch published.
MarkInv ==
    ~IsTicketSubmissionPeriod(slot) /\ AccumulatorFull => winMark = acc

IInv == TypeOK /\ ContestIsAnnounced /\ SealersAreCurrent /\ MarkInv /\ SealedWasAnnounced

-----------------------------------------------------------------------------
\* Truncating and merging invent no ticket.
LEMMA MergedSubset ==
    ASSUME NEW new
    PROVE  Merged(new) \subseteq acc \cup new /\ (new = {} => Merged(new) = acc)
BY DEF Merged, Lowest

\* The timeslot is a natural number.
LEMMA SlotIsNat ==
    ASSUME TypeOK
    PROVE  slot \in Nat
BY DEF TypeOK

\* What importing a block does to the timeslot and to the accumulator.
LEMMA AccumulatorFacts ==
    ASSUME NEW s \in Int, NEW proofs, NEW marked, NEW designated,
           slot \in Int, ImportBlock(s, proofs, marked, designated)
    PROVE  /\ slot < s /\ slot' = s
           /\ TicketsValid(proofs) /\ (proofs # <<>> => IsTicketSubmissionPeriod(s))
           /\ \/ ToEpoch(s) = ToEpoch(slot) /\ acc' = Merged(TicketsOf(proofs, s))
              \/ ToEpoch(s) > ToEpoch(slot) /\ acc' = {}
BY DEF ImportBlock, SameEpoch, NewEpoch

\* The tickets of an extrinsic are well formed, and none come from an empty one.
LEMMA TicketsOfType ==
    ASSUME TypeOK, NEW proofs \in ProofLists, NEW s \in Nat
    PROVE  /\ TicketsOf(proofs, s) \subseteq Tickets
           /\ proofs = <<>> => TicketsOf(proofs, s) = {}
           /\ \A t \in TicketsOf(proofs, s) :
                t.ring = next /\ t.entropy = eta[2] /\ t.slot = s
<1>1. /\ proofs \in Seq([id : Nat, attempt : Nat, ok : BOOLEAN])
      /\ next \in Vectors /\ eta[2] \in Int
  BY TicketAssumption DEF TypeOK
<1>2. \A i \in DOMAIN proofs : i \in Nat /\ proofs[i].id \in Nat /\ proofs[i].attempt \in Nat
  <2> SUFFICES ASSUME NEW i \in DOMAIN proofs
               PROVE i \in Nat /\ proofs[i].id \in Nat /\ proofs[i].attempt \in Nat
    OBVIOUS
  <2>1. i \in 1..Len(proofs) /\ Len(proofs) \in Nat
    BY <1>1
  <2>2. proofs[i] \in [id : Nat, attempt : Nat, ok : BOOLEAN]
    BY <1>1, <2>1, MemberOfSeq
  <2> QED BY <2>1, <2>2
<1>3. TicketsOf(proofs, s) \subseteq Tickets
  BY <1>1, <1>2 DEF TicketsOf, Tickets
<1>4. proofs = <<>> => TicketsOf(proofs, s) = {}
  BY DEF TicketsOf
<1>5. \A t \in TicketsOf(proofs, s) : t.ring = next /\ t.entropy = eta[2] /\ t.slot = s
  BY DEF TicketsOf
<1> QED
  BY <1>3, <1>4, <1>5

\* A slot has a position in its epoch.
LEMMA PositionType ==
    ASSUME NEW s \in Nat
    PROVE  TimeslotInEpoch(s) \in Int /\ Y \in Int
BY EpochAssumption DEF TimeslotInEpoch

\* What a step leaves of the pool: the same history inside an epoch, moved by one
\* place when the epoch changes.
LEMMA EntropyStep ==
    ASSUME TypeOK, NEW s \in Nat, NEW rotate \in BOOLEAN
    PROVE  LET new == NewEntropyPool(eta, s, rotate) IN
           /\ new \in [0..3 -> Int]
           /\ rotate => new[1] = eta[0] /\ new[2] = eta[1] /\ new[3] = eta[2]
           /\ ~rotate => new[2] = eta[2] /\ new[3] = eta[3]
BY DEF NewEntropyPool, TypeOK

-----------------------------------------------------------------------------
\* The genesis state satisfies the inductive invariant.
LEMMA InitInv == Init => IInv
<1> SUFFICES ASSUME Init PROVE IInv
  OBVIOUS
<1>1. PICK v \in ValidatorSets :
        /\ queued = v /\ next = v /\ current = v /\ archived = v /\ commitment = v
        /\ series = FallbackKeys(0 - 2, v)
  BY DEF Init
<1>2. v \in Vectors
  BY DEF Vectors
<1>3. TypeOK
  BY <1>1, <1>2, EpochAssumption DEF Init, TypeOK, FallbackKeys, NoMark
<1>4. ContestIsAnnounced /\ SealersAreCurrent /\ SealedWasAnnounced
  BY <1>1 DEF Init, ContestIsAnnounced, SealersAreCurrent, SealedWasAnnounced,
              FallbackKeys, NoMark
<1>5. MarkInv
  BY DEF Init, MarkInv
<1> QED
  BY <1>3, <1>4, <1>5 DEF IInv

\* A block inside an epoch.
LEMMA SameEpochStep ==
    ASSUME IInv, NEW s \in 0..MaxSlot, NEW proofs \in ProofLists,
           NEW marked \in OffenderLists, NEW designated \in ValidatorSets,
           ImportBlock(s, proofs, marked, designated),
           SameEpoch(s, TicketsOf(proofs, s))
    PROVE  IInv'
<1> DEFINE new == TicketsOf(proofs, s)
<1>0. TypeOK /\ s \in Nat /\ slot \in Nat
  BY EpochAssumption DEF IInv, TypeOK
<1>1. /\ new \subseteq Tickets
      /\ proofs = <<>> => new = {}
      /\ \A t \in new : t.ring = next /\ t.entropy = eta[2] /\ t.slot = s
  BY <1>0, TicketsOfType
<1>2. Merged(new) \subseteq acc \cup new /\ (new = {} => Merged(new) = acc)
  BY MergedSubset
<1>3. /\ acc' = Merged(new)
      /\ slot' = s /\ queued' = designated /\ submitted' = new
      /\ ToEpoch(s) = ToEpoch(slot)
      /\ winMark' = IF IsWinningTicketMarkerPeriod(slot, s) /\ AccumulatorFull
                    THEN Merged(new) ELSE winMark
      /\ UNCHANGED <<next, current, archived, commitment, series, epochMark, prevMark>>
      /\ proofs # <<>> => IsTicketSubmissionPeriod(s)
  BY DEF ImportBlock, SameEpoch
<1>4. /\ eta' \in [0..3 -> Int]
      /\ eta'[2] = eta[2] /\ eta'[3] = eta[3]
  <2>1. eta' = NewEntropyPool(eta, s, FALSE)
    <3>1. ~(ToEpoch(s) > ToEpoch(slot))
      BY <1>0, <1>3, EpochAssumption DEF ToEpoch
    <3>2. eta' = NewEntropyPool(eta, s, ToEpoch(s) > ToEpoch(slot))
      BY DEF ImportBlock
    <3> QED BY <3>1, <3>2 DEF NewEntropyPool
  <2> QED BY <2>1, <1>0, EntropyStep
<1>5. TypeOK'
  BY <1>0, <1>1, <1>2, <1>3, <1>4 DEF TypeOK
<1>6. ContestIsAnnounced' /\ SealersAreCurrent'
  BY <1>1, <1>2, <1>3, <1>4 DEF IInv, ContestIsAnnounced, SealersAreCurrent
<1>7. MarkInv'
  <2> SUFFICES ASSUME ~IsTicketSubmissionPeriod(s), Cardinality(acc') = E
               PROVE  winMark' = acc'
    BY <1>3 DEF MarkInv, AccumulatorFull, IsTicketSubmissionPeriod, TimeslotInEpoch
  <2>1. new = {} /\ acc' = acc
    BY <1>1, <1>2, <1>3
  <2>2. AccumulatorFull
    BY <2>1 DEF AccumulatorFull
  <2>3. CASE IsTicketSubmissionPeriod(slot)
    <3>1. IsWinningTicketMarkerPeriod(slot, s)
      BY <2>3, <1>0, PositionType DEF IsWinningTicketMarkerPeriod, IsTicketSubmissionPeriod
    <3> QED BY <3>1, <2>1, <2>2, <1>3
  <2>4. CASE ~IsTicketSubmissionPeriod(slot)
    <3>1. ~IsWinningTicketMarkerPeriod(slot, s)
      BY <2>4 DEF IsWinningTicketMarkerPeriod, IsTicketSubmissionPeriod
    <3> QED BY <3>1, <2>4, <2>1, <2>2, <1>3 DEF IInv, MarkInv
  <2> QED BY <2>3, <2>4
<1>8. SealedWasAnnounced'
  BY <1>3 DEF IInv, SealedWasAnnounced, ToEpoch
<1> QED
  BY <1>5, <1>6, <1>7, <1>8 DEF IInv

\* The two kinds of sealers.
Sealers == [kind : {"keys"}, entropy : Int, ring : Vectors]
              \cup [kind : {"tickets"}, tickets : SUBSET Tickets]

\* An epoch sealed with tickets: the contest they won was the next validators'.
LEMMA SealedByTickets ==
    ASSUME NEW T \in SUBSET Tickets, series' = SealingTickets(T),
           current' = next, eta'[3] = eta[2],
           \A t \in T : t.ring = next /\ t.entropy = eta[2],
           Cardinality(prevMark') = E,
           \A t \in T \ prevMark' : t.slot = slot'
    PROVE  series' \in Sealers /\ SealersAreCurrent' /\ SealedWasAnnounced'
<1>1. series' \in Sealers /\ series'.kind = "tickets" /\ series'.tickets = T
  BY DEF SealingTickets, Sealers
<1>2. SealersAreCurrent'
  BY <1>1 DEF SealersAreCurrent
<1>3. SealedWasAnnounced'
  BY <1>1 DEF SealedWasAnnounced, ToEpoch
<1> QED BY <1>1, <1>2, <1>3

\* An epoch sealed with fallback keys: they are drawn from the next validators.
LEMMA SealedByKeys ==
    ASSUME series' = FallbackKeys(eta'[2], next), current' = next,
           next \in Vectors, eta'[2] \in Int
    PROVE  series' \in Sealers /\ SealersAreCurrent' /\ SealedWasAnnounced'
<1>1. series' \in Sealers /\ series'.kind = "keys" /\ series'.ring = next
      /\ series'.entropy = eta'[2]
  BY DEF FallbackKeys, Sealers
<1>2. SealersAreCurrent'
  BY <1>1 DEF SealersAreCurrent
<1> QED BY <1>1, <1>2 DEF SealedWasAnnounced

\* The first block of an epoch.
LEMMA NewEpochStep ==
    ASSUME IInv, NEW s \in 0..MaxSlot, NEW proofs \in ProofLists,
           NEW marked \in OffenderLists, NEW designated \in ValidatorSets,
           ImportBlock(s, proofs, marked, designated),
           NewEpoch(s, TicketsOf(proofs, s), marked)
    PROVE  IInv'
<1> DEFINE new == TicketsOf(proofs, s)
           Tick == /\ ToEpoch(s) = ToEpoch(slot) + 1
                   /\ ~IsTicketSubmissionPeriod(slot)
                   /\ AccumulatorFull
<1>0. TypeOK /\ s \in Nat /\ slot \in Nat
  BY EpochAssumption DEF IInv, TypeOK
<1>1. /\ new \subseteq Tickets
      /\ \A t \in new : t.ring = next /\ t.entropy = eta[2] /\ t.slot = s
  BY <1>0, TicketsOfType
<1>2. Merged(new) \subseteq acc \cup new
  BY MergedSubset
<1>3. /\ acc' = {} /\ winMark' = {}
      /\ slot' = s /\ queued' = designated /\ submitted' = new
      /\ ToEpoch(s) > ToEpoch(slot)
      /\ next' = NullifyOffenders(queued, marked)
      /\ current' = next /\ archived' = current /\ commitment' = next'
      /\ series' = IF Tick THEN SealingTickets(Merged(new)) ELSE FallbackKeys(eta'[2], next)
      /\ epochMark' = [kind |-> "mark", entropy |-> eta[0], ticketsEntropy |-> eta[1],
                       keys |-> next']
      /\ prevMark' = IF ToEpoch(s) = ToEpoch(slot) + 1 THEN winMark ELSE {}
  BY DEF ImportBlock, NewEpoch
<1>4. /\ eta' \in [0..3 -> Int]
      /\ eta'[2] = eta[1] /\ eta'[3] = eta[2]
  <2>1. eta' = NewEntropyPool(eta, s, TRUE)
    BY <1>3 DEF ImportBlock, NewEntropyPool
  <2> QED BY <2>1, <1>0, EntropyStep, ZenonT(60)
<1>5. next' \in Vectors /\ eta[0] \in Int /\ eta[1] \in Int
  BY <1>0, <1>3 DEF TypeOK, Vectors
<1>6. /\ slot' \in 0..MaxSlot /\ queued' \in ValidatorSets
      /\ {next', current', archived', commitment'} \subseteq Vectors
      /\ acc' \subseteq Tickets /\ winMark' \subseteq Tickets
      /\ prevMark' \subseteq Tickets /\ submitted' \subseteq Tickets
  BY <1>0, <1>1, <1>3, <1>5, ZenonT(60) DEF TypeOK
<1>7. epochMark' \in [kind : {"mark"}, entropy : Int, ticketsEntropy : Int, keys : Vectors]
  BY <1>3, <1>5
<1>8. series' \in Sealers /\ SealersAreCurrent' /\ SealedWasAnnounced'
  <2>1. CASE Tick
    <3>1. series' = SealingTickets(Merged(new))
      BY <1>3, <2>1
    <3>2. prevMark' = acc /\ Cardinality(prevMark') = E
      BY <1>3, <2>1 DEF IInv, MarkInv, AccumulatorFull
    <3>3. /\ Merged(new) \subseteq Tickets
          /\ \A t \in Merged(new) : t.ring = next /\ t.entropy = eta[2]
          /\ \A t \in Merged(new) \ prevMark' : t.slot = slot'
      BY <1>0, <1>1, <1>2, <1>3, <3>2 DEF TypeOK, IInv, ContestIsAnnounced
    <3> QED BY <1>3, <1>4, <3>1, <3>2, <3>3, SealedByTickets
  <2>2. CASE ~Tick
    <3>1. series' = FallbackKeys(eta'[2], next) /\ current' = next
      BY <1>3, <2>2
    <3>2. next \in Vectors /\ eta'[2] \in Int
      BY <1>0, <1>4, <1>5 DEF TypeOK
    <3> QED BY <3>1, <3>2, SealedByKeys
  <2> QED BY <2>1, <2>2
<1>9. TypeOK'
  BY <1>4, <1>6, <1>7, <1>8 DEF TypeOK, Sealers
<1>10. ContestIsAnnounced'
  BY <1>3, <1>4 DEF ContestIsAnnounced
<1>11. MarkInv'
  BY <1>3 DEF MarkInv
<1> QED
  BY <1>8, <1>9, <1>10, <1>11 DEF IInv

\* Importing a block (UpdateSafroleState) preserves the inductive invariant.
LEMMA NextInv == IInv /\ [Next]_vars => IInv'
<1> SUFFICES ASSUME IInv, [Next]_vars PROVE IInv'
  OBVIOUS
<1>1. CASE Next
  <2>1. PICK s \in slot + 1 .. slot + MaxGap, proofs \in ProofLists,
             marked \in OffenderLists, designated \in ValidatorSets :
             s <= MaxSlot /\ ImportBlock(s, proofs, marked, designated)
    BY <1>1 DEF Next
  <2>2. s \in 0..MaxSlot
    BY <2>1, EpochAssumption DEF IInv, TypeOK
  <2>3. SameEpoch(s, TicketsOf(proofs, s)) \/ NewEpoch(s, TicketsOf(proofs, s), marked)
    BY <2>1 DEF ImportBlock
  <2> QED BY <2>1, <2>2, <2>3, SameEpochStep, NewEpochStep
<1>2. CASE UNCHANGED vars
  BY <1>2 DEF vars, validators, IInv, TypeOK, ContestIsAnnounced, SealersAreCurrent,
              MarkInv, AccumulatorFull, SealedWasAnnounced
<1> QED
  BY <1>1, <1>2

-----------------------------------------------------------------------------
\* IInv is an invariant of every behaviour of UpdateSafroleState.
THEOREM Invariance == Spec => []IInv
BY InitInv, NextInv, PTL DEF Spec

\* UpdateSafroleState keeps the state well formed.
THEOREM TypeTheorem == Spec => []TypeOK
BY Invariance, PTL DEF IInv

\* Sealing keys and tickets always belong to the current validators, under the
\* entropy with which a seal is checked.
THEOREM SealersTheorem == Spec => []SealersAreCurrent
BY Invariance, PTL DEF IInv

\* The accumulator only holds answers to the contest of the last epoch marker.
THEOREM ContestTheorem == Spec => []ContestIsAnnounced
BY Invariance, PTL DEF IInv

\* An epoch is sealed with tickets only after its winners were announced, and
\* only the block that changes the epoch can alter them.
THEOREM AnnouncedTheorem == Spec => []SealedWasAnnounced
BY Invariance, PTL DEF IInv

-----------------------------------------------------------------------------
(* The accumulator is a contest: what is cut off has lost against E others. *)

\* The number of tickets with a smaller identifier.
Rank(tickets, t) == Cardinality({u \in tickets : u.id < t.id})

\* A finite set of tickets of which no two have the same identifier.
Distinct(tickets) ==
    /\ IsFiniteSet(tickets)
    /\ \A t \in tickets : t.id \in Nat
    /\ \A t, u \in tickets : t.id = u.id => t = u

\* A non-empty set of natural numbers has a least element.
LEMMA LeastExists ==
  ASSUME NEW S \in SUBSET Nat, S # {}
  PROVE  \E n \in S : \A m \in S : n <= m
<1>1. PICK n \in S : \A m \in S : <<m, n>> \notin OpToRel(<, Nat)
  BY NatLessThanWellFounded, WFMin, Zenon
<1>2. \A m \in S : ~(m < n)
  BY <1>1 DEF OpToRel
<1> QED BY <1>2

\* A smaller identifier has a smaller rank.
LEMMA RankOrder ==
  ASSUME NEW S, Distinct(S), NEW t \in S, NEW u \in S
  PROVE  /\ Rank(S, t) \in Nat
         /\ t.id < u.id <=> Rank(S, t) < Rank(S, u)
<1> DEFINE Below(v) == {w \in S : w.id < v.id}
<1>1. ASSUME NEW v \in S
      PROVE  IsFiniteSet(Below(v)) /\ Cardinality(Below(v)) \in Nat
  <2>1. Below(v) \in SUBSET S
    OBVIOUS
  <2> QED BY <2>1, FS_Subset, FS_CardinalityType DEF Distinct
<1>2. ASSUME NEW v \in S, NEW w \in S, v.id <= w.id
      PROVE  Cardinality(Below(v)) <= Cardinality(Below(w))
  <2>1. Below(v) \in SUBSET Below(w)
    BY <1>2 DEF Distinct
  <2> QED BY <1>1, <2>1, FS_Subset
<1>3. ASSUME NEW v \in S, NEW w \in S, v.id < w.id
      PROVE  Cardinality(Below(v)) < Cardinality(Below(w))
  <2>1. Below(v) \in SUBSET Below(w) /\ v \in Below(w) /\ v \notin Below(v)
    BY <1>3 DEF Distinct
  <2>2. Cardinality(Below(v)) # Cardinality(Below(w))
    BY <1>1, <2>1, FS_Subset
  <2>3. Cardinality(Below(v)) <= Cardinality(Below(w))
    BY <1>1, <2>1, FS_Subset
  <2> HIDE DEF Below
  <2> QED BY <1>1, <2>2, <2>3
<1>4. t.id \in Nat /\ u.id \in Nat
  BY DEF Distinct
<1>5. Rank(S, t) = Cardinality(Below(t)) /\ Rank(S, u) = Cardinality(Below(u))
  BY DEF Rank
<1> HIDE DEF Below
<1>6. Cardinality(Below(t)) \in Nat /\ Cardinality(Below(u)) \in Nat
  BY <1>1
<1>7. t.id < u.id => Cardinality(Below(t)) < Cardinality(Below(u))
  BY <1>3
<1>8. u.id <= t.id => Cardinality(Below(u)) <= Cardinality(Below(t))
  BY <1>2
<1> QED BY <1>4, <1>5, <1>6, <1>7, <1>8

\* Cutting the accumulator keeps at most E tickets, and E smaller ones when it drops
\* one.
LEMMA LowestFacts ==
  ASSUME NEW S, Distinct(S)
  PROVE  /\ Distinct(Lowest(S)) /\ Cardinality(Lowest(S)) <= E
         /\ \A t \in S \ Lowest(S) : Cardinality({u \in Lowest(S) : u.id < t.id}) = E
<1> DEFINE B == Lowest(S)
<1>1. /\ B \subseteq S /\ E \in Nat
      /\ \A t \in S : t \in B <=> Rank(S, t) < E
  BY EpochAssumption DEF Lowest, Rank
<1> HIDE DEF B
<1>2. \A t \in S : t.id \in Nat
  BY DEF Distinct
<1>3. Distinct(B)
  BY <1>1, FS_Subset DEF Distinct
<1>4. Cardinality(B) \in Nat /\ Cardinality(B) <= E
  <2> DEFINE f == [t \in B |-> Rank(S, t)]
  <2>1. f \in [B -> 0..E - 1]
    BY <1>1, RankOrder
  <2>2. \A t, u \in B : f[t] = f[u] => t = u
    <3> SUFFICES ASSUME NEW t \in B, NEW u \in B, f[t] = f[u] PROVE t = u
      OBVIOUS
    <3>1. t \in S /\ u \in S /\ Rank(S, t) = Rank(S, u)
      BY <1>1
    <3>2. /\ Rank(S, t) \in Nat /\ Rank(S, u) \in Nat
          /\ (t.id < u.id => Rank(S, t) < Rank(S, u))
          /\ (u.id < t.id => Rank(S, u) < Rank(S, t))
      BY <3>1, RankOrder
    <3>3. t.id = u.id
      BY <1>2, <3>1, <3>2
    <3> QED BY <3>1, <3>3 DEF Distinct
  <2>3. f \in Injection(B, 0..E - 1)
    BY <2>1, <2>2 DEF Injection, IsInjective
  <2>4. IsFiniteSet(0..E - 1) /\ Cardinality(0..E - 1) = E
    BY <1>1, FS_Interval
  <2> HIDE DEF f
  <2>5. Cardinality(B) <= Cardinality(0..E - 1)
    BY <2>3, <2>4, FS_Injection
  <2> QED BY <1>3, <2>4, <2>5, FS_CardinalityType DEF Distinct
<1>5. ASSUME NEW t \in S \ B
      PROVE  Cardinality({u \in B : u.id < t.id}) = E
  <2> DEFINE Ids == {u.id : u \in S \ B}
  <2>1. PICK n \in Ids : \A m \in Ids : n <= m
    <3>1. Ids \in SUBSET Nat /\ Ids # {}
      BY <1>2, <1>5
    <3> HIDE DEF Ids
    <3> QED BY <3>1, LeastExists
  <2>2. PICK w \in S \ B : \A u \in S \ B : w.id <= u.id
    BY <2>1
  <2> HIDE DEF Ids
  <2>3. ASSUME NEW u \in B, NEW v \in S \ B PROVE u.id < v.id
    <3>1. /\ Rank(S, u) < E /\ ~(Rank(S, v) < E)
          /\ u \in S /\ v \in S
      BY <1>1
    <3>2. /\ Rank(S, u) \in Nat /\ Rank(S, v) \in Nat
          /\ (u.id < v.id <=> Rank(S, u) < Rank(S, v))
      BY <3>1, RankOrder
    <3> QED BY <1>1, <3>1, <3>2
  <2>4. {u \in S : u.id < w.id} = B
    <3>1. ASSUME NEW u \in S, u.id < w.id PROVE u \in B
      BY <1>2, <2>2, <3>1
    <3> QED BY <1>1, <2>2, <2>3, <3>1
  <2>5. {u \in B : u.id < t.id} = B
    BY <1>5, <2>3
  <2>6. Cardinality(B) = Rank(S, w) /\ ~(Rank(S, w) < E)
    BY <1>1, <2>2, <2>4, ZenonT(60) DEF Rank
  <2> QED BY <1>1, <1>4, <2>5, <2>6
<1> QED BY <1>3, <1>4, <1>5 DEF B

\* The accumulator is such a set, and holds at most an epoch of tickets.
RankedInv == Distinct(acc) /\ Cardinality(acc) <= E

\* A position inside a strictly rising sequence of identifiers.
LEMMA RisingOrder ==
  ASSUME NEW f, NEW n \in Nat, \A i \in 1..n : f[i] \in Nat,
         \A i \in 1..n - 1 : f[i] < f[i + 1]
  PROVE  \A i, j \in 1..n : i < j => f[i] < f[j]
<1> SUFFICES ASSUME NEW i \in 1..n, NEW j \in 1..n, i < j, ~(f[i] < f[j])
             PROVE  FALSE
  OBVIOUS
<1> DEFINE Bad == {k \in 1..n : i < k /\ ~(f[i] < f[k])}
<1>1. PICK k \in Bad : \A m \in Bad : k <= m
  <2>1. Bad \in SUBSET Nat /\ Bad # {}
    OBVIOUS
  <2> HIDE DEF Bad
  <2> QED BY <2>1, LeastExists
<1>2. k \in 1..n /\ i < k /\ ~(f[i] < f[k])
  BY <1>1
<1>3. k - 1 \in 1..n - 1 /\ f[k - 1] < f[(k - 1) + 1] /\ (k - 1) + 1 = k
  BY <1>2
<1>4. CASE i = k - 1
  BY <1>2, <1>3, <1>4
<1>5. CASE i # k - 1
  <2>1. k - 1 \in 1..n /\ i < k - 1 /\ ~(k <= k - 1)
    BY <1>2, <1>5
  <2>2. f[i] < f[k - 1]
    BY <1>1, <2>1
  <2>3. f[i] \in Nat /\ f[k - 1] \in Nat /\ f[k] \in Nat /\ f[k - 1] < f[k]
    BY <1>2, <1>3, <2>1
  <2> QED BY <1>2, <2>2, <2>3
<1> QED BY <1>4, <1>5

\* A sequence that rises has no value twice.
LEMMA RisingInjective ==
  ASSUME NEW f, NEW n \in Nat, \A i \in 1..n : f[i] \in Nat,
         \A i, j \in 1..n : i < j => f[i] < f[j]
  PROVE  \A i, j \in 1..n : f[i] = f[j] => i = j
<1> SUFFICES ASSUME NEW i \in 1..n, NEW j \in 1..n, f[i] = f[j], i # j
             PROVE  FALSE
  OBVIOUS
<1>1. f[i] \in Nat /\ ~(f[i] < f[i]) /\ (i < j \/ j < i)
  OBVIOUS
<1> QED BY <1>1

\* A later slot is a natural number.
LEMMA LaterSlot ==
  ASSUME NEW a \in Nat, NEW m, NEW s \in a + 1 .. a + m
  PROVE  s \in Nat
OBVIOUS

\* What is not before a limit does not come before it later in the epoch.
LEMMA LaterPosition ==
  ASSUME NEW r0 \in Int, NEW r \in Int, NEW y \in Int, r0 < r, ~(r0 < y)
  PROVE  ~(r < y)
OBVIOUS

\* The tickets of an accepted extrinsic join a set of that kind.
LEMMA JoinedDistinct ==
  ASSUME TypeOK, Distinct(acc), NEW s \in Nat, NEW proofs \in ProofLists, TicketsValid(proofs)
  PROVE  Distinct(acc \cup TicketsOf(proofs, s))
<1> DEFINE new == TicketsOf(proofs, s)
           n == Len(proofs)
           ticket == [i \in 1..n |->
              [id |-> proofs[i].id, attempt |-> proofs[i].attempt, ring |-> next,
               entropy |-> eta[2], slot |-> s, pos |-> i]]
           ids == [i \in 1..n |-> proofs[i].id]
<1>1. /\ proofs \in Seq([id : Nat, attempt : Nat, ok : BOOLEAN])
      /\ n \in Nat /\ DOMAIN proofs = 1..n
  BY TicketAssumption
<1>2. \A i \in 1..n : proofs[i].id \in Nat
  <2> SUFFICES ASSUME NEW i \in 1..n PROVE proofs[i].id \in Nat
    OBVIOUS
  <2>1. proofs[i] \in [id : Nat, attempt : Nat, ok : BOOLEAN]
    BY <1>1, MemberOfSeq
  <2> QED BY <2>1
<1>3. /\ \A i \in 1..n : \A t \in acc : t.id # proofs[i].id
      /\ \A i \in 1..n - 1 : proofs[i].id < proofs[i + 1].id
  BY <1>1 DEF TicketsValid
<1> HIDE DEF n
<1>4. \A i, j \in 1..n : i < j => ids[i] < ids[j]
  <2>1. \A i \in 1..n - 1 : ids[i] < ids[i + 1]
    BY <1>1, <1>3
  <2>2. \A i \in 1..n : ids[i] \in Nat
    BY <1>2
  <2> HIDE DEF ids
  <2> QED BY <1>1, <2>1, <2>2, RisingOrder
<1>5. \A i, j \in 1..n : proofs[i].id = proofs[j].id => i = j
  <2>1. \A i \in 1..n : ids[i] \in Nat /\ ids[i] = proofs[i].id
    BY <1>2
  <2> HIDE DEF ids
  <2>2. \A i, j \in 1..n : ids[i] = ids[j] => i = j
    BY <1>1, <1>4, <2>1, RisingInjective
  <2> QED BY <2>1, <2>2
<1>6. new = {ticket[i] : i \in 1..n}
  BY <1>1 DEF TicketsOf
<1>7. IsFiniteSet(new)
  <2>1. ticket \in Surjection(1..n, new)
    BY <1>6 DEF Surjection
  <2>2. IsFiniteSet(1..n)
    BY <1>1, FS_Interval
  <2> HIDE DEF ticket, new
  <2> QED BY <2>1, <2>2, FS_Surjection
<1>8. \A t \in new : \E i \in 1..n : t = ticket[i] /\ t.id = proofs[i].id
  <2>1. \A i \in 1..n : ticket[i].id = proofs[i].id
    OBVIOUS
  <2> HIDE DEF new, ticket
  <2> QED BY <1>6, <2>1
<1> HIDE DEF new, ticket
<1>9. IsFiniteSet(acc \cup new)
  BY <1>7, FS_Union DEF Distinct
<1>10. \A t \in acc \cup new : t.id \in Nat
  BY <1>2, <1>8 DEF Distinct
<1>11. \A t, u \in acc \cup new : t.id = u.id => t = u
  <2> SUFFICES ASSUME NEW t \in acc \cup new, NEW u \in acc \cup new, t.id = u.id
               PROVE  t = u
    OBVIOUS
  <2>1. CASE t \in acc /\ u \in acc
    BY <2>1 DEF Distinct
  <2>2. CASE t \in new /\ u \in new
    BY <1>5, <1>8, <2>2
  <2>3. CASE t \in acc /\ u \in new
    BY <1>3, <1>8, <2>3
  <2>4. CASE t \in new /\ u \in acc
    BY <1>3, <1>8, <2>4
  <2> QED BY <2>1, <2>2, <2>3, <2>4
<1> QED BY <1>9, <1>10, <1>11 DEF Distinct, new

\* Every step imports a block, with a list of ticket proofs, at a later timeslot.
LEMMA AccumulatorStep ==
  ASSUME TypeOK, Next
  PROVE  \E s \in Nat, proofs \in ProofLists :
           /\ slot \in Nat /\ slot < s /\ slot' = s
           /\ TicketsValid(proofs) /\ (proofs # <<>> => IsTicketSubmissionPeriod(s))
           /\ \/ ToEpoch(s) = ToEpoch(slot) /\ acc' = Merged(TicketsOf(proofs, s))
              \/ ToEpoch(s) > ToEpoch(slot) /\ acc' = {}
<1>1. PICK s \in slot + 1 .. slot + MaxGap, proofs \in ProofLists,
           marked \in OffenderLists, designated \in ValidatorSets :
           s <= MaxSlot /\ ImportBlock(s, proofs, marked, designated)
  BY DEF Next
<1>2. slot \in Nat
  BY SlotIsNat
<1>3. s \in Nat
  BY <1>1, <1>2, LaterSlot
<1>4. s \in Int /\ slot \in Int
  BY <1>2, <1>3
<1>5. /\ slot < s /\ slot' = s
      /\ TicketsValid(proofs) /\ (proofs # <<>> => IsTicketSubmissionPeriod(s))
      /\ \/ ToEpoch(s) = ToEpoch(slot) /\ acc' = Merged(TicketsOf(proofs, s))
         \/ ToEpoch(s) > ToEpoch(slot) /\ acc' = {}
  BY <1>1, <1>4, AccumulatorFacts
<1> QED BY <1>2, <1>3, <1>5, Zenon

\* What a block does to the accumulator.
LEMMA RankedStep ==
  ASSUME TypeOK, RankedInv, Next
  PROVE  /\ RankedInv'
         /\ ToEpoch(slot') = ToEpoch(slot) =>
              /\ \A t \in acc \ acc' : Cardinality({u \in acc' : u.id < t.id}) = E
              /\ ~IsTicketSubmissionPeriod(slot) => acc' = acc
<1>1. PICK s \in Nat, proofs \in ProofLists :
        /\ slot \in Nat /\ slot < s /\ slot' = s
        /\ TicketsValid(proofs) /\ (proofs # <<>> => IsTicketSubmissionPeriod(s))
        /\ \/ ToEpoch(s) = ToEpoch(slot) /\ acc' = Merged(TicketsOf(proofs, s))
           \/ ToEpoch(s) > ToEpoch(slot) /\ acc' = {}
  BY AccumulatorStep, Zenon
<1> DEFINE new == TicketsOf(proofs, s)
<1>2. slot \in Nat /\ s \in Nat /\ slot < s /\ slot' = s
  BY <1>1, Zenon
<1>3. /\ TicketsValid(proofs) /\ (proofs # <<>> => IsTicketSubmissionPeriod(s))
      /\ \/ ToEpoch(s) = ToEpoch(slot) /\ acc' = Merged(new)
         \/ ToEpoch(s) > ToEpoch(slot) /\ acc' = {}
  BY <1>1, Zenon
<1>4. Distinct(acc \cup new)
  BY <1>1, <1>2, <1>3, JoinedDistinct DEF RankedInv
<1>5. ToEpoch(s) \in Int /\ ToEpoch(slot) \in Int /\ E \in Nat \ {0}
  BY <1>2, EpochAssumption DEF ToEpoch
<1> HIDE DEF new
<1>6. CASE ToEpoch(s) > ToEpoch(slot) /\ acc' = {}
  <2>1. RankedInv'
    BY <1>5, <1>6, FS_EmptySet DEF RankedInv, Distinct
  <2>2. ToEpoch(slot') # ToEpoch(slot)
    BY <1>2, <1>5, <1>6
  <2> QED BY <2>1, <2>2
<1>7. CASE ToEpoch(s) = ToEpoch(slot) /\ acc' = Merged(new)
  <2>1. /\ Distinct(acc')
        /\ Cardinality(acc') <= E
        /\ \A t \in acc \ acc' : Cardinality({u \in acc' : u.id < t.id}) = E
    <3>1. CASE new = {}
      BY <1>7, <3>1 DEF Merged, RankedInv
    <3>2. CASE new # {}
      BY <1>4, <1>7, <3>2, LowestFacts DEF Merged
    <3> QED BY <3>1, <3>2
  <2>2. ~IsTicketSubmissionPeriod(slot) => acc' = acc
    <3> SUFFICES ASSUME ~IsTicketSubmissionPeriod(slot) PROVE acc' = acc
      OBVIOUS
    <3> DEFINE q == s \div E
               r == s % E
               r0 == slot % E
    <3>1. q \in Int /\ r \in Int /\ s = E * q + r
      BY <1>2, <1>5
    <3>2. r0 \in Int /\ slot = E * (slot \div E) + r0 /\ slot \div E = q
      BY <1>2, <1>5, <1>7 DEF ToEpoch
    <3>3. ~(r0 < Y) /\ Y \in Int
      BY EpochAssumption DEF IsTicketSubmissionPeriod, TimeslotInEpoch
    <3>4. IsTicketSubmissionPeriod(s) <=> r < Y
      BY DEF IsTicketSubmissionPeriod, TimeslotInEpoch
    <3> HIDE DEF q, r, r0
    <3>5. E * q \in Int /\ slot = E * q + r0
      <4>1. slot = E * q + r0
        BY <3>2, Zenon
      <4> QED BY <1>5, <3>1, <4>1
    <3> DEFINE m == E * q
    <3>6. m \in Int /\ s = m + r /\ slot = m + r0
      BY <3>1, <3>5
    <3> HIDE DEF m
    <3>7. r0 < r
      BY <1>2, <3>1, <3>2, <3>6
    <3>8. ~IsTicketSubmissionPeriod(s)
      BY <3>1, <3>2, <3>3, <3>4, <3>7, LaterPosition
    <3>9. new = {}
      BY <1>3, <3>8 DEF new, TicketsOf
    <3> QED BY <1>7, <3>9 DEF Merged
  <2> QED BY <2>1, <2>2 DEF RankedInv
<1> QED BY <1>3, <1>6, <1>7

\* The accumulator never holds two tickets with one identifier nor more than an
\* epoch of them.
THEOREM RankedTheorem == Spec => []AccumulatorRanked
<1>1. Init => RankedInv
  BY EpochAssumption, FS_EmptySet DEF Init, RankedInv, Distinct
<1>2. TypeOK /\ RankedInv /\ [Next]_vars => RankedInv'
  BY RankedStep DEF vars, RankedInv, Distinct
<1>3. RankedInv => AccumulatorRanked
  BY DEF RankedInv, Distinct, AccumulatorRanked
<1> QED BY <1>1, <1>2, <1>3, TypeTheorem, PTL DEF Spec

\* The contest is fair: a ticket is only ever displaced by E better ones, and closed
\* when the submission period is over (calculateTickets and the merge that follows).
THEOREM BestTicketsTheorem == Spec => BestTicketsKept
<1> DEFINE Kept ==
      ToEpoch(slot') = ToEpoch(slot) =>
        /\ \A t \in acc \ acc' : Cardinality({u \in acc' : u.id < t.id}) = E
        /\ ~IsTicketSubmissionPeriod(slot) => acc' = acc
<1>1. Init => RankedInv
  BY EpochAssumption, FS_EmptySet DEF Init, RankedInv, Distinct
<1>2. TypeOK /\ RankedInv /\ [Next]_vars => RankedInv' /\ [Kept]_vars
  BY RankedStep DEF vars, RankedInv, Distinct
<1> QED BY <1>1, <1>2, TypeTheorem, PTL DEF Spec, BestTicketsKept

-----------------------------------------------------------------------------
\* Every slot has one author: whatever blocks Safrole imports, exactly one current
\* validator can seal for an entry of the series, and VerifyBlockSeal accepts its
\* header and no other key's.
THEOREM OneAuthorTheorem == Spec => []SlotsHaveOneAuthor
<1>1. TypeOK /\ SealersAreCurrent => SlotsHaveOneAuthor
  BY OneAuthor
<1> QED
  BY <1>1, TypeTheorem, SealersTheorem, PTL

=============================================================================
