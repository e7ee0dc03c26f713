--------------------------- MODULE PreimagesProofs ---------------------------
(***************************************************************************)
(* For every set of hashes and lengths, every expulsion period and every   *)
(* number of slots: the histories of a service are ordered intervals, what *)
(* it stores was requested, and what a lookup at one of the last D slots   *)
(* answers is settled, but for the bytes Forget deletes for another        *)
(* length.  And for every set of services and keys    *)
(* and every threshold balance: the two contexts of an accumulation.       *)
(***************************************************************************)
EXTENDS Preimages, AccumulateContext, SequenceTheorems, FiniteSetTheorems, TLAPS

\* The real key of a hash is a key.
LEMMA RealKeyIsKey == \A h \in Hashes : RealKey(h) \in Keys /\ RealKey(h).hash = h
  BY PreimagesAssumption DEF RealKey, Keys

\* Two hashes have two real keys.
LEMMA RealKeyInjective == \A h, g \in Hashes : RealKey(h) = RealKey(g) => h = g
  BY RealKeyIsKey

\* The shape of a history after a time slot is appended.
LEMMA Appended ==
  ASSUME NEW h \in Seq(0..MaxSlot), NEW s \in 0..MaxSlot
  PROVE  /\ Append(h, s) \in Seq(0..MaxSlot)
         /\ Len(Append(h, s)) = Len(h) + 1
         /\ Append(h, s)[Len(h) + 1] = s
         /\ \A i \in 1..Len(h) : Append(h, s)[i] = h[i]
  BY AppendProperties

\* What HistoryOrdered says of the history of one request.
Ordered(h, s) ==
  /\ h \in Seq(0..MaxSlot)
  /\ Len(h) <= 3
  /\ \A i, j \in 1..Len(h) : i <= j => h[i] <= h[j]
  /\ \A i \in 1..Len(h) : h[i] <= s

\* A slot to come is not a slot already passed.
LEMMA NotYet ==
  ASSUME NEW s \in 0..MaxSlot, NEW t \in Nat, t < s
  PROVE  ~ (s <= t)
  BY PreimagesAssumption

\* An empty history is ordered.
LEMMA EmptyOrdered == \A s : Ordered(<<>>, s)
  BY DEF Ordered

\* The current slot may be appended to a history of at most two.
LEMMA AppendOrdered ==
  ASSUME NEW s \in 0..MaxSlot, NEW h, Ordered(h, s), Len(h) <= 2
  PROVE  Ordered(Append(h, s), s)
<1> DEFINE a == Append(h, s)
<1>1. /\ h \in Seq(0..MaxSlot) /\ Len(h) \in Nat
      /\ \A i \in 1..Len(h) : h[i] \in 0..MaxSlot
  BY ElementOfSeq, LenProperties DEF Ordered
<1>2. /\ a \in Seq(0..MaxSlot) /\ Len(a) = Len(h) + 1 /\ a[Len(h) + 1] = s
      /\ \A i \in 1..Len(h) : a[i] = h[i]
  BY <1>1, Appended
<1> HIDE DEF a
<1>3. \A i \in 1..Len(a) : a[i] <= s
  <2> TAKE i \in 1..Len(a)
  <2>1. i \in 1..Len(h) \/ i = Len(h) + 1
    BY <1>1, <1>2
  <2>2. s <= s
    BY PreimagesAssumption
  <2> QED BY <1>2, <2>1, <2>2 DEF Ordered
<1>4. \A i, j \in 1..Len(a) : i <= j => a[i] <= a[j]
  <2> TAKE i, j \in 1..Len(a)
  <2> HAVE i <= j
  <2>1. CASE j = Len(h) + 1
    BY <2>1, <1>2, <1>3
  <2>2. CASE j # Len(h) + 1
    <3>1. i \in 1..Len(h) /\ j \in 1..Len(h)
      BY <2>2, <1>1, <1>2
    <3>2. h[i] <= h[j]
      BY <3>1 DEF Ordered
    <3> QED BY <3>1, <3>2, <1>2
  <2> QED BY <2>1, <2>2
<1> QED BY <1>1, <1>2, <1>3, <1>4 DEF Ordered, a

\* Forgetting again keeps the last slot of three and the current one.
LEMMA PairOrdered ==
  ASSUME NEW s \in 0..MaxSlot, NEW h, Ordered(h, s), Len(h) = 3
  PROVE  Ordered(<<h[3], s>>, s)
<1>0. h \in Seq(0..MaxSlot) /\ \A i \in 1..3 : h[i] <= s
  BY DEF Ordered
<1>1. h[3] \in 0..MaxSlot /\ h[3] <= s
  <2>1. 3 \in 1..3
    OBVIOUS
  <2> QED BY <1>0, <2>1, ElementOfSeq
<1> QED BY <1>1, PreimagesAssumption DEF Ordered

\* A later block leaves a history ordered.
LEMMA LaterOrdered ==
  ASSUME NEW s \in 0..MaxSlot, NEW r \in 0..MaxSlot, s <= r, NEW h, Ordered(h, s)
  PROVE  Ordered(h, r)
<1>0. h \in Seq(0..MaxSlot)
  BY DEF Ordered
<1>1. \A i \in 1..Len(h) : h[i] \in 0..MaxSlot
  BY <1>0, ElementOfSeq
<1> QED BY <1>1, PreimagesAssumption DEF Ordered

\* The inductive invariant: the three invariants, with the histories taken one
\* by one.
IInv ==
  /\ TypeOK
  /\ \A k \in Keys : Ordered(hist[k], slot)
  /\ \A k \in Keys : k \notin known => hist[k] = <<>>
  /\ StoredWasRequested

\* It contains HistoryOrdered.
LEMMA IInvOrdered == IInv => HistoryOrdered
  BY DEF IInv, Ordered, HistoryOrdered

\* A step that sets the history of one request to an ordered one keeps the
\* others.
LEMMA OneHistory ==
  ASSUME IInv, NEW k \in Keys, NEW h, Ordered(h, slot), slot' = slot,
         hist' = [hist EXCEPT ![k] = h]
  PROVE  /\ hist' \in [Keys -> Seq(0..MaxSlot)]
         /\ hist'[k] = h
         /\ \A j \in Keys : j # k => hist'[j] = hist[j]
         /\ \A j \in Keys : Ordered(hist'[j], slot')
<1>1. hist \in [Keys -> Seq(0..MaxSlot)] /\ h \in Seq(0..MaxSlot)
  BY DEF IInv, TypeOK, Ordered
<1>2. /\ hist' \in [Keys -> Seq(0..MaxSlot)]
      /\ hist'[k] = h
      /\ \A j \in Keys : j # k => hist'[j] = hist[j]
  BY <1>1
<1>3. \A j \in Keys : Ordered(hist'[j], slot')
  BY <1>2 DEF IInv
<1> QED BY <1>2, <1>3

\* IInv holds initially.
LEMMA InitIInv == Init => IInv
<1> SUFFICES ASSUME Init PROVE IInv
  OBVIOUS
<1>1. TypeOK
  BY PreimagesAssumption DEF Init, TypeOK
<1>2. \A k \in Keys : hist[k] = <<>>
  BY DEF Init
<1>3. \A k \in Keys : Ordered(hist[k], slot)
  BY <1>2, EmptyOrdered
<1> QED BY <1>1, <1>2, <1>3 DEF Init, IInv, StoredWasRequested

\* Every step keeps IInv.
LEMMA StepIInv == IInv /\ [Next]_vars => IInv'
<1> SUFFICES ASSUME IInv, [Next]_vars PROVE IInv'
  OBVIOUS
<1> USE DEF IInv
<1>T. /\ slot \in 0..MaxSlot /\ known \subseteq Keys /\ lookup \subseteq Hashes
      /\ hist \in [Keys -> Seq(0..MaxSlot)]
      /\ answer \in {"OK", "FULL", "HUH"}
      /\ MaxSlot \in Nat /\ slot \in Nat
  BY PreimagesAssumption DEF TypeOK
<1>L. \A k \in Keys : Len(hist[k]) \in Nat
  BY <1>T, LenProperties
<1>1. CASE NextBlock
  <2>1. slot' \in 0..MaxSlot /\ slot <= slot'
    BY <1>1, <1>T DEF NextBlock
  <2>2. UNCHANGED <<known, hist, lookup, answer>>
    BY <1>1 DEF NextBlock
  <2>3. \A k \in Keys : Ordered(hist'[k], slot')
    BY <2>1, <2>2, <1>T, LaterOrdered
  <2> QED BY <2>1, <2>2, <2>3, <1>T DEF TypeOK, StoredWasRequested
<1>2. ASSUME NEW k \in Keys, SolicitNew(k) PROVE IInv'
  <2>1. /\ \A j \in Keys : Ordered(hist'[j], slot') /\ hist'[j] = hist[j]
        /\ hist' \in [Keys -> Seq(0..MaxSlot)]
    BY <1>2, EmptyOrdered, OneHistory DEF SolicitNew
  <2>2. slot' = slot /\ lookup' = lookup /\ known' = known \cup {k}
        /\ answer' \in {"OK", "FULL"}
    BY <1>2 DEF SolicitNew, Afforded
  <2>3. \A h \in lookup' : RealKey(h) \in known' /\ Len(hist'[RealKey(h)]) > 0
    BY <2>1, <2>2, <1>T, RealKeyIsKey DEF StoredWasRequested
  <2> QED BY <2>1, <2>2, <2>3, <1>T DEF TypeOK, StoredWasRequested
<1>3. ASSUME NEW k \in Keys, UNCHANGED <<slot, known, lookup>>,
             hist' = [hist EXCEPT ![k] = Append(@, slot)],
             k \in known, Len(hist[k]) <= 2, answer' \in {"OK", "FULL"}
      PROVE IInv'
  <2> DEFINE h == Append(hist[k], slot)
  <2>1. Ordered(h, slot) /\ Len(h) > 0
    BY <1>3, <1>T, <1>L, AppendOrdered, Appended
  <2> HIDE DEF h
  <2>2. hist' = [hist EXCEPT ![k] = h]
    BY <1>3 DEF h
  <2>3. /\ hist' \in [Keys -> Seq(0..MaxSlot)]
        /\ hist'[k] = h
        /\ \A j \in Keys : j # k => hist'[j] = hist[j]
        /\ \A j \in Keys : Ordered(hist'[j], slot')
    BY <1>3, <2>1, <2>2, OneHistory
  <2>4. \A j \in Keys : j \notin known' => hist'[j] = <<>>
    BY <1>3, <2>3
  <2>5. \A g \in lookup' : RealKey(g) \in known' /\ Len(hist'[RealKey(g)]) > 0
    BY <1>3, <2>1, <2>3, <1>T, RealKeyIsKey DEF StoredWasRequested
  <2> QED BY <1>3, <2>3, <2>4, <2>5, <1>T DEF TypeOK, StoredWasRequested
<1>4. ASSUME NEW k \in Keys, SolicitAgain(k) PROVE IInv'
  <2>1. /\ UNCHANGED <<slot, known, lookup>> /\ k \in known /\ Len(hist[k]) <= 2
        /\ answer' \in {"OK", "FULL"}
    BY <1>4, <1>L DEF SolicitAgain, Afforded
  <2>2. hist' = [hist EXCEPT ![k] = Append(@, slot)]
    BY <1>4 DEF SolicitAgain
  <2> QED BY <1>3, <2>1, <2>2
<1>5. ASSUME NEW k \in Keys, Remove(k) PROVE IInv'
  <2>1. /\ hist' \in [Keys -> Seq(0..MaxSlot)]
        /\ hist'[k] = <<>>
        /\ \A j \in Keys : j # k => hist'[j] = hist[j]
        /\ \A j \in Keys : Ordered(hist'[j], slot')
    BY <1>5, EmptyOrdered, OneHistory DEF Remove
  <2>2. slot' = slot /\ known' = known \ {k} /\ lookup' = lookup \ {k.hash}
        /\ answer' = "OK"
    BY <1>5 DEF Remove
  <2>3. \A h \in lookup' : RealKey(h) # k
    BY <2>2, <1>T, RealKeyIsKey
  <2>4. \A h \in lookup' : RealKey(h) \in known' /\ Len(hist'[RealKey(h)]) > 0
    BY <2>1, <2>2, <2>3, <1>T, RealKeyIsKey DEF StoredWasRequested
  <2>5. \A j \in Keys : j \notin known' => hist'[j] = <<>>
    BY <2>1, <2>2
  <2> QED BY <2>1, <2>2, <2>4, <2>5, <1>T DEF TypeOK, StoredWasRequested
<1>6. ASSUME NEW k \in Keys, ForgetSupplied(k) PROVE IInv'
  <2>1. k \in known
    BY <1>6 DEF ForgetSupplied
  <2>2. /\ UNCHANGED <<slot, known, lookup>> /\ Len(hist[k]) <= 2
        /\ answer' \in {"OK", "FULL"}
    BY <1>6, <1>L DEF ForgetSupplied
  <2>3. hist' = [hist EXCEPT ![k] = Append(@, slot)]
    BY <1>6 DEF ForgetSupplied
  <2> QED BY <1>3, <2>1, <2>2, <2>3
<1>7. ASSUME NEW k \in Keys, ForgetAgain(k) PROVE IInv'
  <2> DEFINE h == <<hist[k][3], slot>>
  <2>1. k \in known
    BY <1>7 DEF ForgetAgain
  <2>2. Ordered(h, slot) /\ Len(h) = 2
    BY <1>7, <1>T, PairOrdered DEF ForgetAgain
  <2>3. hist' = [hist EXCEPT ![k] = h] /\ UNCHANGED <<slot, known, lookup>>
        /\ answer' = "OK"
    BY <1>7 DEF ForgetAgain
  <2> HIDE DEF h
  <2>4. /\ hist' \in [Keys -> Seq(0..MaxSlot)]
        /\ hist'[k] = h
        /\ \A j \in Keys : j # k => hist'[j] = hist[j]
        /\ \A j \in Keys : Ordered(hist'[j], slot')
    BY <2>2, <2>3, OneHistory
  <2>5. \A j \in Keys : j \notin known' => hist'[j] = <<>>
    BY <2>1, <2>3, <2>4
  <2>6. \A g \in lookup' : RealKey(g) \in known' /\ Len(hist'[RealKey(g)]) > 0
    <3>1. TAKE g \in lookup'
    <3>2. RealKey(g) \in known' /\ RealKey(g) \in Keys /\ Len(hist[RealKey(g)]) > 0
      BY <2>3, <1>T, RealKeyIsKey DEF StoredWasRequested
    <3>3. CASE RealKey(g) = k
      <4>1. Len(hist'[k]) = 2
        BY <2>2, <2>4
      <4> QED BY <3>2, <3>3, <4>1
    <3>4. CASE RealKey(g) # k
      BY <2>4, <3>2, <3>4
    <3> QED BY <3>3, <3>4
  <2> QED BY <2>3, <2>4, <2>5, <2>6, <1>T DEF TypeOK, StoredWasRequested
<1>8. ASSUME NEW g \in Hashes, Provide(g) PROVE IInv'
  <2> DEFINE k == RealKey(g)
  <2>1. k \in Keys
    BY RealKeyIsKey
  <2>2. Ordered(<<slot>>, slot)
    BY <1>T DEF Ordered
  <2>3. /\ hist' = [hist EXCEPT ![k] = <<slot>>] /\ slot' = slot
        /\ lookup' = lookup \cup {g} /\ known' = known \cup {k} /\ answer' = answer
    BY <1>8 DEF Provide
  <2> HIDE DEF k
  <2>4. /\ hist' \in [Keys -> Seq(0..MaxSlot)]
        /\ hist'[k] = <<slot>>
        /\ \A j \in Keys : j # k => hist'[j] = hist[j]
        /\ \A j \in Keys : Ordered(hist'[j], slot')
    BY <2>1, <2>2, <2>3, OneHistory
  <2>5. \A j \in Keys : j \notin known' => hist'[j] = <<>>
    BY <2>3, <2>4
  <2>6. \A h \in lookup' : RealKey(h) \in known' /\ Len(hist'[RealKey(h)]) > 0
    <3>1. Len(<<slot>>) > 0
      OBVIOUS
    <3>2. TAKE h \in lookup'
    <3>3. CASE h = g
      BY <3>1, <3>3, <2>3, <2>4 DEF k
    <3>4. CASE h # g
      BY <3>4, <2>3, <2>4, <1>T, RealKeyIsKey DEF StoredWasRequested, k
    <3> QED BY <3>3, <3>4
  <2> QED BY <2>1, <2>3, <2>4, <2>5, <2>6, <1>T DEF TypeOK, StoredWasRequested
<1>9. ASSUME UNCHANGED <<slot, known, hist, lookup>>, answer' \in {"OK", "FULL", "HUH"}
      PROVE IInv'
  BY <1>9, <1>T DEF TypeOK, StoredWasRequested
<1>10. ASSUME NEW k \in Keys, SolicitRefused(k) \/ ForgetRefused(k) PROVE IInv'
  BY <1>9, <1>10 DEF SolicitRefused, ForgetRefused
<1>11. CASE UNCHANGED vars
  BY <1>9, <1>11, <1>T DEF vars
<1> QED
  BY <1>1, <1>2, <1>4, <1>5, <1>6, <1>7, <1>8, <1>10, <1>11
     DEF Next, ForgetUnsupplied, ForgetExpunged

-----------------------------------------------------------------------------
(* Recent availability. *)

\* From slot D on the unsigned difference is the difference.
LEMMA ExpiredMeans ==
  ASSUME slot \in 0..MaxSlot, slot >= D, NEW t \in 0..MaxSlot
  PROVE  Expired(t) <=> t < slot - D
<1>1. slot - D \in Nat /\ slot - D < Word /\ Word \in Nat
  BY PreimagesAssumption
<1>2. (slot - D) % Word = slot - D
  BY <1>1
<1> QED BY <1>2 DEF Expired

\* Appending the current slot does not change the past.
LEMMA AppendKeepsPast ==
  ASSUME NEW s \in 0..MaxSlot, NEW h, Ordered(h, s), Len(h) \in {1, 2},
         NEW t \in Nat, t < s
  PROVE  IsAvailableAt(h, t) <=> IsAvailableAt(Append(h, s), t)
<1> DEFINE a == Append(h, s)
<1>1. /\ h \in Seq(0..MaxSlot)
      /\ \A i \in 1..Len(h) : h[i] \in 0..MaxSlot
  BY ElementOfSeq DEF Ordered
<1>2. /\ Len(a) = Len(h) + 1 /\ a[Len(h) + 1] = s
      /\ \A i \in 1..Len(h) : a[i] = h[i]
  BY <1>1, Appended
<1> HIDE DEF a
<1>3. CASE Len(h) = 1
  <2>1. Len(a) = 2 /\ a[2] = s /\ a[1] = h[1]
    BY <1>2, <1>3
  <2> QED BY <2>1, <1>3 DEF IsAvailableAt, a
<1>4. CASE Len(h) = 2
  <2>1. Len(a) = 3 /\ a[3] = s /\ a[1] = h[1] /\ a[2] = h[2]
    BY <1>2, <1>4
  <2>2. ~ (s <= t)
    BY NotYet
  <2> QED BY <2>1, <2>2, <1>4 DEF IsAvailableAt, a
<1> QED BY <1>3, <1>4

\* A step that obeys the invariant changes no history at a recent slot.
LEMMA StepRecent ==
  ASSUME IInv, [Next]_vars, slot >= D, NEW k \in Keys,
         NEW t \in (slot - D)..(slot - 1)
  PROVE  IsAvailableAt(hist[k], t) <=> IsAvailableAt(hist'[k], t)
<1>T. /\ slot \in 0..MaxSlot /\ hist \in [Keys -> Seq(0..MaxSlot)]
      /\ MaxSlot \in Nat /\ slot \in Nat /\ D \in Nat /\ t \in Nat
      /\ slot - D <= t /\ t < slot
  BY PreimagesAssumption DEF IInv, TypeOK
<1>O. \A j \in Keys : /\ Ordered(hist[j], slot)
                      /\ Len(hist[j]) \in Nat
                      /\ \A i \in 1..Len(hist[j]) : hist[j][i] \in 0..MaxSlot
  BY <1>T, LenProperties, ElementOfSeq DEF IInv
<1>N. ~ IsAvailableAt(<<>>, t)
  BY DEF IsAvailableAt
<1>1. CASE UNCHANGED hist
  BY <1>1
<1>2. ASSUME NEW j \in Keys, hist' = [hist EXCEPT ![j] = Append(@, slot)],
             Len(hist[j]) \in {1, 2}
      PROVE  IsAvailableAt(hist[k], t) <=> IsAvailableAt(hist'[k], t)
  <2>1. CASE j = k
    <3>1. hist'[k] = Append(hist[k], slot)
      BY <1>2, <2>1, <1>T
    <3>2. IsAvailableAt(hist[k], t) <=> IsAvailableAt(Append(hist[k], slot), t)
      BY <1>2, <2>1, <1>T, <1>O, AppendKeepsPast
    <3> QED BY <3>1, <3>2
  <2>2. CASE j # k
    BY <1>2, <2>2, <1>T
  <2> QED BY <2>1, <2>2
<1>3. ASSUME NEW j \in Keys, NEW h, hist' = [hist EXCEPT ![j] = h],
             ~ IsAvailableAt(hist[j], t), ~ IsAvailableAt(h, t)
      PROVE  IsAvailableAt(hist[k], t) <=> IsAvailableAt(hist'[k], t)
  <2>1. hist'[k] = IF j = k THEN h ELSE hist[k]
    BY <1>3, <1>T
  <2> QED BY <2>1, <1>3
<1>4. ASSUME NEW j \in Keys, SolicitNew(j)
      PROVE  IsAvailableAt(hist[k], t) <=> IsAvailableAt(hist'[k], t)
  <2>1. hist[j] = <<>>
    BY <1>4 DEF SolicitNew, IInv
  <2>2. hist' = [hist EXCEPT ![j] = <<>>]
    BY <1>4 DEF SolicitNew
  <2> QED BY <2>1, <2>2, <1>3, <1>N
<1>5. ASSUME NEW j \in Keys, SolicitAgain(j) \/ ForgetSupplied(j)
      PROVE  IsAvailableAt(hist[k], t) <=> IsAvailableAt(hist'[k], t)
  BY <1>5, <1>2 DEF SolicitAgain, ForgetSupplied
<1>6. ASSUME NEW j \in Keys, ForgetUnsupplied(j)
      PROVE  IsAvailableAt(hist[k], t) <=> IsAvailableAt(hist'[k], t)
  <2>1. ~ IsAvailableAt(hist[j], t)
    BY <1>6 DEF ForgetUnsupplied, IsAvailableAt
  <2>2. hist' = [hist EXCEPT ![j] = <<>>]
    BY <1>6 DEF ForgetUnsupplied, Remove
  <2> QED BY <2>1, <2>2, <1>3, <1>N
<1>7. ASSUME NEW j \in Keys, ForgetExpunged(j)
      PROVE  IsAvailableAt(hist[k], t) <=> IsAvailableAt(hist'[k], t)
  <2>1. Len(hist[j]) = 2 /\ Expired(hist[j][2])
    BY <1>7 DEF ForgetExpunged
  <2>2. hist[j][2] \in 0..MaxSlot
    BY <2>1, <1>O
  <2>3. hist[j][2] < slot - D
    BY <2>1, <2>2, <1>T, ExpiredMeans
  <2>4. ~ (t < hist[j][2])
    BY <2>2, <2>3, <1>T
  <2>5. ~ IsAvailableAt(hist[j], t)
    BY <2>1, <2>4 DEF IsAvailableAt
  <2>6. hist' = [hist EXCEPT ![j] = <<>>]
    BY <1>7 DEF ForgetExpunged, Remove
  <2> QED BY <2>5, <2>6, <1>3, <1>N
<1>8. ASSUME NEW j \in Keys, ForgetAgain(j)
      PROVE  IsAvailableAt(hist[k], t) <=> IsAvailableAt(hist'[k], t)
  <2> DEFINE h == hist[j]
             p == <<h[3], slot>>
  <2>1. Len(h) = 3 /\ Expired(h[2]) /\ hist' = [hist EXCEPT ![j] = p]
    BY <1>8 DEF ForgetAgain
  <2>2. h[2] \in 0..MaxSlot /\ h[3] \in 0..MaxSlot
    BY <2>1, <1>O
  <2>3. h[2] < slot - D
    BY <2>1, <2>2, <1>T, ExpiredMeans
  <2>4. ~ (t < h[2])
    BY <2>2, <2>3, <1>T
  <2>5. Len(p) = 2 /\ p[1] = h[3] /\ p[2] = slot
    OBVIOUS
  <2> HIDE DEF h, p
  <2>6. IsAvailableAt(h, t) <=> h[3] <= t
    BY <2>1, <2>4 DEF IsAvailableAt
  <2>7. IsAvailableAt(p, t) <=> h[3] <= t
    BY <2>5, <1>T DEF IsAvailableAt
  <2>8. hist'[k] = IF j = k THEN p ELSE hist[k]
    BY <2>1, <1>T
  <2> QED BY <2>6, <2>7, <2>8 DEF h
<1>9. ASSUME NEW g \in Hashes, Provide(g)
      PROVE  IsAvailableAt(hist[k], t) <=> IsAvailableAt(hist'[k], t)
  <2>1. RealKey(g) \in Keys
    BY RealKeyIsKey
  <2>2. ~ IsAvailableAt(hist[RealKey(g)], t)
    BY <1>9 DEF Provide, HasBeenSolicited, IsAvailableAt
  <2>3. ~ IsAvailableAt(<<slot>>, t)
    BY <1>T DEF IsAvailableAt
  <2>4. hist' = [hist EXCEPT ![RealKey(g)] = <<slot>>]
    BY <1>9 DEF Provide
  <2> QED BY <2>1, <2>2, <2>3, <2>4, <1>3
<1> QED
  BY <1>1, <1>4, <1>5, <1>6, <1>7, <1>8, <1>9
     DEF Next, vars, NextBlock, SolicitRefused, ForgetRefused

-----------------------------------------------------------------------------

\* Nor does it change what a lookup at a recent slot answers, unless Forget deletes
\* the bytes for a request of another length.
LEMMA StepLookup ==
  ASSUME IInv, [Next]_vars, slot >= D, NEW h \in Hashes,
         NEW t \in (slot - D)..(slot - 1)
  PROVE  \/ LookupPreimage(t, h) <=> LookupPreimage(t, h)'
         \/ ForgottenElsewhere(h)
<1> DEFINE k == RealKey(h)
<1>T. /\ slot \in 0..MaxSlot /\ slot \in Nat /\ D \in Nat /\ t \in Nat /\ t < slot
      /\ hist \in [Keys -> Seq(0..MaxSlot)]
      /\ k \in Keys /\ k.hash = h
  BY PreimagesAssumption, RealKeyIsKey DEF IInv, TypeOK
<1>1. IsAvailableAt(hist[k], t) <=> IsAvailableAt(hist'[k], t)
  BY <1>T, StepRecent
<1>2. LookupPreimage(t, h)' <=> h \in lookup' /\ k \in known' /\ IsAvailableAt(hist'[k], t)
  BY DEF LookupPreimage, IsAvailableAt, RealKey
<1> HIDE DEF k
<1>3. LookupPreimage(t, h) <=> h \in lookup /\ k \in known /\ IsAvailableAt(hist[k], t)
  BY DEF LookupPreimage, k
\* It is enough that the bytes and the request stay, or that neither history tells
\* of the preimage.
<1>4. ASSUME h \in lookup' <=> h \in lookup, h \in lookup => (k \in known' <=> k \in known)
      PROVE  LookupPreimage(t, h) <=> LookupPreimage(t, h)'
  BY <1>1, <1>2, <1>3, <1>4
<1>5. ASSUME ~ IsAvailableAt(hist[k], t)
      PROVE  LookupPreimage(t, h) <=> LookupPreimage(t, h)'
  BY <1>1, <1>2, <1>3, <1>5
<1>6. CASE UNCHANGED <<lookup, known>>
  BY <1>4, <1>6
<1>7. ASSUME NEW j \in Keys, SolicitNew(j)
      PROVE  LookupPreimage(t, h) <=> LookupPreimage(t, h)'
  <2>1. lookup' = lookup /\ known' = known \cup {j} /\ j \notin known
    BY <1>7 DEF SolicitNew
  <2>2. h \in lookup => k \in known
    BY DEF IInv, StoredWasRequested, k
  <2> QED BY <1>4, <2>1, <2>2
<1>8. ASSUME NEW j \in Keys, ForgetUnsupplied(j) \/ ForgetExpunged(j)
      PROVE  \/ LookupPreimage(t, h) <=> LookupPreimage(t, h)'
             \/ ForgottenElsewhere(h)
  <2>1. /\ lookup' = lookup \ {j.hash} /\ known' = known \ {j}
        /\ hist' = [hist EXCEPT ![j] = <<>>]
    BY <1>8 DEF ForgetUnsupplied, ForgetExpunged, Remove
  <2>2. CASE j = k
    <3>1. hist'[k] = <<>>
      BY <1>T, <2>1, <2>2
    <3>2. ~ IsAvailableAt(<<>>, t)
      BY DEF IsAvailableAt
    <3> QED BY <1>1, <1>5, <3>1, <3>2
  <2>3. CASE j # k /\ j.hash = h
    BY <1>8, <2>3 DEF ForgottenElsewhere, k
  <2>4. CASE j # k /\ j.hash # h
    BY <1>4, <2>1, <2>4
  <2> QED BY <2>2, <2>3, <2>4
<1>9. ASSUME NEW g \in Hashes, Provide(g)
      PROVE  LookupPreimage(t, h) <=> LookupPreimage(t, h)'
  <2>1. /\ lookup' = lookup \cup {g} /\ known' = known \cup {RealKey(g)}
        /\ Len(hist[RealKey(g)]) = 0
    BY <1>9 DEF Provide, HasBeenSolicited
  <2>2. CASE g = h
    <3>1. ~ IsAvailableAt(hist[k], t)
      BY <2>1, <2>2 DEF IsAvailableAt, k
    <3> QED BY <1>5, <3>1
  <2>3. CASE g # h
    <3>1. RealKey(g) # k
      BY <2>3, RealKeyInjective DEF k
    <3> QED BY <1>4, <2>1, <2>3, <3>1
  <2> QED BY <2>2, <2>3
<1> QED
  BY <1>6, <1>7, <1>8, <1>9
     DEF Next, vars, NextBlock, SolicitAgain, SolicitRefused, ForgetSupplied,
         ForgetAgain, ForgetRefused

\* The invariant holds in every reachable state.
THEOREM Invariance == Spec => []IInv
  BY InitIInv, StepIInv, PTL DEF Spec

\* The state keeps its type, for every constant.
THEOREM TypeTheorem == Spec => []TypeOK
<1>1. IInv => TypeOK
  BY DEF IInv
<1> QED BY <1>1, Invariance, PTL

\* Histories are ordered intervals in every reachable state.
THEOREM OrderedTheorem == Spec => []HistoryOrdered
  BY IInvOrdered, Invariance, PTL

\* What is stored was requested and supplied.
THEOREM StoredTheorem == Spec => []StoredWasRequested
<1>1. IInv => StoredWasRequested
  BY DEF IInv
<1> QED BY <1>1, Invariance, PTL

\* What the histories say of the last D slots is settled.
THEOREM RecentTheorem == Spec => RecentAvailabilityStable
<1>1. IInv /\ [Next]_vars =>
        [slot >= D =>
           \A k \in Keys : \A t \in (slot - D)..(slot - 1) :
             IsAvailableAt(hist[k], t) <=> IsAvailableAt(hist'[k], t)]_vars
  BY StepRecent
<1> QED BY <1>1, Invariance, PTL DEF Spec, RecentAvailabilityStable

\* What a lookup at one of the last D slots answers is settled, for every set of
\* hashes and lengths, unless Forget deletes the bytes for another length.
THEOREM LookupTheorem == Spec => RecentLookupsStable
<1>1. IInv /\ [Next]_vars =>
        [slot >= D =>
           \A h \in Hashes : \A t \in (slot - D)..(slot - 1) :
             \/ LookupPreimage(t, h) <=> LookupPreimage(t, h)'
             \/ ForgottenElsewhere(h)]_vars
  BY StepLookup
<1> QED BY <1>1, Invariance, PTL DEF Spec, RecentLookupsStable

-----------------------------------------------------------------------------
(* The context of a service's host calls. *)

\* What % and \div compute.
LEMMA ModFacts ==
  ASSUME NEW a \in Int, NEW n \in Nat \ {0}
  PROVE  /\ a % n \in 0..n - 1
         /\ a \div n \in Int
         /\ a = n * (a \div n) + (a % n)
OBVIOUS

\* Quotient and remainder are the only ones there are.
LEMMA ModUnique ==
  ASSUME NEW a \in Int, NEW n \in Nat \ {0}, NEW q \in Int, NEW r \in 0..n - 1,
         a = n * q + r
  PROVE  a % n = r
<1>1. a % n \in 0..n - 1 /\ a \div n \in Int /\ a = n * (a \div n) + (a % n)
  BY ModFacts
<1> DEFINE k == q - (a \div n)
<1>2. n * k = (a % n) - r
  BY <1>1
<1>3. (k >= 1 => n * k >= n) /\ (k <= -1 => n * k <= -n)
  BY <1>1
<1> QED
  BY <1>1, <1>2, <1>3

\* A nonempty set of natural numbers has a least element.
LEMMA MinFacts ==
  ASSUME NEW S, S \subseteq Nat, S # {}
  PROVE  Min(S) \in S /\ \A n \in S : Min(S) <= n
<1>1. PICK m \in S : \A n \in S : ~ (<<n, m>> \in OpToRel(<, Nat))
  BY NatLessThanWellFounded, WFMin
<1>2. ASSUME NEW n \in S, n < m PROVE FALSE
  <2>1. <<n, m>> \in OpToRel(<, Nat)
    BY <1>2 DEF OpToRel
  <2> QED BY <1>1, <2>1
<1>3. \A n \in S : m <= n
  BY <1>2
<1> QED BY <1>3 DEF Min

\* CheckIndex finds a free index whenever there is one, from wherever it starts.
LEMMA FreeIndex ==
  ASSUME NEW i \in Int, NEW taken, Indices \ taken # {}
  PROVE  CheckIndex(i, taken) \in Indices \ taken
<1> DEFINE at(n) == Low + ((i - Low + n) % Span)
           free == {n \in 0..(Span - 1) : at(n) \notin taken}
<1>1. Low \in Nat /\ Span \in Nat \ {0}
  BY ContextAssumption DEF Span
<1>2. PICK t \in Indices : t \notin taken
  OBVIOUS
<1>3. t \in Int /\ t - Low \in 0..Span - 1
  BY <1>1, <1>2 DEF Indices
<1> DEFINE n == (t - i) % Span
           q == (t - i) \div Span
<1>4. n \in 0..Span - 1 /\ q \in Int /\ t - i = Span * q + n
  <2>1. t - i \in Int
    BY <1>3
  <2> QED BY <1>1, <2>1, ModFacts
<1> HIDE DEF n, q
<1>5. (i - Low + n) % Span = t - Low
  <2> DEFINE p == -q
             b == t - Low
             a == i - Low + n
  <2>1. a \in Int /\ p \in Int /\ b \in 0..Span - 1 /\ a = Span * p + b
    BY <1>1, <1>3, <1>4
  <2> HIDE DEF p, b, a
  <2>2. a % Span = b
    BY <1>1, <2>1, ModUnique
  <2> QED BY <2>2 DEF a, b
<1>6. free # {}
  <2>1. at(n) = t
    BY <1>1, <1>3, <1>5
  <2> QED BY <1>2, <1>4, <2>1
<1>7. Min(free) \in free
  <2>1. free \subseteq Nat
    BY <1>1
  <2> QED BY <1>6, <2>1, MinFacts
<1>8. \A k \in free : at(k) \in Indices
  <2> SUFFICES ASSUME NEW k \in free PROVE at(k) \in Indices
    OBVIOUS
  <2>1. i - Low + k \in Int
    BY <1>1
  <2>2. (i - Low + k) % Span \in 0..Span - 1
    BY <1>1, <2>1, ModFacts
  <2> QED BY <1>1, <2>2 DEF Indices
<1> QED BY <1>7, <1>8 DEF CheckIndex

\* The threshold of an account without items, and of the service.
LEMMA ThresholdFacts ==
  /\ Threshold({}) = Base
  /\ \A items \in SUBSET StorageKeys : Threshold(items) \in Nat /\ Threshold(items) >= Base
<1>1. Cardinality({}) = 0
  BY FS_EmptySet
<1>2. ASSUME NEW items \in SUBSET StorageKeys
      PROVE  Threshold(items) \in Nat /\ Threshold(items) >= Base
  <2>1. Cardinality(items) \in Nat
    BY ContextAssumption, FS_Subset, FS_CardinalityType
  <2>2. PerItem * Cardinality(items) \in Nat
    BY <2>1, ContextAssumption
  <2> QED BY <2>2, ContextAssumption DEF Threshold
<1> QED BY <1>1, <1>2, ContextAssumption DEF Threshold

\* While the balance covers the constant part, New subtracts without wrapping.
LEMMA LeftAfterNew ==
  ASSUME NewNeverEnriches, accounts[Self].balance \in Int
  PROVE  Left(Threshold({})) = accounts[Self].balance - Base
<1> DEFINE b == accounts[Self].balance - Base
<1>1. b \in 0..BalanceWord - 1 /\ BalanceWord \in Nat \ {0}
  BY ContextAssumption DEF NewNeverEnriches
<1>2. b = BalanceWord * 0 + b
  BY <1>1
<1> HIDE DEF b
<1>3. b % BalanceWord = b
  BY <1>1, <1>2, ModUnique
<1> QED BY <1>3, ThresholdFacts DEF Left, b

Accounts == [balance : 0..(BalanceWord - 1), code : {"old", "new"} \cup Codes]

\* The context pair of a run is well formed and the balance stays in its bounds.
ContextIInv ==
  /\ ContextTypeOK
  /\ accounts \in [DOMAIN accounts -> Accounts]
  /\ NewNeverEnriches

\* InvokePVM starts with the account of the service and an empty pair.
LEMMA ContextInitIInv == ContextInit => ContextIInv
<1> SUFFICES ASSUME ContextInit PROVE ContextIInv
  OBVIOUS
<1>1. Context0 \in Contexts
  BY ContextAssumption DEF Context0, Contexts
<1>2. Origin \in Accounts
  BY ContextAssumption DEF Origin, Accounts
<1>3. accounts = [i \in {Self} |-> Origin] /\ accounts[Self].balance = Balance0
  BY DEF ContextInit, Origin
<1>4. ContextTypeOK /\ accounts \in [DOMAIN accounts -> Accounts]
  BY <1>1, <1>2, <1>3, ContextAssumption DEF ContextInit, ContextTypeOK, Accounts
<1>5. NewNeverEnriches
  BY <1>3, ContextAssumption DEF NewNeverEnriches
<1> QED BY <1>4, <1>5 DEF ContextIInv

\* The storage, the pair and the bookkeeping keep their types whatever a call does
\* to the accounts.
LEMMA AccountsStep ==
  ASSUME ContextIInv, accounts' \in [DOMAIN accounts' -> Accounts],
         Self \in DOMAIN accounts', DOMAIN accounts' \subseteq Indices,
         NewNeverEnriches', storage' \subseteq StorageKeys, gasMap' \in {"old", "new"},
         {x', y', returned'} \subseteq Contexts, given' \subseteq Indices,
         ending' \in {"none", "halt", "trap", "failure"}
  PROVE  ContextIInv'
BY DEF ContextIInv, ContextTypeOK, Accounts

\* The accounts lookup, read, write, info and upgrade leave.
LEMMA SelfUpdated ==
  ASSUME ContextIInv, NEW a \in Accounts, a.balance \in Base..Balance0,
         accounts' = [accounts EXCEPT ![Self] = a]
  PROVE  /\ accounts' \in [DOMAIN accounts' -> Accounts]
         /\ Self \in DOMAIN accounts' /\ DOMAIN accounts' \subseteq Indices
         /\ NewNeverEnriches'
         /\ \A i \in DOMAIN accounts \ {Self} :
               i \in DOMAIN accounts' /\ accounts'[i] = accounts[i]
<1>1. Self \in DOMAIN accounts /\ DOMAIN accounts \subseteq Indices
      /\ accounts \in [DOMAIN accounts -> Accounts]
  BY DEF ContextIInv, ContextTypeOK
<1>2. DOMAIN accounts' = DOMAIN accounts /\ accounts'[Self] = a
  BY <1>1
<1> QED BY <1>1, <1>2, ContextAssumption DEF NewNeverEnriches

\* What a call must not do to the accounts it created before.
KeepsCreated ==
  \A i \in DOMAIN accounts \ {Self} : i \in DOMAIN accounts' /\ accounts'[i] = accounts[i]

\* New pays the constant part of the threshold and takes a free index.
LEMMA NewStep ==
  ASSUME ContextIInv, NEW c \in Codes, New(c)
  PROVE  ContextIInv' /\ KeepsCreated
<1> DEFINE id == CheckIndex(BumpIndex(x.newId), DOMAIN accounts)
           created == [balance |-> Threshold({}), code |-> c]
           paid == [accounts[Self] EXCEPT !.balance = Left(Threshold({}))]
<1>1. /\ Indices \ DOMAIN accounts # {}
      /\ Left(Threshold({})) >= Threshold(storage)
      /\ given' = given \cup {x.newId}
      /\ x' = [x EXCEPT !.newId = id]
      /\ accounts' = [i \in DOMAIN accounts \cup {id} |->
                        IF i = id THEN created ELSE IF i = Self THEN paid ELSE accounts[i]]
      /\ UNCHANGED <<storage, gasMap, y, ending, returned>>
  BY DEF New, Call, maps
<1>2. /\ x \in Contexts /\ y \in Contexts /\ returned \in Contexts
      /\ storage \subseteq StorageKeys /\ given \subseteq Indices
      /\ gasMap \in {"old", "new"}
      /\ Self \in DOMAIN accounts /\ DOMAIN accounts \subseteq Indices
      /\ accounts \in [DOMAIN accounts -> Accounts]
      /\ NewNeverEnriches
      /\ ending \in {"none", "halt", "trap", "failure"}
  BY DEF ContextIInv, ContextTypeOK
<1>3. x.newId \in Indices /\ x.newId \in Int
  BY <1>2, ContextAssumption DEF Contexts, Indices
<1>4. id \in Indices \ DOMAIN accounts
  <2>1. BumpIndex(x.newId) \in Int
    <3> DEFINE a == x.newId - Low + Step
    <3>1. a \in Int /\ IdWord \in Nat \ {0} /\ Span \in Nat \ {0} /\ Low \in Int
      BY <1>3, ContextAssumption DEF Span
    <3> HIDE DEF a
    <3>2. a % IdWord \in Int
      BY <3>1, ModFacts
    <3>3. (a % IdWord) % Span \in Int
      BY <3>1, <3>2, ModFacts
    <3> QED BY <3>1, <3>3 DEF BumpIndex, a
  <2> QED BY <1>1, <2>1, FreeIndex
<1> DEFINE left == accounts[Self].balance - Base
<1>5. accounts[Self] \in Accounts /\ accounts[Self].balance \in Int
  BY <1>2 DEF Accounts
<1>6. Left(Threshold({})) = left /\ left \in Int /\ left <= Balance0
  BY <1>2, <1>5, LeftAfterNew, ContextAssumption DEF NewNeverEnriches
<1>7. left >= Base
  BY <1>1, <1>2, <1>6, ThresholdFacts, ContextAssumption
<1>8. created \in Accounts /\ paid \in Accounts /\ paid.balance = left
  <2>1. Threshold({}) \in 0..(BalanceWord - 1) /\ left \in 0..(BalanceWord - 1)
    BY <1>6, <1>7, ThresholdFacts, ContextAssumption
  <2> QED BY <1>5, <1>6, <2>1 DEF Accounts
<1> HIDE DEF id, created, paid, left
<1>9. /\ DOMAIN accounts' = DOMAIN accounts \cup {id}
      /\ accounts' \in [DOMAIN accounts' -> Accounts]
      /\ accounts'[Self] = paid
      /\ KeepsCreated
  BY <1>1, <1>2, <1>4, <1>8 DEF KeepsCreated
<1>10. NewNeverEnriches'
  BY <1>6, <1>7, <1>8, <1>9 DEF NewNeverEnriches
<1>11. x' \in Contexts
  BY <1>1, <1>2, <1>4 DEF Contexts
<1> QED BY <1>1, <1>2, <1>3, <1>4, <1>9, <1>10, <1>11, AccountsStep

\* Every host call and every ending preserves the invariant and the accounts that
\* were created.
LEMMA ContextStepIInv == ContextIInv /\ [ContextNext]_contextVars => ContextIInv' /\ KeepsCreated
<1> SUFFICES ASSUME ContextIInv, [ContextNext]_contextVars
             PROVE  ContextIInv' /\ KeepsCreated
  OBVIOUS
<1>1. /\ x \in Contexts /\ y \in Contexts /\ returned \in Contexts
      /\ storage \subseteq StorageKeys /\ given \subseteq Indices
      /\ gasMap \in {"old", "new"}
      /\ Self \in DOMAIN accounts /\ DOMAIN accounts \subseteq Indices
      /\ accounts \in [DOMAIN accounts -> Accounts]
      /\ NewNeverEnriches
      /\ ending \in {"none", "halt", "trap", "failure"}
  BY DEF ContextIInv, ContextTypeOK
<1>2. Origin \in Accounts /\ Origin.balance \in Base..Balance0
  BY ContextAssumption DEF Origin, Accounts
<1>3. CASE UNCHANGED contextVars
  BY <1>1, <1>3 DEF contextVars, maps, ContextIInv, ContextTypeOK, KeepsCreated, NewNeverEnriches
<1>4. ASSUME PutBack, storage' \subseteq StorageKeys, gasMap' \in {"old", "new"},
             returned' \in Contexts, {x', y'} \subseteq Contexts, given' = given,
             ending' \in {"none", "halt", "trap", "failure"}
      PROVE  ContextIInv' /\ KeepsCreated
  BY <1>1, <1>2, <1>4, SelfUpdated, AccountsStep DEF PutBack, KeepsCreated
<1>5. ASSUME accounts' = accounts, storage' = storage, gasMap' \in {"old", "new"},
             returned' \in Contexts, {x', y'} \subseteq Contexts, given' = given,
             ending' \in {"none", "halt", "trap", "failure"}
      PROVE  ContextIInv' /\ KeepsCreated
  BY <1>1, <1>5, AccountsStep DEF KeepsCreated, NewNeverEnriches
<1>6. CASE ReadOnly \/ \E k \in StorageKeys : Write(k) \/ Delete(k)
  <2>1. /\ PutBack /\ storage' \subseteq StorageKeys
        /\ UNCHANGED <<gasMap, x, y, given, ending, returned>>
    BY <1>1, <1>6 DEF ReadOnly, Write, Delete, Call, maps
  <2> QED BY <1>1, <1>4, <2>1
<1>7. ASSUME NEW f \in Fields, x' = [x EXCEPT !.fields[f] = "new"],
             gasMap' \in {gasMap, "new"},
             UNCHANGED <<accounts, storage, y, given, ending, returned>>
      PROVE  ContextIInv' /\ KeepsCreated
  <2>1. x' \in Contexts
    BY <1>1, <1>7 DEF Contexts
  <2> QED BY <1>1, <1>5, <1>7, <2>1
<1>8. CASE Bless \/ Assign \/ Designate \/ Yield
  <2>1. /\ "privileged" \in Fields /\ "queues" \in Fields
        /\ "keys" \in Fields /\ "hash" \in Fields
    BY DEF Fields
  <2> QED BY <1>7, <1>8, <2>1 DEF Bless, Assign, Designate, Yield, SetField, Call, maps
<1>9. CASE Checkpoint
  BY <1>1, <1>5, <1>9 DEF Checkpoint, Call, maps
<1>10. CASE \/ Inspect \/ AssignRefused \/ NewRefused \/ Eject
            \/ \E to \in Indices, a \in Amounts : TransferRefused(to, a)
  <2>1. UNCHANGED <<accounts, storage, gasMap, x, y, given, ending, returned>>
    BY <1>10 DEF Inspect, AssignRefused, NewRefused, Eject, TransferRefused, Call, maps
  <2> QED BY <1>1, <1>5, <2>1
<1>11. CASE \E c \in Codes : New(c)
  BY <1>11, NewStep
<1>12. CASE Upgrade
  <2> DEFINE a == [accounts[Self] EXCEPT !.code = "new"]
  <2>1. /\ accounts' = [accounts EXCEPT ![Self] = a]
        /\ UNCHANGED <<storage, gasMap, x, y, given, ending, returned>>
    BY <1>12 DEF Upgrade, Call, maps
  <2>2. a \in Accounts /\ a.balance \in Base..Balance0
    <3>1. accounts[Self] \in Accounts
      BY <1>1
    <3>2. a \in Accounts /\ a.balance = accounts[Self].balance /\ a.balance \in Int
      BY <3>1 DEF Accounts
    <3> QED BY <1>1, <3>2, ContextAssumption DEF NewNeverEnriches
  <2> HIDE DEF a
  <2> QED BY <1>1, <2>1, <2>2, SelfUpdated, AccountsStep DEF KeepsCreated
<1>13. ASSUME NEW to \in Indices, NEW a \in Amounts, Transfer(to, a)
       PROVE  ContextIInv' /\ KeepsCreated
  <2>1. /\ x' = [x EXCEPT !.transfers = Append(@, a)]
        /\ UNCHANGED <<accounts, storage, gasMap, y, given, ending, returned>>
    BY <1>13 DEF Transfer, Call, maps
  <2>2. x.transfers \in Seq(Amounts)
    BY <1>1 DEF Contexts
  <2>3. Append(x.transfers, a) \in Seq(Amounts)
    BY <2>2
  <2>4. x' \in Contexts
    BY <1>1, <2>1, <2>3 DEF Contexts
  <2> QED BY <1>1, <1>5, <2>1, <2>4
<1>14. CASE Halt \/ Trap
  <2>1. /\ ending' \in {"halt", "trap"} /\ returned' = x
        /\ UNCHANGED <<accounts, storage, gasMap, x, y, given>>
    BY <1>14 DEF Halt, Trap, End
  <2> QED BY <1>1, <1>5, <2>1
<1>15. CASE HostFailure
  <2>1. /\ ending' = "failure" /\ returned' = Context0
        /\ UNCHANGED <<storage, x, y, given>>
        /\ accounts' = accounts \/ PutBack
        /\ gasMap' \in {gasMap, "new"}
    BY <1>15 DEF HostFailure, End
  <2>2. Context0 \in Contexts
    BY ContextAssumption DEF Context0, Contexts
  <2>3. CASE accounts' = accounts
    BY <1>1, <1>5, <2>1, <2>2, <2>3
  <2>4. CASE PutBack
    BY <1>1, <1>4, <2>1, <2>2, <2>4
  <2> QED BY <2>1, <2>3, <2>4
<1>16. CASE Ended
  BY <1>3, <1>16 DEF Ended
<1> QED
  BY <1>3, <1>6, <1>8, <1>9, <1>10, <1>11, <1>12, <1>13, <1>14, <1>15, <1>16 DEF ContextNext

\* The inductive invariant of a run.
THEOREM ContextInvariance == ContextSpec => []ContextIInv
BY ContextInitIInv, ContextStepIInv, PTL DEF ContextSpec

\* InvokePVM keeps the context pair and the accounts well formed.
THEOREM ContextTypeTheorem == ContextSpec => []ContextTypeOK
<1>1. ContextIInv => ContextTypeOK
  BY DEF ContextIInv
<1> QED BY <1>1, ContextInvariance, PTL

\* The unsigned subtraction in New never wraps around, for all thresholds, balances
\* and numbers of calls.
THEOREM BalanceTheorem == ContextSpec => []NewNeverEnriches
<1>1. ContextIInv => NewNeverEnriches
  BY DEF ContextIInv
<1> QED BY <1>1, ContextInvariance, PTL

\* New never replaces an account of the context, for every index it is given to
\* start from: CheckIndex ends on a free one.
THEOREM CreatedTheorem == ContextSpec => CreatedAccountsKept
<1>1. ContextIInv /\ [ContextNext]_contextVars =>
        [\A i \in DOMAIN accounts \ {Self} :
           i \in DOMAIN accounts' /\ accounts'[i] = accounts[i]]_contextVars
  BY ContextStepIInv DEF KeepsCreated
<1> QED BY <1>1, ContextInvariance, PTL DEF ContextSpec, CreatedAccountsKept
=============================================================================
