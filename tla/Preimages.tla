------------------------------ MODULE Preimages ------------------------------
(***************************************************************************)
(* The preimages of one service over many blocks: the solicit and forget   *)
(* host calls of its program, the preimages that blocks provide, and the   *)
(* historical lookup that refinement and audits use.                       *)
(*                                                                         *)
(* A request is kept under a hash and a length; what is stored is kept     *)
(* under the hash alone.  hist[k] is what Go reads from PreimageMeta: the  *)
(* empty list for a request without supply and for a missing key alike,    *)
(* known tells the two apart.  The maps are shared by every copy of the    *)
(* account, so a host call that answers FULL has changed them all the      *)
(* same.  Time slots are unsigned: a difference is taken modulo Word.      *)
(***************************************************************************)
EXTENDS Integers, Sequences, FiniteSets

CONSTANTS
  Hashes,      \* hashes of preimages
  Lengths,     \* lengths a request may name
  RealLength,  \* hash |-> the length of its preimage
  D,           \* PreimageExpulsionPeriod
  Word,        \* 2^32
  Capacity,    \* preimages that the service's balance can carry
  MaxSlot      \* bound on the time slot

ASSUME PreimagesAssumption ==
  /\ RealLength \in [Hashes -> Lengths]
  /\ D \in Nat
  /\ MaxSlot \in Nat
  /\ Word \in Nat
  /\ D < Word /\ MaxSlot < Word

VARIABLES
  slot,    \* the time slot of the block in progress
  known,   \* the keys of PreimageMeta
  hist,    \* PreimageMeta: key |-> at most three time slots
  lookup,  \* the keys of PreimageLookup
  answer   \* what the last host call returned

vars == <<slot, known, hist, lookup, answer>>

-----------------------------------------------------------------------------

Keys == [hash : Hashes, length : Lengths]

RealKey(h) == [hash |-> h, length |-> RealLength[h]]

\* isPreimageAvailableAt
IsAvailableAt(h, t) ==
  \/ Len(h) = 1 /\ h[1] <= t
  \/ Len(h) = 2 /\ h[1] <= t /\ t < h[2]
  \/ Len(h) = 3 /\ ((h[1] <= t /\ t < h[2]) \/ h[3] <= t)

\* LookupPreimage answers the preimage, and not nil.
LookupPreimage(t, h) ==
  /\ h \in lookup
  /\ RealKey(h) \in known
  /\ IsAvailableAt(hist[RealKey(h)], t)

Expired_AtOnce(y) == y < slot

\* y < t - D, in unsigned arithmetic
Expired(y) == y < (slot - D) % Word

Init ==
  /\ slot \in 0..MaxSlot
  /\ known = {}
  /\ hist = [k \in Keys |-> <<>>]
  /\ lookup = {}
  /\ answer = "OK"

NextBlock ==
  /\ \E s \in (slot + 1)..MaxSlot : slot' = s
  /\ UNCHANGED <<known, hist, lookup, answer>>

-----------------------------------------------------------------------------
(* Solicit.  The balance is compared after the map has been changed. *)

Afforded == IF Cardinality(lookup) <= Capacity THEN "OK" ELSE "FULL"

SolicitNew(k) ==
  /\ k \notin known
  /\ known' = known \cup {k}
  /\ hist' = [hist EXCEPT ![k] = <<>>]
  /\ answer' = Afforded
  /\ UNCHANGED <<slot, lookup>>

SolicitAgain(k) ==
  /\ k \in known
  /\ Len(hist[k]) = 2
  /\ hist' = [hist EXCEPT ![k] = Append(@, slot)]
  /\ answer' = Afforded
  /\ UNCHANGED <<slot, known, lookup>>

SolicitRefused(k) ==
  /\ k \in known
  /\ Len(hist[k]) # 2
  /\ answer' = "HUH"
  /\ UNCHANGED <<slot, known, hist, lookup>>

-----------------------------------------------------------------------------
(* Forget, by the number of time slots under the key. *)

Remove_KeepsLookup(k) ==
  /\ known' = known \ {k}
  /\ hist' = [hist EXCEPT ![k] = <<>>]
  /\ answer' = "OK"
  /\ UNCHANGED <<slot, lookup>>

Remove(k) ==
  /\ known' = known \ {k}
  /\ hist' = [hist EXCEPT ![k] = <<>>]
  /\ lookup' = lookup \ {k.hash}
  /\ answer' = "OK"
  /\ UNCHANGED slot

ForgetUnsupplied(k) == Len(hist[k]) = 0 /\ Remove(k)

ForgetSupplied(k) ==
  /\ Len(hist[k]) = 1
  /\ hist' = [hist EXCEPT ![k] = Append(@, slot)]
  /\ answer' = "OK"
  /\ UNCHANGED <<slot, known, lookup>>

ForgetExpunged(k) == Len(hist[k]) = 2 /\ Expired(hist[k][2]) /\ Remove(k)

ForgetAgain(k) ==
  /\ Len(hist[k]) = 3
  /\ Expired(hist[k][2])
  /\ hist' = [hist EXCEPT ![k] = <<hist[k][3], slot>>]
  /\ answer' = "OK"
  /\ UNCHANGED <<slot, known, lookup>>

ForgetRefused(k) ==
  /\ Len(hist[k]) \in {2, 3}
  /\ ~ Expired(hist[k][2])
  /\ answer' = "HUH"
  /\ UNCHANGED <<slot, known, hist, lookup>>

-----------------------------------------------------------------------------

\* preimageHasBeenSolicited
HasBeenSolicited(h) == h \notin lookup /\ Len(hist[RealKey(h)]) = 0

\* One preimage of a block's extrinsic.
Provide(h) ==
  /\ HasBeenSolicited(h)
  /\ lookup' = lookup \cup {h}
  /\ known' = known \cup {RealKey(h)}
  /\ hist' = [hist EXCEPT ![RealKey(h)] = <<slot>>]
  /\ UNCHANGED <<slot, answer>>

Next ==
  \/ NextBlock
  \/ \E k \in Keys : SolicitNew(k)
  \/ \E k \in Keys : SolicitAgain(k)
  \/ \E k \in Keys : SolicitRefused(k)
  \/ \E k \in Keys : ForgetUnsupplied(k)
  \/ \E k \in Keys : ForgetSupplied(k)
  \/ \E k \in Keys : ForgetExpunged(k)
  \/ \E k \in Keys : ForgetAgain(k)
  \/ \E k \in Keys : ForgetRefused(k)
  \/ \E h \in Hashes : Provide(h)

Spec == Init /\ [][Next]_vars

-----------------------------------------------------------------------------

\* The preimage maps of the account (service.go) and the current slot have their types.
TypeOK ==
  /\ slot \in 0..MaxSlot
  /\ known \subseteq Keys
  /\ hist \in [Keys -> Seq(0..MaxSlot)]
  /\ lookup \subseteq Hashes
  /\ answer \in {"OK", "FULL", "HUH"}

\* A history has at most three time slots, none later than the block in
\* progress and none earlier than the one before it, and only requests have
\* one: what isPreimageAvailableAt reads as intervals are intervals.
HistoryOrdered ==
  \A k \in Keys :
    /\ Len(hist[k]) <= 3
    /\ k \notin known => hist[k] = <<>>
    /\ \A i, j \in 1..Len(hist[k]) : i <= j => hist[k][i] <= hist[k][j]
    /\ \A i \in 1..Len(hist[k]) : hist[k][i] <= slot

\* Every stored preimage has a request under its own hash and length, which
\* has been supplied: "(h |-> p) in ap => h = H(p) and {h, |p|} in K(al)".
StoredWasRequested ==
  \A h \in lookup : RealKey(h) \in known /\ Len(hist[RealKey(h)]) > 0

\* What the history of a request says of a slot of the last D slots does not
\* change any more, whatever is solicited, forgotten or provided
\* (isPreimageAvailableAt).
RecentAvailabilityStable ==
  [][slot >= D =>
       \A k \in Keys : \A t \in (slot - D)..(slot - 1) :
         IsAvailableAt(hist[k], t) <=> IsAvailableAt(hist'[k], t)]_vars

\* Forget deletes the bytes of h for a request of another length.
ForgottenElsewhere(h) ==
  \E k \in Keys : /\ k.hash = h /\ k # RealKey(h)
                  /\ ForgetUnsupplied(k) \/ ForgetExpunged(k)

\* A lookup anchored at one of the last D slots keeps its answer, whatever is
\* solicited, forgotten or provided, with one exception: forget under the same
\* hash and another length deletes the bytes, whoever still has them requested
\* (LookupPreimage, Forget).
RecentLookupsStable ==
  [][slot >= D =>
       \A h \in Hashes : \A t \in (slot - D)..(slot - 1) :
         \/ LookupPreimage(t, h) <=> LookupPreimage(t, h)'
         \/ ForgottenElsewhere(h)]_vars

\* The same for the first D slots of the chain, where t - D is below zero:
\* nothing may be expunged then, for no Y satisfies "Y < t - D".
EarlyAvailabilityStable ==
  [][slot < D =>
       \A k \in Keys : \A t \in 0..(slot - 1) :
         IsAvailableAt(hist[k], t) <=> IsAvailableAt(hist'[k], t)]_vars

\* A history of one time slot says "The preimage is available and has been from
\* time h0": the preimage is stored.
AvailableIsStored ==
  \A h \in Hashes : Len(hist[RealKey(h)]) = 1 => h \in lookup

\* A block adds only preimages that the service asked for: "preimage has not
\* been solicited" is skipped (CalculateIntermediateServiceState).
ProvidedWasSolicited ==
  [][\A h \in lookup' \ lookup : RealKey(h) \in known]_vars
=============================================================================
