------------------------------ MODULE Guarantors ------------------------------
(***************************************************************************)
(* Who may report on a core, and with which authorizer: what CoreReports   *)
(* calls sound, composed with it.  A block brings guarantees that name an  *)
(* authorizer and carry credentials; the authorizer must be in the pool of *)
(* the core and every credential must verify with the key that the         *)
(* validator index has in the set the code picks for the guarantee's slot. *)
(* UpdateState computes the new entropy and the new pools in the same step *)
(* and passes the new entropy with the old validator sets to the           *)
(* verification (state_transition.go).                                     *)
(*                                                                         *)
(* Data abstraction.  An entropy is the slot of the block that hashed it.  *)
(* A validator set is a number, fresh for every epoch, and the key of its  *)
(* member i is <<set, i>>.  A credential is an index and the key that      *)
(* signed.  The numbers the shuffle draws from an entropy's hash are       *)
(* RandomNumbers.  The other checks of a guarantee are CoreReports'; no    *)
(* report is assured or judged here, it leaves its core by timeout.  The   *)
(* queues are chosen for each block, because UpdateState does not store    *)
(* the ones an accumulation assigned.                                      *)
(*                                                                         *)
(* inForce and unspent are history: the guarantors of the slots of recent  *)
(* blocks as each block's own state names them, and how much more often an *)
(* authorizer entered the pool of a core than it was used there.           *)
(***************************************************************************)
EXTENDS CoreReports

CONSTANTS
    E,                  \* TimeslotsPerEpoch
    Authorizers,        \* authorizer hashes
    Empty,              \* crypto.Hash{}
    PoolSize,           \* MaxAuthorizersPerCore
    QueueSize,          \* PendingAuthorizersQueueSize
    InitialPools,       \* the pools of the first state
    QueueChoices,       \* PendingAuthorizersQueues a block may see: those of the
                        \* state or those its own accumulation assigned
    Offers,             \* guarantees without their signatures: [core, age, auth]
    Signers,            \* pairs of validator indices that sign
    RandomNumbers(_)    \* entropy |-> a random number for every validator

ASSUME GuarantorAssumption ==
    /\ E \in Nat \ {0} /\ E % R = 0
    /\ V \in Nat \ {0}
    /\ PoolSize \in Nat \ {0} /\ QueueSize \in Nat \ {0}
    /\ InitialPools \in [Cores -> Seq(Authorizers)]
    /\ QueueChoices \subseteq [Cores -> [0..QueueSize - 1 -> Authorizers \cup {Empty}]]

VARIABLES
    eta,        \* EntropyPool
    current,    \* ValidatorState.CurrentValidators
    archived,   \* ValidatorState.ArchivedValidators
    pools,      \* CoreAuthorizersPool
    inForce,
    unspent

guarantorVars == <<vars, eta, current, archived, pools, inForce, unspent>>

Epoch(s) == s \div E
Rotation(s) == s \div R

Occurrences(a, seq) == Cardinality({i \in DOMAIN seq : seq[i] = a})

-----------------------------------------------------------------------------
\* recursiveShuffle, on sequences of the same length: what is left and what has been
\* drawn after k of its calls.
recursiveShuffle(s, r) ==
    LET after[k \in 0..Len(s)] ==
            IF k = 0 THEN [left |-> s, drawn |-> <<>>]
            ELSE LET before == after[k - 1]
                     left == before.left
                     index == (r[k] % Len(left)) + 1
                 IN  [left |-> SubSeq([left EXCEPT ![index] = left[Len(left)]],
                                      1, Len(left) - 1),
                      drawn |-> Append(before.drawn, left[index])]
    IN  after[Len(s)].drawn

DeterministicShuffle(s, entropy) == recursiveShuffle(s, RandomNumbers(entropy))

RotateSequence(seq, n) == [i \in DOMAIN seq |-> (seq[i] + n) % Cardinality(Cores)]

\* The core of every validator; validator i is at position i + 1.
PermuteAssignments(entropy, t) ==
    RotateSequence(
        DeterministicShuffle([i \in 1..V |-> (Cardinality(Cores) * (i - 1)) \div V], entropy),
        (t % E) \div R)

\* Mutant: the entropy and the validators follow the slot of the guarantee only.
determineValidatorsAndDataForPermutation_SameEpoch(t, s, entropies) ==
    [validators |-> current, entropy |-> entropies[2],
     slot |-> IF Rotation(t) = Rotation(s) THEN s ELSE s - R]

\* The set, the entropy and the slot a guarantee of slot t is checked with in a
\* block of slot s.  The sets are those of before the block, the entropies the
\* new ones.
determineValidatorsAndDataForPermutation(t, s, entropies) ==
    LET before == s - R
        now == Rotation(t) = Rotation(s)
        epochs == Epoch(before) = Epoch(s)
    IN  [validators |-> IF now \/ epochs THEN current ELSE archived,
         entropy |-> IF now \/ epochs THEN entropies[2] ELSE entropies[3],
         slot |-> IF now THEN s ELSE before]

\* The keys that isValidatorAssignedToCore lets sign for a core.
Guarantors(data) ==
    LET assignments == PermuteAssignments(data.entropy, data.slot)
    IN  [c \in Cores |-> {<<data.validators, i>> : i \in {i \in 0..V - 1 : assignments[i + 1] = c}}]

\* The credentials' order and number, checked by ValidateExtrinsicGuarantees.
CredentialsOrdered(creds) ==
    /\ \A i, j \in DOMAIN creds : i < j => creds[i].index < creds[j].index
    /\ Len(creds) >= 2

\* verifyGuaranteeCredentials
CredentialsVerify(g, s, entropies) ==
    LET data == determineValidatorsAndDataForPermutation(GuaranteeSlot(g, s), s, entropies)
    IN  \A cred \in Elements(g.creds) :
            /\ <<data.validators, cred.index>> \in Guarantors(data)[g.core]
            /\ cred.key = <<data.validators, cred.index>>

-----------------------------------------------------------------------------
\* calculateNewEntropyPool
NewEntropyPool(s) ==
    LET pool == IF Epoch(s) > Epoch(slot)
                THEN [eta EXCEPT ![1] = eta[0], ![2] = eta[1], ![3] = eta[2]] ELSE eta
    IN  [pool EXCEPT ![0] = s]

\* removeAuthorizer: the first occurrence, the order kept.
removeAuthorizer(auths, hash) ==
    IF hash \notin Elements(auths) THEN auths
    ELSE LET i == CHOOSE i \in DOMAIN auths :
                    auths[i] = hash /\ \A j \in 1..i - 1 : auths[j] # hash
         IN  SubSeq(auths, 1, i - 1) \o SubSeq(auths, i + 1, Len(auths))

appendAuthorizerLimited(auths, hash) ==
    Append(IF Len(auths) >= PoolSize THEN Tail(auths) ELSE auths, hash)

\* Mutant: an authorizer is not taken from the pool when it is used.
NewPool_Kept(c, gs, queues, s) ==
    LET new == queues[c][s % QueueSize]
    IN  IF new = Empty THEN pools[c] ELSE appendAuthorizerLimited(pools[c], new)

\* CalculateNewCoreAuthorizations for core c: guarantees are sorted by core, so
\* there is at most one for it.
NewPool(c, gs, queues, s) ==
    LET used == {g.auth : g \in {g \in Elements(gs) : g.core = c}}
        left == IF used # {} THEN removeAuthorizer(pools[c], CHOOSE a \in used : TRUE)
                ELSE IF pools[c] # <<>> THEN Tail(pools[c]) ELSE <<>>
        new == queues[c][s % QueueSize]
    IN  IF new = Empty THEN left ELSE appendAuthorizerLimited(left, new)

-----------------------------------------------------------------------------
GuarantorInit ==
    /\ Init
    /\ eta = [i \in 0..3 |-> 0 - i]
    /\ current = 1
    /\ archived = 0
    /\ pools = InitialPools
    /\ inForce = <<>>
    /\ unspent = [c \in Cores |-> [a \in Authorizers |-> Occurrences(a, InitialPools[c])]]

\* The checks of a guarantee that CoreReports takes for granted.
Sound(g, s, entropies) ==
    /\ AgeValid(GuaranteeSlot(g, s), s)
    /\ g.auth \in Elements(pools[g.core])
    /\ CredentialsOrdered(g.creds)
    /\ CredentialsVerify(g, s, entropies)

Plain(g) == [core |-> g.core, pkg |-> g.pkg, age |-> g.age, anchorAge |-> g.age + L + 1,
             sound |-> TRUE]

\* UpdateState on a block at slot s with guarantees gs; queues are what its
\* accumulation returns.
GuaranteedBlock(s, gs, queues) ==
    LET opens == Epoch(s) > Epoch(slot)
        used(c, a) == \E g \in Elements(gs) : g.core = c /\ g.auth = a
    IN
    /\ s > slot
    /\ eta' = NewEntropyPool(s)
    /\ \A g \in Elements(gs) : Sound(g, s, eta')
    /\ ImportBlock(s, [i \in DOMAIN gs |-> Plain(gs[i])], <<>>, {}, {})
    /\ current' = IF opens THEN current + 1 ELSE current
    /\ archived' = IF opens THEN current ELSE archived
    /\ pools' = [c \in Cores |-> NewPool(c, gs, queues, s)]
    /\ inForce' = [t \in {t \in DOMAIN inForce : Rotation(s) - Rotation(t) <= 1} \cup {s} |->
        IF t = s THEN Guarantors([validators |-> current', entropy |-> eta'[2], slot |-> s])
        ELSE inForce[t]]
    /\ unspent' = [c \in Cores |-> [a \in Authorizers |->
        unspent[c][a] + (IF queues[c][s % QueueSize] = a THEN 1 ELSE 0)
                      - (IF used(c, a) THEN 1 ELSE 0)]]

\* Two validators of one set sign a report of a package nobody reported lately.
Signed(offer, signers, set) ==
    [core |-> offer.core, age |-> offer.age, auth |-> offer.auth,
     pkg |-> CHOOSE p \in Packages : p \notin RecentPackages,
     creds |-> [i \in 1..2 |-> [index |-> signers[i], key |-> <<set, signers[i]>>]]]

GuarantorNext ==
    \E s \in slot + 1 .. slot + MaxGap, queues \in QueueChoices :
        /\ s <= MaxSlot
        /\ \/ GuaranteedBlock(s, <<>>, queues)
           \/ \E offer \in Offers, signers \in Signers, set \in {archived, current, current + 1} :
                GuaranteedBlock(s, <<Signed(offer, signers, set)>>, queues)

GuarantorSpec == GuarantorInit /\ [][GuarantorNext]_guarantorVars

-----------------------------------------------------------------------------
\* The sets, the entropies and the pools have their types.
GuarantorTypeOK ==
    /\ TypeOK
    /\ eta \in [0..3 -> Int]
    /\ current \in Nat /\ archived \in Nat
    /\ pools \in [Cores -> Seq(Authorizers)]
    /\ \A c \in Cores : Len(pools[c]) <= PoolSize

\* Whoever was assigned to a core when a guarantee was made may still report on it
\* later: from the second rotation on, in every block that does not open an
\* epoch, a guarantee from the slot of a block of this rotation or the one before
\* is in range and checked with exactly the keys which that block's own state
\* assigned to the core (determineValidatorsAndDataForPermutation), although the
\* sets, the entropies and the permutation may have changed in between.
GuarantorsKeepTheirCores ==
    [][slot' >= R /\ slot' > slot /\ Epoch(slot') = Epoch(slot) =>
        \A t \in DOMAIN inForce' : Rotation(slot') - Rotation(t) <= 1 =>
            /\ AgeValid(t, slot')
            /\ Guarantors(determineValidatorsAndDataForPermutation(t, slot', eta'))
                 = inForce'[t]]_guarantorVars

\* An authorizer that entered a core's pool once authorizes at most one report
\* there: what is still in the pool is no more than what entered and was not used
\* (CalculateNewCoreAuthorizations takes the used one out, and a report is checked
\* against the pool of before its block).
AuthorizersSpentOnce ==
    \A c \in Cores, a \in Authorizers :
        Occurrences(a, pools[c]) <= unspent[c][a]
=============================================================================
