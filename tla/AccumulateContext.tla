-------------------------- MODULE AccumulateContext --------------------------
(***************************************************************************)
(* One run of a service's accumulate program (InvokePVM): the host calls   *)
(* it makes on the context pair and the way the run ends.                  *)
(*                                                                         *)
(* Go copies structs and shares maps.  The accounts of the context are one *)
(* map, seen by the regular context, the exceptional context and the pair  *)
(* InvokeWholeProgram keeps to return on failure; so are the storage of    *)
(* the service and the gas of privileged services, which the state before  *)
(* the block holds too.  They are one variable each.  The next service     *)
(* index, the transfers and the other fields are values, copied with the   *)
(* struct: x and y.                                                        *)
(*                                                                         *)
(* InvokePVM reads the account of the service anew from the state before   *)
(* the block on every host call; lookup, read, write and info put that     *)
(* copy, with its old balance and code hash, back into the context.        *)
(*                                                                         *)
(* Eject never succeeds here: the context holds, next to the service, only *)
(* accounts the run created, and those have no items.  The preimage calls  *)
(* are in module Preimages.                                                *)
(***************************************************************************)
EXTENDS Integers, Sequences, FiniteSets, FiniteSetsExt

CONSTANTS
  Self,          \* the accumulated service
  Others,        \* the other services of the state
  FirstId,       \* the index DeriveIndex found for the first new service
  IdWord,        \* 2^32
  Low,           \* 2^8
  Step,          \* 42
  StorageKeys,   \* storage keys; all values have one size
  Storage0,      \* the keys stored before the block
  Balance0,      \* the balance before the block
  Base, PerItem, \* threshold balance: constant part and part per item
  BalanceWord,   \* 2^64
  Amounts,       \* amounts a program transfers
  Codes,         \* code hashes a program gives to New
  MaxCalls       \* bound on the host calls of a run

Span == IdWord - 2 * Low
Indices == Low..(Low + Span - 1)

ASSUME ContextAssumption ==
  /\ Low \in Nat /\ IdWord \in Nat /\ Span > 0
  /\ {Self, FirstId} \cup Others \subseteq Indices
  /\ Self \notin Others /\ FirstId \notin Others \cup {Self}
  /\ IsFiniteSet(StorageKeys) /\ Storage0 \subseteq StorageKeys
  /\ Step \in Nat /\ BalanceWord \in Nat /\ Base \in Nat /\ PerItem \in Nat
  /\ Balance0 \in Base..(BalanceWord - 1)
  /\ Base + PerItem * Cardinality(Storage0) <= Balance0
  /\ Amounts \subseteq 0..(BalanceWord - 1)

VARIABLES
  accounts,  \* ServiceState of the context: index |-> balance and code
  storage,   \* the keys of the service's storage map
  gasMap,    \* AmountOfGasPerServiceId: "old", or "new" once bless wrote to it
  x,         \* regular context, its values
  y,         \* exceptional context, its values
  reply,     \* what the last host call put into register A0
  given,     \* indices that New has answered
  upgraded,  \* Upgrade has answered OK
  saved,     \* the two maps at the last checkpoint
  ending,    \* "none" while the run goes on, or how it ended
  returned,  \* the values InvokePVM returned
  calls

maps == <<storage, gasMap>>
contextVars == <<accounts, maps, x, y, reply, given, upgraded, saved, ending,
                 returned, calls>>

-----------------------------------------------------------------------------

Fields == {"privileged", "queues", "keys", "hash"}

\* newCtx
Context0 ==
  [newId |-> FirstId, transfers |-> <<>>, fields |-> [f \in Fields |-> "old"]]

Origin == [balance |-> Balance0, code |-> "old"]

\* ThresholdBalance of the service and of an account New creates.
Threshold(items) == Base + PerItem * Cardinality(items)

BumpIndex(i) == Low + (((i - Low + Step) % IdWord) % Span)

CheckIndex_Taken(i, taken) == i

\* The first index from i on that no account of the map has.
CheckIndex(i, taken) ==
  LET at(n) == Low + ((i - Low + n) % Span)
      free == {n \in 0..(Span - 1) : at(n) \notin taken}
  IN  at(Min(free))

ContextInit ==
  /\ accounts = [i \in {Self} |-> Origin]
  /\ storage = Storage0
  /\ gasMap = "old"
  /\ x = Context0
  /\ y = Context0
  /\ reply = "none"
  /\ given = {}
  /\ upgraded = FALSE
  /\ saved = maps
  /\ ending = "none"
  /\ returned = Context0
  /\ calls = 0

Call ==
  /\ ending = "none"
  /\ calls < MaxCalls
  /\ calls' = calls + 1
  /\ UNCHANGED <<ending, returned>>

-----------------------------------------------------------------------------
(* Gas, Query, unknown calls, Lookup, Read, Info and Write *)

\* Gas, query and a number that names no host call only answer.
Inspect ==
  /\ Call
  /\ reply' \in {"OK", "NONE", "WHAT"}
  /\ UNCHANGED <<accounts, maps, x, y, given, upgraded, saved>>

\* The closing assignment of the four cases in InvokePVM.
PutBack == accounts' = [accounts EXCEPT ![Self] = Origin]

ReadOnly ==
  /\ Call /\ PutBack
  /\ reply' \in {"OK", "NONE"}
  /\ UNCHANGED <<maps, x, y, given, upgraded, saved>>

Write(k) ==
  /\ Call /\ PutBack
  /\ storage' = storage \cup {k}
  /\ reply' = IF Threshold(storage') > Balance0 THEN "FULL" ELSE "OK"
  /\ UNCHANGED <<gasMap, x, y, given, upgraded, saved>>

Delete(k) ==
  /\ Call /\ PutBack
  /\ storage' = storage \ {k}
  /\ reply' = "NONE"
  /\ UNCHANGED <<gasMap, x, y, given, upgraded, saved>>

-----------------------------------------------------------------------------
(* Bless, Assign, Designate, Yield and Checkpoint *)

\* Bless writes the gas into the map in place, if the program names any service,
\* and the three privileged services into the context.
Bless ==
  /\ Call
  /\ gasMap' \in {gasMap, "new"}
  /\ x' = [x EXCEPT !.fields["privileged"] = "new"]
  /\ reply' = "OK"
  /\ UNCHANGED <<accounts, storage, y, given, upgraded, saved>>

SetField(f) ==
  /\ Call
  /\ x' = [x EXCEPT !.fields[f] = "new"]
  /\ reply' = "OK"
  /\ UNCHANGED <<accounts, maps, y, given, upgraded, saved>>

Assign == SetField("queues")

\* The core does not exist.
AssignRefused ==
  /\ Call
  /\ reply' = "CORE"
  /\ UNCHANGED <<accounts, maps, x, y, given, upgraded, saved>>

Designate == SetField("keys")

Yield == SetField("hash")

Checkpoint ==
  /\ Call
  /\ y' = x
  /\ saved' = maps
  /\ reply' = "OK"
  /\ UNCHANGED <<accounts, maps, x, given, upgraded>>

-----------------------------------------------------------------------------
(* New, Upgrade, Transfer and Eject *)

Left(amount) == (accounts[Self].balance - amount) % BalanceWord

NewRefused ==
  /\ Call
  /\ Left(Threshold({})) < Threshold(storage)
  /\ reply' = "CASH"
  /\ UNCHANGED <<accounts, maps, x, y, given, upgraded, saved>>

New_Unchecked(c) ==
  LET id == CheckIndex(BumpIndex(x.newId), DOMAIN accounts)
      created == [balance |-> Threshold({}), code |-> c]
      paid == [accounts[Self] EXCEPT !.balance = Left(Threshold({}))]
  IN
  /\ Call
  /\ Indices \ DOMAIN accounts # {}
  /\ reply' = "OK"
  /\ given' = given \cup {x.newId}
  /\ x' = [x EXCEPT !.newId = id]
  /\ accounts' = [i \in DOMAIN accounts \cup {id} |->
                    IF i = id THEN created ELSE IF i = Self THEN paid ELSE accounts[i]]
  /\ UNCHANGED <<maps, y, upgraded, saved>>

New(c) ==
  LET id == CheckIndex(BumpIndex(x.newId), DOMAIN accounts)
      created == [balance |-> Threshold({}), code |-> c]
      paid == [accounts[Self] EXCEPT !.balance = Left(Threshold({}))]
  IN
  /\ Call
  /\ Indices \ DOMAIN accounts # {}
  /\ Left(Threshold({})) >= Threshold(storage)
  /\ reply' = "OK"
  /\ given' = given \cup {x.newId}
  /\ x' = [x EXCEPT !.newId = id]
  /\ accounts' = [i \in DOMAIN accounts \cup {id} |->
                    IF i = id THEN created ELSE IF i = Self THEN paid ELSE accounts[i]]
  /\ UNCHANGED <<maps, y, upgraded, saved>>

Upgrade ==
  /\ Call
  /\ accounts' = [accounts EXCEPT ![Self].code = "new"]
  /\ upgraded' = TRUE
  /\ reply' = "OK"
  /\ UNCHANGED <<maps, x, y, given, saved>>

Transfer(to, amount) ==
  /\ Call
  /\ to \in DOMAIN accounts
  /\ Left(amount) >= Threshold(storage)
  /\ x' = [x EXCEPT !.transfers = Append(@, amount)]
  /\ reply' = "OK"
  /\ UNCHANGED <<accounts, maps, y, given, upgraded, saved>>

\* LOW depends on the gas limit in the call and is always possible.
TransferRefused(to, amount) ==
  /\ Call
  /\ reply' \in (IF to \notin DOMAIN accounts THEN {"WHO"}
                  ELSE IF Left(amount) < Threshold(storage) THEN {"LOW", "CASH"}
                  ELSE {"LOW"})
  /\ UNCHANGED <<accounts, maps, x, y, given, upgraded, saved>>

Eject ==
  /\ Call
  /\ reply' \in {"WHO", "HUH"}
  /\ UNCHANGED <<accounts, maps, x, y, given, upgraded, saved>>

-----------------------------------------------------------------------------
(* The end of the run *)

End(how, values) ==
  /\ ending = "none"
  /\ ending' = how
  /\ returned' = values
  /\ UNCHANGED <<storage, x, y, reply, given, upgraded, saved, calls>>

\* InvokeHostCall leaves its loop with a nil error on everything that is not a
\* host call: the program's halt, a trap, a page fault or no gas for the next
\* instruction.
Halt == End("halt", x) /\ UNCHANGED <<accounts, gasMap>>
Trap == End("trap", x) /\ UNCHANGED <<accounts, gasMap>>

\* An error inside a host call, or an output range that cannot be read:
\* InvokeWholeProgram returns the pair it was given.  A call that puts the account
\* back does so also when it fails, and bless may have written some of the gas.
HostFailure ==
  /\ End("failure", Context0)
  /\ \/ UNCHANGED <<accounts, gasMap>>
     \/ PutBack /\ UNCHANGED gasMap
     \/ gasMap' = "new" /\ UNCHANGED accounts

Ended == ending # "none" /\ UNCHANGED contextVars

ContextNext ==
  \/ Inspect
  \/ ReadOnly
  \/ \E k \in StorageKeys : Write(k)
  \/ \E k \in StorageKeys : Delete(k)
  \/ Bless
  \/ Assign
  \/ AssignRefused
  \/ Designate
  \/ Yield
  \/ Checkpoint
  \/ NewRefused
  \/ \E c \in Codes : New(c)
  \/ Upgrade
  \/ \E to \in Indices, a \in Amounts : Transfer(to, a)
  \/ \E to \in Indices, a \in Amounts : TransferRefused(to, a)
  \/ Eject
  \/ Halt
  \/ Trap
  \/ HostFailure
  \/ Ended

ContextSpec == ContextInit /\ [][ContextNext]_contextVars

-----------------------------------------------------------------------------

Contexts ==
  [newId : Indices, transfers : Seq(Amounts), fields : [Fields -> {"old", "new"}]]

\* The accounts, the storage and the two contexts of the pair have their types.
ContextTypeOK ==
  /\ Self \in DOMAIN accounts
  /\ DOMAIN accounts \subseteq Indices
  /\ \A i \in DOMAIN accounts :
        accounts[i] \in [balance : 0..(BalanceWord - 1), code : {"old", "new"} \cup Codes]
  /\ storage \subseteq StorageKeys
  /\ gasMap \in {"old", "new"}
  /\ {x, y, returned} \subseteq Contexts
  /\ given \subseteq Indices
  /\ ending \in {"none", "halt", "trap", "failure"}

\* A new service never replaces an account of the context, also when the
\* indices wrap around: CheckIndex skips the indices in use.
CreatedAccountsKept ==
  [][\A i \in DOMAIN accounts \ {Self} :
       i \in DOMAIN accounts' /\ accounts'[i] = accounts[i]]_contextVars

\* The balance of the service covers the constant part of the threshold all
\* through the run, so that the unsigned difference in New cannot wrap around
\* and creating services never makes the balance larger.
NewNeverEnriches ==
  Base <= accounts[Self].balance /\ accounts[Self].balance <= Balance0

\* "let b = (xs)b - a, if b < (xs)t": a transfer that the balance does not
\* cover is refused with CASH.
TransfersCovered ==
  \A i \in DOMAIN x.transfers : x.transfers[i] <= Balance0

\* A write that answers FULL has changed nothing: Write returns "service
\* account 'a' as opposed to 's' for not successful paths".
FullWriteUndone ==
  [][reply' = "FULL" => storage' = storage]_contextVars

\* After an upgrade that answered OK the service has the new code:
\* "(w'7, (X's)c, (X's)g, (X's)m) = (OK, c, g, m)".
UpgradeKept == upgraded => accounts[Self].code = "new"

\* The index that New answers is the index of the account it created:
\* "w'7 = x_i" and "(x'u)d = (xu)d \cup {xi |-> a, xs |-> s}".
GivenIndexExists == given \subseteq DOMAIN accounts

\* A created service has an index no other service has: CheckIndex "checks if
\* the identifier is unique across all services".
CreatedIndexUnique == DOMAIN accounts \cap Others = {}

\* A run that ends by a trap, a page fault or without gas returns the
\* exceptional context: InvokeWholeProgram reports these as errors and nil
\* means halt.
TrapReturnsCheckpoint == ending = "trap" => returned = y

\* A run that fails leaves the maps of its last checkpoint, or of its start: both
\* contexts of the pair begin as "I(u, s), I(u, s)", and "ExceptionalCtx" is
\* returned.
FailureKeepsCheckpoint == ending = "failure" => maps = saved
=============================================================================
