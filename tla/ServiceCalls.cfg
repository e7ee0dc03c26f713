SPECIFICATION MCSpec
CONSTANTS
  h1 = h1
  h2 = h2
  Hashes <- MCHashes
  Lengths = {1, 2}
  RealLength <- MCRealLength
  D = 2
  Word = 16
  Capacity = 1
  MaxSlot = 5
  Self = 1
  Others = {4}
  FirstId = 2
  IdWord = 8
  Low = 1
  Step = 2
  StorageKeys = {"k1", "k2"}
  Storage0 = {}
  Balance0 = 13
  Base = 3
  PerItem = 4
  BalanceWord = 32
  Amounts = {2, 20}
  Codes = {"c1", "c2"}
  MaxCalls = 5
INVARIANT StoredWasRequested
INVARIANT NewNeverEnriches
PROPERTY RecentLookupsStable
PROPERTY CreatedAccountsKept
