\* Two owners compete for one slot; two creators race and die; two generations.
\* Three identities of a tab, one lost answer, one press of the button.
SPECIFICATION AllSpec
CONSTANTS
  Owners = {o1, o2}
  Creators = {c1, c2}
  Keys = {k1, k2}
  MaxPods = 1
  MaxGen = 2
  Accounts = {a1}
  MaxSession = 2
  MaxEpoch = 3
  MaxMe = 1
  MaxPress = 1
  MaxLost = 1
SYMMETRY Interchangeable
INVARIANTS
  TypeOK
  LivePodsHoldSlots
  OneCreatePerGeneration
  NoForeignPod
  EveryGenerationHasItsKey
PROPERTIES
  FreshGeneration
  PoolSpec
  TabIsWhoItShows
