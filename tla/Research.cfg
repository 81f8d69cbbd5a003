\* The instances of the store's four parts.
SPECIFICATION StoreSpec
CONSTANTS
  None = None
  Docs = {d1}
  Drafts = {r1, r2}
  Proposals = {p1}
  MaxVersion = 4
  MaxRevision = 2
  Posts = {a1, a2}
  PostDrafts = {r1, r2}
  PostProposals = {q1, q2}
  MaxPostVersion = 3
  MaxPostRevision = 2
  Materials = {m1}
  Relations = {r1, r2}
  Tabs = {t1}
  Readers = {u1}
  MaxContent = 2
  MaxDocVersion = 3
  Images = {i1, i2}
  ImageDrafts = {g1}
  ImageProposals = {h1}
  ImageReaders = {v1}
  Quota = 1
  MaxImageVersion = 2
SYMMETRY Interchangeable
INVARIANTS
  StoreTypeOK
  NoUpdateIsLost
  TextBecomesOneVersion
  ReadersSeeTheRelease
  ImagesAreStored
PROPERTIES
  StoreImplementsLogs
  NothingIsReopened
\* The bounds end every part.
CHECK_DEADLOCK FALSE
