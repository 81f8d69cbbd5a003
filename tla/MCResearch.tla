----------------------------- MODULE MCResearch -----------------------------
(* The research store for TLC: documents, posts, publication and images.   *)
(* Each of the four modules holds all that its own operations read, so a   *)
(* behaviour here is one of one part, and the others rest in their initial *)
(* states: the run explores the sum of the four, not their product.        *)
EXTENDS DocumentWriting, TLC

CONSTANTS Posts, PostDrafts, PostProposals, MaxPostVersion, MaxPostRevision,
          Materials, Relations, Tabs, Readers, MaxContent, MaxDocVersion,
          Images, ImageDrafts, ImageProposals, ImageReaders, Quota, MaxImageVersion

VARIABLES
  part,                                                      \* which part is explored
  posts, postDrafts, postProposals, postReleases,            \* PostWriting
  doc, materials, relations, releases, head, headAt, screen, removed, reader,  \* Publication
  row, bytes, writer, texts, versions, released, imageHead, imageReader        \* PostImages

postVars    == << posts, postDrafts, postProposals, postReleases >>
releaseVars == << doc, materials, relations, releases, head, headAt, screen, removed, reader >>
imageVars   == << row, bytes, writer, texts, versions, released, imageHead, imageReader >>

Post == INSTANCE PostWriting WITH
  Drafts <- PostDrafts, Proposals <- PostProposals,
  MaxVersion <- MaxPostVersion, MaxRevision <- MaxPostRevision,
  drafts <- postDrafts, proposals <- postProposals, releases <- postReleases

Release == INSTANCE Publication WITH Nothing <- None, MaxVersion <- MaxDocVersion

Image == INSTANCE PostImages WITH
  Drafts <- ImageDrafts, Proposals <- ImageProposals, Readers <- ImageReaders, Nobody <- None,
  MaxVersion <- MaxImageVersion, head <- imageHead, reader <- imageReader

ASSUME PartsAssumption ==
  Post!PostAssumption /\ Release!PublicationAssumption /\ Image!PostImagesAssumption

StoreInit == /\ part \in {"documents", "posts", "publication", "images"}
             /\ Init /\ Post!Init /\ Release!Init /\ Image!Init

StoreNext ==
  \/ part = "documents"   /\ Next         /\ UNCHANGED << part, postVars, releaseVars, imageVars >>
  \/ part = "posts"       /\ Post!Next    /\ UNCHANGED << part, vars, releaseVars, imageVars >>
  \/ part = "publication" /\ Release!Next /\ UNCHANGED << part, vars, postVars, imageVars >>
  \/ part = "images"      /\ Image!Next   /\ UNCHANGED << part, vars, postVars, releaseVars >>

StoreSpec == StoreInit /\ [][StoreNext]_<< part, vars, postVars, releaseVars, imageVars >>

(* The parts are given the same model values, so that few permutations do. *)
Interchangeable ==
  Permutations(Posts) \cup Permutations(Drafts) \cup Permutations(PostProposals)

-----------------------------------------------------------------------------
(* Each part keeps the shapes of its tables and files.                     *)
StoreTypeOK == TypeOK /\ Post!TypeOK /\ Release!TypeOK /\ Image!TypeOK

(* Documents and posts lose no update, and a publication never replaces a  *)
(* release that its page did not know of.                                  *)
NoUpdateIsLost == NoLostUpdate /\ Post!NoLostUpdate /\ Release!NoBlindReplacement

(* Typed and proposed text becomes a version once: an item has one active  *)
(* draft, a draft and a proposal make exactly the version they were closed *)
(* by, and one draft never becomes two posts.                              *)
TextBecomesOneVersion ==
  /\ OneActiveDraft /\ DraftClosedByOneVersion /\ ProposalIsOneVersion
  /\ Post!OneActiveDraft /\ Post!DraftClosedByOneVersion /\ Post!ProposalIsOneVersion
  /\ Post!NoTwinPost

(* What readers get is what the person who released it was shown, of one   *)
(* release, with its bytes; an archived post shows nothing.                *)
ReadersSeeTheRelease ==
  /\ Release!PublishedIsWhatWasShown /\ Release!ReaderSeesOneRelease
  /\ Post!ArchivedIsPrivate /\ Image!PublicImageServed

(* Image rows and files agree at every moment, within the owner's quota.   *)
ImagesAreStored == Image!InventoryPasses /\ Image!DiskWithinQuota

(* Documents and posts are version logs (VersionLog): appended to          *)
(* knowingly, one version at a time, and never after the archive.          *)
StoreImplementsLogs == ImplementsLog /\ Post!ImplementsLog

(* What is closed, archived or confirmed as removed stays so, whatever     *)
(* late request names it, and a live post keeps its publication date.      *)
NothingIsReopened ==
  /\ ClosedStaysClosed /\ Post!FirstPublicationStands
  /\ Release!NoArchivedMaterialReleased /\ Release!ArchivedOnlyWithdraws
  /\ Release!RemovedIsRemoved
=============================================================================
