----------------------------- MODULE PostImages -----------------------------
(***************************************************************************)
(* The owner's images (app/post_images.py): rows in the database, bytes in *)
(* a directory, and references from drafts, proposals, versions and        *)
(* publications (app/posts.py, post_proposals.py, post_publications.py).   *)
(*                                                                         *)
(* Requests of an owner exclude each other by the graph lock, but upload   *)
(* and purge write to two stores: the process may die between the file and *)
(* the row.  Reading an image takes no lock.                               *)
(***************************************************************************)
EXTENDS Naturals, Sequences, FiniteSets

CONSTANTS Images, Drafts, Proposals, Readers,
          Nobody,       \* no image, no holder of the lock
          Quota,        \* images an owner may store
          MaxVersion    \* bound: versions of the post

(* What the constants must satisfy, assumed where they get their values.   *)
PostImagesAssumption ==
  /\ Nobody \notin Images /\ Drafts \cap Proposals = {}
  /\ Quota \in Nat /\ MaxVersion \in Nat

VARIABLES
  row,       \* research.post_images: none, kept, deleted (the tombstone), purged
  bytes,     \* images with a file
  writer,    \* the upload or purge that holds the graph lock, and its image
  texts,     \* drafts and proposals, with the images they refer to
  versions,  \* the post's versions, as the images they refer to
  released,  \* versions with a publication
  head,      \* the publication readers see, or 0
  reader     \* requests for an image's bytes

rows == << texts, versions, released, head >>
vars == << row, bytes, writer, texts, versions, released, head, reader >>

-----------------------------------------------------------------------------
Texts  == Drafts \cup Proposals
Free   == [ doing |-> "none", image |-> Nobody ]
NoRead == [ at |-> "none", image |-> Nobody, public |-> FALSE ]

Init ==
  /\ row = [i \in Images |-> "none"] /\ bytes = {} /\ writer = Free
  /\ texts = [t \in Texts |-> [ state |-> "none", images |-> {} ]]
  /\ versions = << >> /\ released = {} /\ head = 0
  /\ reader = [r \in Readers |-> NoRead]

(* Mutant: an image awaiting its purge no longer counts.                   *)
StoredKept == { i \in Images : row[i] = "kept" }

Stored == { i \in Images : row[i] \in {"kept", "deleted"} }

(* Mutant: closed drafts and proposals no longer protect, nor do versions  *)
(* that are not published now.                                             *)
ReferencedNow ==
  (UNION { texts[t].images : t \in { u \in Texts : texts[u].state = "open" } })
    \cup (UNION { versions[v] : v \in {head} \cap DOMAIN versions })

Referenced ==
  (UNION { texts[t].images : t \in Texts }) \cup (UNION { versions[v] : v \in DOMAIN versions })

(* Mutant: an image whose bytes are there may be referred to.              *)
ValidBytes(images) == images \subseteq bytes

(* validate: the row is there, not deleted, and its bytes can be read.     *)
Valid(images) == \A i \in images : row[i] = "kept" /\ i \in bytes

-----------------------------------------------------------------------------
(* The file is linked under a fresh name before the row is committed.      *)
LinkUpload(i) ==
  /\ writer = Free
  /\ row[i] = "none" /\ i \notin bytes
  /\ Cardinality(Stored) + 1 <= Quota
  /\ bytes' = bytes \cup {i}
  /\ writer' = [ doing |-> "upload", image |-> i ]
  /\ UNCHANGED << row, rows, reader >>

CommitUpload ==
  /\ writer.doing = "upload"
  /\ row' = [row EXCEPT ![writer.image] = "kept"]
  /\ writer' = Free
  /\ UNCHANGED << bytes, rows, reader >>

(* The tombstone commits in a transaction of its own ...                   *)
Remove(i) ==
  /\ writer = Free
  /\ row[i] = "kept" /\ i \notin Referenced
  /\ row' = [row EXCEPT ![i] = "deleted"]
  /\ UNCHANGED << bytes, writer, rows, reader >>

(* ... and the purge follows, at once or in a repeated request.            *)
Unlink(i) ==
  /\ writer = Free
  /\ row[i] = "deleted"
  /\ bytes' = bytes \ {i}
  /\ writer' = [ doing |-> "purge", image |-> i ]
  /\ UNCHANGED << row, rows, reader >>

CommitPurge ==
  /\ writer.doing = "purge"
  /\ row' = [row EXCEPT ![writer.image] = "purged"]
  /\ writer' = Free
  /\ UNCHANGED << bytes, rows, reader >>

(* The process dies, or the transaction fails to commit.                   *)
RollBack ==
  /\ writer # Free
  /\ writer' = Free
  /\ UNCHANGED << row, bytes, rows, reader >>

-----------------------------------------------------------------------------
(* create_draft, change_draft and a proposal's create.                     *)
Write(t, images) ==
  /\ writer = Free
  /\ texts[t].state = "none" \/ (t \in Drafts /\ texts[t].state = "open")
  /\ Valid(images)
  /\ texts' = [texts EXCEPT ![t] = [ state |-> "open", images |-> images ]]
  /\ UNCHANGED << row, bytes, writer, versions, released, head, reader >>

Discard(t) ==
  /\ writer = Free
  /\ texts[t].state = "open"
  /\ texts' = [texts EXCEPT ![t].state = "closed"]
  /\ UNCHANGED << row, bytes, writer, versions, released, head, reader >>

(* save_version: commit_draft takes the draft's text, the acceptance of a  *)
(* proposal what its request carries.                                      *)
SaveVersion(t, images) ==
  /\ writer = Free
  /\ texts[t].state = "open" /\ Len(versions) < MaxVersion
  /\ t \in Drafts => images = texts[t].images
  /\ Valid(images)
  /\ versions' = Append(versions, images)
  /\ texts' = [texts EXCEPT ![t].state = "closed"]
  /\ UNCHANGED << row, bytes, writer, released, head, reader >>

(* Mutant: the head moves without a publication of the version.            *)
PublishHead(v) ==
  /\ writer = Free
  /\ v \in DOMAIN versions /\ Valid(versions[v])
  /\ head' = v
  /\ UNCHANGED << row, bytes, writer, texts, versions, released, reader >>

Publish(v) ==
  /\ writer = Free
  /\ v \in DOMAIN versions /\ Valid(versions[v])
  /\ head' = v
  /\ released' = released \cup {v}
  /\ UNCHANGED << row, bytes, writer, texts, versions, reader >>

(* withdraw, and archive.                                                  *)
Withdraw ==
  /\ writer = Free
  /\ head # 0
  /\ head' = 0
  /\ UNCHANGED << row, bytes, writer, texts, versions, released, reader >>

-----------------------------------------------------------------------------
(* media: the row, then who may see it, then the bytes.                    *)
ReadRow(r, i) ==
  /\ reader[r].at = "none" /\ row[i] = "kept"
  /\ reader' = [reader EXCEPT ![r] = [ at |-> "row", image |-> i, public |-> FALSE ]]
  /\ UNCHANGED << row, bytes, writer, rows >>

(* An image of no release is for its owner, who continues; others stop.    *)
Admit(r) ==
  /\ reader[r].at = "row"
  /\ reader' = [reader EXCEPT ![r].at = "admitted",
                  ![r].public = head # 0 /\ reader[r].image \in versions[head]]
  /\ UNCHANGED << row, bytes, writer, rows >>

ReadBytes(r) ==
  /\ reader[r].at = "admitted"
  /\ reader' = [reader EXCEPT ![r].at = IF reader[r].image \in bytes THEN "served" ELSE "not_ready"]
  /\ UNCHANGED << row, bytes, writer, rows >>

Answered(r) ==
  /\ reader[r].at \in {"row", "served", "not_ready"}
  /\ reader' = [reader EXCEPT ![r] = NoRead]
  /\ UNCHANGED << row, bytes, writer, rows >>

-----------------------------------------------------------------------------
ImageStep ==
  \/ \E i \in Images : LinkUpload(i) \/ Remove(i) \/ Unlink(i)
  \/ CommitUpload \/ CommitPurge \/ RollBack

PostStep ==
  \/ \E t \in Texts :
       Discard(t) \/ \E images \in SUBSET Images : SaveVersion(t, images) \/ Write(t, images)
  \/ \E v \in DOMAIN versions : Publish(v)
  \/ Withdraw

MediaStep == \E r \in Readers :
  \/ \E i \in Images : ReadRow(r, i)
  \/ Admit(r) \/ ReadBytes(r) \/ Answered(r)

Next == ImageStep \/ PostStep \/ MediaStep

Spec == Init /\ [][Next]_vars

-----------------------------------------------------------------------------
(* The state has the shape of the tables and of the directory.             *)
TypeOK ==
  /\ row \in [Images -> {"none", "kept", "deleted", "purged"}]
  /\ bytes \subseteq Images
  /\ writer \in [doing : {"none", "upload", "purge"}, image : Images \cup {Nobody}]
  /\ texts \in [Texts -> [state : {"none", "open", "closed"}, images : SUBSET Images]]
  /\ versions \in Seq(SUBSET Images)
  /\ released \subseteq DOMAIN versions /\ head \in released \cup {0}
  /\ reader \in [Readers -> [at : {"none", "row", "admitted", "served", "not_ready"},
                             image : Images \cup {Nobody}, public : BOOLEAN]]

(* What ops/post_image_inventory.py asks of the pair of stores before a    *)
(* backup holds at every moment, a crash between two writes included: no   *)
(* reference, of a closed draft or an old version either, is to an image   *)
(* that is deleted, and every image that is not has its bytes.             *)
InventoryPasses ==
  /\ \A i \in Referenced : row[i] = "kept"
  /\ \A i \in Images : row[i] = "kept" => i \in bytes

(* POSTS.md: "Until unlink succeeds the quota is retained".  The files of  *)
(* images with a row, and of the upload that goes on, never exceed the     *)
(* quota; only orphans of failed uploads are not counted.                  *)
DiskWithinQuota ==
  Cardinality({ i \in bytes : row[i] # "none" \/ writer = [doing |-> "upload", image |-> i] }) <= Quota

(* A reader who found an image to be part of the current release gets its  *)
(* bytes, although the release is withdrawn, the post archived and an      *)
(* image deleted while the request is under way.                           *)
PublicImageServed ==
  \A r \in Readers : reader[r].at = "not_ready" => ~reader[r].public

=============================================================================
