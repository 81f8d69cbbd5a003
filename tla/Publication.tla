---------------------------- MODULE Publication ----------------------------
(***************************************************************************)
(* Publishing a document with the materials it cites                       *)
(* (app/publications.py, the relations and materials of app/research.py,   *)
(* PublicationPanel.tsx and its rows).                                     *)
(*                                                                         *)
(* A tab publishes what a preview showed it some time ago, while other     *)
(* tabs edit, archive, relate and publish; readers ask for a page and then *)
(* for its materials.  Every mutation and every preview holds the owner's  *)
(* graph lock, so each is one step; what is stale is what tabs and readers *)
(* hold.                                                                   *)
(***************************************************************************)
EXTENDS Naturals, Sequences, FiniteSets

CONSTANTS Materials, Relations, Tabs, Readers,
          Nothing,      \* no preview, bundle or target
          MaxContent,   \* bound: content versions of the document and of each material
          MaxVersion    \* bound: the document's version

(* What a release holds: a content version, and one of every material.     *)
Contents == 1..MaxContent
Bundles == [ content : Contents, materials : UNION { [S -> Contents] : S \in SUBSET Materials } ]

(* What the constants must satisfy, assumed where they get their values.   *)
PublicationAssumption ==
  /\ Nothing \notin Materials \cup Bundles
  /\ MaxContent \in Nat \ {0} /\ MaxVersion \in Nat \ {0}

VARIABLES
  doc,        \* the document's row: version, content number, archived
  materials,  \* the materials' rows
  relations,  \* research.relations from the document to a material
  releases,   \* what publish and withdraw did, in order; Nothing is a withdrawal
  head,       \* research.publication_heads: a release, or 0
  headAt,     \* headAt[v]: the head when the document's version was v
  screen,     \* the preview each tab shows
  removed,    \* relations each tab has confirmed as removed
  reader      \* the release each reader opened, and a material it then got

store == << doc, materials, relations, releases, head, headAt >>
vars  == << doc, materials, relations, releases, head, headAt, screen, removed, reader >>

-----------------------------------------------------------------------------
NoRelation == [ state |-> "none", target |-> Nothing, version |-> 0 ]
NoPage     == [ release |-> 0, got |-> Nothing ]

Init ==
  /\ doc = [ version |-> 1, content |-> 1, archived |-> FALSE ]
  /\ materials = [m \in Materials |-> [ content |-> 1, archived |-> FALSE ]]
  /\ relations = [r \in Relations |-> NoRelation]
  /\ releases = << >> /\ head = 0 /\ headAt = << 0 >>
  /\ screen = [t \in Tabs |-> Nothing]
  /\ removed = [t \in Tabs |-> {}]
  /\ reader = [r \in Readers |-> NoPage]

Linked(m)  == { r \in Relations : relations[r].state = "active" /\ relations[r].target = m }
CitedNow   == { m \in Materials : Linked(m) # {} }

(* What a release holds, and what readers see of it.                       *)
BundleNow(n) == [ content |-> n, materials |-> [m \in CitedNow |-> materials[m].content] ]

(* Mutant: the token says which materials are cited, not which version.    *)
MaterialsNow ==
  [m \in CitedNow |-> [ content |-> materials[m].content, archived |-> materials[m].archived,
                        relations |-> { << r, relations[r].version >> : r \in Linked(m) } ]]

TokenOfLinks(n) == << n, [m \in CitedNow |-> MaterialsNow[m].relations] >>

Token(n) == << n, MaterialsNow >>

Publishable == \A m \in CitedNow : ~materials[m].archived

(* The document moves: its version, and the history of its heads.          *)
Moved(newHead) ==
  /\ head' = newHead
  /\ headAt' = Append(headAt, newHead)

-----------------------------------------------------------------------------
(* The owner's other requests, as DocumentWriting has them: each names the *)
(* version it read, and only the one that names the current one counts.    *)
ChangeDocument ==
  /\ ~doc.archived /\ doc.version < MaxVersion /\ doc.content < MaxContent
  /\ doc' = [doc EXCEPT !.version = @ + 1, !.content = @ + 1]
  /\ Moved(head)
  /\ UNCHANGED << materials, relations, releases, screen, removed, reader >>

ArchiveDocument ==
  /\ ~doc.archived /\ doc.version < MaxVersion
  /\ doc' = [doc EXCEPT !.version = @ + 1, !.archived = TRUE]
  /\ Moved(head)
  /\ UNCHANGED << materials, relations, releases, screen, removed, reader >>

ChangeMaterial(m) ==
  /\ ~materials[m].archived /\ materials[m].content < MaxContent
  /\ materials' = [materials EXCEPT ![m].content = @ + 1]
  /\ UNCHANGED << doc, relations, releases, head, headAt, screen, removed, reader >>

ArchiveMaterial(m) ==
  /\ ~materials[m].archived
  /\ materials' = [materials EXCEPT ![m].archived = TRUE]
  /\ UNCHANGED << doc, relations, releases, head, headAt, screen, removed, reader >>

CreateRelation(r, m) ==
  /\ relations[r].state = "none"
  /\ ~doc.archived /\ ~materials[m].archived
  /\ relations' = [relations EXCEPT ![r] = [ state |-> "active", target |-> m, version |-> 1 ]]
  /\ UNCHANGED << doc, materials, releases, head, headAt, screen, removed, reader >>

(* Mutant: a relation whose target is archived is not found for removal.   *)
FoundActive(r) ==
  relations[r].state = "active" /\ ~doc.archived /\ ~materials[relations[r].target].archived

(* owned_relation: removal also finds relations of archived items.         *)
FoundForRemoval(r) == relations[r].state = "active"

ChangeRelation(r) ==
  /\ relations[r].state = "active" /\ relations[r].version < MaxContent
  /\ ~doc.archived /\ ~materials[relations[r].target].archived
  /\ relations' = [relations EXCEPT ![r].version = @ + 1]
  /\ UNCHANGED << doc, materials, releases, head, headAt, screen, removed, reader >>

(* Removal from the relation's own panel.                                  *)
ArchiveRelation(r) ==
  /\ FoundForRemoval(r)
  /\ relations' = [relations EXCEPT ![r].state = "archived", ![r].version = @ + 1]
  /\ UNCHANGED << doc, materials, releases, head, headAt, screen, removed, reader >>

-----------------------------------------------------------------------------
(* Mutant: the preview is taken of archived documents, too.                *)
DocumentShown == doc.version > 0

(* owned_item(active=True), for the preview and again for the release.     *)
DocumentOpen == ~doc.archived

(* publication-preview, of the last content version or of an older one.    *)
(* A row keeps what it confirmed as long as a reload still lists it.       *)
Kept(t, n) ==
  IF screen[t] # Nothing /\ screen[t].content = n
  THEN { r \in removed[t] : relations[r].target \in CitedNow } ELSE {}

Preview(t, n) ==
  /\ DocumentOpen
  /\ screen' = [screen EXCEPT ![t] =
       [ expected |-> doc.version, content |-> n, token |-> Token(n), bundle |-> BundleNow(n),
         blocked |-> { m \in CitedNow : materials[m].archived }, links |-> MaterialsNow,
         publishable |-> Publishable ]]
  /\ removed' = [removed EXCEPT ![t] = Kept(t, n)]
  /\ UNCHANGED << store, reader >>

(* The row of an archived material removes its relations one request at a  *)
(* time; one that is not found counts as removed, a conflict does not.     *)
Unlink(t, m, r) ==
  LET shown == screen[t].links[m].relations IN
  /\ screen[t] # Nothing /\ m \in screen[t].blocked
  /\ r \notin removed[t]
  /\ \E v \in { e[2] : e \in { x \in shown : x[1] = r } } :
       \/ /\ ~FoundForRemoval(r)
          /\ removed' = [removed EXCEPT ![t] = @ \cup {r}]
          /\ UNCHANGED relations
       \/ /\ FoundForRemoval(r) /\ relations[r].version = v
          /\ relations' = [relations EXCEPT ![r].state = "archived", ![r].version = @ + 1]
          /\ removed' = [removed EXCEPT ![t] = @ \cup {r}]
  /\ UNCHANGED << doc, materials, releases, head, headAt, screen, reader >>

(* Mutant: the document's version is not compared.                         *)
AnyVersion(expected) == expected \in 1..doc.version

ExpectVersion(expected) == doc.version = expected

(* publish: the preview is computed again and its token compared.          *)
Publish(t) ==
  LET shown == screen[t] IN
  /\ shown # Nothing /\ shown.publishable       \* the button
  /\ DocumentOpen /\ doc.version < MaxVersion
  /\ ExpectVersion(shown.expected)
  /\ Token(shown.content) = shown.token
  /\ Publishable
  /\ releases' = Append(releases,
       [ bundle |-> BundleNow(shown.content), shown |-> shown.bundle,
         knew |-> headAt[shown.expected], was |-> head ])
  /\ doc' = [doc EXCEPT !.version = @ + 1]
  /\ Moved(Len(releases) + 1)
  /\ screen' = [screen EXCEPT ![t] = Nothing]
  /\ removed' = [removed EXCEPT ![t] = {}]
  /\ UNCHANGED << materials, relations, reader >>

(* Mutant: the withdrawal itself becomes the head.                         *)
WithdrawalAsHead == Len(releases) + 1

NoHead == 0

(* withdraw, with the version the page had; also of an archived document.  *)
Withdraw(expected) ==
  /\ doc.version < MaxVersion
  /\ ExpectVersion(expected)
  /\ head # 0
  /\ releases' = Append(releases,
       [ bundle |-> Nothing, shown |-> Nothing, knew |-> headAt[expected], was |-> head ])
  /\ doc' = [doc EXCEPT !.version = @ + 1]
  /\ Moved(NoHead)
  /\ UNCHANGED << materials, relations, screen, removed, reader >>

-----------------------------------------------------------------------------
(* A reader opens the public page, and later asks for a material of that   *)
(* release.                                                                *)
Open(r) ==
  /\ head # 0
  /\ reader' = [reader EXCEPT ![r] = [ release |-> head, got |-> Nothing ]]
  /\ UNCHANGED << store, screen, removed >>

(* Mutant: the material of whatever release is current.                    *)
ServedCurrent(release) == head # 0

(* current_publication with the release's id: only the head is served.     *)
Served(release) == head # 0 /\ head = release

ReadMaterial(r, m) ==
  LET page == reader[r] IN
  /\ page.release # 0 /\ page.got = Nothing
  /\ Served(page.release)
  /\ m \in DOMAIN releases[head].bundle.materials
  /\ reader' = [reader EXCEPT ![r].got = << m, releases[head].bundle.materials[m] >>]
  /\ UNCHANGED << store, screen, removed >>

-----------------------------------------------------------------------------
OwnerStep ==
  \/ ChangeDocument \/ ArchiveDocument
  \/ \E m \in Materials : ChangeMaterial(m) \/ ArchiveMaterial(m)
  \/ \E r \in Relations :
       ChangeRelation(r) \/ ArchiveRelation(r) \/ \E m \in Materials : CreateRelation(r, m)

PanelStep ==
  \/ \E v \in 1..doc.version : Withdraw(v)
  \/ \E t \in Tabs :
       \/ \E n \in 1..doc.content : Preview(t, n)
       \/ \E m \in Materials, r \in Relations : Unlink(t, m, r)
       \/ Publish(t)

ReaderStep == \E r \in Readers : Open(r) \/ \E m \in Materials : ReadMaterial(r, m)

Next == OwnerStep \/ PanelStep \/ ReaderStep

Spec == Init /\ [][Next]_vars

-----------------------------------------------------------------------------
TypeOK ==
  /\ doc \in [ version : 1..MaxVersion, content : Contents, archived : BOOLEAN ]
  /\ materials \in [Materials -> [ content : Contents, archived : BOOLEAN ]]
  /\ relations \in [Relations -> [ state : {"none", "active", "archived"},
                                   target : Materials \cup {Nothing}, version : Nat ]]
  /\ \A n \in 1..Len(releases) :
       /\ releases[n].bundle \in Bundles \cup {Nothing}
       /\ releases[n].shown \in Bundles \cup {Nothing}
  /\ head \in 0..Len(releases) /\ (head # 0 => releases[head].bundle # Nothing)
  /\ headAt \in Seq(0..Len(releases)) /\ Len(headAt) = doc.version
  /\ removed \in [Tabs -> SUBSET Relations]
  /\ reader \in [Readers -> [ release : 0..Len(releases),
                              got : (Materials \X Contents) \cup {Nothing} ]]

(* "The server derives all materials directly connected and pins them at   *)
(* their current version" (PublicationPanel.tsx:21): what is released is   *)
(* exactly what the tab that released it was showing, however materials,   *)
(* relations and versions changed between.                                 *)
PublishedIsWhatWasShown ==
  \A n \in 1..Len(releases) : releases[n].bundle = releases[n].shown

(* Neither a publication nor a withdrawal replaces a release its page did  *)
(* not know of.                                                            *)
NoBlindReplacement ==
  \A n \in 1..Len(releases) : releases[n].knew = releases[n].was

(* "Refuses publishing until their relations are explicitly removed"       *)
(* (POLICY-VALIDATION.md:5): no release is made while a material that is   *)
(* archived is cited, although it may be archived after the preview.       *)
NoArchivedMaterialReleased ==
  [][ head' > head /\ head' = Len(releases') =>
        \A m \in DOMAIN releases'[head'].bundle.materials : ~materials[m].archived ]_vars

(* An archived document keeps its release until it is withdrawn, and never *)
(* gets another (PublicationPanel.tsx:241).                                *)
ArchivedOnlyWithdraws ==
  [][ doc.archived => head' \in {head, 0} ]_vars

(* A row whose removal was confirmed, also by a 404, does not block the    *)
(* publication any more (PublicationPanel.tsx:34: "already deleted (404)   *)
(* counts as removed").                                                    *)
RemovedIsRemoved ==
  [][ \A t \in Tabs : \A r \in removed'[t] : relations'[r].state = "archived" ]_vars

(* "Only the current head is publicly readable" (POLICY-VALIDATION.md:5):  *)
(* a reader who asks for a material of the page it opened gets the one of  *)
(* that release or nothing, never one of a later release.                  *)
ReaderSeesOneRelease ==
  \A r \in Readers : LET page == reader[r] IN
    page.got # Nothing =>
      /\ page.got[1] \in DOMAIN releases[page.release].bundle.materials
      /\ page.got[2] = releases[page.release].bundle.materials[page.got[1]]
=============================================================================
