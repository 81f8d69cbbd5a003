-------------------------- MODULE MCDraftAutosave ---------------------------
(* What a person types in the browser, for TLC, part by part: tabs that    *)
(* autosave one document, and the composer of a conversation.  A behaviour *)
(* is one of one part, the other rests in its initial state.               *)
EXTENDS DraftAutosave, TLC

CONSTANTS Questions,    \* what may be asked
          MaxKeys, MaxScreens, MaxEntered, MaxFaults   \* bounds of ChatComposer

VARIABLES
  part,                                                          \* which of them is explored
  session, receipted, signedIn, stored, draft, screen, known, view, loads, timer,
  waits, orphans, made, settled, entered, twice, edits, faults   \* ChatComposer

chatVars == << session, receipted, signedIn, stored, draft, screen, known, view, loads, timer,
               waits, orphans, made, settled, entered, twice, edits, faults >>

Chat == INSTANCE ChatComposer WITH
  Texts <- Questions, MaxTyped <- MaxEntered, receipts <- receipted, typed <- entered

ASSUME ComposerAssumption == Chat!ComposerAssumption

Interchangeable == Permutations(Tabs) \cup Permutations(Texts \ {Initial})

AllInit == part \in {"editors", "chat"} /\ Init /\ Chat!Init

AllNext ==
  \/ part = "editors" /\ Next /\ UNCHANGED << part, chatVars >>
  \/ part = "chat" /\ Chat!Next /\ UNCHANGED << part, vars >>

AllSpec == AllInit /\ [][AllNext]_<< part, vars, chatVars >>

-----------------------------------------------------------------------------
AllTypeOK == TypeOK /\ Chat!TypeOK

(* A question is not asked twice by repeating it                           *)
(* (lib/research/pendingSend.ts:2), and what was typed is not lost from the*)
(* composer while it is not sent.                                          *)
QuestionIsKept == Chat!NoQuestionTwice /\ Chat!InputSurvives
=============================================================================
