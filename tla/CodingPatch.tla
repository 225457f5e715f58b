------------------------------- MODULE CodingPatch -------------------------------
(* The patches of the coding agent on one file of a project: propose, apply and  *)
(* revert.  An endpoint looks the proposal up, and changes it, in the event      *)
(* loop, then runs apply_patch or revert_patch in a thread; calls share the      *)
(* proposal object and one temporary file, named for the process.  A hash stands *)
(* for the content it is of, NoFile for the hash of a file that was not there.   *)
(* Reading the file, writing the temporary file and renaming it are one step     *)
(* each; the file normalized to "\n" is the content.  A request that moves its   *)
(* proposal to another file is left out.                                         *)
EXTENDS Naturals

CONSTANTS
  Content,    \* contents of the file
  Empty,      \* the empty one
  NoFile,     \* the file is not there
  Proposal,   \* ids of proposals
  Thread,     \* threads of asyncio.to_thread
  MaxPatchCalls   \* bound: calls of apply and revert

ASSUME CodingPatchAssumption == /\ Empty \in Content /\ NoFile \notin Content
                               /\ MaxPatchCalls \in Nat

VARIABLES
  file,       \* what the project has
  tmp,        \* what the temporary file has
  proposal,   \* the proposal objects
  known,      \* those in _active_proposals; another belongs to the call it was made for
  patchCalls, \* calls so far
  patching,   \* where the call in each thread is
  target,     \* the proposal it works on
  disturbed,  \* threads since whose check another call or an editor changed something
  reviewed,   \* the file as each proposal was made from it
  rebased,    \* proposals to which a request gave another expected_hash
  replaced    \* what the last apply of a proposal replaced; NoFile if not known

patchVars == <<file, tmp, proposal, known, patchCalls, patching, target, disturbed, reviewed,
               rebased, replaced>>

FileState == Content \cup {NoFile}
ProposalRecord == [hash : FileState, original : Content, proposed : Content, applied : BOOLEAN]
Blank == [hash |-> NoFile, original |-> Empty, proposed |-> Empty, applied |-> FALSE]

CodingPatchTypeOK ==
  /\ file \in FileState /\ tmp \in FileState
  /\ proposal \in [Proposal -> ProposalRecord]
  /\ known \subseteq Proposal /\ patchCalls \in 0..MaxPatchCalls
  /\ patching \in [Thread -> {"idle", "apply", "write", "replace", "revert", "unlink",
                              "write back", "put back", "cleanup"}]
  /\ target \in [Thread -> Proposal \cup {NoFile}]
  /\ disturbed \subseteq Thread /\ rebased \subseteq Proposal
  /\ reviewed \in [Proposal -> FileState] /\ replaced \in [Proposal -> FileState]

CodingPatchInit ==
  /\ file \in FileState /\ tmp = NoFile
  /\ proposal = [p \in Proposal |-> Blank] /\ known = {} /\ patchCalls = 0
  /\ patching = [t \in Thread |-> "idle"] /\ target = [t \in Thread |-> NoFile]
  /\ disturbed = {} /\ rebased = {}
  /\ reviewed = [p \in Proposal |-> NoFile] /\ replaced = reviewed

Of(t) == proposal[target[t]]
Starts(t, p, at) ==
  /\ patching[t] = "idle" /\ patchCalls < MaxPatchCalls /\ patchCalls' = patchCalls + 1
  /\ patching' = [patching EXCEPT ![t] = at] /\ target' = [target EXCEPT ![t] = p]
Goes(t, from, to) ==
  /\ patching[t] = from
  /\ patching' = [patching EXCEPT ![t] = to]
  /\ target' = IF to = "idle" THEN [target EXCEPT ![t] = NoFile] ELSE target
Others(t) == {u \in Thread : u # t /\ patching[u] # "idle"}
Sharing(p) == {u \in Thread : target[u] = p}
Disturb(ts) == disturbed' = {u \in disturbed \cup ts : patching'[u] # "idle"}

--------------------------------------------------------------------------------
(* The endpoints.                                                              *)

\* propose_patch reads the file; the id reaches the client, and _active_proposals,
\* with the answer
Propose(p, content) ==
  /\ p \notin known /\ Sharing(p) = {}
  /\ known' = known \cup {p}
  /\ proposal' = [proposal EXCEPT ![p] =
       [hash |-> file, original |-> IF file = NoFile THEN Empty ELSE file,
        proposed |-> content, applied |-> FALSE]]
  /\ reviewed' = [reviewed EXCEPT ![p] = file]
  /\ replaced' = [replaced EXCEPT ![p] = NoFile]
  /\ rebased' = rebased \ {p}
  /\ UNCHANGED <<file, tmp, patchCalls, patching, target, disturbed>>

\* the apply endpoint on a known proposal, which takes the hash and the content of
\* the request when it has them (NoFile: it has none)
RequestApply(t, p, hash, content) ==
  /\ p \in known
  /\ Starts(t, p, "apply")
  /\ proposal' = [proposal EXCEPT ![p].hash = IF hash = NoFile THEN @ ELSE hash,
                                  ![p].proposed = IF content = NoFile THEN @ ELSE content]
  /\ rebased' = IF hash \in {NoFile, reviewed[p]} THEN rebased ELSE rebased \cup {p}
  /\ disturbed' = (disturbed \cup IF proposal'[p] # proposal[p] THEN Sharing(p) ELSE {}) \ {t}
  /\ UNCHANGED <<file, tmp, known, reviewed, replaced>>

\* on an id it does not know: a proposal made of the request, kept nowhere
RequestReconstructed(t, p, hash, content) ==
  /\ p \notin known /\ Sharing(p) = {}
  /\ Starts(t, p, "apply")
  /\ proposal' = [proposal EXCEPT ![p] = [Blank EXCEPT !.hash = hash, !.proposed = content]]
  /\ disturbed' = disturbed \ {t}
  /\ UNCHANGED <<file, tmp, known, reviewed, rebased, replaced>>

RequestRevert(t, p) ==
  /\ p \in known
  /\ Starts(t, p, "revert")
  /\ disturbed' = disturbed \ {t}
  /\ UNCHANGED <<file, tmp, proposal, known, reviewed, rebased, replaced>>

--------------------------------------------------------------------------------
(* The threads.                                                                *)

\* Mutant of Matches: the hash is not compared.
MatchesAnything(t) == TRUE
\* the optimistic concurrency check of apply_patch
Matches(t) == Of(t).hash = NoFile \/ file = Of(t).hash

CheckApply(t) ==
  /\ Goes(t, "apply", IF Matches(t) THEN "write" ELSE "idle")
  /\ disturbed' = disturbed \ {t}
  /\ UNCHANGED <<file, tmp, proposal, known, patchCalls, reviewed, rebased, replaced>>

\* write_text of the temporary file, which may fail when it has created it or before
WriteTmp(t, from, to, content) ==
  /\ \/ Goes(t, from, to) /\ tmp' = content
     \/ Goes(t, from, "cleanup") /\ tmp' \in {tmp, Empty}
  /\ Disturb(Others(t))
  /\ UNCHANGED <<file, proposal, known, patchCalls, reviewed, rebased, replaced>>

\* rename it over the file; it fails when another call has renamed or removed it,
\* or the file cannot be replaced
Renamed(t, from) ==
  /\ Goes(t, from, "idle")
  /\ tmp # NoFile
  /\ file' = tmp /\ tmp' = NoFile
  /\ Disturb(Others(t))
  /\ UNCHANGED <<known, patchCalls, reviewed, rebased>>

RenameFails(t) ==
  /\ Goes(t, patching[t], "cleanup")
  /\ patching[t] \in {"replace", "put back"}
  /\ UNCHANGED <<file, tmp, proposal, known, patchCalls, target, disturbed, reviewed, rebased,
                 replaced>>

\* the apply succeeded
Replace(t) ==
  /\ Renamed(t, "replace")
  /\ proposal' = [proposal EXCEPT ![target[t]].applied = TRUE]
  /\ replaced' = [replaced EXCEPT ![target[t]] = IF t \in disturbed THEN NoFile ELSE file]

\* the apply, or the revert, failed
CleanUp(t) ==
  /\ Goes(t, "cleanup", "idle")
  /\ tmp' = NoFile
  /\ Disturb(Others(t))
  /\ UNCHANGED <<file, proposal, known, patchCalls, reviewed, rebased, replaced>>

\* Mutant of Created: looks at the original content only.
CreatedIfEmpty(t) == Of(t).original = Empty
\* the proposal created the file
Created(t) == Of(t).hash = NoFile /\ Of(t).original = Empty

\* revert_patch: the file must have what the proposal put there
CheckRevert(t) ==
  /\ Goes(t, "revert", IF file # Of(t).proposed THEN "idle"
                       ELSE IF Created(t) THEN "unlink" ELSE "write back")
  /\ disturbed' = disturbed \ {t}
  /\ UNCHANGED <<file, tmp, proposal, known, patchCalls, reviewed, rebased, replaced>>

\* a file that is gone already fails the revert
Unlink(t) ==
  /\ Goes(t, "unlink", "idle")
  /\ file' = NoFile
  /\ proposal' = IF file = NoFile THEN proposal
                 ELSE [proposal EXCEPT ![target[t]].applied = FALSE]
  /\ Disturb(Others(t))
  /\ UNCHANGED <<tmp, known, patchCalls, reviewed, rebased, replaced>>

PutBack(t) ==
  /\ Renamed(t, "put back")
  /\ proposal' = [proposal EXCEPT ![target[t]].applied = FALSE]
  /\ UNCHANGED replaced

--------------------------------------------------------------------------------
\* Somebody edits, creates or deletes the file.
Edit(content) ==
  /\ file' = content /\ content # file
  /\ UNCHANGED <<tmp, proposal, known, patchCalls, patching, target, reviewed, rebased, replaced>>
  /\ Disturb(Thread)

\* The server restarts: its proposals are gone, and its temporary file is another.
RestartPatches ==
  /\ tmp' = NoFile /\ known' = {}
  /\ proposal' = [p \in Proposal |-> Blank]
  /\ patching' = [t \in Thread |-> "idle"] /\ target' = [t \in Thread |-> NoFile]
  /\ disturbed' = {} /\ rebased' = {}
  /\ reviewed' = [p \in Proposal |-> NoFile] /\ replaced' = reviewed'
  /\ UNCHANGED <<file, patchCalls>>

PatchThread(t) ==
  \/ CheckApply(t) \/ Replace(t) \/ CheckRevert(t) \/ Unlink(t) \/ PutBack(t)
  \/ RenameFails(t) \/ CleanUp(t)
  \/ WriteTmp(t, "write", "replace", Of(t).proposed)
  \/ WriteTmp(t, "write back", "put back", Of(t).original)

PatchUser ==
  \/ \E p \in Proposal, content \in Content : Propose(p, content)
  \/ \E t \in Thread, p \in Proposal :
       RequestRevert(t, p) \/ \E hash, content \in FileState : RequestApply(t, p, hash, content)
  \/ \E t \in Thread, p \in Proposal, hash \in FileState, content \in Content \ {Empty} :
       RequestReconstructed(t, p, hash, content)
  \/ \E content \in FileState : Edit(content)
  \/ RestartPatches

CodingPatchNext == PatchUser \/ \E t \in Thread : PatchThread(t)
CodingPatchSpec == CodingPatchInit /\ [][CodingPatchNext]_patchVars

--------------------------------------------------------------------------------
Reverts(t) == PutBack(t) \/ (Unlink(t) /\ file # NoFile)

\* Nothing changed under a thread between its check and its rename: then an apply
\* replaces the content its hash is of, and by the content proposed.
UndisturbedApply ==
  [][\A t \in Thread : Replace(t) /\ t \notin disturbed /\ Of(t).hash # NoFile =>
       file = Of(t).hash /\ file' = Of(t).proposed]_patchVars

\* A revert undoes the last apply of its proposal: what that apply replaced comes
\* back, and a file it created goes, unless something changed under either of them,
\* a request gave the proposal another hash, or the apply met a file where the
\* proposal had met none.
RevertUndoesApply ==
  [][\A t \in Thread : Reverts(t) /\ t \notin disturbed
       /\ target[t] \notin rebased /\ Of(t).applied
       /\ (replaced[target[t]] # NoFile => reviewed[target[t]] # NoFile) =>
       \/ file' = replaced[target[t]]
       \/ replaced[target[t]] = NoFile /\ file' = reviewed[target[t]]]_patchVars

\* What is reviewed is what is replaced, and what was replaced comes back.
PatchesAreReversible == UndisturbedApply /\ RevertUndoesApply

\* "若底层文件在审查期间发生变更，强制以 409 version_conflict 阻断" (a change of the
\* file during the review blocks the patch): the check of apply_patch lets a
\* proposal pass only when the file is the one it was made from.
ChangeInReviewBlocks ==
  [][\A t \in Thread : CheckApply(t) /\ patching'[t] = "write" /\ target[t] \in known \ rebased =>
       file = reviewed[target[t]]]_patchVars
================================================================================
