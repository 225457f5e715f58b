------------------------------- MODULE MemoryStore -------------------------------
(* The memories of one scope, target and category, the candidates that wait for  *)
(* the user, and the vectors of the recall service.  The endpoints run in the    *)
(* event loop, one at a time; chats run in threads, and recall and extract in    *)
(* between.  Every read and every commit is a step.  Scores, quotas, pins,       *)
(* feedback and the text that goes into a prompt are left out.                   *)
EXTENDS Naturals, FiniteSets

CONSTANTS
  Statement,      \* what memories say
  Opposing,       \* pairs of statements with opposing keywords
  MaxMemories,    \* bound: memories created
  MaxCandidates,  \* bound: candidates created
  Chat,           \* threads of chats
  ListLimit       \* rows list_memories returns

ASSUME MemoryAssumption == /\ MaxMemories \in Nat /\ MaxCandidates \in Nat
                           /\ ListLimit \in Nat \ {0}

VARIABLES
  memory,      \* memories: status and statement
  candidate,   \* memory_candidates: status, statement, conflict_with_memory_id
  noticed,     \* active memories listed for each candidate before it was created
  reported,    \* the one the check of each candidate reported in conflict, or 0
  madeFrom,    \* the candidate of each memory, 0 when the user wrote it
  approving,   \* the candidate whose approval the event loop is in, or 0
  chatAt,      \* where each chat is
  listed,      \* memories the chat listed
  extracted,   \* the candidate it is about to create
  vectors,     \* memories with a vector in the table
  escaped      \* deleted memories that a recall had listed, or whose vector stayed

memoryVars == <<memory, candidate, noticed, reported, madeFrom, approving, chatAt, listed,
                extracted, vectors, escaped>>

Memories == 1..MaxMemories
Candidates == 1..MaxCandidates
NoMemory == [status |-> "none", says |-> "nothing"]
NoCandidate == [status |-> "none", says |-> "nothing", conflict |-> 0]
Said == Statement \cup {"nothing"}

MemoryTypeOK ==
  /\ memory \in [Memories -> [status : {"none", "active", "archived", "deleted"}, says : Said]]
  /\ candidate \in [Candidates -> [status : {"none", "pending", "approved", "rejected"},
                                   says : Said, conflict : 0..MaxMemories]]
  /\ noticed \in [Candidates -> SUBSET Memories] /\ reported \in [Candidates -> 0..MaxMemories]
  /\ madeFrom \in [Memories -> 0..MaxCandidates]
  /\ approving \in 0..MaxCandidates
  /\ chatAt \in [Chat -> {"idle", "embedding", "adding", "checked"}]
  /\ listed \in [Chat -> SUBSET Memories]
  /\ extracted \in [Chat -> [status : {"none", "pending"}, says : Said, conflict : 0..MaxMemories]]
  /\ vectors \subseteq Memories /\ escaped \subseteq Memories

MemoryInit ==
  /\ memory = [m \in Memories |-> NoMemory]
  /\ candidate = [c \in Candidates |-> NoCandidate]
  /\ noticed = [c \in Candidates |-> {}] /\ reported = [c \in Candidates |-> 0]
  /\ madeFrom = [m \in Memories |-> 0]
  /\ approving = 0
  /\ chatAt = [t \in Chat |-> "idle"] /\ listed = [t \in Chat |-> {}]
  /\ extracted = [t \in Chat |-> NoCandidate]
  /\ vectors = {} /\ escaped = {}

ActiveMemories == {m \in Memories : memory[m].status = "active"}
Stored == {m \in Memories : memory[m].status \in {"active", "archived"}}
Opposes(s, t) == {s, t} \in Opposing
Idle == approving = 0
\* the next id, when there is one
NewMemory(m) == m = 1 + Cardinality({n \in Memories : memory[n].status # "none"})
NewCandidate(c) == c = 1 + Cardinality({d \in Candidates : candidate[d].status # "none"})
\* list_memories of the active ones: when they are more, those pinned and updated last
Listings ==
  IF Cardinality(ActiveMemories) <= ListLimit THEN {ActiveMemories}
  ELSE {ms \in SUBSET ActiveMemories : Cardinality(ms) = ListLimit}

\* a recall under way has listed it
Recalled(m) == \E t \in Chat : m \in listed[t] /\ chatAt[t] # "checked"

ChecksStand == UNCHANGED <<noticed, reported>>
ChatsGoOn == UNCHANGED <<chatAt, listed, extracted>>
VectorsStay == UNCHANGED <<vectors, escaped>>

--------------------------------------------------------------------------------
(* The endpoints.                                                              *)

Store(m, says, from) ==
  /\ NewMemory(m)
  /\ memory' = [memory EXCEPT ![m] = [status |-> "active", says |-> says]]
  /\ madeFrom' = [madeFrom EXCEPT ![m] = from]

\* create_memory of a user: nothing is looked up
CreateMemory(m, says) ==
  /\ Idle
  /\ Store(m, says, 0)
  /\ UNCHANGED <<candidate, approving>> /\ ChecksStand /\ ChatsGoOn /\ VectorsStay

\* Mutant of Archived: the memory in conflict stays.
ArchivedNot(m) == memory
Archived(m) ==
  IF m \in Stored THEN [memory EXCEPT ![m].status = "archived"] ELSE memory

\* approve_candidate, up to its first commit
ApproveCandidate(c) ==
  /\ Idle /\ candidate[c].status = "pending"
  /\ memory' = Archived(candidate[c].conflict)
  /\ candidate' = [candidate EXCEPT ![c].status = "approved"]
  /\ approving' = c
  /\ UNCHANGED madeFrom /\ ChecksStand /\ ChatsGoOn /\ VectorsStay

\* its second transaction, create_memory; the INSERT may raise (a locked database),
\* and then the candidate has been approved for nothing
CreateApproved(m) ==
  /\ approving # 0 /\ approving' = 0
  /\ \/ Store(m, candidate[approving].says, approving)
     \/ NewMemory(m) /\ UNCHANGED <<memory, madeFrom>>
  /\ UNCHANGED candidate /\ ChecksStand /\ ChatsGoOn /\ VectorsStay

\* reject_candidate, whatever its status
RejectCandidate(c) ==
  /\ Idle /\ candidate[c].status # "none"
  /\ candidate' = [candidate EXCEPT ![c].status = "rejected"]
  /\ UNCHANGED <<memory, madeFrom, approving>> /\ ChecksStand /\ ChatsGoOn /\ VectorsStay

\* Mutant of Forgotten: only the embedding cache is cleared.
ForgottenByCache(m) == vectors
Forgotten(m) == vectors \ {m}

\* Mutant of Cleared: the foreign key does nothing.
ClearedNot(m) == candidate
\* ON DELETE SET NULL: no candidate names a memory that is gone
Cleared(m) ==
  [c \in Candidates |-> [candidate[c] EXCEPT !.conflict = IF @ = m THEN 0 ELSE @]]

\* the row, and then delete_memory_vector, which keeps an error of the table to
\* itself; the server may also end in between
DeleteMemory(m) ==
  /\ Idle /\ m \in Stored
  /\ memory' = [memory EXCEPT ![m] = [status |-> "deleted", says |-> "nothing"]]
  /\ candidate' = Cleared(m)
  /\ \/ vectors' = Forgotten(m)
          /\ escaped' = IF Recalled(m) THEN escaped \cup {m} ELSE escaped
     \/ UNCHANGED vectors /\ escaped' = escaped \cup {m}
  /\ UNCHANGED <<madeFrom, approving>> /\ ChecksStand /\ ChatsGoOn

\* vacuum: purge_deleted_vectors of what is not active; its error is kept, too
Vacuum ==
  /\ Idle
  /\ vectors' = vectors \cap ActiveMemories
  /\ escaped' = {m \in escaped : Recalled(m)}
  /\ UNCHANGED <<memory, candidate, madeFrom, approving>> /\ ChecksStand /\ ChatsGoOn

--------------------------------------------------------------------------------
(* The chats.                                                                  *)

ChatGoes(t, from, to) == chatAt[t] = from /\ chatAt' = [chatAt EXCEPT ![t] = to]
StoreStays == UNCHANGED <<memory, candidate, madeFrom, approving>> /\ ChecksStand

\* recall lists the active memories
Recall(t, ms) ==
  /\ ChatGoes(t, "idle", "embedding")
  /\ ms # {}
  /\ listed' = [listed EXCEPT ![t] = ms]
  /\ StoreStays /\ UNCHANGED extracted /\ VectorsStay

\* it embeds those that are not in its cache, and makes the rows that are missing;
\* when the embedder fails, or a memory has left the cache by then, it writes nothing
Embed(t) ==
  /\ \/ ChatGoes(t, "embedding", "adding") /\ listed' = [listed EXCEPT ![t] = @ \ vectors]
     \/ ChatGoes(t, "embedding", "idle") /\ listed' = [listed EXCEPT ![t] = {}]
  /\ StoreStays /\ UNCHANGED extracted /\ VectorsStay

AddRows(t) ==
  /\ ChatGoes(t, "adding", "idle")
  /\ vectors' = vectors \cup listed[t]
  /\ listed' = [listed EXCEPT ![t] = {}]
  /\ StoreStays /\ UNCHANGED <<extracted, escaped>>

\* Mutant of Conflict: only the first memory of the list is compared.
ConflictOfFirst(ms, says, m) ==
  m = 0 \/ (m \in ms /\ Opposes(memory[m].says, says))
\* find_conflicts_and_duplicates: the loop ends at the first duplicate, which makes
\* no candidate, or at the first memory in conflict, whichever the list has first
Conflict(ms, says, m) ==
  LET duplicates == {n \in ms : memory[n].says = says}
      conflicts == {n \in ms : Opposes(memory[n].says, says)}
  IN  IF conflicts = {} THEN duplicates = {} /\ m = 0 ELSE m \in conflicts

\* extract_candidates: one statement of the user's message, and the check of it
Extract(t, ms, says, m) ==
  /\ ChatGoes(t, "idle", "checked")
  /\ Conflict(ms, says, m)
  /\ listed' = [listed EXCEPT ![t] = ms]
  /\ extracted' = [extracted EXCEPT ![t] =
                     [status |-> "pending", says |-> says, conflict |-> m]]
  /\ StoreStays /\ VectorsStay

\* Mutant of Referable: the foreign key is not enforced.
ReferableAny(m) == TRUE
\* foreign_keys = ON: a candidate may name no memory, or one that has a row
Referable(m) == m = 0 \/ m \in Stored

\* the chat leaves its check behind
CheckLeft(t) ==
  /\ ChatGoes(t, "checked", "idle")
  /\ extracted' = [extracted EXCEPT ![t] = NoCandidate]
  /\ listed' = [listed EXCEPT ![t] = {}]
  /\ UNCHANGED <<memory, madeFrom, approving>> /\ VectorsStay

CreateCandidate(t, c) ==
  /\ CheckLeft(t)
  /\ NewCandidate(c) /\ Referable(extracted[t].conflict)
  /\ candidate' = [candidate EXCEPT ![c] = extracted[t]]
  /\ noticed' = [noticed EXCEPT ![c] = listed[t]]
  /\ reported' = [reported EXCEPT ![c] = extracted[t].conflict]

\* its INSERT raises: the memory in conflict has been deleted since the check, or the
\* database is locked
RefuseCandidate(t) == CheckLeft(t) /\ UNCHANGED candidate /\ ChecksStand

\* The server restarts: whatever was between two steps is lost.
RestartMemory ==
  /\ approving' = 0
  /\ chatAt' = [t \in Chat |-> "idle"] /\ listed' = [t \in Chat |-> {}]
  /\ extracted' = [t \in Chat |-> NoCandidate]
  /\ UNCHANGED <<memory, candidate, madeFrom, vectors, escaped>> /\ ChecksStand

MemoryEndpoint ==
  \/ \E m \in Memories, says \in Statement : CreateMemory(m, says)
  \/ \E c \in Candidates : ApproveCandidate(c) \/ RejectCandidate(c)
  \/ \E m \in Memories : CreateApproved(m) \/ DeleteMemory(m)
  \/ Vacuum \/ RestartMemory

ChatStep(t) ==
  \/ \E ms \in Listings :
       Recall(t, ms) \/ \E says \in Statement, m \in {0} \cup ms : Extract(t, ms, says, m)
  \/ Embed(t) \/ AddRows(t) \/ RefuseCandidate(t)
  \/ \E c \in Candidates : CreateCandidate(t, c)

MemoryNext == MemoryEndpoint \/ \E t \in Chat : ChatStep(t)
MemorySpec == MemoryInit /\ [][MemoryNext]_memoryVars

--------------------------------------------------------------------------------
Clashes(a, b) == memory[a].says = memory[b].says \/ Opposes(memory[a].says, memory[b].says)

\* Two active memories that say the same or the opposite, one of them approved:
\* either the check of its candidate did not see the other, because it came later
\* or beyond the limit of the listing, or it had reported another one, and that one
\* is active no more.  What was reported counts, and not what the candidate still
\* names: the deletion of a memory takes its name from the candidate.
ClashesUnseen ==
  \A b \in ActiveMemories : madeFrom[b] # 0 =>
    /\ reported[madeFrom[b]] \notin ActiveMemories
    /\ \A a \in noticed[madeFrom[b]] \cap ActiveMemories : a # b /\ Clashes(a, b) =>
         reported[madeFrom[b]] \notin {0, a}

\* A candidate names the memory its check reported, so long as that one has a row,
\* and no other: the user is shown no conflict with a memory that is gone.
ConflictsStand ==
  \A c \in Candidates :
    candidate[c].conflict = IF reported[c] \in Stored THEN reported[c] ELSE 0

\* A deleted memory leaves no vector behind, unless a recall had listed it when it
\* was deleted or its vector could not be deleted; after the next vacuum, only if
\* that recall is still under way.
VectorsFollowDeletion ==
  vectors \subseteq Stored \cup escaped

\* The memories and their vectors are what the user decided, so far as the checks
\* and the vacuum could see.
MemoriesFollowDecisions == ClashesUnseen /\ ConflictsStand /\ VectorsFollowDeletion
================================================================================
