------------------------------ MODULE NoteRevisions ------------------------------
(* The notes of one document: the analysis that begins them, the patches that    *)
(* make each next version and the notes taken from a chat.  A note is immutable; *)
(* its artifact stays for ever, a cache of the process holds one note for an id, *)
(* and a registry file lists one note for an id.  The id of an analysis or of a  *)
(* patch is made of the version, so two notes may have it; that of a note from a *)
(* chat is random.  An endpoint checks in the event loop, works in a thread and  *)
(* registers in the event loop again.  A note is named here by its place among   *)
(* all that were stored.  Each patch has one operation.                          *)
EXTENDS SequencesExt

CONSTANTS
  NoteCall,       \* requests in progress
  FirstSections,  \* sections an analysis makes
  MaxNotes,       \* bound: notes stored
  MaxNoteRestarts \* bound: restarts of the server

ASSUME NoteAssumption == FirstSections \in Nat /\ MaxNotes \in Nat /\ MaxNoteRestarts \in Nat

VARIABLES
  notes,        \* the notes stored, oldest first
  noteCache,       \* _NOTE_CACHE: the note it has for an id, 0 if none
  registry,     \* the notes the registry lists
  noteCall,     \* where each request is, the note it is based on, the note it has made
  noteRestarts, \* restarts so far
  muddled       \* a document with notes was analyzed, requests overlapped, or one broke off

noteVars == <<notes, noteCache, registry, noteCall, noteRestarts, muddled>>

Uid == 1..MaxNotes
\* <<0, v>> is "note-<document>-v<v>", <<1, u>> the random id of note u
NoteId == {0} \X Uid \cup {1} \X Uid
NoteRecord == [id : NoteId, version : Uid, parent : {0} \cup Uid,
               sections : Seq(1..(FirstSections + MaxNotes)), moved : BOOLEAN]
NoCall == [at |-> "idle", base |-> 0, made |-> 0]

NoteTypeOK ==
  /\ notes \in Seq(NoteRecord) /\ Len(notes) <= MaxNotes
  /\ noteCache \in [NoteId -> {0} \cup Uid]
  /\ registry \in Seq(DOMAIN notes)
  /\ noteCall \in [NoteCall -> [at : {"idle", "analyze", "revise", "register"},
                                base : {0} \cup Uid, made : {0} \cup Uid]]
  /\ noteRestarts \in 0..MaxNoteRestarts /\ muddled \in BOOLEAN

NoteInit ==
  /\ notes = <<>> /\ noteCache = [i \in NoteId |-> 0] /\ registry = <<>>
  /\ noteCall = [c \in NoteCall |-> NoCall] /\ noteRestarts = 0 /\ muddled = FALSE

--------------------------------------------------------------------------------
(* What the endpoints read.                                                    *)

\* what load_note_artifact may return: the cached note, or any stored one of that id
Loads(id) == IF noteCache[id] # 0 THEN {noteCache[id]} ELSE {u \in DOMAIN notes : notes[u].id = id}

TipVersion == LET vs == {notes[u].version : u \in ToSet(registry)}
              IN  IF vs = {} THEN 0 ELSE CHOOSE v \in vs : \A w \in vs : w <= v
\* the first entry of the registry with that version
Tip == IF registry = <<>> THEN 0
       ELSE registry[CHOOSE i \in DOMAIN registry :
              /\ notes[registry[i]].version = TipVersion
              /\ \A j \in 1..(i - 1) : notes[registry[j]].version # TipVersion]

\* Mutant of AtTip: an older revision may be patched.
AnyRevision(u) == TRUE
AtTip(u) == notes[u].version >= TipVersion

\* save_note_entry: in the place of the entry with that id, or at the end
Listed(u, stored) ==
  IF \E i \in DOMAIN registry : notes[registry[i]].id = stored[u].id
  THEN [i \in DOMAIN registry |->
          IF notes[registry[i]].id = stored[u].id THEN u ELSE registry[i]]
  ELSE Append(registry, u)

OthersBusy(c) == \E d \in NoteCall \ {c} : noteCall[d].at # "idle"
Moves(c, at, base, made) ==
  noteCall' = [noteCall EXCEPT ![c] = [at |-> at, base |-> base, made |-> made]]
\* the artifact is stored and cached
Saves(note) ==
  /\ Len(notes) < MaxNotes
  /\ notes' = Append(notes, note)
  /\ noteCache' = [noteCache EXCEPT ![note.id] = Len(notes')]

--------------------------------------------------------------------------------
(* The sections: what one operation of a patch makes of them.                  *)

Untouched(s) == {[sections |-> s, moved |-> FALSE]}  \* replaced, or of other fields
Appended(s) == {[sections |-> Append(s, Len(s) + 1), moved |-> FALSE]}
Inserted(s) == {[sections |-> InsertAt(s, i + 1, i + 1), moved |-> i < Len(s)] : i \in 0..Len(s)}
Deleted(s) == {[sections |-> RemoveAt(s, i), moved |-> i < Len(s)] : i \in DOMAIN s}
Patched(s) == Untouched(s) \cup Appended(s) \cup Inserted(s) \cup Deleted(s)

--------------------------------------------------------------------------------
(* The endpoints.                                                              *)

\* a note is shown, or its patch refused
GetNote(id) ==
  /\ \E u \in Loads(id) : noteCache' = [noteCache EXCEPT ![id] = u]
  /\ UNCHANGED <<notes, registry, noteCall, noteRestarts, muddled>>

Analyze(c) ==
  /\ noteCall[c].at = "idle"
  /\ Moves(c, "analyze", 0, 0)
  /\ UNCHANGED <<notes, noteCache, registry, noteRestarts, muddled>>

\* the note is loaded, it is at the tip and of the version the request names
PatchNote(c, id) ==
  /\ noteCall[c].at = "idle"
  /\ \E u \in Loads(id) :
       /\ AtTip(u)
       /\ noteCache' = [noteCache EXCEPT ![id] = u]
       /\ Moves(c, "revise", u, 0)
  /\ UNCHANGED <<notes, registry, noteRestarts, muddled>>

\* the note that the thread of a request, analyze_document or revise_note, may make
Drafts(c) ==
  IF noteCall[c].at = "analyze"
  THEN {[id |-> <<0, 1>>, version |-> 1, parent |-> 0,
         sections |-> [i \in 1..FirstSections |-> i], moved |-> FALSE]}
  ELSE LET u == noteCall[c].base
           version == notes[u].version + 1
       IN  {[id |-> <<0, version>>, version |-> version, parent |-> u,
             sections |-> edit.sections, moved |-> notes[u].moved \/ edit.moved] :
              edit \in Patched(notes[u].sections)}

ThreadSaves(c) ==
  /\ noteCall[c].at \in {"analyze", "revise"}
  /\ \E note \in Drafts(c) : Saves(note)
  /\ Moves(c, "register", noteCall[c].base, Len(notes'))
  /\ muddled' = (muddled \/ OthersBusy(c) \/ (noteCall[c].at = "analyze" /\ notes # <<>>))
  /\ UNCHANGED <<registry, noteRestarts>>

\* it raises before anything is stored, or when the JSON of the note is
ThreadFails(c) ==
  /\ noteCall[c].at \in {"analyze", "revise"}
  /\ \/ UNCHANGED <<notes, muddled>>
     \/ /\ Len(notes) < MaxNotes
        /\ \E note \in Drafts(c) : notes' = Append(notes, note)
        /\ muddled' = TRUE
  /\ noteCall' = [noteCall EXCEPT ![c] = NoCall]
  /\ UNCHANGED <<noteCache, registry, noteRestarts>>

Register(c) ==
  /\ noteCall[c].at = "register"
  /\ registry' = Listed(noteCall[c].made, notes)
  /\ noteCall' = [noteCall EXCEPT ![c] = NoCall]
  /\ muddled' = (muddled \/ OthersBusy(c))
  /\ UNCHANGED <<notes, noteCache, noteRestarts>>

\* a note from a chat is checked, saved and registered in one go
NoteFromChat ==
  /\ Saves([id |-> <<1, Len(notes) + 1>>, version |-> TipVersion + 1, parent |-> Tip,
            sections |-> <<1>>, moved |-> FALSE])
  /\ registry' = Listed(Len(notes'), notes')
  /\ muddled' = (muddled \/ \E c \in NoteCall : noteCall[c].at # "idle")
  /\ UNCHANGED <<noteCall, noteRestarts>>

\* The server restarts.  A registry that was being written does not parse, and is
\* taken for an empty one.
RestartNotes ==
  LET broken == {c \in NoteCall : noteCall[c].at # "idle"} IN
  /\ noteRestarts < MaxNoteRestarts /\ noteRestarts' = noteRestarts + 1
  /\ \/ UNCHANGED registry
     \/ (\E c \in broken : noteCall[c].at = "register") /\ registry' = <<>>
  /\ noteCache' = [i \in NoteId |-> 0]
  /\ noteCall' = [c \in NoteCall |-> NoCall]
  /\ muddled' = (muddled \/ broken # {})
  /\ UNCHANGED notes

NoteNext ==
  \/ \E id \in NoteId : GetNote(id)
  \/ \E c \in NoteCall :
       \/ Analyze(c) \/ ThreadSaves(c) \/ ThreadFails(c) \/ Register(c)
       \/ \E id \in NoteId : PatchNote(c, id)
  \/ NoteFromChat
  \/ RestartNotes

NoteSpec == NoteInit /\ [][NoteNext]_noteVars

--------------------------------------------------------------------------------
\* While no document with notes is analyzed, no requests overlap and none breaks
\* off, the registry is the history of the document: version n is the nth entry, made from
\* the one before it; the id of an entry loads that note and no other, across
\* restarts too; and sections are numbered in order unless one was put or taken
\* out before the last.
RevisionsFormOneLine ==
  ~muddled =>
    \A i \in DOMAIN registry :
      LET note == notes[registry[i]] IN
      /\ note.version = i
      /\ note.parent = IF i = 1 THEN 0 ELSE registry[i - 1]
      /\ Loads(note.id) = {registry[i]}
      /\ note.moved \/ note.sections = [k \in DOMAIN note.sections |-> k]
================================================================================
