------------------------------ MODULE Conversations ------------------------------
(* The transcripts.  A chat runs in a thread and the endpoints of research in the *)
(* event loop; each read and each commit of theirs is a step, and none of them    *)
(* locks what it has read.  A deep question of a chat is submitted without its    *)
(* conversation, so the same question asked anywhere is the same run; a research  *)
(* task names its conversation, and its run is named here by it.  Contents,       *)
(* titles, the recycle bin and the prompts are left out.                          *)
EXTENDS Sequences, FiniteSets, Integers

CONSTANTS
  Conversation,
  Asker,        \* requests in progress
  Objective,    \* deep questions
  NoRun,        \* the run_id of a message of no run
  MaxRequests   \* bound: requests

ASSUME ConversationAssumption ==
  /\ MaxRequests \in Nat
  /\ NoRun \notin Objective \cup Conversation /\ Objective \cap Conversation = {}

VARIABLES
  said,      \* chat_messages, in the order of their commits
  counted,   \* conversations: message_count; 0 also when there is no row
  turns,     \* turn ids drawn so far
  begun,     \* requests so far
  asking,    \* where each request is
  asked,     \* deep questions so far, each with its conversation
  served,    \* those whose request went well
  crowded    \* two requests of a conversation, or of a run, have overlapped

talkVars == <<said, counted, turns, begun, asking, asked, served, crowded>>

Run == Objective \cup Conversation
Turn == 0..MaxRequests
Role == {"user", "assistant"}
Message == [conv : Conversation, role : Role, turn : Turn, sequence : Turn, run : Run \cup {NoRun}]
Request == [at : {"look", "prior", "turn", "append"}, kind : {"chat", "deep", "post"},
            conv : Conversation, role : Role, turn : Turn, sequence : Turn, run : Run \cup {NoRun}]
NotAsking == [at |-> "idle"]

TalkTypeOK ==
  /\ said \in Seq(Message) /\ Len(said) <= 2 * MaxRequests
  /\ counted \in [Conversation -> 0..Len(said)] /\ turns \in Turn /\ begun \in Turn
  /\ asking \in [Asker -> Request \cup {NotAsking}]
  /\ served \subseteq asked /\ asked \subseteq Conversation \X Objective
  /\ crowded \in BOOLEAN

TalkInit ==
  /\ said = <<>> /\ counted = [c \in Conversation |-> 0] /\ turns = 0 /\ begun = 0
  /\ asking = [a \in Asker |-> NotAsking] /\ asked = {} /\ served = {} /\ crowded = FALSE

--------------------------------------------------------------------------------
(* What is read.                                                               *)

Sequences(c) == {0} \cup {said[i].sequence : i \in {k \in DOMAIN said : said[k].conv = c}}
\* Mutant of NextSequence: COALESCE(MAX(sequence), 1).
SameSequence(c) ==
  LET last == CHOOSE n \in Sequences(c) : \A k \in Sequences(c) : k <= n
  IN  IF last = 0 THEN 1 ELSE last
NextSequence(c) == 1 + CHOOSE n \in Sequences(c) : \A k \in Sequences(c) : k <= n

\* messages of a run in a conversation
\* Mutant of Prior: the turn of the run is not looked up.
NoPrior(c, r) == {}
Prior(c, r) == {i \in DOMAIN said : said[i].conv = c /\ said[i].run = r}
Existing(r, role) == {i \in DOMAIN said : said[i].run = r /\ said[i].role = role}

--------------------------------------------------------------------------------
(* The requests.                                                               *)

Asking(a) == asking[a].at # "idle"
Overlaps(c, r) ==
  \E a \in Asker : Asking(a) /\ (asking[a].conv = c \/ (r # NoRun /\ asking[a].run = r))

BeginRequest(a, at, kind, c, role, r) ==
  /\ ~Asking(a) /\ begun < MaxRequests /\ begun' = begun + 1
  /\ asking' = [asking EXCEPT ![a] = [at |-> at, kind |-> kind, conv |-> c, role |-> role,
                                      turn |-> 0, sequence |-> 0, run |-> r]]
  /\ crowded' = (crowded \/ Overlaps(c, r))
  /\ UNCHANGED <<said, counted, turns, served>>

\* a direct, a rag or a guiding answer: the row of the conversation is there
AskPlain(a, c) == BeginRequest(a, "turn", "chat", c, "user", NoRun) /\ UNCHANGED asked

\* a deep question: the run is submitted, or found
Deep(a, c, o) == BeginRequest(a, "look", "deep", c, "user", o) /\ asked' = asked \cup {<<c, o>>}

\* the question of a research task, or a message posted for its run
Post(a, c, role) == BeginRequest(a, "look", "post", c, role, c) /\ UNCHANGED asked

\* after the message of a role: a chat goes on to its answer, the others return
Onward(a, next) ==
  LET q == asking[a]
      over == q.kind = "post" \/ q.role = "assistant"
  IN  /\ asking' = [asking EXCEPT ![a] =
                      IF over THEN NotAsking ELSE [q EXCEPT !.role = "assistant", !.at = next]]
      /\ served' = IF over /\ q.kind = "deep" THEN served \cup {<<q.conv, q.run>>} ELSE served

\* record_research_message looks for the message; without it, for the turn
Look(a) ==
  /\ asking[a].at = "look"
  /\ IF Existing(asking[a].run, asking[a].role) # {}
     THEN Onward(a, "look")
     ELSE asking' = [asking EXCEPT ![a].at = "prior"] /\ UNCHANGED served
  /\ UNCHANGED <<said, counted, turns, begun, asked, crowded>>

LookPrior(a) ==
  LET prior == Prior(asking[a].conv, asking[a].run) IN
  /\ asking[a].at = "prior"
  /\ \/ prior = {} /\ asking' = [asking EXCEPT ![a].at = "turn"]
     \/ \E i \in prior :
          asking' = [asking EXCEPT ![a].at = "append", ![a].turn = said[i].turn,
                                   ![a].sequence = said[i].sequence]
  /\ UNCHANGED <<said, counted, turns, begun, asked, served, crowded>>

NextTurn(a) ==
  /\ asking[a].at = "turn"
  /\ turns' = turns + 1
  /\ asking' = [asking EXCEPT ![a].at = "append", ![a].turn = turns + 1,
                              ![a].sequence = NextSequence(asking[a].conv)]
  /\ UNCHANGED <<said, counted, begun, asked, served, crowded>>

\* the message and the count, in one transaction
AppendMessage(a) ==
  LET q == asking[a] IN
  /\ q.at = "append"
  /\ said' = Append(said, [conv |-> q.conv, role |-> q.role, turn |-> q.turn,
                           sequence |-> q.sequence, run |-> q.run])
  /\ counted' = [counted EXCEPT ![q.conv] = @ + 1]
  /\ Onward(a, IF q.kind = "deep" THEN "look" ELSE "append")
  /\ UNCHANGED <<turns, begun, asked, crowded>>

\* retrieval finds nothing, the provider or the database raises, or the server stops
BreakOff(a) ==
  /\ Asking(a)
  /\ asking' = [asking EXCEPT ![a] = NotAsking]
  /\ UNCHANGED <<said, counted, turns, begun, asked, served, crowded>>

TalkNext ==
  \E a \in Asker :
    \/ \E c \in Conversation :
         \/ AskPlain(a, c)
         \/ \E o \in Objective : Deep(a, c, o)
         \/ \E role \in Role : Post(a, c, role)
    \/ Look(a) \/ LookPrior(a) \/ NextTurn(a) \/ AppendMessage(a) \/ BreakOff(a)

TalkSpec == TalkInit /\ [][TalkNext]_talkVars

--------------------------------------------------------------------------------
\* A conversation counts its messages; the messages of a turn are one question and its
\* answer, of one conversation and one run, the question first unless a client posts
\* them; and while no requests overlap, a sequence number of a conversation is that of
\* one turn, however many questions went unanswered before.
TurnsHoldTogether ==
  /\ \A c \in Conversation : counted[c] = Cardinality({i \in DOMAIN said : said[i].conv = c})
  /\ \A i \in DOMAIN said : said[i].role = "assistant" /\ said[i].run = NoRun =>
       \E j \in 1..(i - 1) : said[j].turn = said[i].turn /\ said[j].role = "user"
  /\ \A i, j \in DOMAIN said :
       /\ said[i].turn = said[j].turn =>
            said[i].conv = said[j].conv /\ said[i].run = said[j].run
            /\ said[i].sequence = said[j].sequence
       /\ ~crowded /\ i # j /\ said[i].conv = said[j].conv =>
            /\ said[i].sequence = said[j].sequence => said[i].turn = said[j].turn
            /\ said[i].turn = said[j].turn => said[i].role # said[j].role

\* While no requests overlap, a run has one message of a role, whoever records it and
\* however often a request that broke off is made again; and a deep question that went
\* well has its question and its answer in one turn of its conversation, unless another
\* conversation asked the same.
RetriesCompleteTheTurn ==
  ~crowded =>
    /\ \A r \in Run, role \in Role : Cardinality(Existing(r, role)) <= 1
    /\ \A c \in Conversation, o \in Objective :
         <<c, o>> \in served /\ (\A d \in Conversation \ {c} : <<d, o>> \notin asked) =>
           \E i \in Existing(o, "user"), j \in Existing(o, "assistant") :
             said[i].conv = c /\ said[i].turn = said[j].turn

\* A transcript holds together however its requests interleave, break off and are
\* made again.
TranscriptsHold == TurnsHoldTogether /\ RetriesCompleteTheTurn
================================================================================
