------------------------------- MODULE RecordProofs -------------------------------
(* Theorems about what the program keeps beside the ledger: the checkpoint of an *)
(* evaluation, the table of image vectors, the backups, the checkpoints of a     *)
(* research and the transcripts of the chats, for any number of cases, tries,    *)
(* batches, threads, artifacts, questions, requests, crashes and losses.         *)
EXTENDS CaseRunner, ImageIndex, BackupRestore, VerifiedResearch, Conversations,
        FiniteSetTheorems, SequenceTheorems, TLAPS

--------------------------------------------------------------------------------
(* The checkpoint of an evaluation.                                            *)

Fragment == [of : Case, whole : BOOLEAN]
CaseAtWork == {"waiting", "calling", "record", "pause", "failed"}

\* A case at work is not completed in the file, and each result of a case is
\* counted as unrecorded, in the file, or about to be written.
PaidInv ==
  /\ checkpoint \in Seq(Fragment)
  /\ task \in [Case -> CaseAtWork \cup {"none", "done"}]
  /\ paid \in [Case -> Nat] /\ unrecorded \in [Case -> Nat]
  /\ \A c \in Case : task[c] \in CaseAtWork => running /\ c \notin Completed
  /\ \A c \in Case :
       paid[c] <= unrecorded[c] + IF task[c] = "record" \/ c \in Completed THEN 1 ELSE 0

\* a fragment more completes its own case, if it is whole and has a line of its own,
\* and no other
LEMMA CompletedGrows ==
  ASSUME NEW piece \in Fragment, checkpoint \in Seq(Fragment),
         checkpoint' = Append(checkpoint, piece)
  PROVE  /\ checkpoint' \in Seq(Fragment)
         /\ Completed \subseteq Completed'
         /\ \A d \in Completed' \ Completed : d = piece.of /\ piece.whole
         /\ piece.whole /\ OnOwnLine(checkpoint', Len(checkpoint')) => piece.of \in Completed'
<1>1. /\ checkpoint' \in Seq(Fragment)
      /\ Len(checkpoint') = Len(checkpoint) + 1
      /\ Len(checkpoint) \in Nat
      /\ DOMAIN checkpoint = 1..Len(checkpoint)
      /\ DOMAIN checkpoint' = 1..(Len(checkpoint) + 1)
      /\ \A i \in 1..Len(checkpoint) : checkpoint'[i] = checkpoint[i]
      /\ checkpoint'[Len(checkpoint) + 1] = piece
  OBVIOUS
<1>2. \A i \in 1..Len(checkpoint) :
        OnOwnLine(checkpoint', i) <=> OnOwnLine(checkpoint, i)
  BY <1>1 DEF OnOwnLine
<1>3. Completed \subseteq Completed'
  BY <1>1, <1>2 DEF Completed
<1>4. ASSUME NEW d \in Completed', d \notin Completed
      PROVE  d = piece.of /\ piece.whole
  BY <1>1, <1>2, <1>4 DEF Completed
<1>5. piece.of \in Case
  BY DEF Fragment
<1>6. piece.whole /\ OnOwnLine(checkpoint', Len(checkpoint')) => piece.of \in Completed'
  BY <1>1, <1>5 DEF Completed
<1> QED BY <1>1, <1>3, <1>4, <1>6

\* a record that breaks off completes nothing
LEMMA TornCompletesNothing ==
  ASSUME NEW c \in Case, checkpoint \in Seq(Fragment), checkpoint' \in Torn(c)
  PROVE  checkpoint' \in Seq(Fragment) /\ Completed' = Completed
<1> DEFINE piece == [of |-> c, whole |-> FALSE]
<1>1. CASE checkpoint' = checkpoint
  BY <1>1 DEF Completed
<1>2. CASE checkpoint' = Append(checkpoint, piece)
  <2>1. piece \in Fragment /\ ~piece.whole
    BY DEF Fragment
  <2> HIDE DEF piece
  <2> QED BY <1>2, <2>1, CompletedGrows
<1> QED BY <1>1, <1>2 DEF Torn

LEMMA PaidStep ==
  ASSUME PaidInv, RunnerNext
  PROVE  PaidInv'
<1> USE DEF PaidInv, CaseAtWork
<1>1. CASE StartBatch
  BY <1>1 DEF StartBatch, Completed
<1>2. CASE BatchEnds
  BY <1>2 DEF BatchEnds, Completed
<1>3. CASE BatchFails
  <2>1. PICK late \in SUBSET {c \in Case : task[c] = "calling"} :
          /\ paid' = [c \in Case |-> paid[c] + IF c \in late THEN 1 ELSE 0]
          /\ Lose(late \cup {c \in Case : task[c] = "record"})
    BY <1>3 DEF BatchFails
  <2> QED BY <1>3, <2>1 DEF BatchFails, Lose, Completed
<1>4. CASE CrashRunner
  <2>1. /\ running' = FALSE /\ task' = [c \in Case |-> "none"] /\ paid' = paid
        /\ Lose({c \in Case : task[c] = "record"})
    BY <1>4 DEF CrashRunner
  <2>2. checkpoint' \in Seq(Fragment) /\ Completed' = Completed
    <3>1. CASE checkpoint' = checkpoint
      BY <3>1 DEF Completed
    <3>2. CASE \E c \in Case : checkpoint' \in Torn(c)
      BY <3>2, TornCompletesNothing
    <3> QED BY <1>4, <3>1, <3>2 DEF CrashRunner
  <2>3. \A c \in Case : unrecorded'[c] = unrecorded[c] + IF task[c] = "record" THEN 1 ELSE 0
    BY <2>1 DEF Lose
  <2>4. unrecorded' \in [Case -> Nat] /\ task' \in [Case -> CaseAtWork \cup {"none", "done"}]
    BY <2>1 DEF Lose
  <2>5. \A c \in Case : task'[c] = "none"
    BY <2>1
  <2>6. ASSUME NEW c \in Case
        PROVE  paid'[c] <= unrecorded'[c] + IF task'[c] = "record" \/ c \in Completed' THEN 1 ELSE 0
    BY <2>1, <2>2, <2>3, <2>5
  <2> QED BY <2>1, <2>2, <2>4, <2>5, <2>6
<1>5. ASSUME NEW c \in Case, Acquire(c) \/ CallReturns(c) \/ CallRaises(c) \/ Retry(c)
      PROVE  PaidInv'
  <2>1. checkpoint' = checkpoint /\ running' = running /\ unrecorded' = unrecorded
        /\ Completed' = Completed
    BY <1>5 DEF Acquire, CallReturns, CallRaises, Retry, TryFails, Completed
  <2>2. CASE CallReturns(c)
    BY <2>1, <2>2 DEF CallReturns, TaskMoves
  <2>3. CASE ~CallReturns(c)
    BY <1>5, <2>1, <2>3 DEF Acquire, CallRaises, Retry, TryFails, TaskMoves
  <2> QED BY <2>2, <2>3
<1>6. ASSUME NEW c \in Case, Record(c)
      PROVE  PaidInv'
  <2> DEFINE piece == [of |-> c, whole |-> TRUE]
  <2>1. /\ checkpoint' = Append(checkpoint, piece)
        /\ task[c] = "record" /\ task' = [task EXCEPT ![c] = "done"]
        /\ running' = running /\ paid' = paid
        /\ Lose(IF OnOwnLine(checkpoint', Len(checkpoint')) THEN {} ELSE {c})
    BY <1>6 DEF Record, TaskMoves
  <2>2. piece \in Fragment /\ piece.of = c /\ piece.whole
    BY DEF Fragment
  <2>3. /\ checkpoint' \in Seq(Fragment)
        /\ Completed \subseteq Completed' /\ Completed' \subseteq Completed \cup {c}
        /\ OnOwnLine(checkpoint', Len(checkpoint')) => c \in Completed'
    <3> HIDE DEF piece
    <3> QED BY <2>1, <2>2, CompletedGrows
  <2>4. /\ unrecorded' \in [Case -> Nat]
        /\ \A d \in Case : unrecorded'[d] >= unrecorded[d]
        /\ ~OnOwnLine(checkpoint', Len(checkpoint')) => unrecorded'[c] = unrecorded[c] + 1
    BY <2>1 DEF Lose
  <2> HIDE DEF piece
  <2>5. \A d \in Case : task'[d] = IF d = c THEN "done" ELSE task[d]
    BY <2>1
  <2>6. ASSUME NEW d \in Case, task'[d] \in CaseAtWork
        PROVE  running' /\ d \notin Completed'
    BY <2>1, <2>3, <2>5, <2>6
  <2>7. ASSUME NEW d \in Case
        PROVE  paid'[d] <= unrecorded'[d] + IF task'[d] = "record" \/ d \in Completed' THEN 1 ELSE 0
    <3>1. /\ paid'[d] = paid[d] /\ paid[d] \in Nat
          /\ unrecorded[d] \in Nat /\ unrecorded'[d] \in Nat /\ unrecorded'[d] >= unrecorded[d]
          /\ paid[d] <= unrecorded[d] + IF task[d] = "record" \/ d \in Completed THEN 1 ELSE 0
      BY <2>1, <2>4
    <3> HIDE DEF PaidInv
    <3>2. CASE d = c
      <4>1. c \in Completed' \/ unrecorded'[c] = unrecorded[c] + 1
        BY <2>3, <2>4
      <4>2. paid[c] <= unrecorded[c] + 1
        BY <3>1, <3>2
      <4> QED BY <3>1, <3>2, <4>1, <4>2
    <3>3. CASE d # c
      <4>1. task'[d] = task[d] /\ (d \in Completed => d \in Completed')
        BY <2>3, <2>5, <3>3
      <4> QED BY <3>1, <4>1
    <3> QED BY <3>2, <3>3
  <2>8. task' \in [Case -> CaseAtWork \cup {"none", "done"}] /\ paid' \in [Case -> Nat]
    BY <2>1
  <2> QED BY <2>3, <2>4, <2>6, <2>7, <2>8
<1>7. ASSUME NEW c \in Case, RecordRaises(c)
      PROVE  PaidInv'
  <2>1. /\ checkpoint' \in Torn(c) /\ Lose({c})
        /\ task[c] = "record" /\ task' \in {[task EXCEPT ![c] = "failed"], [task EXCEPT ![c] = "pause"]}
        /\ running' = running /\ paid' = paid
    BY <1>7 DEF RecordRaises, TryFails, TaskMoves
  <2>2. checkpoint' \in Seq(Fragment) /\ Completed' = Completed
    BY <2>1, TornCompletesNothing
  <2>3. /\ unrecorded' \in [Case -> Nat] /\ unrecorded'[c] = unrecorded[c] + 1
        /\ \A d \in Case : unrecorded'[d] >= unrecorded[d]
    BY <2>1 DEF Lose
  <2>4. task' \in [Case -> CaseAtWork \cup {"none", "done"}] /\ paid' \in [Case -> Nat]
    BY <2>1
  <2>5. \A d \in Case : task'[d] = task[d] \/ (d = c /\ task'[d] \in {"failed", "pause"})
    BY <2>1
  <2>6. ASSUME NEW d \in Case, task'[d] \in CaseAtWork
        PROVE  running' /\ d \notin Completed'
    BY <2>1, <2>2, <2>5, <2>6
  <2>7. ASSUME NEW d \in Case
        PROVE  paid'[d] <= unrecorded'[d] + IF task'[d] = "record" \/ d \in Completed' THEN 1 ELSE 0
    <3>1. /\ paid'[d] = paid[d] /\ paid[d] \in Nat
          /\ unrecorded[d] \in Nat /\ unrecorded'[d] \in Nat /\ unrecorded'[d] >= unrecorded[d]
          /\ paid[d] <= unrecorded[d] + IF task[d] = "record" \/ d \in Completed THEN 1 ELSE 0
      BY <2>1, <2>3
    <3> HIDE DEF PaidInv
    <3>2. CASE d = c
      <4>1. paid[c] <= unrecorded[c] + 1
        BY <3>1, <3>2
      <4> QED BY <2>3, <3>1, <3>2, <4>1
    <3>3. CASE d # c
      <4>1. task'[d] = task[d] /\ (d \in Completed <=> d \in Completed')
        BY <2>2, <2>5, <3>3
      <4> QED BY <3>1, <4>1
    <3> QED BY <3>2, <3>3
  <2> QED BY <2>2, <2>3, <2>4, <2>6, <2>7
<1> QED BY <1>1, <1>2, <1>3, <1>4, <1>5, <1>6, <1>7 DEF RunnerNext

\* CasesPaidOnce for any cases and any bounds: no resumption pays again for a
\* result whose record can be read.
THEOREM CasesArePaidOnce == RunnerSpec => []CasesPaidOnce
<1>1. RunnerInit => PaidInv
  BY DEF RunnerInit, PaidInv, Completed, CaseAtWork
<1>2. PaidInv /\ [RunnerNext]_caseVars => PaidInv'
  <2>1. ASSUME PaidInv, UNCHANGED caseVars
        PROVE  PaidInv'
    BY <2>1 DEF PaidInv, caseVars, Completed, CaseAtWork
  <2> QED BY <2>1, PaidStep
<1>3. PaidInv => CasesPaidOnce
  BY DEF PaidInv, CasesPaidOnce
<1> QED BY <1>1, <1>2, <1>3, PTL DEF RunnerSpec

\* The calls a batch may still make for a case, and what the calls of a case come to.
CallsLeft(c) ==
  IF task[c] \in {"waiting", "calling", "pause"} THEN MaxTries + 1 - tries[c]
  ELSE IF task[c] = "record" THEN MaxTries - tries[c] ELSE 0
Spent == (MaxTries + 1) * batches
CaseBounded(c) ==
  /\ task[c] \in {"none", "waiting", "calling", "record", "pause", "done", "failed"}
  /\ tries[c] \in Nat /\ tries[c] <= MaxTries + 1
  /\ task[c] \in {"waiting", "calling", "record", "pause"} => tries[c] <= MaxTries
  /\ task[c] \in {"none", "done"} => tries[c] = 0
  /\ paid[c] \in Nat /\ unrecorded[c] \in Nat
  /\ paid[c] + CallsLeft(c) <= Spent
  /\ unrecorded[c] + (IF task[c] = "record" THEN 1 ELSE 0) <= paid[c]

\* In a batch each case is called MaxTries + 1 times at most, and between batches
\* no task is left with a try that failed.
CallsInv ==
  /\ task = [c \in Case |-> task[c]] /\ tries = [c \in Case |-> tries[c]]
  /\ paid = [c \in Case |-> paid[c]] /\ unrecorded = [c \in Case |-> unrecorded[c]]
  /\ batches \in 0..MaxBatches /\ running \in BOOLEAN
  /\ \A c \in Case : CaseBounded(c)
  /\ ~running => \A c \in Case : task[c] \in {"none", "done"}

\* One batch more, and no more than MaxBatches.
LEMMA SpentBounds ==
  ASSUME NEW tried \in Nat, NEW b \in Nat, NEW most \in Nat
  PROVE  /\ tried * b \in Nat /\ tried * (b + 1) = tried * b + tried
         /\ b <= most => tried * b <= tried * most
OBVIOUS

\* A step that moves the task of one case, and what goes with it.
LEMMA OneCaseMoves ==
  ASSUME CallsInv, NEW c \in Case, NEW to, NEW tried, NEW gave, NEW lost,
         task' = [task EXCEPT ![c] = to], tries' = [tries EXCEPT ![c] = tried],
         paid' = [paid EXCEPT ![c] = gave], unrecorded' = [unrecorded EXCEPT ![c] = lost],
         UNCHANGED <<batches, running>>, running,
         CaseBounded(c)'
  PROVE  CallsInv'
<1> USE DEF CallsInv
<1>1. ASSUME NEW d \in Case, d # c
      PROVE  /\ task'[d] = task[d] /\ tries'[d] = tries[d] /\ paid'[d] = paid[d]
             /\ unrecorded'[d] = unrecorded[d] /\ CallsLeft(d)' = CallsLeft(d) /\ Spent' = Spent
  BY <1>1 DEF CallsLeft, Spent
<1>2. ASSUME NEW d \in Case, d # c
      PROVE  CaseBounded(d)'
  <2>1. CaseBounded(d)
    OBVIOUS
  <2> QED BY <1>1, <1>2, <2>1 DEF CaseBounded
<1>3. \A d \in Case : CaseBounded(d)'
  BY <1>2
<1> QED BY <1>3

LEMMA CallsStep ==
  ASSUME CallsInv, RunnerNext
  PROVE  CallsInv'
<1> USE RunnerAssumption
<1>0. /\ batches \in Nat /\ MaxTries + 1 \in Nat /\ Spent \in Nat
      /\ (MaxTries + 1) * (batches + 1) = Spent + (MaxTries + 1)
  BY SpentBounds DEF CallsInv, Spent
<1>1. CASE StartBatch
  <2>1. /\ ~running /\ running' = TRUE /\ batches < MaxBatches /\ batches' = batches + 1
        /\ task' = [c \in Case |-> IF c \in Completed THEN "none" ELSE "waiting"]
        /\ UNCHANGED <<tries, paid, unrecorded>>
    BY <1>1 DEF StartBatch
  <2>2. Spent' = Spent + (MaxTries + 1)
    BY <1>0, <2>1 DEF Spent
  <2>3. ASSUME NEW c \in Case PROVE CaseBounded(c)'
    <3>1. tries[c] = 0 /\ CaseBounded(c) /\ CallsLeft(c) = 0 /\ task[c] # "record"
      BY <2>1 DEF CallsInv, CaseBounded, CallsLeft
    <3>2. task'[c] \in {"none", "waiting"}
      BY <2>1
    <3>3. CallsLeft(c)' \in 0..(MaxTries + 1)
      BY <2>1, <3>1, <3>2 DEF CallsLeft
    <3> QED BY <1>0, <2>1, <2>2, <3>1, <3>2, <3>3 DEF CaseBounded
  <2> QED BY <2>1, <2>3 DEF CallsInv
<1>2. CASE BatchEnds
  BY <1>2 DEF BatchEnds, CallsInv, CaseBounded, CallsLeft, Spent
<1>3. CASE BatchFails \/ CrashRunner
  <2>1. PICK late \in SUBSET {c \in Case : task[c] = "calling"} :
          /\ paid' = [c \in Case |-> paid[c] + IF c \in late THEN 1 ELSE 0]
          /\ Lose(late \cup {c \in Case : task[c] = "record"})
    <3>1. CASE BatchFails
      BY <3>1 DEF BatchFails
    <3>2. CASE CrashRunner
      <4>1. paid' = [c \in Case |-> paid[c] + IF c \in {} THEN 1 ELSE 0]
        BY <3>2 DEF CrashRunner, CallsInv, CaseBounded
      <4>2. Lose({} \cup {c \in Case : task[c] = "record"})
        BY <3>2 DEF CrashRunner
      <4> QED BY <4>1, <4>2
    <3> QED BY <1>3, <3>1, <3>2
  <2>2. /\ running' = FALSE /\ task' = [c \in Case |-> "none"] /\ tries' = [c \in Case |-> 0]
        /\ batches' = batches
    BY <1>3 DEF BatchFails, CrashRunner
  <2>3. ASSUME NEW c \in Case PROVE CaseBounded(c)'
    <3>1. /\ paid'[c] = paid[c] + IF c \in late THEN 1 ELSE 0
          /\ unrecorded'[c] = unrecorded[c] + IF c \in late \/ task[c] = "record" THEN 1 ELSE 0
          /\ c \in late => task[c] = "calling"
      BY <2>1 DEF Lose
    <3>2. task'[c] = "none" /\ tries'[c] = 0 /\ Spent' = Spent /\ CallsLeft(c)' = 0
      BY <2>2 DEF Spent, CallsLeft
    <3>3. CaseBounded(c)
      BY DEF CallsInv
    <3>4. CallsLeft(c) \in Nat /\ (task[c] = "calling" => CallsLeft(c) >= 1)
      BY <3>3 DEF CaseBounded, CallsLeft
    <3> QED BY <1>0, <3>1, <3>2, <3>3, <3>4 DEF CaseBounded
  <2>4. unrecorded' = [c \in Case |-> unrecorded'[c]] /\ paid' = [c \in Case |-> paid'[c]]
    BY <2>1 DEF Lose
  <2> QED BY <2>2, <2>3, <2>4 DEF CallsInv
<1>4. ASSUME NEW c \in Case,
             \/ Acquire(c) \/ CallReturns(c) \/ CallRaises(c) \/ Retry(c)
             \/ Record(c) \/ RecordRaises(c)
      PROVE  CallsInv'
  <2>0. CaseBounded(c) /\ UNCHANGED <<batches, running>> /\ Spent' = Spent
        /\ task[c] \in {"waiting", "calling", "pause", "record"} /\ running
    BY <1>4 DEF Acquire, CallReturns, CallRaises, Retry, Record, RecordRaises, TryFails, TaskMoves,
       CallsInv, Spent
  <2>1. PICK to, tried, gave, lost :
          /\ task' = [task EXCEPT ![c] = to] /\ tries' = [tries EXCEPT ![c] = tried]
          /\ paid' = [paid EXCEPT ![c] = gave] /\ unrecorded' = [unrecorded EXCEPT ![c] = lost]
    <3>1. \E to : task' = [task EXCEPT ![c] = to]
      BY <1>4 DEF Acquire, CallReturns, CallRaises, Retry, Record, RecordRaises, TryFails, TaskMoves
    <3>2. \E tried : tries' = [tries EXCEPT ![c] = tried]
      <4>1. tries = [tries EXCEPT ![c] = tries[c]]
        BY DEF CallsInv
      <4> QED BY <1>4, <4>1 DEF Acquire, CallReturns, CallRaises, Retry, Record, RecordRaises, TryFails
    <3>3. \E gave : paid' = [paid EXCEPT ![c] = gave]
      <4>1. paid = [paid EXCEPT ![c] = paid[c]]
        BY DEF CallsInv
      <4> QED BY <1>4, <4>1 DEF Acquire, CallReturns, CallRaises, Retry, Record, RecordRaises, TryFails
    <3>4. \E lost : unrecorded' = [unrecorded EXCEPT ![c] = lost]
      <4>1. unrecorded = [unrecorded EXCEPT ![c] = unrecorded[c]]
        BY DEF CallsInv
      <4>2. ASSUME NEW cases \in SUBSET {c}, Lose(cases)
            PROVE  unrecorded' = [unrecorded EXCEPT ![c] = unrecorded'[c]]
        BY <4>2 DEF Lose, CallsInv, CaseBounded
      <4>3. Record(c) \/ RecordRaises(c) => \E cases \in SUBSET {c} : Lose(cases)
        BY DEF Record, RecordRaises
      <4> QED BY <1>4, <4>1, <4>2, <4>3 DEF Acquire, CallReturns, CallRaises, Retry
    <3>5. PICK to : task' = [task EXCEPT ![c] = to]
      BY <3>1
    <3>6. PICK tried : tries' = [tries EXCEPT ![c] = tried]
      BY <3>2
    <3>7. PICK gave : paid' = [paid EXCEPT ![c] = gave]
      BY <3>3
    <3>8. PICK lost : unrecorded' = [unrecorded EXCEPT ![c] = lost]
      BY <3>4
    <3> QED BY <3>5, <3>6, <3>7, <3>8
  <2>2. CaseBounded(c)'
    <3>1. CASE Acquire(c) \/ Retry(c)
      <4>1. /\ task[c] \in {"waiting", "pause"} /\ task'[c] = "calling"
            /\ tries'[c] = tries[c] /\ paid'[c] = paid[c] /\ unrecorded'[c] = unrecorded[c]
        BY <3>1 DEF Acquire, Retry, TaskMoves, CallsInv
      <4> QED BY <2>0, <4>1 DEF CaseBounded, CallsLeft
    <3>2. CASE CallReturns(c)
      <4>1. /\ task[c] = "calling" /\ task'[c] = "record"
            /\ tries'[c] = tries[c] /\ paid'[c] = paid[c] + 1 /\ unrecorded'[c] = unrecorded[c]
        BY <3>2 DEF CallReturns, TaskMoves, CallsInv
      <4> QED BY <1>0, <2>0, <4>1 DEF CaseBounded, CallsLeft
    <3>3. CASE CallRaises(c)
      <4>1. /\ task[c] = "calling" /\ task'[c] = IF tries[c] >= MaxTries THEN "failed" ELSE "pause"
            /\ tries'[c] = tries[c] + 1 /\ paid'[c] = paid[c] /\ unrecorded'[c] = unrecorded[c]
        BY <3>3 DEF CallRaises, TryFails, TaskMoves, CallsInv
      <4> QED BY <1>0, <2>0, <4>1 DEF CaseBounded, CallsLeft
    <3>4. CASE Record(c)
      <4>1. /\ task[c] = "record" /\ task'[c] = "done"
            /\ tries'[c] = 0 /\ paid'[c] = paid[c]
            /\ unrecorded'[c] = unrecorded[c] \/ unrecorded'[c] = unrecorded[c] + 1
        <5>1. unrecorded'[c] = unrecorded[c] \/ unrecorded'[c] = unrecorded[c] + 1
          BY <2>0, <3>4 DEF Record, Lose, CaseBounded
        <5> QED BY <3>4, <5>1 DEF Record, TaskMoves, CallsInv
      <4> QED BY <1>0, <2>0, <4>1 DEF CaseBounded, CallsLeft
    <3>5. CASE RecordRaises(c)
      <4>1. /\ task[c] = "record" /\ task'[c] = IF tries[c] >= MaxTries THEN "failed" ELSE "pause"
            /\ tries'[c] = tries[c] + 1 /\ paid'[c] = paid[c] /\ unrecorded'[c] = unrecorded[c] + 1
        BY <3>5 DEF RecordRaises, TryFails, TaskMoves, Lose, CallsInv
      <4> QED BY <1>0, <2>0, <4>1 DEF CaseBounded, CallsLeft
    <3> QED BY <1>4, <3>1, <3>2, <3>3, <3>4, <3>5
  <2> QED BY <2>0, <2>1, <2>2, OneCaseMoves
<1> QED BY <1>1, <1>2, <1>3, <1>4 DEF RunnerNext

\* A case that gives up, crashes or loses its record is called MaxTries + 1 times in
\* a batch at most, so that what is paid for it has a bound.
THEOREM RunnerTypeCorrect == RunnerSpec => []RunnerTypeOK
<1> USE RunnerAssumption
<1>1. RunnerInit => PaidInv /\ CallsInv
  <2> SUFFICES ASSUME RunnerInit PROVE PaidInv /\ CallsInv
    OBVIOUS
  <2>1. PaidInv
    BY DEF RunnerInit, PaidInv, Completed, CaseAtWork
  <2>2. Spent = 0
    BY DEF RunnerInit, Spent
  <2>3. \A c \in Case : CaseBounded(c)
    BY <2>2 DEF RunnerInit, CaseBounded, CallsLeft
  <2>4. /\ task = [c \in Case |-> task[c]] /\ tries = [c \in Case |-> tries[c]]
        /\ paid = [c \in Case |-> paid[c]]
    BY DEF RunnerInit
  <2>5. unrecorded = [c \in Case |-> unrecorded[c]]
    BY DEF RunnerInit
  <2>6. batches \in 0..MaxBatches
    BY DEF RunnerInit
  <2>8. running \in BOOLEAN
    BY DEF RunnerInit
  <2>7. \A c \in Case : task[c] = "none"
    BY DEF RunnerInit
  <2> QED BY <2>1, <2>3, <2>4, <2>5, <2>6, <2>7, <2>8 DEF CallsInv
<1>2. PaidInv /\ CallsInv /\ [RunnerNext]_caseVars => (PaidInv /\ CallsInv)'
  <2>1. ASSUME PaidInv, CallsInv, UNCHANGED caseVars PROVE PaidInv' /\ CallsInv'
    BY <2>1 DEF PaidInv, caseVars, Completed, CaseAtWork, CallsInv, CaseBounded, CallsLeft, Spent
  <2> QED BY <2>1, PaidStep, CallsStep
<1>3. PaidInv /\ CallsInv => RunnerTypeOK
  <2> SUFFICES ASSUME PaidInv, CallsInv PROVE RunnerTypeOK
    OBVIOUS
  <2>1. batches \in Nat /\ MaxTries + 1 \in Nat /\ batches <= MaxBatches
    BY DEF CallsInv
  <2>2. Spent \in Nat /\ Spent <= (MaxTries + 1) * MaxBatches
    BY <2>1, SpentBounds DEF Spent
  <2>3. (MaxTries + 1) * MaxBatches = MaxPaid /\ MaxPaid \in Nat
    BY <2>1, SpentBounds DEF MaxPaid
  <2>4. ASSUME NEW c \in Case
        PROVE  paid[c] \in 0..MaxPaid /\ unrecorded[c] \in 0..MaxPaid /\ tries[c] \in 0..(MaxTries + 1)
    <3>1. CaseBounded(c)
      BY DEF CallsInv
    <3>2. CallsLeft(c) \in Nat
      BY <3>1 DEF CaseBounded, CallsLeft
    <3> QED BY <2>2, <2>3, <3>1, <3>2 DEF CaseBounded
  <2>5. paid \in [Case -> 0..MaxPaid] /\ unrecorded \in [Case -> 0..MaxPaid]
        /\ tries \in [Case -> 0..(MaxTries + 1)]
    BY <2>4 DEF CallsInv
  <2> QED BY <2>5 DEF PaidInv, Fragment, CaseAtWork, CallsInv, RunnerTypeOK
<1> QED BY <1>1, <1>2, <1>3, PTL DEF RunnerSpec

--------------------------------------------------------------------------------
(* Backups.                                                                    *)

Built == {"manifest", "clear", "rename"}
Counted == {"clear", "rename"}

\* The directory under construction refers to artifacts the store has, then to ones
\* among those listed, then to its own; its manifest counts those.
BuildInv ==
  /\ saving \in {"vectors", "artifacts"} => building.rows \subseteq stored
  /\ saving = "copying" => building.rows \subseteq found
  /\ saving \in Built => Complete(building)
  /\ saving \in Counted => building.count = Cardinality(building.files)
  /\ saving # "idle" => output.kind # "tree"

\* What the manifest of a tree counts, although the tree may have lost some of it.
Lost(tree, whole) ==
  /\ tree.files \subseteq whole /\ tree.rows \subseteq whole
  /\ tree.count = Cardinality(whole)
OutputInv ==
  output.kind = "tree" =>
    /\ \E whole \in SUBSET Artifact : Lost(output, whole)
    /\ ~lossy => Complete(output)

RestoreInv ==
  /\ loading # "idle" => output.kind = "tree" /\ manifest.count = output.count
  /\ loading \in {"vectors", "artifacts"} => restoring.rows = output.rows
  /\ loading = "rename" => Complete(restoring)
  /\ restored.kind = "tree" => Complete(restored)

BackupInv == BackupTypeOK /\ BuildInv /\ OutputInv /\ RestoreInv

LEMMA SubsetCounts ==
  ASSUME NEW S \in SUBSET Artifact, NEW T \in SUBSET S
  PROVE  /\ Cardinality(S) \in 0..Cardinality(Artifact)
         /\ Cardinality(S) = Cardinality(T) => S = T
<1>1. IsFiniteSet(Artifact)
  BY BackupAssumption
<1>2. IsFiniteSet(S) /\ Cardinality(S) <= Cardinality(Artifact)
  BY <1>1, FS_Subset
<1>3. Cardinality(S) \in Nat /\ Cardinality(Artifact) \in Nat
  BY <1>1, <1>2, FS_CardinalityType
<1>4. Cardinality(S) = Cardinality(T) => S = T
  BY <1>2, FS_Subset
<1> QED BY <1>2, <1>3, <1>4

LEMMA NoneIsATree ==
  /\ None \in Tree /\ EmptyDir \in Tree
  /\ None.kind = "none" /\ EmptyDir.kind = "empty"
  /\ [None EXCEPT !.kind = "other"] \in Tree
  /\ [None EXCEPT !.kind = "other"].kind = "other"
<1>1. 0 \in 0..Cardinality(Artifact)
  BY BackupAssumption, FS_CardinalityType
<1> QED BY <1>1 DEF None, EmptyDir, Tree

LEMMA BackupInitially == BackupInit => BackupInv
<1> SUFFICES ASSUME BackupInit
             PROVE  BackupInv
  OBVIOUS
<1>1. BackupTypeOK
  <2>1. output \in Tree
    BY NoneIsATree DEF BackupInit
  <2>2. 0 \in 0..MaxBackupTroubles
    BY BackupAssumption
  <2> QED BY <2>1, <2>2, NoneIsATree DEF BackupInit, BackupTypeOK
<1>2. output.kind # "tree"
  BY NoneIsATree DEF BackupInit
<1>3. restored.kind # "tree"
  BY NoneIsATree DEF BackupInit
<1>4. BuildInv
  BY <1>2 DEF BackupInit, BuildInv, Built, Counted
<1>5. OutputInv /\ RestoreInv
  BY <1>2, <1>3 DEF BackupInit, OutputInv, RestoreInv
<1> QED BY <1>1, <1>4, <1>5 DEF BackupInv

\* create_backup changes neither the store nor the restore, and the output only
\* while it is no tree.
LEMMA SaveKeeps ==
  ASSUME BackupInv,
         \/ StartBackup \/ Snapshot \/ CopyVectors \/ ListArtifacts \/ CopyArtifacts
         \/ WriteManifest \/ ClearOutput \/ BackupFails
  PROVE  BackupInv'
<1> USE DEF BackupInv, BackupTypeOK
<1>1. CASE StartBackup
  BY <1>1, NoneIsATree DEF StartBackup, SaveStep, Vacant, BuildInv, OutputInv, RestoreInv, Built, Counted, Lost, Complete
<1>2. CASE Snapshot
  <2>1. building' \in Tree /\ building'.rows = dbRows
    BY <1>2 DEF Snapshot, SaveStep, Tree
  <2>2. BackupTypeOK'
    BY <1>2, <2>1 DEF Snapshot, SaveStep
  <2>3. BuildInv'
    BY <1>2, <2>1 DEF Snapshot, SaveStep, BuildInv, Built, Counted
  <2>4. OutputInv' /\ RestoreInv'
    BY <1>2 DEF Snapshot, SaveStep, OutputInv, RestoreInv, Lost, Complete
  <2> QED BY <2>2, <2>3, <2>4
<1>3. CASE CopyVectors
  BY <1>3 DEF CopyVectors, SaveStep, Tree, BuildInv, OutputInv, RestoreInv, Built, Counted, Lost, Complete
<1>4. CASE ListArtifacts
  BY <1>4 DEF ListArtifacts, SaveStep, BuildInv, OutputInv, RestoreInv, Built, Counted, Lost, Complete
<1>5. CASE CopyArtifacts
  BY <1>5 DEF CopyArtifacts, SaveStep, Tree, BuildInv, OutputInv, RestoreInv, Built, Counted, Lost, Complete
<1>6. CASE WriteManifest
  <2>1. Cardinality(building.files) \in 0..Cardinality(Artifact)
    BY SubsetCounts DEF Tree
  <2> QED BY <1>6, <2>1 DEF WriteManifest, SaveStep, Tree, BuildInv, OutputInv, RestoreInv, Built, Counted, Lost, Complete
<1>7. CASE ClearOutput
  BY <1>7, NoneIsATree DEF ClearOutput, SaveStep, BuildInv, OutputInv, RestoreInv, Built, Counted, Lost, Complete
<1>8. CASE BackupFails
  BY <1>8, NoneIsATree DEF BackupFails, SaveStep, BuildInv, OutputInv, RestoreInv, Built, Counted, Lost, Complete
<1> QED BY <1>1, <1>2, <1>3, <1>4, <1>5, <1>6, <1>7, <1>8

LEMMA RenameKeeps ==
  ASSUME BackupInv, RenameBackup
  PROVE  BackupInv'
<1> USE DEF BackupInv, BackupTypeOK, RenameBackup, SaveStep
<1>1. Lost(building, building.files) /\ building.files \in SUBSET Artifact
  BY DEF BuildInv, Built, Counted, Lost, Complete, Tree
<1>2. BackupTypeOK'
  BY NoneIsATree
<1>3. BuildInv'
  BY DEF BuildInv, Built, Counted
<1>4. OutputInv'
  BY <1>1 DEF OutputInv, BuildInv, Built, Lost, Complete
<1>5. RestoreInv'
  BY DEF RestoreInv, BuildInv, Complete
<1> QED BY <1>2, <1>3, <1>4, <1>5

\* The count of the artifacts it takes is the one of the manifest: it takes them all.
LEMMA RestoreTakesAll ==
  ASSUME BackupInv, RestoreArtifacts
  PROVE  Complete(output)
<1> USE DEF BackupInv, BackupTypeOK
<1>1. /\ output.kind = "tree" /\ manifest.count = output.count
      /\ Cardinality(output.files) = manifest.count
  BY DEF RestoreArtifacts, LoadStep, CountAgrees, RestoreInv
<1>2. PICK whole \in SUBSET Artifact : Lost(output, whole)
  BY <1>1 DEF OutputInv
<1>3. output.files \in SUBSET whole /\ Cardinality(whole) = Cardinality(output.files)
  BY <1>1, <1>2 DEF Lost
<1>4. whole = output.files
  BY <1>3, SubsetCounts
<1> QED BY <1>2, <1>4 DEF Lost, Complete

LEMMA LoadKeeps ==
  ASSUME BackupInv,
         \/ StartRestore \/ RestoreDatabase \/ RestoreVectors \/ RestoreArtifacts
         \/ RenameRestored \/ RestoreFails
  PROVE  BackupInv'
<1> USE DEF BackupInv, BackupTypeOK
<1>1. CASE StartRestore
  BY <1>1, NoneIsATree DEF StartRestore, LoadStep, BuildInv, OutputInv, RestoreInv, Lost, Complete
<1>2. CASE RestoreDatabase
  <2>1. restoring' \in Tree /\ restoring'.rows = output.rows
    BY <1>2 DEF RestoreDatabase, LoadStep, Tree
  <2>2. BackupTypeOK'
    BY <1>2, <2>1 DEF RestoreDatabase, LoadStep
  <2>3. BuildInv' /\ OutputInv'
    BY <1>2 DEF RestoreDatabase, LoadStep, BuildInv, OutputInv, Built, Counted, Lost, Complete
  <2>4. RestoreInv'
    BY <1>2, <2>1 DEF RestoreDatabase, LoadStep, RestoreInv, Complete
  <2> QED BY <2>2, <2>3, <2>4
<1>3. CASE RestoreVectors
  BY <1>3 DEF RestoreVectors, LoadStep, BuildInv, OutputInv, RestoreInv, Lost, Complete
<1>4. CASE RestoreArtifacts
  <2>1. restoring.rows = output.rows /\ Complete(output)
    BY <1>4, RestoreTakesAll DEF RestoreArtifacts, LoadStep, RestoreInv
  <2>2. restoring' \in Tree /\ Complete(restoring')
    BY <1>4, <2>1 DEF RestoreArtifacts, LoadStep, Tree, Complete
  <2>3. BackupTypeOK'
    BY <1>4, <2>2 DEF RestoreArtifacts, LoadStep
  <2>4. BuildInv' /\ OutputInv'
    BY <1>4 DEF RestoreArtifacts, LoadStep, BuildInv, OutputInv, Built, Counted, Lost, Complete
  <2>5. RestoreInv'
    BY <1>4, <2>2 DEF RestoreArtifacts, LoadStep, RestoreInv, Complete
  <2> QED BY <2>3, <2>4, <2>5
<1>5. CASE RenameRestored
  BY <1>5, NoneIsATree DEF RenameRestored, LoadStep, BuildInv, OutputInv, RestoreInv, Lost, Complete
<1>6. CASE RestoreFails
  BY <1>6, NoneIsATree DEF RestoreFails, LoadStep, BuildInv, OutputInv, RestoreInv, Lost, Complete
<1> QED BY <1>1, <1>2, <1>3, <1>4, <1>5, <1>6

\* The server, crashes, losses and other people.
LEMMA SurroundingsKeep ==
  ASSUME BackupInv,
         \/ \E a \in Artifact : PutArtifact(a) \/ RegisterArtifact(a) \/ LoseFile(a)
         \/ CrashBackup \/ CrashRestore \/ ChangeOutput \/ ChangeTarget
  PROVE  BackupInv'
<1> USE DEF BackupInv, BackupTypeOK
<1>1. ASSUME NEW a \in Artifact, PutArtifact(a) \/ RegisterArtifact(a)
      PROVE  BackupInv'
  BY <1>1 DEF PutArtifact, RegisterArtifact, BuildInv, OutputInv, RestoreInv, Built, Counted, Lost, Complete
<1>2. ASSUME NEW a \in Artifact, LoseFile(a)
      PROVE  BackupInv'
  <2>1. BackupTypeOK'
    BY <1>2, BackupAssumption DEF LoseFile, Trouble, Tree
  <2>2. output.kind = "tree" /\ saving = "idle"
    BY <1>2 DEF LoseFile, BuildInv
  <2>3. /\ output'.kind = "tree" /\ output'.rows = output.rows /\ output'.count = output.count
        /\ output'.files \subseteq output.files /\ lossy'
    BY <1>2 DEF LoseFile, Tree
  <2>4. BuildInv'
    BY <1>2, <2>2 DEF LoseFile, BuildInv, Built, Counted
  <2>5. OutputInv'
    <3>1. PICK whole \in SUBSET Artifact : Lost(output, whole)
      BY <2>2 DEF OutputInv
    <3>2. Lost(output', whole)
      BY <2>3, <3>1 DEF Lost
    <3> QED BY <2>3, <3>2 DEF OutputInv
  <2>6. RestoreInv'
    BY <1>2, <2>3 DEF LoseFile, RestoreInv, Complete
  <2> QED BY <2>1, <2>4, <2>5, <2>6
<1>3. CASE CrashBackup \/ CrashRestore
  BY <1>3, BackupAssumption, NoneIsATree
  DEF CrashBackup, CrashRestore, Trouble, BuildInv, OutputInv, RestoreInv, Built, Counted, Lost, Complete
<1>4. CASE ChangeOutput
  <2>1. output' \in Tree /\ output'.kind # "tree" /\ loading = "idle"
    BY <1>4, NoneIsATree DEF ChangeOutput, Tree
  <2>2. BackupTypeOK'
    BY <1>4, <2>1 DEF ChangeOutput
  <2>3. BuildInv' /\ OutputInv'
    BY <1>4, <2>1 DEF ChangeOutput, BuildInv, OutputInv, Built, Counted, Complete
  <2>4. RestoreInv'
    BY <1>4, <2>1 DEF ChangeOutput, RestoreInv, Complete
  <2> QED BY <2>2, <2>3, <2>4
<1>5. CASE ChangeTarget
  <2>1. restored' \in Tree /\ restored'.kind # "tree"
    BY <1>5, NoneIsATree DEF ChangeTarget, Tree
  <2>2. BackupTypeOK'
    BY <1>5, <2>1 DEF ChangeTarget
  <2>3. BuildInv' /\ OutputInv'
    BY <1>5 DEF ChangeTarget, BuildInv, OutputInv, Built, Counted, Lost, Complete
  <2>4. RestoreInv'
    BY <1>5, <2>1 DEF ChangeTarget, RestoreInv, Complete
  <2> QED BY <2>2, <2>3, <2>4
<1> QED BY <1>1, <1>2, <1>3, <1>4, <1>5

\* What is known of a copy at each step of the backup holds throughout.
LEMMA BackupsHold == BackupSpec => []BackupInv
<1>1. BackupInv /\ [BackupNext]_backupVars => BackupInv'
  <2>1. ASSUME BackupInv, UNCHANGED backupVars
        PROVE  BackupInv'
    BY <2>1 DEF backupVars, BackupInv, BackupTypeOK, BuildInv, OutputInv, RestoreInv, Built,
       Counted, Lost, Complete
  <2> QED BY <2>1, SaveKeeps, RenameKeeps, LoadKeeps, SurroundingsKeep DEF BackupNext
<1> QED BY BackupInitially, <1>1, PTL DEF BackupSpec

\* The trees, the manifests and the steps of a backup and of a restore keep their types.
THEOREM BackupTypeCorrect == BackupSpec => []BackupTypeOK
<1>1. BackupInv => BackupTypeOK
  BY DEF BackupInv
<1> QED BY <1>1, BackupsHold, PTL

\* TreesHaveTheirArtifacts for any artifacts, crashes and losses: a copy made while
\* the server writes is consistent, and no incomplete one is restored.
THEOREM BackupsAreConsistent == BackupSpec => []TreesHaveTheirArtifacts
<1>1. BackupInv => TreesHaveTheirArtifacts
  BY DEF BackupInv, OutputInv, RestoreInv, TreesHaveTheirArtifacts
<1> QED BY <1>1, BackupsHold, PTL

--------------------------------------------------------------------------------
(* The publication of the image table.                                         *)

Call == [at : {"idle"} \cup InTry \cup InExcept, of : Table, had : BOOLEAN]

\* A call that had the names to itself, and a table published before it, has that
\* table published or in the backup, whichever its place in publish says.
Safe(c) ==
  /\ before[c] # NoTable
  /\ Where(c) \in {"create", "drop backup", "copy"} => image = before[c] /\ backup = NoTable
  /\ Where(c) \in {"swap", "reopen", "drop staging", "drop copy", "restore"} => backup = before[c]
  /\ Where(c) = "rollback" => backup = before[c] \/ (image = before[c] /\ backup = NoTable)
  /\ Where(c) = "drop restored" => image = before[c]

PublishInv ==
  /\ publishing \in [Publisher -> Call] /\ imageRestarts \in Nat
  /\ before \in [Publisher -> Table] /\ hindered \subseteq Publisher
  /\ \A c \in Publisher \ hindered : Where(c) # "idle" =>
       /\ \A d \in Publisher \ {c} : Where(d) = "idle"
       /\ Had(c) => Safe(c)

LEMMA PublishStarts ==
  ASSUME PublishInv, NEW c \in Publisher, NEW d \in Figures, BeginPublish(c, d), image \in Table
  PROVE  PublishInv'
<1> USE DEF PublishInv, Call, InTry, Table
<1>1. /\ publishing' = [publishing EXCEPT ![c] = [at |-> "create", of |-> d, had |-> image # NoTable]]
      /\ before' = [before EXCEPT ![c] = image]
      /\ image' = image /\ backup' = backup
      /\ hindered' = (hindered \ {c}) \cup Busy \cup IF Busy = {} /\ backup = NoTable THEN {} ELSE {c}
      /\ Where(c) = "idle" /\ imageRestarts' = imageRestarts
  BY DEF BeginPublish
<1>2. publishing' \in [Publisher -> Call] /\ before' \in [Publisher -> Table]
  BY <1>1
<1>3. hindered' \subseteq Publisher
  BY <1>1 DEF Busy
<1>4. ASSUME NEW e \in Publisher \ hindered', Where(e)' # "idle"
      PROVE  /\ \A f \in Publisher \ {e} : Where(f)' = "idle"
             /\ Had(e)' => Safe(e)'
  <2>1. e = c
    BY <1>1, <1>4 DEF Where, Busy
  <2>2. Busy = {} /\ backup = NoTable
    BY <1>1, <1>4, <2>1
  <2>3. \A f \in Publisher \ {e} : Where(f)' = "idle"
    BY <1>1, <2>1, <2>2 DEF Where, Busy
  <2>4. Had(e)' => image # NoTable
    BY <1>1, <2>1 DEF Had
  <2>5. /\ Where(e)' = "create" /\ image' = before'[e] /\ backup' = NoTable
        /\ (image # NoTable => before'[e] # NoTable)
    BY <1>1, <2>1, <2>2 DEF Where
  <2> QED BY <2>3, <2>4, <2>5 DEF Safe
<1> QED BY <1>1, <1>2, <1>3, <1>4

\* A step of one thread within its call leaves the places of the others, and what a
\* thread that is alone relies on.
LEMMA StepKeeps ==
  ASSUME PublishInv, NEW c \in Publisher, NEW to \in {"idle"} \cup InTry \cup InExcept,
         Where(c) # "idle", Steps(c, Where(c), to),
         c \notin hindered /\ Had(c) /\ Safe(c) /\ to # "idle" => Safe(c)'
  PROVE  PublishInv'
<1> USE DEF PublishInv, Call
<1>1. /\ publishing' = [publishing EXCEPT ![c].at = to]
      /\ before' = before /\ hindered' = hindered /\ imageRestarts' = imageRestarts
  BY DEF Steps
<1>2. publishing' \in [Publisher -> Call]
  BY <1>1
<1>3. Where(c)' = to /\ Had(c)' = Had(c) /\ \A d \in Publisher \ {c} : Where(d)' = Where(d)
  BY <1>1 DEF Where, Had
<1>4. ASSUME NEW e \in Publisher \ hindered', Where(e)' # "idle"
      PROVE  /\ \A f \in Publisher \ {e} : Where(f)' = "idle"
             /\ Had(e)' => Safe(e)'
  <2>1. e = c
    BY <1>1, <1>3, <1>4
  <2> QED BY <1>1, <1>3, <1>4, <2>1
<1> QED BY <1>1, <1>2, <1>4

\* Where a step of a thread leaves it.
LEMMA StepPoint ==
  ASSUME PublishInv, NEW c \in Publisher, NEW to, Steps(c, Where(c), to)
  PROVE  Where(c)' = to /\ Had(c)' = Had(c) /\ before' = before
BY DEF Steps, PublishInv, Call, Where, Had

LEMMA WithinPublish ==
  ASSUME PublishInv, NEW c \in Publisher,
         \/ CreateStaging(c) \/ DropBackup(c) \/ CopyExisting(c) \/ Swap(c) \/ Reopen(c)
         \/ DropStaging(c) \/ DropCopy(c)
  PROVE  PublishInv'
<1> USE DEF InTry, InExcept, Safe
<1>1. CASE CreateStaging(c)
  <2> DEFINE to == IF Had(c) THEN "drop backup" ELSE "swap"
  <2>1. Steps(c, Where(c), to) /\ Where(c) = "create" /\ image' = image /\ backup' = backup
    BY <1>1 DEF CreateStaging, Steps
  <2>2. Where(c)' = to /\ Had(c)' = Had(c) /\ before' = before
    BY <2>1, StepPoint
  <2>3. Had(c) /\ Safe(c) => Safe(c)'
    BY <2>1, <2>2
  <2> QED BY <2>1, <2>3, StepKeeps
<1>2. CASE DropBackup(c)
  <2>1. Steps(c, Where(c), "copy") /\ Where(c) = "drop backup" /\ image' = image /\ backup' \in {backup, NoTable}
    BY <1>2 DEF DropBackup, Steps, Dropped
  <2>2. Where(c)' = "copy" /\ Had(c)' = Had(c) /\ before' = before
    BY <2>1, StepPoint
  <2>3. Had(c) /\ Safe(c) => Safe(c)'
    BY <2>1, <2>2
  <2> QED BY <2>1, <2>3, StepKeeps
<1>3. CASE CopyExisting(c)
  <2>1. Steps(c, Where(c), "swap") /\ Where(c) = "copy" /\ image' = image /\ backup' = image
    BY <1>3 DEF CopyExisting, Steps
  <2>2. Where(c)' = "swap" /\ Had(c)' = Had(c) /\ before' = before
    BY <2>1, StepPoint
  <2>3. Had(c) /\ Safe(c) => Safe(c)'
    BY <2>1, <2>2
  <2> QED BY <2>1, <2>3, StepKeeps
<1>4. CASE Swap(c)
  <2>1. Steps(c, Where(c), "reopen") /\ Where(c) = "swap" /\ backup' = backup
    BY <1>4 DEF Swap, Steps
  <2>2. Where(c)' = "reopen" /\ Had(c)' = Had(c) /\ before' = before
    BY <2>1, StepPoint
  <2>3. Had(c) /\ Safe(c) => Safe(c)'
    BY <2>1, <2>2
  <2> QED BY <2>1, <2>3, StepKeeps
<1>5. CASE Reopen(c)
  <2>1. Steps(c, Where(c), "drop staging") /\ Where(c) = "reopen" /\ backup' = backup
    BY <1>5 DEF Reopen, Steps
  <2>2. Where(c)' = "drop staging" /\ Had(c)' = Had(c) /\ before' = before
    BY <2>1, StepPoint
  <2>3. Had(c) /\ Safe(c) => Safe(c)'
    BY <2>1, <2>2
  <2> QED BY <2>1, <2>3, StepKeeps
<1>6. CASE DropStaging(c)
  <2> DEFINE to == IF Had(c) THEN "drop copy" ELSE "idle"
  <2>1. Steps(c, Where(c), to) /\ Where(c) = "drop staging" /\ backup' = backup
    BY <1>6 DEF DropStaging, Steps
  <2>2. Where(c)' = to /\ Had(c)' = Had(c) /\ before' = before
    BY <2>1, StepPoint
  <2>3. Had(c) /\ Safe(c) /\ to # "idle" => Safe(c)'
    BY <2>1, <2>2
  <2> QED BY <2>1, <2>3, StepKeeps
<1>7. CASE DropCopy(c)
  <2>1. Steps(c, Where(c), "idle") /\ Where(c) = "drop copy"
    BY <1>7 DEF DropCopy, Steps
  <2> QED BY <2>1, StepKeeps
<1> QED BY <1>1, <1>2, <1>3, <1>4, <1>5, <1>6, <1>7

LEMMA WithinRollback ==
  ASSUME PublishInv, NEW c \in Publisher,
         PublishFails(c) \/ Rollback(c) \/ Restore(c) \/ RollbackFails(c) \/ DropRestored(c)
  PROVE  PublishInv'
<1> USE DEF InTry, InExcept, Safe
<1>1. CASE PublishFails(c)
  <2>1. /\ Steps(c, Where(c), "rollback") /\ Where(c) \in InTry /\ backup' = backup
        /\ Where(c) # "swap" => image' = image
    BY <1>1 DEF PublishFails
  <2>2. Where(c)' = "rollback" /\ Had(c)' = Had(c) /\ before' = before
    BY <2>1, StepPoint
  <2>3. Had(c) /\ Safe(c) => Safe(c)'
    BY <2>1, <2>2
  <2> QED BY <2>1, <2>3, StepKeeps
<1>2. CASE Rollback(c)
  <2> DEFINE to == IF Had(c) /\ backup # NoTable THEN "restore" ELSE "idle"
  <2>1. Steps(c, Where(c), to) /\ Where(c) = "rollback" /\ image' = image /\ backup' = backup
    BY <1>2 DEF Rollback, Steps
  <2>2. Where(c)' = to /\ Had(c)' = Had(c) /\ before' = before
    BY <2>1, StepPoint
  <2>3. Had(c) /\ Safe(c) /\ to # "idle" => Safe(c)'
    BY <2>1, <2>2
  <2> QED BY <2>1, <2>3, StepKeeps
<1>3. CASE Restore(c)
  <2>1. Steps(c, Where(c), "drop restored") /\ Where(c) = "restore" /\ image' = backup
    BY <1>3 DEF Restore, Steps
  <2>2. Where(c)' = "drop restored" /\ Had(c)' = Had(c) /\ before' = before
    BY <2>1, StepPoint
  <2>3. Had(c) /\ Safe(c) => Safe(c)'
    BY <2>1, <2>2
  <2> QED BY <2>1, <2>3, StepKeeps
<1>4. CASE RollbackFails(c)
  <2>1. Steps(c, Where(c), "idle") /\ Where(c) # "idle"
    BY <1>4 DEF RollbackFails
  <2> QED BY <2>1, StepKeeps
<1>5. CASE DropRestored(c)
  <2>1. Steps(c, Where(c), "idle") /\ Where(c) # "idle"
    BY <1>5 DEF DropRestored, Steps
  <2> QED BY <2>1, StepKeeps
<1> QED BY <1>1, <1>2, <1>3, <1>4, <1>5

\* The steps that end a call that failed.
LEMMA FailureRollsBack ==
  ASSUME PublishInv, ImageNext, NEW c \in Publisher \ hindered, Fails(c), Had(c)
  PROVE  image' = before[c] \/ (RollbackFails(c) /\ backup = before[c])
<1>1. Safe(c) /\ \A d \in Publisher \ {c} : Where(d) = "idle"
  BY DEF PublishInv, Fails, InExcept
<1>2. CASE Rollback(c)
  BY <1>1, <1>2 DEF Rollback, Safe, Fails, Steps, PublishInv, Call, Where
<1>3. CASE RollbackFails(c)
  BY <1>1, <1>3 DEF RollbackFails, Safe, Steps
<1>4. CASE DropRestored(c)
  BY <1>1, <1>4 DEF DropRestored, Safe, Steps
<1>5. ~RestartImages
  BY DEF RestartImages, Fails, PublishInv
<1>6. ASSUME NEW e \in Publisher,
             \/ \E d \in Figures : BeginPublish(e, d)
             \/ CreateStaging(e) \/ DropBackup(e) \/ CopyExisting(e) \/ Swap(e) \/ Reopen(e)
             \/ DropStaging(e) \/ DropCopy(e) \/ PublishFails(e) \/ Restore(e)
      PROVE  FALSE
  <2>1. CASE e = c
    <3>1. /\ publishing \in [Publisher -> Call] /\ Where(c) \in {"rollback", "restore", "drop restored"}
          /\ publishing'[c].at = "idle"
      BY <2>1 DEF Fails, InExcept, PublishInv
    <3>2. Where(c) = "restore" /\ Restore(c)
      BY <1>6, <2>1, <3>1 DEF BeginPublish, CreateStaging, DropBackup, CopyExisting, Swap, Reopen,
         DropStaging, DropCopy, PublishFails, Restore, Steps, InTry
    <3>3. publishing'[c].at = "drop restored"
      BY <3>1, <3>2 DEF Restore, Steps, Call
    <3> QED BY <3>1, <3>3
  <2>2. CASE e # c
    BY <1>6, <2>2 DEF BeginPublish, CreateStaging, DropBackup, CopyExisting, Swap, Reopen, DropStaging,
       DropCopy, PublishFails, Restore, Steps, Fails, InTry, InExcept, PublishInv, Call, Where
  <2> QED BY <2>1, <2>2
<1>7. ASSUME NEW e \in Publisher, e # c, Rollback(e) \/ RollbackFails(e) \/ DropRestored(e)
      PROVE  FALSE
  <2>1. Where(e) = "idle"
    BY <1>1, <1>7
  <2> QED BY <1>7, <2>1 DEF Rollback, RollbackFails, DropRestored, Steps
<1> QED BY <1>2, <1>3, <1>4, <1>5, <1>6, <1>7 DEF ImageNext

\* FailedPublishRollsBack for any threads, documents and restarts.
THEOREM FailedPublishesRollBack == ImageSpec => FailedPublishRollsBack
<1> DEFINE I == image \in Table /\ backup \in Table /\ staging \in Table /\ PublishInv
<1>1. ImageInit => I
  BY DEF ImageInit, Table, PublishInv, Call, Where
<1>2. I /\ [ImageNext]_imageVars => I'
  <2> SUFFICES ASSUME I, [ImageNext]_imageVars
               PROVE  I'
    OBVIOUS
  <2>1. image' \in Table /\ backup' \in Table /\ staging' \in Table
    BY DEF ImageNext, imageVars, BeginPublish, CreateStaging, DropBackup, CopyExisting, Swap, Reopen,
       DropStaging, DropCopy, PublishFails, Rollback, Restore, RollbackFails, DropRestored,
       RestartImages, Dropped, Broken, Table, PublishInv, Call
  <2>2. CASE UNCHANGED imageVars
    BY <2>1, <2>2 DEF imageVars, PublishInv, Safe, Where, Had, Call, Table
  <2>3. CASE RestartImages
    <3>1. \A c \in Publisher : publishing[c] \in Call
      BY DEF PublishInv
    <3>2. publishing' = [c \in Publisher |-> [publishing[c] EXCEPT !.at = "idle"]]
      BY <2>3 DEF RestartImages
    <3>3. \A c \in Publisher : Where(c)' = "idle" /\ publishing'[c] \in Call
      BY <3>1, <3>2 DEF Where, Call
    <3>4. publishing' \in [Publisher -> Call]
      BY <3>2, <3>3
    <3> QED BY <2>1, <2>3, <3>3, <3>4 DEF RestartImages, PublishInv
  <2> QED BY <2>1, <2>2, <2>3, PublishStarts, WithinPublish, WithinRollback DEF ImageNext
<1>3. I /\ [ImageNext]_imageVars => [\A c \in Publisher \ hindered : Fails(c) /\ Had(c) =>
        image' = before[c] \/ (RollbackFails(c) /\ backup = before[c])]_imageVars
  BY FailureRollsBack
<1> QED BY <1>1, <1>2, <1>3, PTL DEF ImageSpec, FailedPublishRollsBack

\* What the names of the tables hold are tables of figures, whatever the steps and
\* failures of any threads make of them.
THEOREM ImageTypeCorrect == ImageSpec => []ImageTypeOK
<1> USE ImageAssumption
<1>1. ImageInit => ImageTypeOK
  BY DEF ImageInit, ImageTypeOK, Table
<1>2. ImageTypeOK /\ [ImageNext]_imageVars => ImageTypeOK'
  <2> SUFFICES ASSUME ImageTypeOK, [ImageNext]_imageVars PROVE ImageTypeOK'
    OBVIOUS
  <2> DEFINE Calls == [at : {"idle"} \cup InTry \cup InExcept, of : Table, had : BOOLEAN]
  <2>1. CASE UNCHANGED imageVars
    BY <2>1 DEF imageVars, ImageTypeOK
  <2>2. CASE RestartImages
    <3>1. publishing' = [c \in Publisher |-> [publishing[c] EXCEPT !.at = "idle"]]
      BY <2>2 DEF RestartImages
    <3>2. \A c \in Publisher : [publishing[c] EXCEPT !.at = "idle"] \in Calls
      BY DEF ImageTypeOK
    <3>3. publishing' \in [Publisher -> Calls]
      BY <3>1, <3>2
    <3>4. imageRestarts' \in 0..MaxImageRestarts
      BY <2>2 DEF RestartImages, ImageTypeOK
    <3> QED BY <2>2, <3>3, <3>4 DEF RestartImages, ImageTypeOK
  <2>3. ASSUME NEW c \in Publisher, NEW d \in Figures, BeginPublish(c, d) PROVE ImageTypeOK'
    <3>1. publishing' \in [Publisher -> Calls]
      BY <2>3 DEF BeginPublish, ImageTypeOK, InTry, Table
    <3>2. publishes' \in 0..MaxPublishes /\ before' \in [Publisher -> Table]
      BY <2>3 DEF BeginPublish, ImageTypeOK
    <3>3. hindered' \subseteq Publisher /\ staging' \in Table
      BY <2>3 DEF BeginPublish, ImageTypeOK, Busy, Dropped, Table
    <3> QED BY <2>3, <3>1, <3>2, <3>3 DEF BeginPublish, ImageTypeOK
  <2>4. ASSUME NEW c \in Publisher, NEW from, NEW to \in {"idle"} \cup InTry \cup InExcept,
               Steps(c, from, to),
               image' \in Table, staging' \in Table, backup' \in Table, opened' \in BOOLEAN
        PROVE  ImageTypeOK'
    <3>1. publishing' \in [Publisher -> Calls]
      BY <2>4 DEF Steps, ImageTypeOK
    <3> QED BY <2>4, <3>1 DEF Steps, ImageTypeOK
  <2>5. ASSUME NEW c \in Publisher,
               \/ CreateStaging(c) \/ DropBackup(c) \/ CopyExisting(c) \/ Swap(c) \/ Reopen(c)
               \/ DropStaging(c) \/ DropCopy(c) \/ PublishFails(c)
               \/ Rollback(c) \/ Restore(c) \/ RollbackFails(c) \/ DropRestored(c)
        PROVE  ImageTypeOK'
    <3>1. image' \in Table /\ staging' \in Table /\ backup' \in Table /\ opened' \in BOOLEAN
      BY <2>5 DEF CreateStaging, DropBackup, CopyExisting, Swap, Reopen, DropStaging, DropCopy,
         PublishFails, Rollback, Restore, RollbackFails, DropRestored, Dropped, Broken, ImageTypeOK,
         Table
    <3>2. \E from : \E to \in {"idle"} \cup InTry \cup InExcept : Steps(c, from, to)
      BY <2>5 DEF CreateStaging, DropBackup, CopyExisting, Swap, Reopen, DropStaging, DropCopy,
         PublishFails, Rollback, Restore, RollbackFails, DropRestored, InTry, InExcept
    <3> QED BY <2>4, <3>1, <3>2
  <2> QED BY <2>1, <2>2, <2>3, <2>5 DEF ImageNext
<1> QED BY <1>1, <1>2, PTL DEF ImageSpec

--------------------------------------------------------------------------------
(* The batch of a research run.                                                *)

IsSequence(s) == s \in Seq({s[i] : i \in DOMAIN s})
BatchFields == {"stage", "bare", "plan", "query", "evidence", "claims", "assessed", "cards",
                "results", "pending", "disposition"}

\* a Verifier accepted this text, if those are the claims that it accepted
Accepts(accepted, text) == \E v \in accepted : v.text = text
Upheld(accepted, c, verdicts) ==
  \A k \in DOMAIN c : verdicts[k].supported => Accepts(accepted, c[k])
\* what an execution delivered, and what it has accepted
SoundResults(accepted, results) ==
  /\ IsSequence(results)
  /\ \A i \in DOMAIN results : \A k \in DOMAIN results[i].claims :
       Accepts(accepted, results[i].claims[k])
SoundData(accepted, key, data) ==
  key[1] = "verify" => Upheld(accepted, data.claims, data.assessed)
SoundPending(accepted, pending) ==
  \/ pending = <<>>
  \/ /\ pending # <<>>
     /\ SoundData(accepted, pending[1].key, pending[1].data)
SoundBatch(accepted, b) ==
  /\ DOMAIN b = BatchFields
  /\ SoundResults(accepted, b.results)
  /\ b.stage \in {"synthesize", "write"} => Upheld(accepted, b.claims, b.assessed)
SoundRows(accepted) ==
  \A key \in DOMAIN stepRows :
    /\ IsSequence(stepRows[key])
    /\ \A i \in DOMAIN stepRows[key] : SoundData(accepted, key, stepRows[key][i])
\* Every row of the Verifier, every row to be recorded, every result and what an
\* execution holds once it has left the Verifier has only claims that it accepted.
AcceptedInv ==
  /\ DOMAIN batch = Try
  /\ SoundRows(verified)
  /\ \A a \in Try : SoundBatch(verified, batch[a]) /\ SoundPending(verified, batch[a].pending)

\* a sequence of anything stays one when something is appended
LEMMA SequencesGrow ==
  ASSUME NEW s, IsSequence(s), NEW e
  PROVE  /\ IsSequence(Append(s, e))
         /\ DOMAIN Append(s, e) = DOMAIN s \cup {Len(s) + 1}
         /\ \A i \in DOMAIN s : Append(s, e)[i] = s[i]
         /\ Append(s, e)[Len(s) + 1] = e
<1> DEFINE S == {s[i] : i \in DOMAIN s}
           t == Append(s, e)
<1>1. s \in Seq(S \cup {e})
  <2>1. s \in Seq(S)
    BY DEF IsSequence
  <2> QED BY <2>1
<1>2. /\ t \in Seq(S \cup {e})
      /\ Len(t) = Len(s) + 1
      /\ \A i \in 1..Len(s) : t[i] = s[i]
      /\ t[Len(s) + 1] = e
  BY <1>1
<1>3. DOMAIN s = 1..Len(s) /\ DOMAIN t = 1..(Len(s) + 1) /\ Len(s) \in Nat
  BY <1>1, <1>2
<1>4. t \in Seq({t[i] : i \in DOMAIN t})
  BY <1>2
<1> QED BY <1>2, <1>3, <1>4 DEF IsSequence

\* or its last element is dropped
LEMMA SequencesShrink ==
  ASSUME NEW s, IsSequence(s)
  PROVE  /\ IsSequence(Front(s))
         /\ DOMAIN Front(s) \subseteq DOMAIN s
         /\ \A i \in DOMAIN Front(s) : Front(s)[i] = s[i]
<1> DEFINE S == {s[i] : i \in DOMAIN s}
           t == Front(s)
<1>1. s \in Seq(S)
  BY DEF IsSequence
<1>2. Len(s) \in Nat /\ DOMAIN s = 1..Len(s)
  BY <1>1
<1>3. t = SubSeq(s, 1, Len(s) - 1)
  BY DEF Front
<1>4. /\ t \in Seq(S)
      /\ DOMAIN t = 1..(IF Len(s) = 0 THEN 0 ELSE Len(s) - 1)
      /\ \A i \in DOMAIN t : t[i] = s[i]
  <2>1. CASE Len(s) = 0
    <3>1. t = <<>>
      BY <2>1, <1>1, <1>3
    <3> QED BY <2>1, <3>1
  <2>2. CASE Len(s) # 0
    BY <2>2, <1>1, <1>2, <1>3
  <2> QED BY <2>1, <2>2
<1>5. t \in Seq({t[i] : i \in DOMAIN t})
  BY <1>4
<1> QED BY <1>2, <1>4, <1>5 DEF IsSequence
--------------------------------------------------------------------------------

\* what is sound stays so when the Verifier accepts more
LEMMA AcceptsGrows ==
  ASSUME NEW few, NEW many, few \subseteq many
  PROVE  /\ \A c, v : Upheld(few, c, v) => Upheld(many, c, v)
         /\ \A r : SoundResults(few, r) => SoundResults(many, r)
         /\ \A b : SoundBatch(few, b) => SoundBatch(many, b)
         /\ \A key, d : SoundData(few, key, d) => SoundData(many, key, d)
         /\ \A p : SoundPending(few, p) => SoundPending(many, p)
         /\ SoundRows(few) => SoundRows(many)
<1>1. \A c, v : Upheld(few, c, v) => Upheld(many, c, v)
  BY DEF Upheld, Accepts
<1>2. \A r : SoundResults(few, r) => SoundResults(many, r)
  BY DEF SoundResults, Accepts
<1>3. \A b : SoundBatch(few, b) => SoundBatch(many, b)
  BY <1>1, <1>2 DEF SoundBatch
<1>4. \A key, d : SoundData(few, key, d) => SoundData(many, key, d)
  BY <1>1 DEF SoundData
<1>5. \A p : SoundPending(few, p) => SoundPending(many, p)
  BY <1>4 DEF SoundPending
<1>6. SoundRows(few) => SoundRows(many)
  BY <1>4 DEF SoundRows
<1> QED BY <1>1, <1>2, <1>3, <1>4, <1>5, <1>6

\* one more result of accepted claims
LEMMA ResultsGrow ==
  ASSUME NEW accepted, NEW results, SoundResults(accepted, results),
         NEW r, \A k \in DOMAIN r.claims : Accepts(accepted, r.claims[k])
  PROVE  SoundResults(accepted, Append(results, r))
BY SequencesGrow DEF SoundResults

\* the batch goes on with it
LEMMA AnsweredIsSound ==
  ASSUME NEW accepted, NEW b, SoundBatch(accepted, b),
         NEW r, \A k \in DOMAIN r.claims : Accepts(accepted, r.claims[k])
  PROVE  SoundBatch(accepted, Answered(b, r))
<1> DEFINE all == Append(b.results, r)
           c == Answered(b, r)
<1>1. SoundResults(accepted, all)
  BY ResultsGrow DEF SoundBatch
<1>2. DOMAIN c = BatchFields /\ c.results = all /\ c.stage \in {"assess", "plan"}
  BY DEF SoundBatch, Answered, BatchFields
<1> QED BY <1>1, <1>2 DEF SoundBatch

\* or with a result that has no claims
LEMMA NoAnswerIsSound ==
  ASSUME NEW accepted, NEW b, SoundBatch(accepted, b)
  PROVE  SoundBatch(accepted, NoAnswer(b))
<1> DEFINE r == [claims |-> <<>>, cites |-> <<>>, text |-> <<>>]
<1>1. \A k \in DOMAIN r.claims : Accepts(accepted, r.claims[k])
  OBVIOUS
<1> QED BY <1>1, AnsweredIsSound DEF NoAnswer

\* What the phases make of the data they take.
LEMMA TakesAreSound ==
  ASSUME NEW accepted, NEW b, SoundBatch(accepted, b), NEW data
  PROVE  /\ SoundBatch(accepted, TakePlan(b, data))
         /\ SoundBatch(accepted, TakeQueries(b, data))
         /\ SoundBatch(accepted, TakeEvidence(b, data))
         /\ SoundBatch(accepted, TakeClaims(b, data))
         /\ b.stage = "synthesize" => SoundBatch(accepted, TakeCards(b, data))
         /\ b.stage = "write" => SoundBatch(accepted, TakeDocument(b, data))
         /\ Upheld(accepted, data.claims, data.assessed) =>
              SoundBatch(accepted, TakeVerified(b, data))
<1>1. /\ SoundBatch(accepted, TakePlan(b, data))
      /\ SoundBatch(accepted, TakeQueries(b, data))
      /\ SoundBatch(accepted, TakeEvidence(b, data))
  BY DEF SoundBatch, BatchFields, TakePlan, TakeQueries, TakeEvidence
<1>2. SoundBatch(accepted, TakeClaims(b, data))
  <2>1. SoundBatch(accepted, [b EXCEPT !.claims = data, !.stage = "verify"])
    BY DEF SoundBatch, BatchFields
  <2> QED BY <2>1, NoAnswerIsSound DEF TakeClaims
<1>3. ASSUME b.stage = "synthesize" PROVE SoundBatch(accepted, TakeCards(b, data))
  BY <1>3 DEF SoundBatch, BatchFields, TakeCards
<1>4. ASSUME b.stage = "write" PROVE SoundBatch(accepted, TakeDocument(b, data))
  <2>1. \A k \in DOMAIN AcceptedTexts(b) : Accepts(accepted, AcceptedTexts(b)[k])
    BY <1>4 DEF SoundBatch, Upheld, AcceptedTexts, Supported
  <2> DEFINE r == [claims |-> AcceptedTexts(b), cites |-> AcceptedCites(b),
                   text |-> IF data = <<>> THEN AcceptedTexts(b) ELSE data]
  <2>2. \A k \in DOMAIN r.claims : Accepts(accepted, r.claims[k])
    BY <2>1
  <2>3. SoundBatch(accepted, Answered(b, r))
    BY <2>2, AnsweredIsSound
  <2> QED BY <2>3 DEF TakeDocument
<1>5. ASSUME Upheld(accepted, data.claims, data.assessed)
      PROVE  SoundBatch(accepted, TakeVerified(b, data))
  <2> DEFINE c == [b EXCEPT !.claims = data.claims, !.assessed = data.assessed,
                            !.stage = "synthesize"]
  <2>1. SoundBatch(accepted, c)
    BY <1>5 DEF SoundBatch, BatchFields
  <2> QED BY <2>1, NoAnswerIsSound DEF TakeVerified
<1> QED BY <1>1, <1>2, <1>3, <1>4, <1>5
--------------------------------------------------------------------------------

\* Initially nothing is recorded or delivered.
LEMMA ResearchInitially == ResearchInit => AcceptedInv
<1> SUFFICES ASSUME ResearchInit PROVE AcceptedInv
  OBVIOUS
<1>1. DOMAIN batch = Try /\ \A a \in Try : batch[a] = NoBatch
  BY DEF ResearchInit
<1>2. SoundRows(verified)
  BY DEF ResearchInit, SoundRows
<1>3. SoundBatch(verified, NoBatch)
  <2>1. IsSequence(<<>>)
    BY DEF IsSequence
  <2> QED BY <2>1 DEF SoundBatch, SoundResults, NoBatch, BatchFields
<1>4. SoundPending(verified, NoBatch.pending)
  BY DEF SoundPending, NoBatch
<1> QED BY <1>1, <1>2, <1>3, <1>4 DEF AcceptedInv

\* A step of one attempt keeps the invariant if what it makes of its own is sound.
LEMMA OneAttemptMoves ==
  ASSUME AcceptedInv, NEW a \in Try, NEW b, batch' = [batch EXCEPT ![a] = b],
         verified \subseteq verified', SoundBatch(verified', b),
         SoundPending(verified', b.pending),
         SoundRows(verified)' \/ UNCHANGED stepRows
  PROVE  AcceptedInv'
<1>1. SoundRows(verified)'
  BY AcceptsGrows DEF AcceptedInv, SoundRows
<1>2. DOMAIN batch' = Try
  BY DEF AcceptedInv
<1>3. ASSUME NEW e \in Try
      PROVE  SoundBatch(verified', batch'[e]) /\ SoundPending(verified', batch'[e].pending)
  <2>1. CASE e = a
    BY <2>1 DEF AcceptedInv
  <2>2. CASE e # a
    BY <2>2, AcceptsGrows DEF AcceptedInv
  <2> QED BY <2>1, <2>2
<1> QED BY <1>1, <1>2, <1>3 DEF AcceptedInv

\* What a phase takes from the newest row of its digest
LEMMA RowsAreSound ==
  ASSUME AcceptedInv, NEW b, NEW key, NEW data \in Reusable(b, key)
  PROVE  SoundData(verified, key, data)
<1>1. /\ Rows(key) # <<>> /\ data = Last(Rows(key))
  BY DEF Reusable
<1>2. key \in DOMAIN stepRows /\ Rows(key) = stepRows[key]
  BY <1>1 DEF Rows
<1>3. IsSequence(Rows(key))
  BY <1>2 DEF AcceptedInv, SoundRows
<1>4. Len(Rows(key)) \in DOMAIN Rows(key)
  BY <1>1, <1>3 DEF IsSequence
<1> QED BY <1>1, <1>2, <1>4 DEF Last, AcceptedInv, SoundRows

\* A row that is recorded is sound if the data of the pending row are.
LEMMA RecordKeeps ==
  ASSUME AcceptedInv, NEW a \in Try, RecordRow(a)
  PROVE  AcceptedInv'
<1> DEFINE row == batch[a].pending[1]
<1>1. SoundData(verified, row.key, row.data)
  BY DEF RecordRow, AcceptedInv, SoundPending
<1>2. IsSequence(Rows(row.key))
  <2>1. IsSequence(<<>>)
    BY DEF IsSequence
  <2> QED BY <2>1 DEF Rows, AcceptedInv, SoundRows
<1>3. \A i \in DOMAIN Rows(row.key) : SoundData(verified, row.key, Rows(row.key)[i])
  BY DEF Rows, AcceptedInv, SoundRows
<1>4. SoundRows(verified)'
  <2> DEFINE more == Append(Rows(row.key), row.data)
  <2>1. IsSequence(more) /\ \A i \in DOMAIN more : SoundData(verified, row.key, more[i])
    BY <1>1, <1>2, <1>3, SequencesGrow
  <2>2. /\ DOMAIN stepRows' = DOMAIN stepRows \cup {row.key}
        /\ \A key \in DOMAIN stepRows' :
             stepRows'[key] = IF key = row.key THEN more ELSE stepRows[key]
        /\ verified' = verified
    BY DEF RecordRow
  <2> HIDE DEF more
  <2>3. ASSUME NEW key \in DOMAIN stepRows'
        PROVE  /\ IsSequence(stepRows'[key])
               /\ \A i \in DOMAIN stepRows'[key] : SoundData(verified', key, stepRows'[key][i])
    <3>1. CASE key = row.key
      BY <2>1, <2>2, <3>1
    <3>2. CASE key # row.key
      BY <2>2, <3>2 DEF AcceptedInv, SoundRows
    <3> QED BY <3>1, <3>2
  <2> QED BY <2>3 DEF SoundRows
<1>5. SoundBatch(verified, [batch[a] EXCEPT !.pending = <<>>])
  BY DEF AcceptedInv, SoundBatch, BatchFields
<1>6. /\ batch' = [batch EXCEPT ![a] = [batch[a] EXCEPT !.pending = <<>>]]
      /\ verified' = verified
  BY DEF RecordRow
<1>7. SoundPending(verified, [batch[a] EXCEPT !.pending = <<>>].pending)
  BY DEF AcceptedInv, SoundBatch, BatchFields, SoundPending
<1> QED BY <1>4, <1>5, <1>6, <1>7, OneAttemptMoves

\* A phase that takes or computes data keeps the invariant if what it makes of
\* sound data is sound.
LEMMA ComputesKeeps ==
  ASSUME AcceptedInv, NEW a \in Try, NEW c, NEW key, NEW data,
         verified \subseteq verified', UNCHANGED stepRows,
         SoundBatch(verified', c), SoundData(verified', key, data),
         batch' = [batch EXCEPT ![a] = [c EXCEPT
           !.pending = IF batch[a].bare THEN <<>> ELSE <<[key |-> key, data |-> data]>>]]
  PROVE  AcceptedInv'
<1> DEFINE p == IF batch[a].bare THEN <<>> ELSE <<[key |-> key, data |-> data]>>
           b == [c EXCEPT !.pending = p]
<1>1. SoundPending(verified', p)
  BY DEF SoundPending
<1>2. b.pending = p /\ SoundBatch(verified', b)
  <2> HIDE DEF p
  <2> QED BY DEF SoundBatch, BatchFields
<1>3. SoundPending(verified', b.pending)
  BY <1>1, <1>2
<1>4. batch' = [batch EXCEPT ![a] = b]
  OBVIOUS
<1> HIDE DEF b
<1> QED BY <1>2, <1>3, <1>4, OneAttemptMoves

LEMMA TakesKeeps ==
  ASSUME AcceptedInv, NEW a \in Try, batch[a].pending = <<>>, NEW c,
         c.pending = <<>>, SoundBatch(verified, c),
         batch' = [batch EXCEPT ![a] = c], UNCHANGED <<stepRows, verified>>
  PROVE  AcceptedInv'
<1>1. SoundPending(verified', c.pending)
  BY DEF SoundPending
<1> QED BY <1>1, OneAttemptMoves

\* none of the operators that take data touches the row that is to be recorded
LEMMA TakesLeavePending ==
  ASSUME NEW b, DOMAIN b = BatchFields, NEW data
  PROVE  /\ TakePlan(b, data).pending = b.pending
         /\ TakeQueries(b, data).pending = b.pending
         /\ TakeEvidence(b, data).pending = b.pending
         /\ TakeClaims(b, data).pending = b.pending
         /\ TakeCards(b, data).pending = b.pending
         /\ TakeDocument(b, data).pending = b.pending
         /\ TakeVerified(b, data).pending = b.pending
<1>1. \A c, r : DOMAIN c = BatchFields => Answered(c, r).pending = c.pending
  BY DEF Answered, BatchFields
<1>2. TakeClaims(b, data).pending = b.pending
  BY <1>1 DEF TakeClaims, NoAnswer, BatchFields
<1>3. TakeDocument(b, data).pending = b.pending
  BY <1>1 DEF TakeDocument
<1>4. TakeVerified(b, data).pending = b.pending
  <2> DEFINE c == [b EXCEPT !.claims = data.claims, !.assessed = data.assessed,
                            !.stage = "synthesize"]
  <2>1. DOMAIN c = BatchFields /\ c.pending = b.pending
    BY DEF BatchFields
  <2> QED BY <1>1, <2>1 DEF TakeVerified, NoAnswer
<1>5. /\ TakePlan(b, data).pending = b.pending
      /\ TakeQueries(b, data).pending = b.pending
      /\ TakeEvidence(b, data).pending = b.pending
      /\ TakeCards(b, data).pending = b.pending
  BY DEF TakePlan, TakeQueries, TakeEvidence, TakeCards, BatchFields
<1> QED BY <1>2, <1>3, <1>4, <1>5
\* The phases before and after the Verifier
LEMMA PhasesKeep ==
  ASSUME AcceptedInv, NEW a \in Try,
         Manage(a) \/ PlanQueries(a) \/ Retrieve(a) \/ Draft(a) \/ Synthesize(a) \/ Write(a)
  PROVE  AcceptedInv'
<1> DEFINE b == batch[a]
           Moves(c, key, data) ==
             /\ UNCHANGED <<stepRows, verified>>
             /\ \/ batch' = [batch EXCEPT ![a] = c]
                \/ batch' = [batch EXCEPT ![a] = [c EXCEPT
                     !.pending = IF b.bare THEN <<>> ELSE <<[key |-> key, data |-> data]>>]]
<1>1. SoundBatch(verified, b) /\ DOMAIN b = BatchFields
  BY DEF AcceptedInv, SoundBatch
<1>2. ASSUME NEW c, NEW key, NEW data, SoundBatch(verified, c), key[1] # "verify",
             c.pending = b.pending, b.pending = <<>>, Moves(c, key, data)
      PROVE  AcceptedInv'
  <2>1. SoundData(verified, key, data)
    BY <1>2 DEF SoundData
  <2>2. CASE batch' = [batch EXCEPT ![a] = c]
    BY <1>2, <2>2, TakesKeeps
  <2>3. CASE batch' = [batch EXCEPT ![a] = [c EXCEPT
               !.pending = IF b.bare THEN <<>> ELSE <<[key |-> key, data |-> data]>>]]
    <3>1. /\ verified \subseteq verified' /\ SoundBatch(verified', c)
          /\ SoundData(verified', key, data) /\ UNCHANGED stepRows
      BY <1>2, <2>1
    <3> QED BY <2>3, <3>1, ComputesKeeps
  <2> QED BY <1>2, <2>2, <2>3
<1>3. CASE Manage(a)
  <2> DEFINE key == <<"manager_plan">>
  <2>1. b.pending = <<>> /\ key[1] # "verify"
    BY <1>3 DEF Manage, Phase, InStage
  <2>2. PICK data : Moves(TakePlan(b, data), key, data)
    BY <1>3 DEF Manage, Phase, Recovers, Computes
  <2>3. SoundBatch(verified, TakePlan(b, data)) /\ TakePlan(b, data).pending = b.pending
    BY <1>1, <2>1, TakesAreSound, TakesLeavePending
  <2> HIDE DEF key, Moves
  <2> QED BY <1>2, <2>1, <2>2, <2>3
<1>4. CASE PlanQueries(a)
  <2> DEFINE key == <<"plan", Asked(b)>>
  <2>1. b.pending = <<>> /\ key[1] # "verify"
    BY <1>4 DEF PlanQueries, Phase, InStage
  <2>2. PICK data : Moves(TakeQueries(b, data), key, data)
    BY <1>4 DEF PlanQueries, Phase, Recovers, Computes
  <2>3. SoundBatch(verified, TakeQueries(b, data)) /\ TakeQueries(b, data).pending = b.pending
    BY <1>1, <2>1, TakesAreSound, TakesLeavePending
  <2> HIDE DEF key, Moves
  <2> QED BY <1>2, <2>1, <2>2, <2>3
<1>5. CASE Retrieve(a)
  <2> DEFINE key == <<"retrieve", Asked(b), b.query>>
  <2>1. b.pending = <<>> /\ key[1] # "verify"
    BY <1>5 DEF Retrieve, Phase, InStage
  <2>2. PICK data : Moves(TakeEvidence(b, data), key, data)
    BY <1>5 DEF Retrieve, Phase, Recovers, Computes
  <2>3. SoundBatch(verified, TakeEvidence(b, data)) /\ TakeEvidence(b, data).pending = b.pending
    BY <1>1, <2>1, TakesAreSound, TakesLeavePending
  <2> HIDE DEF key, Moves
  <2> QED BY <1>2, <2>1, <2>2, <2>3
<1>6. CASE Draft(a)
  <2> DEFINE key == <<"claim", Asked(b), Len(b.evidence)>>
  <2>1. b.pending = <<>> /\ key[1] # "verify"
    BY <1>6 DEF Draft, Phase, InStage
  <2>2. PICK data : Moves(TakeClaims(b, data), key, data)
    BY <1>6 DEF Draft, Phase, Recovers, Computes
  <2>3. SoundBatch(verified, TakeClaims(b, data)) /\ TakeClaims(b, data).pending = b.pending
    BY <1>1, <2>1, TakesAreSound, TakesLeavePending
  <2> HIDE DEF key, Moves
  <2> QED BY <1>2, <2>1, <2>2, <2>3
<1>7. CASE Synthesize(a)
  <2> DEFINE key == <<"synthesize", Supported(b), Citations(b)>>
  <2>1. b.pending = <<>> /\ key[1] # "verify" /\ b.stage = "synthesize"
    BY <1>7 DEF Synthesize, Phase, InStage
  <2>2. PICK data : Moves(TakeCards(b, data), key, data)
    BY <1>7 DEF Synthesize, Phase, Recovers, Computes
  <2>3. SoundBatch(verified, TakeCards(b, data)) /\ TakeCards(b, data).pending = b.pending
    BY <1>1, <2>1, TakesAreSound, TakesLeavePending
  <2> HIDE DEF key, Moves
  <2> QED BY <1>2, <2>1, <2>2, <2>3
<1>8. CASE Write(a)
  <2> DEFINE key == <<"write", Asked(b), Supported(b), b.cards>>
  <2>1. b.pending = <<>> /\ key[1] # "verify" /\ b.stage = "write"
    BY <1>8 DEF Write, Phase, InStage
  <2>2. PICK data : Moves(TakeDocument(b, data), key, data)
    BY <1>8 DEF Write, Phase, Recovers, Computes
  <2>3. SoundBatch(verified, TakeDocument(b, data)) /\ TakeDocument(b, data).pending = b.pending
    BY <1>1, <2>1, TakesAreSound, TakesLeavePending
  <2> HIDE DEF key, Moves
  <2> QED BY <1>2, <2>1, <2>2, <2>3
<1> QED BY <1>3, <1>4, <1>5, <1>6, <1>7, <1>8

\* The Verifier accepts the claims itself, or they are those of a sound row.
LEMMA VerifyKeeps ==
  ASSUME AcceptedInv, NEW a \in Try, Verify(a)
  PROVE  AcceptedInv'
<1> DEFINE b == batch[a]
           key == <<"verify", Len(b.claims), Len(b.evidence)>>
<1>1. /\ b.pending = <<>> /\ key[1] = "verify"
      /\ SoundBatch(verified, b) /\ DOMAIN b = BatchFields
  BY DEF Verify, InStage, AcceptedInv, SoundBatch
<1>2. CASE Recovers(a, key, TakeVerified)
  <2>1. PICK data \in Reusable(b, key) : batch' = [batch EXCEPT ![a] = TakeVerified(b, data)]
    BY <1>2 DEF Recovers
  <2>2. UNCHANGED <<stepRows, verified>>
    BY <1>2 DEF Recovers
  <2>3. SoundData(verified, key, data)
    BY RowsAreSound
  <2>4. Upheld(verified, data.claims, data.assessed)
    BY <1>1, <2>3 DEF SoundData
  <2>5. /\ SoundBatch(verified, TakeVerified(b, data))
        /\ TakeVerified(b, data).pending = <<>>
    BY <1>1, <2>4, TakesAreSound, TakesLeavePending
  <2> QED BY <1>1, <2>1, <2>2, <2>5, TakesKeeps
<1>3. ASSUME NEW c \in Draftable(b), NEW v \in Verdicts(b, c),
             Computes(a, key, [claims |-> c, assessed |-> v], TakeVerified),
             verified' = verified \cup Accepted([b EXCEPT !.claims = c, !.assessed = v])
      PROVE  AcceptedInv'
  <2> DEFINE data == [claims |-> c, assessed |-> v]
             d == [b EXCEPT !.claims = c, !.assessed = v]
  <2>1. d.claims = c /\ d.assessed = v
    BY <1>1 DEF BatchFields
  <2>2. Upheld(verified', c, v)
    <3> SUFFICES ASSUME NEW k \in DOMAIN c, v[k].supported
                 PROVE  Accepts(verified', c[k])
      BY DEF Upheld
    <3>1. k \in Supported(d)
      BY <2>1 DEF Supported
    <3>2. [text |-> c[k], passages |-> Quoted(d, k)] \in Accepted(d)
      BY <2>1, <3>1 DEF Accepted
    <3> HIDE DEF d
    <3>3. [text |-> c[k], passages |-> Quoted(d, k)] \in verified'
      BY <1>3, <3>2 DEF d
    <3>4. [text |-> c[k], passages |-> Quoted(d, k)].text = c[k]
      OBVIOUS
    <3> QED BY <3>3, <3>4 DEF Accepts
  <2>3. verified \subseteq verified' /\ UNCHANGED stepRows
    BY <1>3 DEF Computes
  <2>4. SoundBatch(verified', b)
    BY <1>1, <2>3, AcceptsGrows
  <2>5. data.claims = c /\ data.assessed = v
    OBVIOUS
  <2>6. SoundBatch(verified', TakeVerified(b, data)) /\ SoundData(verified', key, data)
    BY <2>2, <2>4, <2>5, TakesAreSound DEF SoundData
  <2>7. batch' = [batch EXCEPT ![a] = [TakeVerified(b, data) EXCEPT
          !.pending = IF b.bare THEN <<>> ELSE <<[key |-> key, data |-> data]>>]]
    BY <1>3 DEF Computes
  <2> HIDE DEF data, key
  <2> QED BY <2>3, <2>6, <2>7, ComputesKeeps
<1> QED BY <1>2, <1>3 DEF Verify

\* Every step keeps the invariant: only phases and RecordRow touch claims and rows.
LEMMA ResearchStep == AcceptedInv /\ [ResearchNext]_researchVars => AcceptedInv'
<1> SUFFICES ASSUME AcceptedInv, [ResearchNext]_researchVars PROVE AcceptedInv'
  OBVIOUS
<1>1. CASE UNCHANGED researchVars
  BY <1>1 DEF researchVars, AcceptedInv, SoundRows
<1>2. ASSUME NEW a \in Try, Start(a) \/ FallBack(a) \/ Crash(a) PROVE AcceptedInv'
  <2>1. /\ \/ batch' = [batch EXCEPT ![a] = Begun(FALSE)]
           \/ batch' = [batch EXCEPT ![a] = Begun(TRUE)]
           \/ batch' = [batch EXCEPT ![a] = Ended]
        /\ UNCHANGED <<stepRows, verified>>
    BY <1>2 DEF Start, FallBack, Crash
  <2>2. IsSequence(<<>>)
    BY DEF IsSequence
  <2>3. \A bare : SoundBatch(verified, Begun(bare)) /\ Begun(bare).pending = <<>>
    BY <2>2 DEF Begun, NoBatch, SoundBatch, SoundResults, BatchFields
  <2>4. SoundBatch(verified, Ended) /\ Ended.pending = <<>>
    BY <2>2 DEF Ended, NoBatch, SoundBatch, SoundResults, BatchFields
  <2>5. SoundPending(verified, <<>>)
    BY DEF SoundPending
  <2>6. ASSUME NEW b, SoundBatch(verified, b), b.pending = <<>>,
               batch' = [batch EXCEPT ![a] = b]
        PROVE  AcceptedInv'
    <3>1. /\ verified \subseteq verified' /\ UNCHANGED stepRows
          /\ SoundBatch(verified', b) /\ SoundPending(verified', b.pending)
      BY <2>1, <2>5, <2>6
    <3> QED BY <2>6, <3>1, OneAttemptMoves
  <2>7. CASE batch' = [batch EXCEPT ![a] = Begun(FALSE)]
    BY <2>3, <2>6, <2>7
  <2>8. CASE batch' = [batch EXCEPT ![a] = Begun(TRUE)]
    BY <2>3, <2>6, <2>8
  <2>9. CASE batch' = [batch EXCEPT ![a] = Ended]
    BY <2>4, <2>6, <2>9
  <2> QED BY <2>1, <2>7, <2>8, <2>9
<1>3. ASSUME NEW a \in Try, Fail(a) PROVE AcceptedInv'
  <2>1. SoundRows(verified)'
    <3>1. ASSUME NEW key \in DOMAIN stepRows, NEW rows, IsSequence(rows),
                 DOMAIN rows \subseteq DOMAIN stepRows[key],
                 \A i \in DOMAIN rows : rows[i] = stepRows[key][i]
          PROVE  \A i \in DOMAIN rows : SoundData(verified, key, rows[i])
      BY <3>1 DEF AcceptedInv, SoundRows
    <3>2. /\ DOMAIN stepRows' = DOMAIN stepRows /\ verified' = verified
          /\ \A key \in DOMAIN stepRows :
               stepRows'[key] = stepRows[key] \/ stepRows'[key] = Front(stepRows[key])
      BY <1>3 DEF Fail
    <3>3. \A key \in DOMAIN stepRows : IsSequence(stepRows[key])
      BY DEF AcceptedInv, SoundRows
    <3>4. ASSUME NEW key \in DOMAIN stepRows
          PROVE  /\ IsSequence(stepRows'[key])
                 /\ \A i \in DOMAIN stepRows'[key] : SoundData(verified, key, stepRows'[key][i])
      BY <3>1, <3>2, <3>3, SequencesShrink DEF AcceptedInv, SoundRows
    <3> QED BY <3>2, <3>4 DEF SoundRows
  <2>2. batch' = [batch EXCEPT ![a] = Ended] /\ verified' = verified
    BY <1>3 DEF Fail
  <2>3. IsSequence(<<>>)
    BY DEF IsSequence
  <2>4. SoundBatch(verified, Ended) /\ SoundPending(verified, Ended.pending)
    BY <2>3 DEF Ended, NoBatch, SoundBatch, SoundResults, BatchFields, SoundPending
  <2> QED BY <2>1, <2>2, <2>4, OneAttemptMoves
<1>4. ASSUME NEW a \in Try, Return(a) PROVE AcceptedInv'
  <2> DEFINE b == batch[a]
  <2>1. PICK d : batch' = [batch EXCEPT ![a] = [b EXCEPT
                   !.stage = "done", !.disposition = d,
                   !.pending = <<[key |-> <<"batch">>, data |-> d]>>]]
    BY <1>4 DEF Return
  <2> DEFINE c == [b EXCEPT !.stage = "done", !.disposition = d,
                            !.pending = <<[key |-> <<"batch">>, data |-> d]>>]
  <2>2. /\ DOMAIN c = BatchFields /\ c.results = b.results /\ c.stage = "done"
        /\ c.pending = <<[key |-> <<"batch">>, data |-> d]>>
    BY DEF AcceptedInv, SoundBatch, BatchFields
  <2>3. SoundBatch(verified, c) /\ SoundPending(verified, c.pending)
    BY <2>2 DEF AcceptedInv, SoundBatch, SoundPending, SoundData
  <2>4. UNCHANGED <<stepRows, verified>>
    BY <1>4 DEF Return
  <2> HIDE DEF c
  <2>5. batch' = [batch EXCEPT ![a] = c]
    BY <2>1 DEF c
  <2> QED BY <2>3, <2>4, <2>5, OneAttemptMoves
<1> QED
  BY <1>1, <1>2, <1>3, <1>4, RecordKeeps, PhasesKeep, VerifyKeeps DEF ResearchNext

\* Whatever rows an execution takes over, of another question or of an attempt that
\* is still at work, whatever is marked unknown, falls back, fails or crashes, every
\* claim that a durable research delivers was accepted by its Verifier.
THEOREM AcceptedClaimsDelivered == ResearchSpec => []OnlyAcceptedClaimsDelivered
<1>1. AcceptedInv => OnlyAcceptedClaimsDelivered
  BY DEF AcceptedInv, SoundBatch, SoundResults, Accepts, OnlyAcceptedClaimsDelivered, Results
<1> QED BY <1>1, ResearchInitially, ResearchStep, PTL DEF ResearchSpec

--------------------------------------------------------------------------------
(* The types of a batch.                                                       *)

Questions == SeqOf(Question, MaxQuestions)
Claims == SeqOf(Finding, MaxClaims)
ByClaim(S) == UNION {[K -> S] : K \in SUBSET (1..MaxClaims)}
\* what a Verifier may say of claims c that rest on n pieces of evidence
Verdict(n) == [cites : (SUBSET (1..n)) \ {{}}, supported : BOOLEAN]
TypedVerdicts(c, v, n) == c \in Claims /\ v \in [DOMAIN c -> Verdict(n)]

\* The data of a row have the type of its phase; the verdicts of a row cite what
\* there is in as much evidence as the digest says.
TypedData(key, data) ==
  /\ key[1] = "manager_plan" => data \in Questions
  /\ key[1] = "plan" => data \in 1..MaxQueries
  /\ key[1] = "retrieve" => data \in Evidence
  /\ key[1] = "claim" => data \in Claims
  /\ key[1] = "verify" => TypedVerdicts(data.claims, data.assessed, key[3])
  /\ key[1] = "write" => data \in ByClaim(Finding)
TypedRows ==
  \A key \in DOMAIN stepRows :
    /\ IsSequence(stepRows[key])
    /\ \A i \in DOMAIN stepRows[key] : TypedData(key, stepRows[key][i])
TypedPending(p) == p # <<>> => TypedData(p[1].key, p[1].data)
TypedBatch(b) ==
  /\ DOMAIN b = BatchFields
  /\ b.stage \in Stage /\ b.bare \in BOOLEAN
  /\ b.plan \in Questions /\ b.query \in 1..MaxQueries
  /\ b.evidence \in Evidence /\ b.claims \in Claims
  /\ b.assessed \in Seq(Assessment) /\ b.results \in Seq(Result)
  /\ b.disposition \in {"complete", "partial", "no_answer"}
  /\ b.stage \in {"synthesize", "write"} =>
       TypedVerdicts(b.claims, b.assessed, Len(b.evidence))
\* The inductive invariant of the types.
ResearchTypes ==
  /\ managed \in BOOLEAN /\ overlapping \in BOOLEAN /\ mishaps \in 0..MaxMishaps
  /\ newest = <<>> \/ newest \in DOMAIN stepRows
  /\ verified \subseteq [text : Finding, passages : SUBSET Passage]
  /\ DOMAIN batch = Try /\ TypedRows
  /\ \A a \in Try : TypedBatch(batch[a]) /\ TypedPending(batch[a].pending)

\* Sequences of a bounded length.
LEMMA BoundedSequences ==
  ASSUME NEW S, NEW n \in Nat
  PROVE  /\ <<>> \in SeqOf(S, n)
         /\ \A x \in S : n > 0 => <<x>> \in SeqOf(S, n)
         /\ \A s \in SeqOf(S, n) :
              /\ Len(s) \in 0..n /\ DOMAIN s = 1..Len(s)
              /\ \A i \in DOMAIN s : s[i] \in S
<1>1. <<>> \in [1..0 -> S]
  OBVIOUS
<1>2. \A x \in S : <<x>> \in [1..1 -> S]
  OBVIOUS
<1>3. ASSUME NEW m \in 0..n, NEW s \in [1..m -> S]
      PROVE  Len(s) \in 0..n /\ DOMAIN s = 1..Len(s) /\ \A i \in DOMAIN s : s[i] \in S
  <2>1. s \in Seq(S)
    BY <1>3
  <2>2. Len(s) = m
    BY <2>1
  <2> QED BY <2>1, <2>2
<1> QED BY <1>1, <1>2, <1>3 DEF SeqOf

\* The evidence and the claims of a batch.
LEMMA EvidenceAndClaims ==
  ASSUME VerifiedResearchAssumption
  PROVE  /\ <<>> \in Evidence /\ <<>> \in Claims /\ <<>> \in Questions
         /\ \A e \in Evidence : Len(e) \in 0..MaxEvidence /\ DOMAIN e = 1..Len(e)
                                /\ \A i \in DOMAIN e : e[i] \in Passage
         /\ \A c \in Claims : Len(c) \in 0..MaxClaims /\ DOMAIN c = 1..Len(c)
                              /\ \A i \in DOMAIN c : c[i] \in Finding
<1>1. <<>> \in SeqOf(Passage, MaxEvidence) /\ IsInjective(<<>>)
  BY BoundedSequences DEF VerifiedResearchAssumption, IsInjective
<1> QED BY <1>1, BoundedSequences DEF VerifiedResearchAssumption, Evidence, Claims, Questions

LEMMA VerdictsAreTyped ==
  ASSUME VerifiedResearchAssumption, NEW n \in 0..MaxEvidence, NEW c, NEW v,
         TypedVerdicts(c, v, n)
  PROVE  v \in Seq(Assessment)
<1>1. Verdict(n) \subseteq Assessment
  BY DEF Verdict, Assessment, VerifiedResearchAssumption
<1>2. Len(c) \in Nat /\ v \in [1..Len(c) -> Verdict(n)]
  BY EvidenceAndClaims DEF TypedVerdicts
<1> HIDE DEF Verdict, Assessment
<1>3. v \in [1..Len(c) -> Assessment]
  BY <1>1, <1>2
<1> QED BY <1>2, <1>3

\* One more result
LEMMA AnsweredIsTyped ==
  ASSUME VerifiedResearchAssumption, NEW b, TypedBatch(b), NEW r \in Result
  PROVE  TypedBatch(Answered(b, r))
<1> DEFINE all == Append(b.results, r)
           c == Answered(b, r)
<1>1. all \in Seq(Result)
  BY DEF TypedBatch
<1>2. /\ DOMAIN c = BatchFields /\ c.results = all /\ c.stage \in {"assess", "plan"}
      /\ c.bare = b.bare /\ c.plan = b.plan /\ c.query = 1 /\ c.evidence = <<>>
      /\ c.claims = <<>> /\ c.assessed = <<>> /\ c.disposition = b.disposition
  BY DEF TypedBatch, Answered, BatchFields
<1>3. <<>> \in Evidence /\ <<>> \in Claims /\ <<>> \in Seq(Assessment)
  BY EvidenceAndClaims
<1>4. 1 \in 1..MaxQueries
  BY DEF VerifiedResearchAssumption
<1>5. c.stage \in Stage /\ c.stage \notin {"synthesize", "write"}
  BY <1>2 DEF Stage
<1>6. TypedBatch(c)
  <2> HIDE DEF c, all
  <2> QED BY <1>1, <1>2, <1>3, <1>4, <1>5, Zenon DEF TypedBatch
<1> QED BY <1>6

LEMMA EmptyByClaim == \A S : <<>> \in ByClaim(S)
<1> SUFFICES ASSUME NEW S PROVE <<>> \in ByClaim(S)
  OBVIOUS
<1>1. <<>> \in [{} -> S]
  OBVIOUS
<1> QED BY <1>1 DEF ByClaim

LEMMA NoAnswerIsTyped ==
  ASSUME VerifiedResearchAssumption, NEW b, TypedBatch(b)
  PROVE  TypedBatch(NoAnswer(b))
<1>1. [claims |-> <<>>, cites |-> <<>>, text |-> <<>>] \in Result
  BY EmptyByClaim DEF Result, ByClaim
<1> QED BY <1>1, AnsweredIsTyped DEF NoAnswer

\* What a batch accepts has the types of a result.
LEMMA AcceptedIsTyped ==
  ASSUME VerifiedResearchAssumption, NEW b, b.evidence \in Evidence,
         TypedVerdicts(b.claims, b.assessed, Len(b.evidence))
  PROVE  /\ AcceptedTexts(b) \in ByClaim(Finding)
         /\ AcceptedCites(b) \in ByClaim(SUBSET Passage)
         /\ Accepted(b) \subseteq [text : Finding, passages : SUBSET Passage]
<1>1. /\ DOMAIN b.claims \subseteq 1..MaxClaims
      /\ \A k \in DOMAIN b.claims : b.claims[k] \in Finding
  BY EvidenceAndClaims DEF TypedVerdicts, VerifiedResearchAssumption
<1>2. ASSUME NEW k \in DOMAIN b.claims PROVE Quoted(b, k) \in SUBSET Passage
  <2>1. b.assessed[k] \in Verdict(Len(b.evidence))
    BY DEF TypedVerdicts
  <2>2. b.assessed[k].cites \subseteq DOMAIN b.evidence
    BY <2>1, EvidenceAndClaims DEF Verdict
  <2> QED BY <2>2, EvidenceAndClaims DEF Quoted
<1>3. Supported(b) \in SUBSET (1..MaxClaims) /\ Supported(b) \subseteq DOMAIN b.claims
  BY <1>1 DEF Supported
<1>4. AcceptedTexts(b) \in [Supported(b) -> Finding]
  BY <1>1, <1>3 DEF AcceptedTexts
<1>5. AcceptedCites(b) \in [Supported(b) -> SUBSET Passage]
  BY <1>2, <1>3 DEF AcceptedCites
<1>6. Accepted(b) \subseteq [text : Finding, passages : SUBSET Passage]
  BY <1>1, <1>2, <1>3 DEF Accepted
<1> QED BY <1>3, <1>4, <1>5, <1>6 DEF ByClaim

\* What the phases make of the data they take.
LEMMA TakesAreTyped ==
  ASSUME VerifiedResearchAssumption, NEW b, TypedBatch(b), NEW data
  PROVE  /\ data \in Questions => TypedBatch(TakePlan(b, data))
         /\ data \in 1..MaxQueries => TypedBatch(TakeQueries(b, data))
         /\ data \in Evidence => TypedBatch(TakeEvidence(b, data))
         /\ data \in Claims => TypedBatch(TakeClaims(b, data))
         /\ TypedVerdicts(data.claims, data.assessed, Len(b.evidence)) =>
              TypedBatch(TakeVerified(b, data))
         /\ b.stage = "synthesize" => TypedBatch(TakeCards(b, data))
         /\ b.stage = "write" /\ data \in ByClaim(Finding) => TypedBatch(TakeDocument(b, data))
<1>1. data \in Questions => TypedBatch(TakePlan(b, data))
  BY DEF TypedBatch, BatchFields, TakePlan, Stage
<1>2. data \in 1..MaxQueries => TypedBatch(TakeQueries(b, data))
  BY DEF TypedBatch, BatchFields, TakeQueries, Stage
<1>3. data \in Evidence => TypedBatch(TakeEvidence(b, data))
  BY DEF TypedBatch, BatchFields, TakeEvidence, Stage
<1>4. data \in Claims => TypedBatch(TakeClaims(b, data))
  <2>1. data \in Claims => TypedBatch([b EXCEPT !.claims = data, !.stage = "verify"])
    BY DEF TypedBatch, BatchFields, Stage
  <2> QED BY <2>1, NoAnswerIsTyped DEF TakeClaims
<1>5. ASSUME TypedVerdicts(data.claims, data.assessed, Len(b.evidence))
      PROVE  TypedBatch(TakeVerified(b, data))
  <2> DEFINE c == [b EXCEPT !.claims = data.claims, !.assessed = data.assessed,
                            !.stage = "synthesize"]
  <2>1. Len(b.evidence) \in 0..MaxEvidence
    BY EvidenceAndClaims DEF TypedBatch
  <2>2. data.assessed \in Seq(Assessment) /\ data.claims \in Claims
    BY <1>5, <2>1, VerdictsAreTyped DEF TypedVerdicts
  <2>3. TypedBatch(c)
    BY <1>5, <2>2 DEF TypedBatch, BatchFields, Stage
  <2> QED BY <2>3, NoAnswerIsTyped DEF TakeVerified
<1>6. b.stage = "synthesize" => TypedBatch(TakeCards(b, data))
  BY DEF TypedBatch, BatchFields, TakeCards, Stage
<1>7. ASSUME b.stage = "write", data \in ByClaim(Finding)
      PROVE  TypedBatch(TakeDocument(b, data))
  <2> DEFINE r == [claims |-> AcceptedTexts(b), cites |-> AcceptedCites(b),
                   text |-> IF data = <<>> THEN AcceptedTexts(b) ELSE data]
  <2>1. AcceptedTexts(b) \in ByClaim(Finding) /\ AcceptedCites(b) \in ByClaim(SUBSET Passage)
    BY <1>7, AcceptedIsTyped DEF TypedBatch
  <2>2. r \in Result
    <3> HIDE DEF ByClaim
    <3>1. Result = [claims : ByClaim(Finding), cites : ByClaim(SUBSET Passage), text : ByClaim(Finding)]
      BY DEF Result, ByClaim
    <3> QED BY <1>7, <2>1, <3>1
  <2> HIDE DEF r
  <2>3. TypedBatch(Answered(b, r))
    BY <2>2, AnsweredIsTyped
  <2> QED BY <2>3 DEF TakeDocument, r
<1> QED BY <1>1, <1>2, <1>3, <1>4, <1>5, <1>6, <1>7
--------------------------------------------------------------------------------

LEMMA ResearchTypesInit ==
  ASSUME VerifiedResearchAssumption, ResearchInit
  PROVE  ResearchTypes
<1>1. TypedBatch(NoBatch)
  BY EvidenceAndClaims DEF TypedBatch, NoBatch, BatchFields, Stage, VerifiedResearchAssumption
<1>2. TypedPending(NoBatch.pending)
  BY DEF TypedPending, NoBatch
<1>3. DOMAIN batch = Try /\ \A a \in Try : batch[a] = NoBatch
  BY DEF ResearchInit
<1>4. TypedRows
  BY DEF ResearchInit, TypedRows
<1>5. mishaps \in 0..MaxMishaps
  BY DEF ResearchInit, VerifiedResearchAssumption
<1> QED BY <1>1, <1>2, <1>3, <1>4, <1>5 DEF ResearchTypes, ResearchInit

\* A step of one attempt keeps the types if what it makes of its own has them.
LEMMA OneAttemptTyped ==
  ASSUME ResearchTypes, NEW a \in Try, NEW b, batch' = [batch EXCEPT ![a] = b],
         TypedBatch(b), TypedPending(b.pending)
  PROVE  DOMAIN batch' = Try /\ \A e \in Try : TypedBatch(batch'[e]) /\ TypedPending(batch'[e].pending)
<1>1. \A e \in Try : batch'[e] = IF e = a THEN b ELSE batch[e]
  BY DEF ResearchTypes
<1>2. DOMAIN batch' = Try
  BY DEF ResearchTypes
<1> QED BY <1>1, <1>2 DEF ResearchTypes

\* What a phase takes from the newest row of its digest
LEMMA RowsAreTyped ==
  ASSUME ResearchTypes, NEW b, NEW key, NEW data \in Reusable(b, key)
  PROVE  TypedData(key, data)
<1>1. Rows(key) # <<>> /\ data = Last(Rows(key))
  BY DEF Reusable
<1>2. key \in DOMAIN stepRows /\ Rows(key) = stepRows[key]
  BY <1>1 DEF Rows
<1>3. IsSequence(Rows(key))
  BY <1>2 DEF ResearchTypes, TypedRows
<1>4. Len(Rows(key)) \in DOMAIN Rows(key)
  BY <1>1, <1>3 DEF IsSequence
<1> QED BY <1>1, <1>2, <1>4 DEF Last, ResearchTypes, TypedRows

\* A phase moves the batch of its attempt, and what is accepted.
PhaseStep(a, c, key, data) ==
  /\ UNCHANGED <<managed, stepRows, newest, overlapping, mishaps>>
  /\ \/ batch' = [batch EXCEPT ![a] = c]
     \/ batch' = [batch EXCEPT ![a] = [c EXCEPT
          !.pending = IF batch[a].bare THEN <<>> ELSE <<[key |-> key, data |-> data]>>]]

LEMMA PhaseTyped ==
  ASSUME ResearchTypes, NEW a \in Try, NEW c, NEW key, NEW data, PhaseStep(a, c, key, data),
         TypedBatch(c), c.pending = <<>>, TypedData(key, data),
         verified' \subseteq [text : Finding, passages : SUBSET Passage]
  PROVE  ResearchTypes'
<1> DEFINE p == IF batch[a].bare THEN <<>> ELSE <<[key |-> key, data |-> data]>>
           d == [c EXCEPT !.pending = p]
<1>1. TypedPending(<<>>)
  BY DEF TypedPending
<1>2. TypedPending(p)
  BY <1>1 DEF TypedPending
<1>3. d.pending = p /\ TypedBatch(d)
  <2> HIDE DEF p
  <2> QED BY DEF TypedBatch, BatchFields
<1> DEFINE Fits == /\ DOMAIN batch' = Try
                   /\ \A e \in Try : TypedBatch(batch'[e]) /\ TypedPending(batch'[e].pending)
<1>4. CASE batch' = [batch EXCEPT ![a] = c]
  <2>1. Fits
    BY <1>1, <1>4, OneAttemptTyped
  <2> QED BY <2>1 DEF PhaseStep, ResearchTypes, TypedRows
<1>5. CASE batch' = [batch EXCEPT ![a] = d]
  <2>1. TypedPending(d.pending)
    BY <1>2, <1>3
  <2>2. Fits
    <3> HIDE DEF d
    <3> QED BY <1>3, <1>5, <2>1, OneAttemptTyped
  <2> QED BY <2>2 DEF PhaseStep, ResearchTypes, TypedRows
<1> QED BY <1>4, <1>5 DEF PhaseStep

\* The phases before and after the Verifier
LEMMA PhasesTyped ==
  ASSUME VerifiedResearchAssumption, ResearchTypes, NEW a \in Try,
         Manage(a) \/ PlanQueries(a) \/ Retrieve(a) \/ Draft(a) \/ Synthesize(a) \/ Write(a)
  PROVE  ResearchTypes'
<1> DEFINE b == batch[a]
           Typed(outcomes, key) == \A data \in outcomes : TypedData(key, data)
<1>1. TypedBatch(b) /\ DOMAIN b = BatchFields
  BY DEF ResearchTypes, TypedBatch
<1>2. verified \subseteq [text : Finding, passages : SUBSET Passage]
  BY DEF ResearchTypes
<1>3. \A key : \A data \in Reusable(b, key) : TypedData(key, data)
  BY RowsAreTyped
<1>4. CASE Manage(a)
  <2> DEFINE key == <<"manager_plan">>
  <2>1. b.pending = <<>> /\ verified' = verified
    BY <1>4 DEF Manage, Phase, InStage, Recovers
  <2>2. PICK data \in Reusable(b, key) \cup Plans : PhaseStep(a, TakePlan(b, data), key, data)
    BY <1>4 DEF Manage, Phase, Recovers, Computes, PhaseStep
  <2>3. TypedData(key, data)
    BY <1>3 DEF TypedData, Plans, Questions
  <2>4. TypedBatch(TakePlan(b, data)) /\ TakePlan(b, data).pending = <<>>
    BY <1>1, <2>1, <2>3, TakesAreTyped, TakesLeavePending DEF TypedData
  <2> HIDE DEF key
  <2> QED BY <1>2, <2>1, <2>2, <2>3, <2>4, PhaseTyped
<1>5. CASE PlanQueries(a)
  <2> DEFINE key == <<"plan", Asked(b)>>
  <2>1. b.pending = <<>> /\ verified' = verified
    BY <1>5 DEF PlanQueries, Phase, InStage, Recovers
  <2>2. PICK data \in Reusable(b, key) \cup {1} \cup 1..MaxQueries :
               PhaseStep(a, TakeQueries(b, data), key, data)
    BY <1>5 DEF PlanQueries, Phase, Recovers, Computes, PhaseStep
  <2>3. TypedData(key, data)
    BY <1>3 DEF TypedData, VerifiedResearchAssumption
  <2>4. TypedBatch(TakeQueries(b, data)) /\ TakeQueries(b, data).pending = <<>>
    BY <1>1, <2>1, <2>3, TakesAreTyped, TakesLeavePending DEF TypedData
  <2> HIDE DEF key
  <2> QED BY <1>2, <2>1, <2>2, <2>3, <2>4, PhaseTyped
<1>6. CASE Retrieve(a)
  <2> DEFINE key == <<"retrieve", Asked(b), b.query>>
  <2>1. b.pending = <<>> /\ verified' = verified
    BY <1>6 DEF Retrieve, Phase, InStage, Recovers
  <2>2. PICK data \in Reusable(b, key) \cup Evidence :
               PhaseStep(a, TakeEvidence(b, data), key, data)
    BY <1>6 DEF Retrieve, Phase, Recovers, Computes, PhaseStep
  <2>3. TypedData(key, data)
    BY <1>3 DEF TypedData
  <2>4. TypedBatch(TakeEvidence(b, data)) /\ TakeEvidence(b, data).pending = <<>>
    BY <1>1, <2>1, <2>3, TakesAreTyped, TakesLeavePending DEF TypedData
  <2> HIDE DEF key
  <2> QED BY <1>2, <2>1, <2>2, <2>3, <2>4, PhaseTyped
<1>7. CASE Draft(a)
  <2> DEFINE key == <<"claim", Asked(b), Len(b.evidence)>>
  <2>1. b.pending = <<>> /\ verified' = verified
    BY <1>7 DEF Draft, Phase, InStage, Recovers
  <2>2. PICK data \in Reusable(b, key) \cup Draftable(b) :
               PhaseStep(a, TakeClaims(b, data), key, data)
    BY <1>7 DEF Draft, Phase, Recovers, Computes, PhaseStep
  <2>3. TypedData(key, data)
    BY <1>3, EvidenceAndClaims DEF TypedData, Draftable, Claims
  <2>4. TypedBatch(TakeClaims(b, data)) /\ TakeClaims(b, data).pending = <<>>
    BY <1>1, <2>1, <2>3, TakesAreTyped, TakesLeavePending DEF TypedData
  <2> HIDE DEF key
  <2> QED BY <1>2, <2>1, <2>2, <2>3, <2>4, PhaseTyped
<1>8. CASE Synthesize(a)
  <2> DEFINE key == <<"synthesize", Supported(b), Citations(b)>>
  <2>1. b.pending = <<>> /\ verified' = verified /\ b.stage = "synthesize"
    BY <1>8 DEF Synthesize, Phase, InStage, Recovers
  <2>2. PICK data : PhaseStep(a, TakeCards(b, data), key, data)
    BY <1>8 DEF Synthesize, Phase, Recovers, Computes, PhaseStep
  <2>3. TypedData(key, data)
    BY DEF TypedData
  <2>4. TypedBatch(TakeCards(b, data)) /\ TakeCards(b, data).pending = <<>>
    BY <1>1, <2>1, TakesAreTyped, TakesLeavePending
  <2> HIDE DEF key
  <2> QED BY <1>2, <2>1, <2>2, <2>3, <2>4, PhaseTyped
<1>9. CASE Write(a)
  <2> DEFINE key == <<"write", Asked(b), Supported(b), b.cards>>
  <2>1. b.pending = <<>> /\ verified' = verified /\ b.stage = "write"
    BY <1>9 DEF Write, Phase, InStage, Recovers
  <2>2. PICK data \in Reusable(b, key) \cup Composed(b) :
               PhaseStep(a, TakeDocument(b, data), key, data)
    BY <1>9 DEF Write, Phase, Recovers, Computes, PhaseStep
  <2>3. Composed(b) \subseteq ByClaim(Finding)
    BY <1>1, <2>1, EmptyByClaim, AcceptedIsTyped DEF Composed, TypedBatch
  <2>4. TypedData(key, data)
    BY <1>3, <2>3 DEF TypedData
  <2>5. TypedBatch(TakeDocument(b, data)) /\ TakeDocument(b, data).pending = <<>>
    BY <1>1, <2>1, <2>4, TakesAreTyped, TakesLeavePending DEF TypedData
  <2> HIDE DEF key
  <2> QED BY <1>2, <2>1, <2>2, <2>4, <2>5, PhaseTyped
<1> QED BY <1>4, <1>5, <1>6, <1>7, <1>8, <1>9

\* The Verifier names evidence that the batch has.
LEMMA VerifyTyped ==
  ASSUME VerifiedResearchAssumption, ResearchTypes, NEW a \in Try, Verify(a)
  PROVE  ResearchTypes'
<1> DEFINE b == batch[a]
           key == <<"verify", Len(b.claims), Len(b.evidence)>>
<1>1. /\ TypedBatch(b) /\ DOMAIN b = BatchFields /\ b.pending = <<>>
      /\ key[1] = "verify" /\ key[3] = Len(b.evidence)
  BY DEF ResearchTypes, TypedBatch, Verify, InStage
<1>2. \A data : TypedVerdicts(data.claims, data.assessed, Len(b.evidence)) => TypedData(key, data)
  BY <1>1 DEF TypedData
<1>3. CASE Recovers(a, key, TakeVerified)
  <2>1. PICK data \in Reusable(b, key) : PhaseStep(a, TakeVerified(b, data), key, data)
    BY <1>3 DEF Recovers, PhaseStep
  <2>2. TypedData(key, data)
    BY RowsAreTyped
  <2>3. TypedVerdicts(data.claims, data.assessed, Len(b.evidence))
    BY <1>1, <2>2 DEF TypedData
  <2>4. TypedBatch(TakeVerified(b, data)) /\ TakeVerified(b, data).pending = <<>>
    BY <1>1, <2>3, TakesAreTyped, TakesLeavePending
  <2>5. verified' \subseteq [text : Finding, passages : SUBSET Passage]
    BY <1>3 DEF Recovers, ResearchTypes
  <2> HIDE DEF key
  <2> QED BY <2>1, <2>2, <2>4, <2>5, PhaseTyped
<1>4. ASSUME NEW c \in Draftable(b), NEW v \in Verdicts(b, c),
             Computes(a, key, [claims |-> c, assessed |-> v], TakeVerified),
             verified' = verified \cup Accepted([b EXCEPT !.claims = c, !.assessed = v])
      PROVE  ResearchTypes'
  <2> DEFINE data == [claims |-> c, assessed |-> v]
             d == [b EXCEPT !.claims = c, !.assessed = v]
  <2>1. TypedVerdicts(c, v, Len(b.evidence))
    <3>1. b.evidence \in Evidence
      BY <1>1 DEF TypedBatch
    <3>2. DOMAIN b.evidence = 1..Len(b.evidence)
      BY <3>1, EvidenceAndClaims
    <3>3. c \in Claims
      BY EvidenceAndClaims DEF Draftable, Claims
    <3> QED BY <3>2, <3>3 DEF TypedVerdicts, Verdicts, Verdict
  <2>2. data.claims = c /\ data.assessed = v
    OBVIOUS
  <2>3. d.claims = c /\ d.assessed = v /\ d.evidence = b.evidence
    BY <1>1 DEF BatchFields
  <2>4. Accepted(d) \subseteq [text : Finding, passages : SUBSET Passage]
    <3> HIDE DEF d
    <3> QED BY <1>1, <2>1, <2>3, AcceptedIsTyped DEF TypedBatch
  <2>5. PhaseStep(a, TakeVerified(b, data), key, data)
    BY <1>4 DEF Computes, PhaseStep
  <2> HIDE DEF d
  <2>6. verified' \subseteq [text : Finding, passages : SUBSET Passage]
    BY <1>4, <2>4 DEF ResearchTypes, d
  <2> HIDE DEF data
  <2>7. TypedBatch(TakeVerified(b, data)) /\ TakeVerified(b, data).pending = <<>>
    BY <1>1, <2>1, <2>2, TakesAreTyped, TakesLeavePending
  <2>8. TypedData(key, data)
    BY <1>2, <2>1, <2>2
  <2> HIDE DEF key
  <2> QED BY <2>5, <2>6, <2>7, <2>8, PhaseTyped
<1> QED BY <1>3, <1>4 DEF Verify

LEMMA RecordTyped ==
  ASSUME ResearchTypes, NEW a \in Try, RecordRow(a)
  PROVE  ResearchTypes'
<1> DEFINE row == batch[a].pending[1]
           more == Append(Rows(row.key), row.data)
           c == [batch[a] EXCEPT !.pending = <<>>]
<1>1. TypedData(row.key, row.data)
  BY DEF RecordRow, ResearchTypes, TypedPending
<1>2. IsSequence(Rows(row.key)) /\ \A i \in DOMAIN Rows(row.key) : TypedData(row.key, Rows(row.key)[i])
  <2>1. IsSequence(<<>>)
    BY DEF IsSequence
  <2> QED BY <2>1 DEF Rows, ResearchTypes, TypedRows
<1>3. IsSequence(more) /\ \A i \in DOMAIN more : TypedData(row.key, more[i])
  BY <1>1, <1>2, SequencesGrow
<1>4. /\ DOMAIN stepRows' = DOMAIN stepRows \cup {row.key}
      /\ \A key \in DOMAIN stepRows' :
           stepRows'[key] = IF key = row.key THEN more ELSE stepRows[key]
      /\ newest' = row.key /\ batch' = [batch EXCEPT ![a] = c]
      /\ UNCHANGED <<managed, verified, overlapping, mishaps>>
  BY DEF RecordRow
<1>5. TypedBatch(c) /\ TypedPending(c.pending)
  BY DEF ResearchTypes, TypedBatch, BatchFields, TypedPending
<1> HIDE DEF more, c, row
<1>6. \A key \in DOMAIN stepRows' :
        /\ IsSequence(stepRows'[key])
        /\ \A i \in DOMAIN stepRows'[key] : TypedData(key, stepRows'[key][i])
  BY <1>3, <1>4 DEF ResearchTypes, TypedRows
<1>7. DOMAIN batch' = Try /\ \A e \in Try : TypedBatch(batch'[e]) /\ TypedPending(batch'[e].pending)
  BY <1>4, <1>5, OneAttemptTyped
<1> QED BY <1>4, <1>6, <1>7 DEF ResearchTypes, TypedRows

\* An execution begins, breaks off or ends.
LEMMA BeginsAndEndsTyped ==
  ASSUME VerifiedResearchAssumption, ResearchTypes
  PROVE  /\ \A bare \in BOOLEAN : TypedBatch(Begun(bare)) /\ TypedPending(Begun(bare).pending)
         /\ TypedBatch(Ended) /\ TypedPending(Ended.pending)
<1>1. 1 \in 1..MaxQueries
  BY DEF VerifiedResearchAssumption
<1>2. <<CHOOSE q \in Question : TRUE>> \in Questions
  BY BoundedSequences DEF Questions, VerifiedResearchAssumption
<1>3. /\ <<>> \in Evidence /\ <<>> \in Claims /\ <<>> \in Questions
      /\ <<>> \in Seq(Assessment) /\ <<>> \in Seq(Result)
  BY EvidenceAndClaims
<1>4. \A bare \in BOOLEAN : TypedBatch([NoBatch EXCEPT !.bare = bare])
  BY <1>1, <1>3 DEF TypedBatch, NoBatch, BatchFields, Stage
<1>5. ASSUME NEW b, TypedBatch(b), NEW stage \in {"manage", "plan", "over"}, NEW plan \in Questions
      PROVE  TypedBatch([b EXCEPT !.stage = stage]) /\ TypedBatch([b EXCEPT !.stage = stage, !.plan = plan])
  BY <1>5 DEF TypedBatch, BatchFields, Stage
<1>6. ASSUME NEW bare \in BOOLEAN PROVE TypedBatch(Begun(bare))
  <2> DEFINE b == [NoBatch EXCEPT !.bare = bare]
             sole == <<CHOOSE q \in Question : TRUE>>
  <2>1. TypedBatch(b)
    BY <1>4
  <2>2. Begun(bare) = IF managed THEN [b EXCEPT !.stage = "manage"]
                      ELSE [b EXCEPT !.stage = "plan", !.plan = sole]
    BY DEF Begun
  <2> HIDE DEF b, sole
  <2>3. sole \in Questions
    BY <1>2 DEF sole
  <2>4. TypedBatch([b EXCEPT !.stage = "manage"])
    BY <1>5, <2>1, <2>3
  <2>5. TypedBatch([b EXCEPT !.stage = "plan", !.plan = sole])
    BY <1>5, <2>1, <2>3
  <2> QED BY <2>2, <2>4, <2>5, Zenon
<1>7. TypedBatch(Ended)
  BY <1>1, <1>3 DEF Ended, TypedBatch, NoBatch, BatchFields, Stage
<1>8. TypedPending(Ended.pending) /\ \A bare \in BOOLEAN : TypedPending(Begun(bare).pending)
  BY DEF Ended, Begun, NoBatch, TypedPending
<1> QED BY <1>6, <1>7, <1>8

LEMMA FailTyped ==
  ASSUME VerifiedResearchAssumption, ResearchTypes, NEW a \in Try, Fail(a)
  PROVE  ResearchTypes'
<1>1. /\ DOMAIN stepRows' = DOMAIN stepRows
      /\ \A key \in DOMAIN stepRows :
           stepRows'[key] = stepRows[key] \/ stepRows'[key] = Front(stepRows[key])
  BY DEF Fail
<1>2. \A key \in DOMAIN stepRows :
        /\ IsSequence(stepRows[key])
        /\ \A i \in DOMAIN stepRows[key] : TypedData(key, stepRows[key][i])
  BY DEF ResearchTypes, TypedRows
<1>3. ASSUME NEW key \in DOMAIN stepRows
      PROVE  /\ IsSequence(stepRows'[key])
             /\ \A i \in DOMAIN stepRows'[key] : TypedData(key, stepRows'[key][i])
  BY <1>1, <1>2, SequencesShrink
<1>4. batch' = [batch EXCEPT ![a] = Ended]
  BY DEF Fail
<1>5. DOMAIN batch' = Try /\ \A e \in Try : TypedBatch(batch'[e]) /\ TypedPending(batch'[e].pending)
  BY <1>4, BeginsAndEndsTyped, OneAttemptTyped
<1>6. mishaps' \in 0..MaxMishaps
  BY DEF Fail, Mishap, ResearchTypes, VerifiedResearchAssumption
<1>7. newest' = <<>> /\ UNCHANGED <<managed, verified, overlapping>>
  BY DEF Fail
<1> QED BY <1>1, <1>3, <1>5, <1>6, <1>7 DEF ResearchTypes, TypedRows

LEMMA ReturnTyped ==
  ASSUME ResearchTypes, NEW a \in Try, Return(a)
  PROVE  ResearchTypes'
<1> DEFINE b == batch[a]
<1>1. PICK d \in {"complete", "partial", "no_answer"} :
        batch' = [batch EXCEPT ![a] = [b EXCEPT
          !.stage = "done", !.disposition = d, !.pending = <<[key |-> <<"batch">>, data |-> d]>>]]
  BY DEF Return
<1> DEFINE c == [b EXCEPT !.stage = "done", !.disposition = d,
                          !.pending = <<[key |-> <<"batch">>, data |-> d]>>]
<1>2. TypedBatch(c) /\ TypedPending(c.pending)
  BY DEF ResearchTypes, TypedBatch, BatchFields, Stage, TypedPending, TypedData
<1>3. batch' = [batch EXCEPT ![a] = c]
  BY <1>1
<1> HIDE DEF c
<1>4. DOMAIN batch' = Try /\ \A e \in Try : TypedBatch(batch'[e]) /\ TypedPending(batch'[e].pending)
  BY <1>2, <1>3, OneAttemptTyped
<1> QED BY <1>4 DEF Return, ResearchTypes, TypedRows

LEMMA ResearchTypesStep ==
  ASSUME VerifiedResearchAssumption, ResearchTypes, [ResearchNext]_researchVars
  PROVE  ResearchTypes'
<1>1. CASE UNCHANGED researchVars
  BY <1>1 DEF researchVars, ResearchTypes, TypedRows
<1>2. ASSUME NEW a \in Try, Start(a) \/ FallBack(a) \/ Crash(a) PROVE ResearchTypes'
  <2>1. \E b \in {Begun(FALSE), Begun(TRUE), Ended} : batch' = [batch EXCEPT ![a] = b]
    BY <1>2 DEF Start, FallBack, Crash
  <2>2. DOMAIN batch' = Try /\ \A e \in Try : TypedBatch(batch'[e]) /\ TypedPending(batch'[e].pending)
    BY <2>1, BeginsAndEndsTyped, OneAttemptTyped
  <2>3. mishaps' \in 0..MaxMishaps /\ overlapping' \in BOOLEAN
    <3>1. \/ UNCHANGED <<mishaps, overlapping>>
          \/ Mishap /\ (overlapping' = TRUE \/ UNCHANGED overlapping)
      BY <1>2 DEF Start, FallBack, Crash
    <3>2. mishaps \in 0..MaxMishaps /\ overlapping \in BOOLEAN /\ MaxMishaps \in Nat
      BY DEF ResearchTypes, VerifiedResearchAssumption
    <3>3. mishaps' \in 0..MaxMishaps
      BY <3>1, <3>2 DEF Mishap
    <3>4. overlapping' \in BOOLEAN
      BY <3>1, <3>2, Zenon
    <3> QED BY <3>3, <3>4
  <2>4. UNCHANGED <<managed, stepRows, newest, verified>>
    BY <1>2 DEF Start, FallBack, Crash
  <2> QED BY <2>2, <2>3, <2>4 DEF ResearchTypes, TypedRows
<1> QED
  BY <1>1, <1>2, PhasesTyped, VerifyTyped, RecordTyped, ReturnTyped, FailTyped DEF ResearchNext

\* A batch and its rows keep their types: an execution that takes over a row written
\* for another question or by another attempt still reads no more evidence than it
\* holds, and every result names claims of the draft and passages of the corpus.
THEOREM ResearchTypeCorrect == ResearchSpec => []ResearchTypeOK
<1>1. ResearchInit => ResearchTypes
  BY VerifiedResearchAssumption, ResearchTypesInit
<1>2. ResearchTypes /\ [ResearchNext]_researchVars => ResearchTypes'
  BY VerifiedResearchAssumption, ResearchTypesStep
<1>3. ResearchTypes => ResearchTypeOK
  BY DEF ResearchTypes, ResearchTypeOK, TypedBatch, Questions, Claims
<1> QED BY <1>1, <1>2, <1>3, PTL DEF ResearchSpec
--------------------------------------------------------------------------------
(* The one attempt of a research without a manager.                            *)

Kinds == {"plan", "retrieve", "claim", "verify", "synthesize", "write", "batch"}
\* the kinds of rows that rest on a row of a kind
Later(kind) ==
  CASE kind = "plan" -> {"retrieve", "claim", "verify", "synthesize", "write"}
    [] kind = "retrieve" -> {"claim", "verify", "synthesize", "write"}
    [] kind = "claim" -> {"verify", "synthesize", "write"}
    [] kind = "verify" -> {"synthesize", "write"}
    [] OTHER -> {}
\* the rows of a table t, as Rows has them of stepRows
RowsOf(t, key) == IF key \in DOMAIN t THEN t[key] ELSE <<>>
Live(t, key) == RowsOf(t, key) # <<>>

\* The question of a research without a manager, and the one chain of its rows.
Sole == CHOOSE q \in Question : TRUE
PlanKey == <<"plan", Sole>>
EvidenceKey(query) == <<"retrieve", Sole, query>>
ClaimsKey(evidence) == <<"claim", Sole, Len(evidence)>>
VerdictKey(claims, evidence) == <<"verify", Len(claims), Len(evidence)>>
RowQuery(t) == RowsOf(t, PlanKey)[1]
RowEvidence(t) == RowsOf(t, EvidenceKey(RowQuery(t)))[1]
RowClaims(t) == RowsOf(t, ClaimsKey(RowEvidence(t)))[1]
RowVerdict(t) == RowsOf(t, VerdictKey(RowClaims(t), RowEvidence(t)))[1]
HasPlan(t) == Live(t, PlanKey)
HasEvidence(t) == HasPlan(t) /\ Live(t, EvidenceKey(RowQuery(t)))
HasClaims(t) == HasEvidence(t) /\ Live(t, ClaimsKey(RowEvidence(t)))
HasVerdict(t) == HasClaims(t) /\ Live(t, VerdictKey(RowClaims(t), RowEvidence(t)))

\* The Verifier accepted each supported claim of a verdict with what it cites.
CitedFrom(accepted, evidence, verdict) ==
  \A k \in DOMAIN verdict.claims : verdict.assessed[k].supported =>
    [text |-> verdict.claims[k], passages |-> {evidence[n] : n \in verdict.assessed[k].cites}]
      \in accepted
VerdictTexts(verdict) ==
  [k \in {j \in DOMAIN verdict.claims : verdict.assessed[j].supported} |-> verdict.claims[k]]

\* A row has the place of its kind in the chain.
RowFits(t, accepted, key, data) ==
  /\ key[1] \in Kinds
  /\ key[1] = "plan" => key = PlanKey
  /\ key[1] = "retrieve" => HasPlan(t) /\ key = EvidenceKey(RowQuery(t))
  /\ key[1] = "claim" => HasEvidence(t) /\ key = ClaimsKey(RowEvidence(t))
  /\ key[1] = "verify" => HasClaims(t) /\ key = VerdictKey(RowClaims(t), RowEvidence(t))
                          /\ CitedFrom(accepted, RowEvidence(t), data)
                          /\ data = [claims |-> data.claims, assessed |-> data.assessed]
  /\ key[1] = "synthesize" => HasVerdict(t)
  /\ key[1] = "write" => HasVerdict(t) /\ data \in {<<>>, VerdictTexts(RowVerdict(t))}
\* Every row does, and none rests on the row that was written last.
ChainHolds(t, last, accepted) ==
  /\ \A key \in DOMAIN t : Live(t, key) =>
       /\ RowFits(t, accepted, key, RowsOf(t, key)[1])
       /\ key[1] # "batch" => RowsOf(t, key) = <<RowsOf(t, key)[1]>>
  /\ last # <<>> => /\ last[1] \in Kinds
                    /\ \A key \in DOMAIN t : Live(t, key) => key[1] \notin Later(last[1])

\* An execution knows the data of a row that is live or that it is about to record.
Knows(t, b, key, data) == RowsOf(t, key) = <<data>> \/ b.pending = <<[key |-> key, data |-> data]>>
KnowsRows(t, b) ==
  /\ b.stage \in {"retrieve", "claim", "verify", "synthesize", "write"} =>
       Knows(t, b, PlanKey, b.query)
  /\ b.stage \in {"claim", "verify", "synthesize", "write"} =>
       Knows(t, b, EvidenceKey(b.query), b.evidence)
  /\ b.stage = "verify" => Knows(t, b, ClaimsKey(b.evidence), b.claims)
  /\ b.stage \in {"synthesize", "write"} =>
       /\ Live(t, ClaimsKey(b.evidence))
       /\ Knows(t, b, VerdictKey(RowsOf(t, ClaimsKey(b.evidence))[1], b.evidence),
                [claims |-> b.claims, assessed |-> b.assessed])
PendingFits(t, accepted, b) ==
  b.pending # <<>> =>
    /\ b.pending = <<[key |-> b.pending[1].key, data |-> b.pending[1].data]>>
    /\ \/ b.pending[1].key = <<"batch">>
       \/ /\ ~b.bare /\ RowsOf(t, b.pending[1].key) = <<>>
          /\ RowFits(t, accepted, b.pending[1].key, b.pending[1].data)
CitedResult(accepted, r) ==
  /\ \A k \in DOMAIN r.claims : [text |-> r.claims[k], passages |-> r.cites[k]] \in accepted
  /\ r.text = r.claims
Sane(accepted, b) ==
  /\ DOMAIN b = BatchFields
  /\ b.stage \in {"plan", "retrieve", "claim", "verify", "synthesize", "write", "assess", "done"}
  /\ b.stage \in {"assess", "done"} \/ (b.plan = <<Sole>> /\ b.results = <<>>)
  /\ \A i \in DOMAIN b.results : CitedResult(accepted, b.results[i])
  /\ b.stage \in {"synthesize", "write"} =>
       CitedFrom(accepted, b.evidence, [claims |-> b.claims, assessed |-> b.assessed])
Working(t, accepted, b) ==
  Sane(accepted, b) /\ PendingFits(t, accepted, b) /\ (~b.bare => KnowsRows(t, b))
Occupied(b) == b.stage \notin {"idle", "over"}
TakeTurns(held) ==
  /\ \A a \in Try : ~Occupied(held[a]) => held[a] \in {NoBatch, Ended}
  /\ \A a, e \in Try : Occupied(held[a]) /\ Occupied(held[e]) => a = e
  /\ \A a, e \in Try : a < e /\ held[a].stage = "idle" => held[e].stage = "idle"
\* While there is no manager and no attempt has overlapped, the rows are one chain,
\* one attempt is at work, and what it holds is what the chain has.
SoleInv ==
  /\ DOMAIN batch = Try
  /\ ~managed /\ ~overlapping =>
       /\ ChainHolds(stepRows, newest, verified) /\ TakeTurns(batch)
       /\ \A a \in Try : Occupied(batch[a]) => Working(stepRows, verified, batch[a])

\* The kinds of the keys of the chain.
LEMMA KeyKinds ==
  /\ PlanKey[1] = "plan"
  /\ \A query : EvidenceKey(query)[1] = "retrieve"
  /\ \A evidence : ClaimsKey(evidence)[1] = "claim"
  /\ \A claims, evidence : VerdictKey(claims, evidence)[1] = "verify"
BY DEF PlanKey, EvidenceKey, ClaimsKey, VerdictKey

\* What a Verifier accepted stays accepted.
LEMMA CitedFromGrows ==
  ASSUME NEW few, NEW many, few \subseteq many, NEW evidence, NEW verdict,
         CitedFrom(few, evidence, verdict)
  PROVE  CitedFrom(many, evidence, verdict)
BY DEF CitedFrom

\* A row keeps its place while only rows change that do not come before it.
LEMMA FitsKept ==
  ASSUME NEW t, NEW u, NEW kind \in Kinds, \A k : k[1] # kind => RowsOf(u, k) = RowsOf(t, k),
         NEW few, NEW many, few \subseteq many, NEW key, NEW data,
         RowFits(t, few, key, data), key[1] \notin Later(kind)
  PROVE  RowFits(u, many, key, data)
<1>1. kind # "plan" => RowQuery(u) = RowQuery(t) /\ HasPlan(u) = HasPlan(t)
  BY KeyKinds DEF RowQuery, HasPlan, Live
<1>2. kind \notin {"plan", "retrieve"} => RowEvidence(u) = RowEvidence(t) /\ HasEvidence(u) = HasEvidence(t)
  BY <1>1, KeyKinds DEF RowEvidence, HasEvidence, Live
<1>3. kind \notin {"plan", "retrieve", "claim"} => RowClaims(u) = RowClaims(t) /\ HasClaims(u) = HasClaims(t)
  BY <1>1, <1>2, KeyKinds DEF RowClaims, HasClaims, Live
<1>4. kind \notin {"plan", "retrieve", "claim", "verify"} =>
        RowVerdict(u) = RowVerdict(t) /\ HasVerdict(u) = HasVerdict(t)
  BY <1>1, <1>2, <1>3, KeyKinds DEF RowVerdict, HasVerdict, Live
<1>5. key[1] \in Kinds
  BY DEF RowFits
<1>6. CASE key[1] \in {"plan", "batch"}
  BY <1>6 DEF RowFits
<1>7. CASE key[1] = "retrieve"
  <2>1. kind # "plan"
    BY <1>7 DEF Later
  <2> QED BY <1>1, <1>7, <2>1 DEF RowFits
<1>8. CASE key[1] = "claim"
  <2>1. kind \notin {"plan", "retrieve"}
    BY <1>8 DEF Later
  <2> QED BY <1>2, <1>8, <2>1 DEF RowFits
<1>9. CASE key[1] = "verify"
  <2>1. kind \notin {"plan", "retrieve", "claim"}
    BY <1>9 DEF Later
  <2> QED BY <1>2, <1>3, <1>9, <2>1, CitedFromGrows DEF RowFits
<1>10. CASE key[1] \in {"synthesize", "write"}
  <2>1. kind \notin {"plan", "retrieve", "claim", "verify"}
    BY <1>10 DEF Later
  <2> QED BY <1>4, <1>10, <2>1 DEF RowFits
<1> QED BY <1>5, <1>6, <1>7, <1>8, <1>9, <1>10 DEF Kinds

\* A row that rests on another has it.
LEMMA RestsOnLive ==
  ASSUME NEW t, NEW accepted, NEW key, NEW data, RowFits(t, accepted, key, data),
         NEW k, NEW d, RowFits(t, accepted, k, d), k[1] \in Later(key[1])
  PROVE  Live(t, key)
<1>1. key[1] \in {"plan", "retrieve", "claim", "verify"} /\ k[1] \in Kinds
  BY DEF Later, RowFits
<1>2. CASE key[1] = "plan"
  <2>1. HasPlan(t)
    BY <1>1, <1>2 DEF RowFits, Later, HasVerdict, HasClaims, HasEvidence
  <2> QED BY <1>2, <2>1 DEF RowFits, HasPlan
<1>3. CASE key[1] = "retrieve"
  <2>1. HasEvidence(t)
    BY <1>1, <1>3 DEF RowFits, Later, HasVerdict, HasClaims
  <2> QED BY <1>3, <2>1 DEF RowFits, HasEvidence
<1>4. CASE key[1] = "claim"
  <2>1. HasClaims(t)
    BY <1>1, <1>4 DEF RowFits, Later, HasVerdict
  <2> QED BY <1>4, <2>1 DEF RowFits, HasClaims
<1>5. CASE key[1] = "verify"
  <2>1. HasVerdict(t)
    BY <1>1, <1>5 DEF RowFits, Later
  <2> QED BY <1>5, <2>1 DEF RowFits, HasVerdict
<1> QED BY <1>1, <1>2, <1>3, <1>4, <1>5

LEMMA LiveRow ==
  ASSUME NEW t, NEW last, NEW accepted, ChainHolds(t, last, accepted), NEW key, Live(t, key)
  PROVE  /\ key \in DOMAIN t /\ RowFits(t, accepted, key, RowsOf(t, key)[1])
         /\ key[1] # "batch" => RowsOf(t, key) = <<RowsOf(t, key)[1]>>
         /\ last # <<>> => key[1] \notin Later(last[1])
<1>1. key \in DOMAIN t
  BY DEF Live, RowsOf
<1> QED BY <1>1, Zenon DEF ChainHolds

LEMMA NotLaterThanItself == \A kind : kind \notin Later(kind)
BY DEF Later

\* The chain holds with a row more,
LEMMA RowAdded ==
  ASSUME NEW t, NEW last, NEW accepted, ChainHolds(t, last, accepted),
         NEW key, NEW data, RowFits(t, accepted, key, data),
         key[1] = "batch" \/ RowsOf(t, key) = <<>>,
         NEW u, RowsOf(u, key) = Append(RowsOf(t, key), data),
         \A k : k # key => RowsOf(u, k) = RowsOf(t, k)
  PROVE  ChainHolds(u, key, accepted)
<1>1. key[1] \in Kinds /\ \A k : k[1] # key[1] => RowsOf(u, k) = RowsOf(t, k)
  BY DEF RowFits
<1>2. ASSUME NEW k, Live(u, k), k # key
      PROVE  /\ RowFits(u, accepted, k, RowsOf(u, k)[1])
             /\ k[1] # "batch" => RowsOf(u, k) = <<RowsOf(u, k)[1]>>
             /\ k[1] \notin Later(key[1])
  <2>1. RowsOf(u, k) = RowsOf(t, k) /\ Live(t, k)
    BY <1>2 DEF Live
  <2>2. RowFits(t, accepted, k, RowsOf(t, k)[1]) /\ (k[1] # "batch" => RowsOf(t, k) = <<RowsOf(t, k)[1]>>)
    BY <2>1, LiveRow
  <2>3. k[1] \notin Later(key[1])
    <3> SUFFICES ASSUME k[1] \in Later(key[1]) PROVE FALSE
      OBVIOUS
    <3>1. Live(t, key)
      BY <2>2, RestsOnLive
    <3>2. key[1] # "batch"
      BY DEF Later
    <3> QED BY <3>1, <3>2 DEF Live
  <2>4. RowFits(u, accepted, k, RowsOf(t, k)[1])
    <3>1. PICK kind \in Kinds : kind = key[1]
      BY <1>1
    <3>2. \A j : j[1] # kind => RowsOf(u, j) = RowsOf(t, j)
      BY <1>1, <3>1
    <3>3. k[1] \notin Later(kind) /\ accepted \subseteq accepted
      BY <2>3, <3>1
    <3> QED BY <2>2, <3>2, <3>3, FitsKept
  <2> QED BY <2>1, <2>2, <2>3, <2>4
<1>3. CASE key[1] = "batch"
  <2>1. \A d : RowFits(u, accepted, key, d)
    BY <1>1, <1>3 DEF RowFits
  <2>2. Later(key[1]) = {}
    BY <1>3 DEF Later
  <2> QED BY <1>1, <1>2, <1>3, <2>1, <2>2, Zenon DEF ChainHolds
<1>4. CASE key[1] # "batch"
  <2>1. RowsOf(u, key) = <<data>> /\ RowsOf(u, key)[1] = data
    <3>1. Append(<<>>, data) = <<data>>
      OBVIOUS
    <3>2. <<data>>[1] = data
      OBVIOUS
    <3> QED BY <1>4, <3>1, <3>2
  <2>2. RowFits(u, accepted, key, data)
    BY <1>1, NotLaterThanItself, FitsKept
  <2>3. key[1] \notin Later(key[1])
    BY NotLaterThanItself
  <2>4. \A k \in DOMAIN u : Live(u, k) =>
          /\ RowFits(u, accepted, k, RowsOf(u, k)[1])
          /\ k[1] # "batch" => RowsOf(u, k) = <<RowsOf(u, k)[1]>>
          /\ k[1] \notin Later(key[1])
    BY <1>2, <2>1, <2>2, <2>3, Zenon
  <2> QED BY <1>1, <2>4, Zenon DEF ChainHolds
<1> QED BY <1>3, <1>4

\* and without the one that was written last.
LEMMA RowDropped ==
  ASSUME NEW t, NEW last, NEW accepted, ChainHolds(t, last, accepted), last # <<>>,
         NEW u, RowsOf(u, last) = Front(RowsOf(t, last)),
         \A k : k # last => RowsOf(u, k) = RowsOf(t, k)
  PROVE  ChainHolds(u, <<>>, accepted)
<1>1. last[1] \in Kinds /\ \A k : k[1] # last[1] => RowsOf(u, k) = RowsOf(t, k)
  BY DEF ChainHolds
<1>2. ASSUME NEW k, Live(u, k), k # last
      PROVE  /\ RowFits(u, accepted, k, RowsOf(u, k)[1])
             /\ k[1] # "batch" => RowsOf(u, k) = <<RowsOf(u, k)[1]>>
  <2>1. RowsOf(u, k) = RowsOf(t, k) /\ Live(t, k)
    BY <1>2 DEF Live
  <2>2. /\ RowFits(t, accepted, k, RowsOf(t, k)[1]) /\ k[1] \notin Later(last[1])
        /\ k[1] # "batch" => RowsOf(t, k) = <<RowsOf(t, k)[1]>>
    BY <2>1, LiveRow
  <2>3. RowFits(u, accepted, k, RowsOf(t, k)[1])
    BY <1>1, <2>2, FitsKept
  <2> QED BY <2>1, <2>2, <2>3
<1>3. ASSUME Live(u, last), last[1] # "batch" PROVE FALSE
  <2>1. RowsOf(t, last) = <<>> \/ RowsOf(t, last) = <<RowsOf(t, last)[1]>>
    BY <1>3, LiveRow DEF Live
  <2>2. \A x : Front(<<x>>) = <<>>
    BY DEF Front
  <2>3. Front(<<>>) = <<>>
    BY DEF Front
  <2> QED BY <1>3, <2>1, <2>2, <2>3 DEF Live
<1>4. last[1] = "batch" => \A d : RowFits(u, accepted, last, d)
  BY <1>1 DEF RowFits
<1>5. \A k \in DOMAIN u : Live(u, k) =>
        /\ RowFits(u, accepted, k, RowsOf(u, k)[1])
        /\ k[1] # "batch" => RowsOf(u, k) = <<RowsOf(u, k)[1]>>
  BY <1>2, <1>3, <1>4, Zenon
<1> QED BY <1>5 DEF ChainHolds

\* The Verifier accepts more.
LEMMA ChainKept ==
  ASSUME NEW t, NEW last, NEW few, NEW many, few \subseteq many, ChainHolds(t, last, few)
  PROVE  ChainHolds(t, last, many)
<1>1. \A key, data : RowFits(t, few, key, data) => RowFits(t, many, key, data)
  BY CitedFromGrows DEF RowFits
<1> QED BY <1>1 DEF ChainHolds

\* What an execution that has nothing to record knows is in the chain.
LEMMA KnownRows ==
  ASSUME NEW t, NEW b, KnowsRows(t, b), b.pending = <<>>
  PROVE  /\ b.stage \in {"retrieve", "claim", "verify", "synthesize", "write"} =>
              HasPlan(t) /\ RowQuery(t) = b.query
         /\ b.stage \in {"claim", "verify", "synthesize", "write"} =>
              HasEvidence(t) /\ RowEvidence(t) = b.evidence
         /\ b.stage = "verify" => HasClaims(t) /\ RowClaims(t) = b.claims
         /\ b.stage \in {"synthesize", "write"} =>
              HasVerdict(t) /\ RowVerdict(t) = [claims |-> b.claims, assessed |-> b.assessed]
<1>1. \A key, data : Knows(t, b, key, data) => RowsOf(t, key) = <<data>>
  BY DEF Knows
<1>2. \A key, data : RowsOf(t, key) = <<data>> => Live(t, key) /\ RowsOf(t, key)[1] = data
  BY DEF Live
<1>3. b.stage \in {"retrieve", "claim", "verify", "synthesize", "write"} =>
        HasPlan(t) /\ RowQuery(t) = b.query
  BY <1>1, <1>2 DEF KnowsRows, HasPlan, RowQuery
<1>4. b.stage \in {"claim", "verify", "synthesize", "write"} =>
        HasEvidence(t) /\ RowEvidence(t) = b.evidence
  BY <1>1, <1>2, <1>3 DEF KnowsRows, HasEvidence, RowEvidence
<1>5. b.stage = "verify" => HasClaims(t) /\ RowClaims(t) = b.claims
  BY <1>1, <1>2, <1>4 DEF KnowsRows, HasClaims, RowClaims
<1>6. b.stage \in {"synthesize", "write"} =>
        HasVerdict(t) /\ RowVerdict(t) = [claims |-> b.claims, assessed |-> b.assessed]
  <2> SUFFICES ASSUME b.stage \in {"synthesize", "write"}
               PROVE  HasVerdict(t) /\ RowVerdict(t) = [claims |-> b.claims, assessed |-> b.assessed]
    OBVIOUS
  <2>1. HasClaims(t) /\ RowClaims(t) = RowsOf(t, ClaimsKey(b.evidence))[1]
    BY <1>4 DEF KnowsRows, HasClaims, RowClaims
  <2>2. RowsOf(t, VerdictKey(RowClaims(t), RowEvidence(t))) =
          <<[claims |-> b.claims, assessed |-> b.assessed]>>
    BY <1>1, <1>4, <2>1 DEF KnowsRows
  <2> QED BY <1>2, <2>1, <2>2 DEF HasVerdict, RowVerdict
<1> QED BY <1>3, <1>4, <1>5, <1>6

\* An attempt at work makes a step.
LEMMA SoleMoves ==
  ASSUME SoleInv, ~managed, ~overlapping, UNCHANGED <<managed, overlapping>>,
         NEW a \in Try, Occupied(batch[a]), NEW c, batch' = [batch EXCEPT ![a] = c],
         ChainHolds(stepRows', newest', verified'),
         c = Ended \/ (Occupied(c) /\ Working(stepRows', verified', c))
  PROVE  SoleInv'
<1>1. DOMAIN batch' = Try /\ batch'[a] = c /\ \A e \in Try : e # a => batch'[e] = batch[e]
  BY DEF SoleInv
<1>2. c.stage # "idle" /\ (~Occupied(c) => c = Ended)
  <2>1. Ended.stage = "over"
    BY DEF Ended, NoBatch
  <2> QED BY <2>1 DEF Occupied
<1>3. \A e \in Try : e # a => ~Occupied(batch[e])
  BY DEF SoleInv, TakeTurns
<1>4. TakeTurns(batch')
  <2>1. \A e \in Try : ~Occupied(batch'[e]) => batch'[e] \in {NoBatch, Ended}
    BY <1>1, <1>2 DEF SoleInv, TakeTurns
  <2>2. \A d, e \in Try : Occupied(batch'[d]) /\ Occupied(batch'[e]) => d = e
    BY <1>1, <1>3
  <2>3. \A d, e \in Try : d < e /\ batch'[d].stage = "idle" => batch'[e].stage = "idle"
    <3>1. batch[a].stage # "idle"
      BY DEF Occupied
    <3> QED BY <1>1, <1>2, <3>1 DEF SoleInv, TakeTurns
  <2> QED BY <2>1, <2>2, <2>3 DEF TakeTurns
<1>5. \A e \in Try : Occupied(batch'[e]) => Working(stepRows', verified', batch'[e])
  <2>1. Ended.stage = "over"
    BY DEF Ended, NoBatch
  <2>2. ~Occupied(Ended)
    BY <2>1 DEF Occupied
  <2> QED BY <1>1, <1>3, <2>2
<1> QED BY <1>1, <1>4, <1>5 DEF SoleInv

\* A row that is taken over.
LEMMA RecoveredRow ==
  ASSUME SoleInv, ~managed, ~overlapping, NEW b, NEW key, key[1] # "batch",
         NEW data \in Reusable(b, key)
  PROVE  /\ ~b.bare /\ RowsOf(stepRows, key) = <<data>>
         /\ RowFits(stepRows, verified, key, data)
<1>1. Rows(key) = RowsOf(stepRows, key)
  BY DEF Rows, RowsOf
<1>2. ~b.bare /\ Live(stepRows, key) /\ data = Last(RowsOf(stepRows, key))
  BY <1>1 DEF Reusable, Live
<1>3. PICK row : row = RowsOf(stepRows, key)[1]
  OBVIOUS
<1>4. RowsOf(stepRows, key) = <<row>> /\ RowFits(stepRows, verified, key, row)
  BY <1>2, <1>3, LiveRow DEF SoleInv
<1>5. Last(<<row>>) = row
  BY DEF Last
<1> QED BY <1>2, <1>4, <1>5

LEMMA NothingToReuse ==
  ASSUME NEW b, NEW key, Reusable(b, key) = {}
  PROVE  b.bare \/ RowsOf(stepRows, key) = <<>>
BY DEF Reusable, Rows, RowsOf

\* The state c fits an execution b that took the data of a row, or is to record it.
PhaseFits(t, accepted, b, key, data, c) ==
  /\ Occupied(c) /\ Sane(accepted, c) /\ c.pending = <<>> /\ c.bare = b.bare
  /\ ~b.bare =>
       /\ RowFits(t, accepted, key, data)
       /\ RowsOf(t, key) = <<data>> => KnowsRows(t, c)
       /\ \A p : p = <<[key |-> key, data |-> data]>> => KnowsRows(t, [c EXCEPT !.pending = p])

LEMMA RecoveryMoves ==
  ASSUME SoleInv, ~managed, ~overlapping, NEW a \in Try, Occupied(batch[a]),
         NEW key, key[1] # "batch", NEW data \in Reusable(batch[a], key), NEW c,
         PhaseFits(stepRows, verified, batch[a], key, data, c),
         batch' = [batch EXCEPT ![a] = c],
         UNCHANGED <<managed, stepRows, newest, verified, overlapping, mishaps>>
  PROVE  SoleInv'
<1>1. ~batch[a].bare /\ RowsOf(stepRows, key) = <<data>>
  BY RecoveredRow
<1>2. c.pending = <<>> /\ Occupied(c) /\ Sane(verified, c) /\ KnowsRows(stepRows, c)
  BY <1>1 DEF PhaseFits
<1>3. Working(stepRows', verified', c)
  BY <1>2 DEF Working, PendingFits
<1>4. ChainHolds(stepRows', newest', verified')
  BY DEF SoleInv
<1> QED BY <1>2, <1>3, <1>4, SoleMoves

LEMMA ComputationMoves ==
  ASSUME SoleInv, ~managed, ~overlapping, NEW a \in Try, Occupied(batch[a]),
         NEW key, NEW data, NEW c, Reusable(batch[a], key) = {},
         PhaseFits(stepRows, verified', batch[a], key, data, c), verified \subseteq verified',
         batch' = [batch EXCEPT ![a] = [c EXCEPT
           !.pending = IF batch[a].bare THEN <<>> ELSE <<[key |-> key, data |-> data]>>]],
         UNCHANGED <<managed, stepRows, newest, overlapping, mishaps>>
  PROVE  SoleInv'
<1> DEFINE row == <<[key |-> key, data |-> data]>>
<1>1. ChainHolds(stepRows', newest', verified')
  BY ChainKept DEF SoleInv
<1>2. PICK p : p = IF batch[a].bare THEN <<>> ELSE row
  OBVIOUS
<1>3. PICK d : d = [c EXCEPT !.pending = p]
  OBVIOUS
<1>4. batch' = [batch EXCEPT ![a] = d]
  BY <1>2, <1>3
<1>5. DOMAIN c = BatchFields
  BY DEF PhaseFits, Sane
<1>6. d.pending = p /\ d.bare = batch[a].bare /\ Sane(verified', d) /\ Occupied(d)
  BY <1>3, <1>5 DEF BatchFields, PhaseFits, Sane, Occupied
<1>7. CASE batch[a].bare
  <2>1. Working(stepRows', verified', d)
    BY <1>2, <1>6, <1>7 DEF Working, PendingFits
  <2> QED BY <1>1, <1>4, <1>6, <2>1, SoleMoves
<1>8. CASE ~batch[a].bare
  <2>1. p = row
    BY <1>2, <1>8
  <2>2. KnowsRows(stepRows, d) /\ RowFits(stepRows, verified', key, data)
    BY <1>3, <1>8, <2>1 DEF PhaseFits
  <2>3. p # <<>> /\ p[1].key = key /\ p[1].data = data
    BY <2>1
  <2>4. RowsOf(stepRows, key) = <<>>
    BY <1>8, NothingToReuse
  <2>5. PendingFits(stepRows, verified', d)
    BY <1>6, <1>8, <2>1, <2>2, <2>3, <2>4 DEF PendingFits
  <2>6. Working(stepRows', verified', d)
    BY <1>6, <2>2, <2>5 DEF Working
  <2> QED BY <1>1, <1>4, <1>6, <2>6, SoleMoves
<1> QED BY <1>7, <1>8

\* An attempt that is about to begin a phase.
LEMMA PhaseBegins ==
  ASSUME SoleInv, ~managed, ~overlapping, NEW a \in Try, NEW stage, InStage(a, stage),
         stage \in {"plan", "retrieve", "claim", "verify", "synthesize", "write"}, NEW b, b = batch[a]
  PROVE  /\ Occupied(b) /\ b.stage = stage /\ b.pending = <<>> /\ Sane(verified, b)
         /\ ~b.bare => KnowsRows(stepRows, b)
         /\ b.plan = <<Sole>> /\ b.results = <<>> /\ Asked(b) = Sole
<1>1. Occupied(b) /\ b.stage = stage /\ b.pending = <<>>
  BY DEF InStage, Occupied
<1>2. Working(stepRows, verified, b)
  BY <1>1 DEF SoleInv
<1>3. Sane(verified, b) /\ (~b.bare => KnowsRows(stepRows, b))
  BY <1>2 DEF Working
<1>4. b.plan = <<Sole>> /\ b.results = <<>>
  BY <1>1, <1>3 DEF Sane
<1>5. Len(<<>>) + 1 = 1 /\ <<Sole>>[1] = Sole
  OBVIOUS
<1> QED BY <1>1, <1>3, <1>4, <1>5 DEF Asked

LEMMA SolePlans ==
  ASSUME SoleInv, ~managed, ~overlapping, NEW a \in Try, PlanQueries(a)
  PROVE  SoleInv'
<1>1. PICK b : b = batch[a]
  OBVIOUS
<1>2. InStage(a, "plan")
  BY DEF PlanQueries, Phase
<1>3. /\ Occupied(b) /\ b.stage = "plan" /\ b.pending = <<>> /\ Sane(verified, b)
      /\ b.plan = <<Sole>> /\ b.results = <<>> /\ Asked(b) = Sole
  BY <1>1, <1>2, PhaseBegins
<1>4. <<"plan", Asked(batch[a])>> = PlanKey
  BY <1>1, <1>3 DEF PlanKey
<1>5. ASSUME NEW data, NEW c, c = TakeQueries(b, data)
      PROVE  PhaseFits(stepRows, verified, b, PlanKey, data, c)
  <2>1. /\ DOMAIN c = BatchFields /\ c.stage = "retrieve" /\ c.pending = <<>> /\ c.bare = b.bare
        /\ c.plan = <<Sole>> /\ c.results = <<>> /\ c.query = data
    BY <1>3, <1>5 DEF TakeQueries, Sane, BatchFields
  <2>2. Occupied(c) /\ Sane(verified, c)
    BY <2>1 DEF Occupied, Sane
  <2>3. RowFits(stepRows, verified, PlanKey, data)
    BY KeyKinds DEF RowFits, Kinds
  <2>4. RowsOf(stepRows, PlanKey) = <<data>> => KnowsRows(stepRows, c)
    BY <2>1 DEF KnowsRows, Knows
  <2>5. ASSUME NEW p, p = <<[key |-> PlanKey, data |-> data]>>
        PROVE  KnowsRows(stepRows, [c EXCEPT !.pending = p])
    <3>1. PICK d : d = [c EXCEPT !.pending = p]
      OBVIOUS
    <3>2. d.stage = "retrieve" /\ d.query = data /\ d.pending = p
      BY <2>1, <3>1 DEF BatchFields
    <3> QED BY <2>5, <3>1, <3>2 DEF KnowsRows, Knows
  <2> QED BY <2>1, <2>2, <2>3, <2>4, <2>5 DEF PhaseFits
<1>6. CASE Recovers(a, PlanKey, TakeQueries)
  <2>1. PICK data \in Reusable(b, PlanKey) : batch' = [batch EXCEPT ![a] = TakeQueries(b, data)]
    BY <1>1, <1>6 DEF Recovers
  <2>2. PICK c : c = TakeQueries(b, data)
    OBVIOUS
  <2>3. batch' = [batch EXCEPT ![a] = c]
        /\ UNCHANGED <<managed, stepRows, newest, verified, overlapping, mishaps>>
    BY <1>6, <2>1, <2>2 DEF Recovers
  <2> QED BY <1>1, <1>3, <1>5, <2>2, <2>3, RecoveryMoves, KeyKinds
<1>7. ASSUME NEW data, Computes(a, PlanKey, data, TakeQueries), UNCHANGED verified
      PROVE  SoleInv'
  <2>1. PICK c : c = TakeQueries(b, data)
    OBVIOUS
  <2>2. /\ batch' = [batch EXCEPT ![a] = [c EXCEPT
             !.pending = IF batch[a].bare THEN <<>> ELSE <<[key |-> PlanKey, data |-> data]>>]]
        /\ UNCHANGED <<managed, stepRows, newest, overlapping, mishaps>>
        /\ Reusable(batch[a], PlanKey) = {} /\ verified \subseteq verified'
    BY <1>1, <1>7, <2>1 DEF Computes
  <2>3. PhaseFits(stepRows, verified', batch[a], PlanKey, data, c)
    BY <1>1, <1>5, <1>7, <2>1
  <2> QED BY <1>1, <1>3, <2>2, <2>3, ComputationMoves
<1> QED BY <1>4, <1>6, <1>7 DEF PlanQueries, Phase

\* What an execution that has nothing to record knows.
LEMMA HeldRows ==
  ASSUME NEW t, NEW b, KnowsRows(t, b), b.pending = <<>>
  PROVE  /\ b.stage \in {"retrieve", "claim", "verify", "synthesize", "write"} =>
              RowsOf(t, PlanKey) = <<b.query>>
         /\ b.stage \in {"claim", "verify", "synthesize", "write"} =>
              RowsOf(t, EvidenceKey(b.query)) = <<b.evidence>>
         /\ b.stage = "verify" => RowsOf(t, ClaimsKey(b.evidence)) = <<b.claims>>
         /\ b.stage \in {"synthesize", "write"} =>
              /\ Live(t, ClaimsKey(b.evidence))
              /\ RowsOf(t, VerdictKey(RowsOf(t, ClaimsKey(b.evidence))[1], b.evidence)) =
                   <<[claims |-> b.claims, assessed |-> b.assessed]>>
<1>1. \A key, data : Knows(t, b, key, data) => RowsOf(t, key) = <<data>>
  BY DEF Knows
<1> QED BY <1>1 DEF KnowsRows

\* An execution that has answered its one question.
LEMMA SoleAnswer ==
  ASSUME NEW accepted, NEW b, Sane(accepted, b), b.pending = <<>>,
         b.plan = <<Sole>>, b.results = <<>>,
         NEW result, CitedResult(accepted, result), NEW c, c = Answered(b, result)
  PROVE  /\ Occupied(c) /\ Sane(accepted, c) /\ c.pending = <<>> /\ c.bare = b.bare
         /\ \A t : KnowsRows(t, c)
         /\ \A t, p : KnowsRows(t, [c EXCEPT !.pending = p])
<1>1. Append(b.results, result) = <<result>> /\ Len(<<result>>) = Len(b.plan)
  <2>1. Append(<<>>, result) = <<result>> /\ Len(<<result>>) = 1 /\ Len(<<Sole>>) = 1
    OBVIOUS
  <2> QED BY <2>1
<1>2. /\ DOMAIN c = BatchFields /\ c.stage = "assess" /\ c.pending = <<>> /\ c.bare = b.bare
      /\ c.results = <<result>>
  BY <1>1 DEF Answered, Sane, BatchFields
<1>3. \A i \in DOMAIN <<result>> : <<result>>[i] = result
  OBVIOUS
<1>4. Occupied(c) /\ Sane(accepted, c)
  BY <1>2, <1>3 DEF Occupied, Sane
<1>5. \A t : KnowsRows(t, c)
  BY <1>2 DEF KnowsRows
<1>6. ASSUME NEW t, NEW p PROVE KnowsRows(t, [c EXCEPT !.pending = p])
  <2>1. PICK d : d = [c EXCEPT !.pending = p]
    OBVIOUS
  <2>2. d.stage = "assess"
    BY <1>2, <2>1 DEF BatchFields
  <2> QED BY <2>1, <2>2 DEF KnowsRows
<1> QED BY <1>2, <1>4, <1>5, <1>6

LEMMA NoAnswerFits ==
  ASSUME NEW t, NEW accepted, NEW b, Sane(accepted, b), b.pending = <<>>,
         b.plan = <<Sole>>, b.results = <<>>, NEW c, c = NoAnswer(b),
         NEW key, NEW data, ~b.bare => RowFits(t, accepted, key, data)
  PROVE  PhaseFits(t, accepted, b, key, data, c)
<1>1. CitedResult(accepted, [claims |-> <<>>, cites |-> <<>>, text |-> <<>>])
  BY DEF CitedResult
<1>2. c = Answered(b, [claims |-> <<>>, cites |-> <<>>, text |-> <<>>])
  BY DEF NoAnswer
<1>3. /\ Occupied(c) /\ Sane(accepted, c) /\ c.pending = <<>> /\ c.bare = b.bare
      /\ \A u : KnowsRows(u, c)
      /\ \A u, p : KnowsRows(u, [c EXCEPT !.pending = p])
  BY <1>1, <1>2, SoleAnswer, SMTT(30)
<1> QED BY <1>3 DEF PhaseFits

LEMMA SoleRetrieves ==
  ASSUME SoleInv, ~managed, ~overlapping, NEW a \in Try, Retrieve(a)
  PROVE  SoleInv'
<1>1. PICK b : b = batch[a]
  OBVIOUS
<1>2. InStage(a, "retrieve")
  BY DEF Retrieve, Phase
<1>3. /\ Occupied(b) /\ b.stage = "retrieve" /\ b.pending = <<>> /\ Sane(verified, b)
      /\ b.plan = <<Sole>> /\ b.results = <<>> /\ Asked(b) = Sole
      /\ ~b.bare => KnowsRows(stepRows, b)
  BY <1>1, <1>2, PhaseBegins
<1>4. PICK key : key = EvidenceKey(b.query)
  OBVIOUS
<1>5. <<"retrieve", Asked(batch[a]), batch[a].query>> = key /\ key[1] = "retrieve"
  BY <1>1, <1>3, <1>4 DEF EvidenceKey
<1>6. ASSUME NEW data, NEW c, c = TakeEvidence(b, data)
      PROVE  PhaseFits(stepRows, verified, b, key, data, c)
  <2>1. /\ DOMAIN c = BatchFields /\ c.stage = "claim" /\ c.pending = <<>> /\ c.bare = b.bare
        /\ c.plan = <<Sole>> /\ c.results = <<>> /\ c.query = b.query /\ c.evidence = data
    BY <1>3, <1>6 DEF TakeEvidence, Sane, BatchFields
  <2>2. Occupied(c) /\ Sane(verified, c)
    BY <2>1 DEF Occupied, Sane
  <2>3. SUFFICES ASSUME ~b.bare
                 PROVE  /\ RowFits(stepRows, verified, key, data)
                        /\ RowsOf(stepRows, key) = <<data>> => KnowsRows(stepRows, c)
                        /\ \A p : p = <<[key |-> key, data |-> data]>> =>
                                    KnowsRows(stepRows, [c EXCEPT !.pending = p])
    BY <2>1, <2>2 DEF PhaseFits
  <2>4. RowsOf(stepRows, PlanKey) = <<b.query>>
    BY <1>3, <2>3, HeldRows
  <2>5. RowFits(stepRows, verified, key, data)
    <3>1. HasPlan(stepRows) /\ RowQuery(stepRows) = b.query
      BY <1>3, <2>3, KnownRows
    <3> QED BY <1>4, <1>5, <3>1 DEF RowFits, Kinds
  <2>6. RowsOf(stepRows, key) = <<data>> => KnowsRows(stepRows, c)
    BY <1>4, <2>1, <2>4 DEF KnowsRows, Knows
  <2>7. ASSUME NEW p, p = <<[key |-> key, data |-> data]>>
        PROVE  KnowsRows(stepRows, [c EXCEPT !.pending = p])
    <3>1. PICK d : d = [c EXCEPT !.pending = p]
      OBVIOUS
    <3>2. d.stage = "claim" /\ d.query = b.query /\ d.evidence = data /\ d.pending = p
      BY <2>1, <3>1 DEF BatchFields
    <3> QED BY <1>4, <2>4, <2>7, <3>1, <3>2 DEF KnowsRows, Knows
  <2> QED BY <2>5, <2>6, <2>7
<1>7. CASE Recovers(a, key, TakeEvidence)
  <2>1. PICK data \in Reusable(b, key) : batch' = [batch EXCEPT ![a] = TakeEvidence(b, data)]
    BY <1>1, <1>7 DEF Recovers
  <2>2. PICK c : c = TakeEvidence(b, data)
    OBVIOUS
  <2>3. batch' = [batch EXCEPT ![a] = c]
        /\ UNCHANGED <<managed, stepRows, newest, verified, overlapping, mishaps>>
    BY <1>7, <2>1, <2>2 DEF Recovers
  <2>4. PhaseFits(stepRows, verified, b, key, data, c)
    BY <1>6, <2>2
  <2> QED BY <1>1, <1>3, <1>5, <2>3, <2>4, RecoveryMoves
<1>8. ASSUME NEW data, Computes(a, key, data, TakeEvidence), UNCHANGED verified
      PROVE  SoleInv'
  <2>1. PICK c : c = TakeEvidence(b, data)
    OBVIOUS
  <2>2. /\ batch' = [batch EXCEPT ![a] = [c EXCEPT
             !.pending = IF batch[a].bare THEN <<>> ELSE <<[key |-> key, data |-> data]>>]]
        /\ UNCHANGED <<managed, stepRows, newest, overlapping, mishaps>>
        /\ Reusable(batch[a], key) = {} /\ verified \subseteq verified'
    BY <1>1, <1>8, <2>1 DEF Computes
  <2>3. PhaseFits(stepRows, verified', batch[a], key, data, c)
    BY <1>1, <1>6, <1>8, <2>1
  <2> QED BY <1>1, <1>3, <2>2, <2>3, ComputationMoves
<1> QED BY <1>5, <1>7, <1>8 DEF Retrieve, Phase

LEMMA SoleDrafts ==
  ASSUME SoleInv, ~managed, ~overlapping, NEW a \in Try, Draft(a)
  PROVE  SoleInv'
<1>1. PICK b : b = batch[a]
  OBVIOUS
<1>2. InStage(a, "claim")
  BY DEF Draft, Phase
<1>3. /\ Occupied(b) /\ b.stage = "claim" /\ b.pending = <<>> /\ Sane(verified, b)
      /\ b.plan = <<Sole>> /\ b.results = <<>> /\ Asked(b) = Sole
      /\ ~b.bare => KnowsRows(stepRows, b)
  BY <1>1, <1>2, PhaseBegins
<1>4. PICK key : key = ClaimsKey(b.evidence)
  OBVIOUS
<1>5. <<"claim", Asked(batch[a]), Len(batch[a].evidence)>> = key /\ key[1] = "claim"
  BY <1>1, <1>3, <1>4 DEF ClaimsKey
<1>6. ASSUME NEW data, NEW c, c = TakeClaims(b, data)
      PROVE  PhaseFits(stepRows, verified, b, key, data, c)
  <2>1. ~b.bare => RowFits(stepRows, verified, key, data)
    <3>1. ~b.bare => HasEvidence(stepRows) /\ RowEvidence(stepRows) = b.evidence
      BY <1>3, KnownRows
    <3> QED BY <1>4, <1>5, <3>1 DEF RowFits, Kinds
  <2>2. CASE data = <<>>
    <3>1. c = NoAnswer(b)
      BY <1>6, <2>2 DEF TakeClaims
    <3> QED BY <1>3, <2>1, <3>1, NoAnswerFits
  <2>3. CASE data # <<>>
    <3>1. /\ DOMAIN c = BatchFields /\ c.stage = "verify" /\ c.pending = <<>> /\ c.bare = b.bare
          /\ c.plan = <<Sole>> /\ c.results = <<>> /\ c.query = b.query
          /\ c.evidence = b.evidence /\ c.claims = data
      BY <1>3, <1>6, <2>3 DEF TakeClaims, Sane, BatchFields
    <3>2. Occupied(c) /\ Sane(verified, c)
      BY <3>1 DEF Occupied, Sane
    <3>3. SUFFICES ASSUME ~b.bare
                   PROVE  /\ RowsOf(stepRows, key) = <<data>> => KnowsRows(stepRows, c)
                          /\ \A p : p = <<[key |-> key, data |-> data]>> =>
                                      KnowsRows(stepRows, [c EXCEPT !.pending = p])
      BY <2>1, <3>1, <3>2 DEF PhaseFits
    <3>4. RowsOf(stepRows, PlanKey) = <<b.query>> /\ RowsOf(stepRows, EvidenceKey(b.query)) = <<b.evidence>>
      BY <1>3, <3>3, HeldRows
    <3>5. RowsOf(stepRows, key) = <<data>> => KnowsRows(stepRows, c)
      BY <1>4, <3>1, <3>4 DEF KnowsRows, Knows
    <3>6. ASSUME NEW p, p = <<[key |-> key, data |-> data]>>
          PROVE  KnowsRows(stepRows, [c EXCEPT !.pending = p])
      <4>1. PICK d : d = [c EXCEPT !.pending = p]
        OBVIOUS
      <4>2. /\ d.stage = "verify" /\ d.query = b.query /\ d.evidence = b.evidence
            /\ d.claims = data /\ d.pending = p
        BY <3>1, <4>1 DEF BatchFields
      <4> QED BY <1>4, <3>4, <3>6, <4>1, <4>2 DEF KnowsRows, Knows
    <3> QED BY <3>5, <3>6
  <2> QED BY <2>2, <2>3
<1>7. CASE Recovers(a, key, TakeClaims)
  <2>1. PICK data \in Reusable(b, key) : batch' = [batch EXCEPT ![a] = TakeClaims(b, data)]
    BY <1>1, <1>7 DEF Recovers
  <2>2. PICK c : c = TakeClaims(b, data)
    OBVIOUS
  <2>3. batch' = [batch EXCEPT ![a] = c]
        /\ UNCHANGED <<managed, stepRows, newest, verified, overlapping, mishaps>>
    BY <1>7, <2>1, <2>2 DEF Recovers
  <2>4. PhaseFits(stepRows, verified, b, key, data, c)
    BY <1>6, <2>2
  <2> QED BY <1>1, <1>3, <1>5, <2>3, <2>4, RecoveryMoves
<1>8. ASSUME NEW data, Computes(a, key, data, TakeClaims), UNCHANGED verified
      PROVE  SoleInv'
  <2>1. PICK c : c = TakeClaims(b, data)
    OBVIOUS
  <2>2. /\ batch' = [batch EXCEPT ![a] = [c EXCEPT
             !.pending = IF batch[a].bare THEN <<>> ELSE <<[key |-> key, data |-> data]>>]]
        /\ UNCHANGED <<managed, stepRows, newest, overlapping, mishaps>>
        /\ Reusable(batch[a], key) = {} /\ verified \subseteq verified'
    BY <1>1, <1>8, <2>1 DEF Computes
  <2>3. PhaseFits(stepRows, verified', batch[a], key, data, c)
    BY <1>1, <1>6, <1>8, <2>1
  <2> QED BY <1>1, <1>3, <2>2, <2>3, ComputationMoves
<1> QED BY <1>5, <1>7, <1>8 DEF Draft, Phase

LEMMA SaneGrows ==
  ASSUME NEW few, NEW many, few \subseteq many, NEW b, Sane(few, b)
  PROVE  Sane(many, b)
<1>1. \A r : CitedResult(few, r) => CitedResult(many, r)
  BY DEF CitedResult
<1> QED BY <1>1, CitedFromGrows DEF Sane

\* An execution takes a verdict, one that it found or one that it got.
LEMMA VerdictFits ==
  ASSUME NEW t, NEW accepted, NEW b, Sane(accepted, b), b.stage = "verify", b.pending = <<>>,
         b.plan = <<Sole>>, b.results = <<>>, ~b.bare => KnowsRows(t, b),
         NEW key, key = VerdictKey(b.claims, b.evidence),
         NEW data, data = [claims |-> data.claims, assessed |-> data.assessed],
         CitedFrom(accepted, b.evidence, data), NEW c, c = TakeVerified(b, data)
  PROVE  PhaseFits(t, accepted, b, key, data, c)
<1>1. ~b.bare => RowFits(t, accepted, key, data)
  <2>1. ~b.bare => HasClaims(t) /\ RowClaims(t) = b.claims /\ RowEvidence(t) = b.evidence
    BY KnownRows
  <2> QED BY <2>1, KeyKinds DEF RowFits, Kinds
<1>2. PICK d : d = [b EXCEPT !.claims = data.claims, !.assessed = data.assessed,
                             !.stage = "synthesize"]
  OBVIOUS
<1>3. /\ DOMAIN d = BatchFields /\ d.stage = "synthesize" /\ d.pending = <<>> /\ d.bare = b.bare
      /\ d.plan = <<Sole>> /\ d.results = <<>> /\ d.query = b.query /\ d.evidence = b.evidence
      /\ d.claims = data.claims /\ d.assessed = data.assessed
  BY <1>2 DEF Sane, BatchFields
<1>4. Occupied(d) /\ Sane(accepted, d)
  BY <1>3 DEF Occupied, Sane
<1>5. CASE Supported(d) = {}
  <2>1. c = NoAnswer(d)
    BY <1>2, <1>5 DEF TakeVerified
  <2>2. PhaseFits(t, accepted, d, key, data, c)
    BY <1>1, <1>3, <1>4, <2>1, NoAnswerFits
  <2> QED BY <1>3, <2>2 DEF PhaseFits
<1>6. CASE Supported(d) # {}
  <2>1. c = d
    BY <1>2, <1>6 DEF TakeVerified
  <2>2. SUFFICES ASSUME ~b.bare
                 PROVE  /\ RowsOf(t, key) = <<data>> => KnowsRows(t, d)
                        /\ \A p : p = <<[key |-> key, data |-> data]>> =>
                                    KnowsRows(t, [d EXCEPT !.pending = p])
    BY <1>1, <1>3, <1>4, <2>1 DEF PhaseFits
  <2>3. /\ RowsOf(t, PlanKey) = <<b.query>> /\ RowsOf(t, EvidenceKey(b.query)) = <<b.evidence>>
        /\ RowsOf(t, ClaimsKey(b.evidence)) = <<b.claims>>
    BY <2>2, HeldRows
  <2>4. Live(t, ClaimsKey(b.evidence)) /\ RowsOf(t, ClaimsKey(b.evidence))[1] = b.claims
    BY <2>3 DEF Live
  <2>5. RowsOf(t, key) = <<data>> => KnowsRows(t, d)
    BY <1>3, <2>3, <2>4 DEF KnowsRows, Knows
  <2>6. ASSUME NEW p, p = <<[key |-> key, data |-> data]>>
        PROVE  KnowsRows(t, [d EXCEPT !.pending = p])
    <3>1. PICK e : e = [d EXCEPT !.pending = p]
      OBVIOUS
    <3>2. /\ e.stage = "synthesize" /\ e.query = b.query /\ e.evidence = b.evidence
          /\ e.claims = data.claims /\ e.assessed = data.assessed /\ e.pending = p
      BY <1>3, <3>1 DEF BatchFields
    <3> QED BY <2>3, <2>4, <2>6, <3>1, <3>2 DEF KnowsRows, Knows
  <2> QED BY <2>5, <2>6
<1> QED BY <1>5, <1>6

LEMMA SoleVerifies ==
  ASSUME SoleInv, ~managed, ~overlapping, NEW a \in Try, Verify(a)
  PROVE  SoleInv'
<1>1. PICK b : b = batch[a]
  OBVIOUS
<1>2. InStage(a, "verify")
  BY DEF Verify
<1>3. /\ Occupied(b) /\ b.stage = "verify" /\ b.pending = <<>> /\ Sane(verified, b)
      /\ b.plan = <<Sole>> /\ b.results = <<>>
      /\ ~b.bare => KnowsRows(stepRows, b)
  BY <1>1, <1>2, PhaseBegins
<1>4. PICK key : key = VerdictKey(b.claims, b.evidence)
  OBVIOUS
<1>5. key = <<"verify", Len(batch[a].claims), Len(batch[a].evidence)>> /\ key[1] = "verify"
  BY <1>1, <1>4 DEF VerdictKey
<1>6. CASE Recovers(a, key, TakeVerified)
  <2>1. PICK data \in Reusable(b, key) : batch' = [batch EXCEPT ![a] = TakeVerified(b, data)]
    BY <1>1, <1>6 DEF Recovers
  <2>2. PICK c : c = TakeVerified(b, data)
    OBVIOUS
  <2>3. batch' = [batch EXCEPT ![a] = c]
        /\ UNCHANGED <<managed, stepRows, newest, verified, overlapping, mishaps>>
    BY <1>6, <2>1, <2>2 DEF Recovers
  <2>4. ~b.bare /\ RowFits(stepRows, verified, key, data)
    BY <1>5, RecoveredRow
  <2>5. RowEvidence(stepRows) = b.evidence
    BY <1>3, <2>4, KnownRows
  <2>6. /\ CitedFrom(verified, b.evidence, data)
        /\ data = [claims |-> data.claims, assessed |-> data.assessed]
    BY <1>5, <2>4, <2>5 DEF RowFits
  <2>7. PhaseFits(stepRows, verified, b, key, data, c)
    BY <1>3, <1>4, <2>2, <2>6, VerdictFits
  <2> QED BY <1>1, <1>3, <1>5, <2>3, <2>7, RecoveryMoves
<1>7. ASSUME NEW claims, NEW assessed,
             Computes(a, key, [claims |-> claims, assessed |-> assessed], TakeVerified),
             verified' = verified \cup Accepted([b EXCEPT !.claims = claims, !.assessed = assessed])
      PROVE  SoleInv'
  <2>1. PICK data : data = [claims |-> claims, assessed |-> assessed]
    OBVIOUS
  <2>2. PICK c : c = TakeVerified(b, data)
    OBVIOUS
  <2>3. /\ batch' = [batch EXCEPT ![a] = [c EXCEPT
             !.pending = IF batch[a].bare THEN <<>> ELSE <<[key |-> key, data |-> data]>>]]
        /\ UNCHANGED <<managed, stepRows, newest, overlapping, mishaps>>
        /\ Reusable(batch[a], key) = {} /\ verified \subseteq verified'
    BY <1>1, <1>7, <2>1, <2>2 DEF Computes
  <2>4. data.claims = claims /\ data.assessed = assessed
        /\ data = [claims |-> data.claims, assessed |-> data.assessed]
    BY <2>1
  <2>5. CitedFrom(verified', b.evidence, data)
    <3>1. PICK d : d = [b EXCEPT !.claims = claims, !.assessed = assessed]
      OBVIOUS
    <3>2. d.claims = claims /\ d.assessed = assessed /\ d.evidence = b.evidence
      BY <1>3, <3>1 DEF Sane, BatchFields
    <3>3. Accepted(d) \subseteq verified'
      BY <1>7, <3>1
    <3>4. ASSUME NEW k \in DOMAIN claims, assessed[k].supported
          PROVE  [text |-> claims[k], passages |-> {b.evidence[n] : n \in assessed[k].cites}]
                   \in verified'
      <4>1. k \in Supported(d)
        BY <3>2, <3>4 DEF Supported
      <4>2. [text |-> d.claims[k], passages |-> Quoted(d, k)] \in Accepted(d)
        BY <4>1, Zenon DEF Accepted
      <4>3. Quoted(d, k) = {b.evidence[n] : n \in assessed[k].cites}
        BY <3>2, Zenon DEF Quoted
      <4> QED BY <3>2, <3>3, <4>2, <4>3
    <3> QED BY <2>4, <3>4 DEF CitedFrom
  <2>6. Sane(verified', b)
    BY <1>3, <2>3, SaneGrows
  <2>7. PhaseFits(stepRows, verified', batch[a], key, data, c)
    BY <1>1, <1>3, <1>4, <2>2, <2>4, <2>5, <2>6, VerdictFits
  <2> QED BY <1>1, <1>3, <2>3, <2>7, ComputationMoves
<1> QED BY <1>1, <1>5, <1>6, <1>7 DEF Verify

LEMMA SoleSynthesizes ==
  ASSUME SoleInv, ~managed, ~overlapping, NEW a \in Try, Synthesize(a)
  PROVE  SoleInv'
<1>1. PICK b : b = batch[a]
  OBVIOUS
<1>2. InStage(a, "synthesize")
  BY DEF Synthesize, Phase
<1>3. /\ Occupied(b) /\ b.stage = "synthesize" /\ b.pending = <<>> /\ Sane(verified, b)
      /\ b.plan = <<Sole>> /\ b.results = <<>> /\ Asked(b) = Sole
      /\ ~b.bare => KnowsRows(stepRows, b)
  BY <1>1, <1>2, PhaseBegins
<1>4. PICK key : key = <<"synthesize", Supported(batch[a]), Citations(batch[a])>>
  OBVIOUS
<1>5. <<"synthesize", Supported(batch[a]), Citations(batch[a])>> = key /\ key[1] = "synthesize"
  BY <1>4
<1>6. ASSUME NEW data, NEW c, c = TakeCards(b, data)
      PROVE  PhaseFits(stepRows, verified, b, key, data, c)
  <2>1. ASSUME NEW p, NEW d, d = c \/ d = [c EXCEPT !.pending = p]
        PROVE  /\ DOMAIN d = BatchFields /\ d.stage = "write" /\ d.bare = b.bare
               /\ d.plan = <<Sole>> /\ d.results = <<>> /\ d.query = b.query
               /\ d.evidence = b.evidence /\ d.claims = b.claims /\ d.assessed = b.assessed
    BY <1>3, <1>6, <2>1 DEF TakeCards, Sane, BatchFields
  <2>2. c.pending = <<>>
    BY <1>3, <1>6 DEF TakeCards, Sane, BatchFields
  <2>3. Occupied(c) /\ Sane(verified, c)
    BY <1>3, <2>1 DEF Occupied, Sane
  <2>4. SUFFICES ASSUME ~b.bare
                 PROVE  /\ RowFits(stepRows, verified, key, data)
                        /\ KnowsRows(stepRows, c)
                        /\ \A p : KnowsRows(stepRows, [c EXCEPT !.pending = p])
    BY <2>1, <2>2, <2>3 DEF PhaseFits
  <2>5. RowFits(stepRows, verified, key, data)
    <3>1. HasVerdict(stepRows)
      BY <1>3, <2>4, KnownRows
    <3> QED BY <1>5, <3>1 DEF RowFits, Kinds
  <2>6. /\ RowsOf(stepRows, PlanKey) = <<b.query>>
        /\ RowsOf(stepRows, EvidenceKey(b.query)) = <<b.evidence>>
        /\ Live(stepRows, ClaimsKey(b.evidence))
        /\ RowsOf(stepRows, VerdictKey(RowsOf(stepRows, ClaimsKey(b.evidence))[1], b.evidence)) =
             <<[claims |-> b.claims, assessed |-> b.assessed]>>
    BY <1>3, <2>4, HeldRows
  <2>7. ASSUME NEW p, NEW d, d = c \/ d = [c EXCEPT !.pending = p]
        PROVE  KnowsRows(stepRows, d)
    <3>1. /\ d.stage = "write" /\ d.query = b.query /\ d.evidence = b.evidence
          /\ d.claims = b.claims /\ d.assessed = b.assessed
      BY <2>1, <2>7
    <3> QED BY <2>6, <3>1 DEF KnowsRows, Knows
  <2> QED BY <2>5, <2>7
<1>7. CASE Recovers(a, key, TakeCards)
  <2>1. PICK data \in Reusable(b, key) : batch' = [batch EXCEPT ![a] = TakeCards(b, data)]
    BY <1>1, <1>7 DEF Recovers
  <2>2. PICK c : c = TakeCards(b, data)
    OBVIOUS
  <2>3. batch' = [batch EXCEPT ![a] = c]
        /\ UNCHANGED <<managed, stepRows, newest, verified, overlapping, mishaps>>
    BY <1>7, <2>1, <2>2 DEF Recovers
  <2>4. PhaseFits(stepRows, verified, b, key, data, c)
    BY <1>6, <2>2
  <2> QED BY <1>1, <1>3, <1>5, <2>3, <2>4, RecoveryMoves
<1>8. ASSUME NEW data, Computes(a, key, data, TakeCards), UNCHANGED verified
      PROVE  SoleInv'
  <2>1. PICK c : c = TakeCards(b, data)
    OBVIOUS
  <2>2. /\ batch' = [batch EXCEPT ![a] = [c EXCEPT
             !.pending = IF batch[a].bare THEN <<>> ELSE <<[key |-> key, data |-> data]>>]]
        /\ UNCHANGED <<managed, stepRows, newest, overlapping, mishaps>>
        /\ Reusable(batch[a], key) = {} /\ verified \subseteq verified'
    BY <1>1, <1>8, <2>1 DEF Computes
  <2>3. PhaseFits(stepRows, verified', batch[a], key, data, c)
    BY <1>1, <1>6, <1>8, <2>1
  <2> QED BY <1>1, <1>3, <2>2, <2>3, ComputationMoves
<1> QED BY <1>5, <1>7, <1>8 DEF Synthesize, Phase

LEMMA SoleWrites ==
  ASSUME SoleInv, ~managed, ~overlapping, NEW a \in Try, Write(a)
  PROVE  SoleInv'
<1>1. PICK b : b = batch[a]
  OBVIOUS
<1>2. InStage(a, "write")
  BY DEF Write, Phase
<1>3. /\ Occupied(b) /\ b.stage = "write" /\ b.pending = <<>> /\ Sane(verified, b)
      /\ b.plan = <<Sole>> /\ b.results = <<>> /\ Asked(b) = Sole
      /\ ~b.bare => KnowsRows(stepRows, b)
  BY <1>1, <1>2, PhaseBegins
<1>4. PICK key : key = <<"write", Asked(batch[a]), Supported(batch[a]), batch[a].cards>>
  OBVIOUS
<1>5. <<"write", Asked(batch[a]), Supported(batch[a]), batch[a].cards>> = key /\ key[1] = "write"
  BY <1>4
<1>6. ASSUME NEW data, data \in {<<>>, AcceptedTexts(b)}, NEW c, c = TakeDocument(b, data)
      PROVE  PhaseFits(stepRows, verified, b, key, data, c)
  <2>1. ~b.bare => RowFits(stepRows, verified, key, data)
    <3>1. ~b.bare => /\ HasVerdict(stepRows)
                     /\ RowVerdict(stepRows) = [claims |-> b.claims, assessed |-> b.assessed]
      BY <1>3, KnownRows
    <3>2. VerdictTexts([claims |-> b.claims, assessed |-> b.assessed]) = AcceptedTexts(b)
      BY DEF VerdictTexts, AcceptedTexts, Supported
    <3> QED BY <1>5, <1>6, <3>1, <3>2 DEF RowFits, Kinds
  <2>2. PICK result : result = [claims |-> AcceptedTexts(b), cites |-> AcceptedCites(b),
                                text |-> AcceptedTexts(b)]
    OBVIOUS
  <2>3. c = Answered(b, result)
    <3>1. CASE data = <<>>
      BY <1>6, <2>2, <3>1 DEF TakeDocument
    <3>2. CASE data # <<>>
      BY <1>6, <2>2, <3>2 DEF TakeDocument
    <3> QED BY <3>1, <3>2
  <2>4. CitedResult(verified, result)
    <3>1. CitedFrom(verified, b.evidence, [claims |-> b.claims, assessed |-> b.assessed])
      BY <1>3 DEF Sane
    <3>2. \A k \in Supported(b) :
            [text |-> b.claims[k], passages |-> Quoted(b, k)] \in verified
      BY <3>1 DEF CitedFrom, Supported, Quoted
    <3>3. /\ DOMAIN result.claims = Supported(b) /\ result.text = result.claims
          /\ \A k \in Supported(b) : result.claims[k] = b.claims[k] /\ result.cites[k] = Quoted(b, k)
      BY <2>2 DEF AcceptedTexts, AcceptedCites
    <3> QED BY <3>2, <3>3 DEF CitedResult
  <2>5. /\ Occupied(c) /\ Sane(verified, c) /\ c.pending = <<>> /\ c.bare = b.bare
        /\ \A t : KnowsRows(t, c)
        /\ \A t, p : KnowsRows(t, [c EXCEPT !.pending = p])
    BY <1>3, <2>3, <2>4, SoleAnswer
  <2> QED BY <2>1, <2>5 DEF PhaseFits
<1>7. CASE Recovers(a, key, TakeDocument)
  <2>1. PICK data \in Reusable(b, key) : batch' = [batch EXCEPT ![a] = TakeDocument(b, data)]
    BY <1>1, <1>7 DEF Recovers
  <2>2. PICK c : c = TakeDocument(b, data)
    OBVIOUS
  <2>3. batch' = [batch EXCEPT ![a] = c]
        /\ UNCHANGED <<managed, stepRows, newest, verified, overlapping, mishaps>>
    BY <1>7, <2>1, <2>2 DEF Recovers
  <2>4. ~b.bare /\ RowFits(stepRows, verified, key, data)
    BY <1>5, RecoveredRow
  <2>5. RowVerdict(stepRows) = [claims |-> b.claims, assessed |-> b.assessed]
    BY <1>3, <2>4, KnownRows
  <2>6. data \in {<<>>, VerdictTexts([claims |-> b.claims, assessed |-> b.assessed])}
    BY <1>5, <2>4, <2>5 DEF RowFits
  <2>7. VerdictTexts([claims |-> b.claims, assessed |-> b.assessed]) = AcceptedTexts(b)
    BY DEF VerdictTexts, AcceptedTexts, Supported
  <2>8. PhaseFits(stepRows, verified, b, key, data, c)
    BY <1>6, <2>2, <2>6, <2>7
  <2> QED BY <1>1, <1>3, <1>5, <2>3, <2>8, RecoveryMoves
<1>8. ASSUME NEW data \in Composed(batch[a]), Computes(a, key, data, TakeDocument), UNCHANGED verified
      PROVE  SoleInv'
  <2>1. PICK c : c = TakeDocument(b, data)
    OBVIOUS
  <2>2. /\ batch' = [batch EXCEPT ![a] = [c EXCEPT
             !.pending = IF batch[a].bare THEN <<>> ELSE <<[key |-> key, data |-> data]>>]]
        /\ UNCHANGED <<managed, stepRows, newest, overlapping, mishaps>>
        /\ Reusable(batch[a], key) = {} /\ verified \subseteq verified'
    BY <1>1, <1>8, <2>1 DEF Computes
  <2>3. data \in {<<>>, AcceptedTexts(b)}
    BY <1>1, <1>8 DEF Composed
  <2>4. PhaseFits(stepRows, verified', batch[a], key, data, c)
    BY <1>1, <1>6, <1>8, <2>1, <2>3
  <2> QED BY <1>1, <1>3, <2>2, <2>4, ComputationMoves
<1> QED BY <1>5, <1>7, <1>8 DEF Write, Phase

LEMMA IdleShape ==
  /\ DOMAIN NoBatch = BatchFields /\ NoBatch.stage = "idle" /\ NoBatch.bare = FALSE
  /\ NoBatch.results = <<>> /\ NoBatch.pending = <<>>
  /\ DOMAIN Ended = BatchFields /\ Ended.stage = "over" /\ Ended.results = <<>> /\ Ended.pending = <<>>
BY DEF NoBatch, Ended, BatchFields

\* An execution that begins knows nothing.
LEMMA SoleBegins ==
  ASSUME ~managed, NEW t, NEW accepted, NEW bare, NEW c, c = Begun(bare)
  PROVE  Occupied(c) /\ Working(t, accepted, c)
<1>1. /\ DOMAIN c = BatchFields /\ c.stage = "plan" /\ c.plan = <<Sole>> /\ c.results = <<>>
      /\ c.pending = <<>>
  BY IdleShape DEF Begun, BatchFields, Sole
<1>2. Occupied(c)
  BY <1>1 DEF Occupied
<1>3. Sane(accepted, c)
  BY <1>1 DEF Sane
<1>4. PendingFits(t, accepted, c) /\ KnowsRows(t, c)
  BY <1>1 DEF PendingFits, KnowsRows
<1> QED BY <1>2, <1>3, <1>4 DEF Working

LEMMA SoleReturns ==
  ASSUME SoleInv, ~managed, ~overlapping, NEW a \in Try, Return(a)
  PROVE  SoleInv'
<1>1. PICK b : b = batch[a]
  OBVIOUS
<1>2. PICK d : batch' = [batch EXCEPT ![a] = [b EXCEPT !.stage = "done", !.disposition = d,
                                      !.pending = <<[key |-> <<"batch">>, data |-> d]>>]]
  BY <1>1 DEF Return
<1>3. PICK row : row = [key |-> <<"batch">>, data |-> d]
  OBVIOUS
<1>4. PICK c : c = [b EXCEPT !.stage = "done", !.disposition = d, !.pending = <<row>>]
  OBVIOUS
<1>5. b.stage = "assess" /\ UNCHANGED <<managed, stepRows, newest, verified, overlapping>>
  BY <1>1 DEF Return, InStage
<1>6. Occupied(b)
  BY <1>5 DEF Occupied
<1>7. Sane(verified, b)
  BY <1>1, <1>6 DEF SoleInv, Working
<1>8. DOMAIN c = BatchFields /\ c.stage = "done" /\ c.pending = <<row>> /\ c.results = b.results
  BY <1>4, <1>7 DEF Sane, BatchFields
<1>9. Occupied(c) /\ Sane(verified, c) /\ KnowsRows(stepRows, c)
  BY <1>7, <1>8 DEF Occupied, Sane, KnowsRows
<1>10. PendingFits(stepRows, verified, c)
  <2>1. <<row>>[1] = row /\ row = [key |-> row.key, data |-> row.data] /\ row.key = <<"batch">>
    BY <1>3
  <2> QED BY <1>8, <2>1 DEF PendingFits
<1>11. Working(stepRows', verified', c)
  BY <1>5, <1>9, <1>10 DEF Working
<1>12. ChainHolds(stepRows', newest', verified')
  BY <1>5 DEF SoleInv
<1>13. batch' = [batch EXCEPT ![a] = c]
  BY <1>2, <1>3, <1>4
<1> QED BY <1>1, <1>5, <1>6, <1>9, <1>11, <1>12, <1>13, SoleMoves

LEMMA SoleRecords ==
  ASSUME SoleInv, ~managed, ~overlapping, NEW a \in Try, RecordRow(a)
  PROVE  SoleInv'
<1>1. PICK b : b = batch[a]
  OBVIOUS
<1>2. PICK row : row = b.pending[1]
  OBVIOUS
<1>3. PICK key : key = row.key
  OBVIOUS
<1>4. PICK data : data = row.data
  OBVIOUS
<1>5. PICK c : c = [b EXCEPT !.pending = <<>>]
  OBVIOUS
<1>6. PICK u : u = [k \in DOMAIN stepRows \cup {key} |->
                      IF k = key THEN Append(Rows(key), data) ELSE stepRows[k]]
  OBVIOUS
<1>7. /\ b.pending # <<>> /\ stepRows' = u /\ newest' = key /\ batch' = [batch EXCEPT ![a] = c]
      /\ UNCHANGED <<managed, verified, overlapping>>
  BY <1>1, <1>2, <1>3, <1>4, <1>5, <1>6 DEF RecordRow
<1>8. Occupied(b)
  BY <1>1, <1>7, IdleShape DEF SoleInv, TakeTurns
<1>9. Sane(verified, b) /\ PendingFits(stepRows, verified, b) /\ (~b.bare => KnowsRows(stepRows, b))
  BY <1>1, <1>8 DEF SoleInv, Working
<1>10. /\ b.pending = <<[key |-> key, data |-> data]>>
       /\ key = <<"batch">> \/ (RowsOf(stepRows, key) = <<>> /\ RowFits(stepRows, verified, key, data))
  BY <1>2, <1>3, <1>4, <1>7, <1>9 DEF PendingFits
<1>11. <<"batch">>[1] = "batch"
  OBVIOUS
<1>12. RowFits(stepRows, verified, key, data)
  <2>1. CASE key = <<"batch">>
    BY <1>11, <2>1 DEF RowFits, Kinds
  <2> QED BY <1>10, <2>1
<1>13. /\ RowsOf(u, key) = Append(RowsOf(stepRows, key), data)
       /\ \A k : k # key => RowsOf(u, k) = RowsOf(stepRows, k)
  BY <1>6 DEF RowsOf, Rows
<1>14. ChainHolds(u, key, verified)
  <2>1. ChainHolds(stepRows, newest, verified)
    BY DEF SoleInv
  <2>2. key[1] = "batch" \/ RowsOf(stepRows, key) = <<>>
    BY <1>10, <1>11
  <2> QED BY <1>12, <1>13, <2>1, <2>2, RowAdded
<1>15. DOMAIN c = BatchFields /\ c.pending = <<>> /\ c.bare = b.bare /\ c.stage = b.stage
       /\ c.plan = b.plan /\ c.results = b.results /\ c.query = b.query
       /\ c.evidence = b.evidence /\ c.claims = b.claims /\ c.assessed = b.assessed
  BY <1>5, <1>9 DEF Sane, BatchFields
<1>16. Occupied(c) /\ Sane(verified, c) /\ PendingFits(u, verified, c)
  BY <1>8, <1>9, <1>15 DEF Occupied, Sane, PendingFits
<1>17. ASSUME ~b.bare PROVE KnowsRows(u, c)
  <2>1. ASSUME NEW k, k[1] # "batch", NEW d, Knows(stepRows, b, k, d)
        PROVE  RowsOf(u, k) = <<d>>
    <3>1. CASE k # key
      <4>1. RowsOf(stepRows, k) = <<d>>
        BY <1>10, <2>1, <3>1 DEF Knows
      <4> QED BY <1>13, <3>1, <4>1
    <3>2. CASE k = key
      <4>1. RowsOf(stepRows, key) = <<>>
        BY <1>10, <1>11, <2>1, <3>2
      <4>2. d = data
        BY <1>10, <2>1, <3>2, <4>1 DEF Knows
      <4>3. Append(<<>>, data) = <<data>>
        OBVIOUS
      <4> QED BY <1>13, <3>2, <4>1, <4>2, <4>3
    <3> QED BY <3>1, <3>2
  <2>2. ASSUME NEW k, k[1] # "batch", Live(stepRows, k)
        PROVE  RowsOf(u, k) = RowsOf(stepRows, k) /\ Live(u, k)
    BY <1>10, <1>11, <1>13, <2>2 DEF Live
  <2>3. KnowsRows(stepRows, b)
    BY <1>9, <1>17
  <2>4. b.stage \in {"retrieve", "claim", "verify", "synthesize", "write"} =>
          RowsOf(u, PlanKey) = <<b.query>>
    BY <2>1, <2>3, KeyKinds DEF KnowsRows
  <2>5. b.stage \in {"claim", "verify", "synthesize", "write"} =>
          RowsOf(u, EvidenceKey(b.query)) = <<b.evidence>>
    BY <2>1, <2>3, KeyKinds DEF KnowsRows
  <2>6. b.stage = "verify" => RowsOf(u, ClaimsKey(b.evidence)) = <<b.claims>>
    BY <2>1, <2>3, KeyKinds DEF KnowsRows
  <2>7. b.stage \in {"synthesize", "write"} =>
          /\ Live(u, ClaimsKey(b.evidence))
          /\ RowsOf(u, VerdictKey(RowsOf(u, ClaimsKey(b.evidence))[1], b.evidence)) =
               <<[claims |-> b.claims, assessed |-> b.assessed]>>
    BY <2>1, <2>2, <2>3, KeyKinds DEF KnowsRows
  <2> QED BY <1>15, <2>4, <2>5, <2>6, <2>7 DEF KnowsRows, Knows
<1>18. Working(stepRows', verified', c)
  BY <1>7, <1>15, <1>16, <1>17 DEF Working
<1>19. ChainHolds(stepRows', newest', verified')
  BY <1>7, <1>14
<1> QED BY <1>1, <1>7, <1>8, <1>16, <1>18, <1>19, SoleMoves

LEMMA SoleFallsBack ==
  ASSUME SoleInv, ~managed, ~overlapping, NEW a \in Try, FallBack(a)
  PROVE  SoleInv'
<1>1. PICK c : c = Begun(TRUE)
  OBVIOUS
<1>2. Occupied(c) /\ Working(stepRows', verified', c)
  BY <1>1, SoleBegins
<1>3. /\ batch' = [batch EXCEPT ![a] = c] /\ Occupied(batch[a])
      /\ UNCHANGED <<managed, stepRows, newest, verified, overlapping>>
  BY <1>1 DEF FallBack, Occupied, Audited
<1>4. ChainHolds(stepRows', newest', verified')
  BY <1>3 DEF SoleInv
<1> QED BY <1>2, <1>3, <1>4, SoleMoves

LEMMA SoleFails ==
  ASSUME SoleInv, ~managed, ~overlapping, NEW a \in Try, Fail(a)
  PROVE  SoleInv'
<1>1. /\ batch' = [batch EXCEPT ![a] = Ended] /\ Occupied(batch[a])
      /\ newest' = <<>> /\ UNCHANGED <<managed, verified, overlapping>>
  BY DEF Fail, AtWork, Occupied
<1>2. ChainHolds(stepRows, newest, verified)
  BY DEF SoleInv
<1>3. ChainHolds(stepRows', <<>>, verified)
  <2>1. CASE newest = <<>>
    BY <1>2, <2>1 DEF Fail
  <2>2. CASE newest # <<>>
    <3>1. PICK u : u = [stepRows EXCEPT ![newest] = Front(@)]
      OBVIOUS
    <3>2. Front(<<>>) = <<>>
      BY DEF Front
    <3>3. RowsOf(u, newest) = Front(RowsOf(stepRows, newest))
      BY <3>1, <3>2 DEF RowsOf
    <3>4. \A k : k # newest => RowsOf(u, k) = RowsOf(stepRows, k)
      BY <3>1 DEF RowsOf
    <3>5. ChainHolds(u, <<>>, verified)
      BY <1>2, <2>2, <3>3, <3>4, RowDropped
    <3>6. stepRows' = u
      BY <2>2, <3>1 DEF Fail
    <3> QED BY <3>5, <3>6
  <2> QED BY <2>1, <2>2
<1>4. ChainHolds(stepRows', newest', verified')
  BY <1>1, <1>3
<1>5. PICK c : c = Ended
  OBVIOUS
<1> QED BY <1>1, <1>4, <1>5, SoleMoves

LEMMA SoleCrashes ==
  ASSUME SoleInv, ~managed, ~overlapping, NEW a \in Try, Crash(a)
  PROVE  SoleInv'
<1>1. /\ batch' = [batch EXCEPT ![a] = Ended] /\ Occupied(batch[a])
      /\ UNCHANGED <<managed, stepRows, newest, verified, overlapping>>
  BY DEF Crash, AtWork, Occupied
<1>2. ChainHolds(stepRows', newest', verified')
  BY <1>1 DEF SoleInv
<1>3. PICK c : c = Ended
  OBVIOUS
<1> QED BY <1>1, <1>2, <1>3, SoleMoves

LEMMA SoleStarts ==
  ASSUME VerifiedResearchAssumption, SoleInv, ~managed, ~overlapping, ~overlapping',
         NEW a \in Try, Start(a)
  PROVE  SoleInv'
<1>1. PICK c : c = Begun(FALSE)
  OBVIOUS
<1>2. Occupied(c) /\ Working(stepRows', verified', c)
  BY <1>1, SoleBegins
<1>3. /\ batch' = [batch EXCEPT ![a] = c] /\ batch[a].stage = "idle"
      /\ \A e \in 1..(a - 1) : batch[e].stage # "idle" /\ ~Occupied(batch[e])
      /\ UNCHANGED <<managed, stepRows, newest, verified, overlapping>>
  BY <1>1 DEF Start, AtWork, Occupied
<1>4. Try \subseteq Nat /\ \A e \in Try : e < a => e \in 1..(a - 1)
  BY DEF Try, VerifiedResearchAssumption
<1>5. \A e \in Try : e < a => batch[e].stage # "idle" /\ ~Occupied(batch[e])
  BY <1>3, <1>4
<1>6. \A e \in Try : a < e => batch[e].stage = "idle"
  BY <1>3 DEF SoleInv, TakeTurns
<1>7. \A e \in Try : e # a => ~Occupied(batch[e])
  BY <1>4, <1>5, <1>6 DEF Occupied
<1>8. DOMAIN batch' = Try /\ batch'[a] = c /\ \A e \in Try : e # a => batch'[e] = batch[e]
  BY <1>3 DEF SoleInv
<1>9. TakeTurns(batch')
  <2>1. \A e \in Try : ~Occupied(batch'[e]) => batch'[e] \in {NoBatch, Ended}
    BY <1>2, <1>8 DEF SoleInv, TakeTurns
  <2>2. \A d, e \in Try : Occupied(batch'[d]) /\ Occupied(batch'[e]) => d = e
    BY <1>7, <1>8
  <2>3. \A d, e \in Try : d < e /\ batch'[d].stage = "idle" => batch'[e].stage = "idle"
    <3> SUFFICES ASSUME NEW d \in Try, NEW e \in Try, d < e, batch'[d].stage = "idle"
                 PROVE  batch'[e].stage = "idle"
      OBVIOUS
    <3>1. d # a
      BY <1>2, <1>8 DEF Occupied
    <3>2. a < d
      BY <1>4, <1>5, <1>8, <3>1
    <3>3. a < e
      BY <1>4, <3>2
    <3>4. batch'[e] = batch[e]
      BY <1>4, <1>8, <3>3
    <3> QED BY <1>6, <3>3, <3>4
  <2> QED BY <2>1, <2>2, <2>3 DEF TakeTurns
<1>10. \A e \in Try : Occupied(batch'[e]) => Working(stepRows', verified', batch'[e])
  BY <1>2, <1>7, <1>8
<1>11. ChainHolds(stepRows', newest', verified')
  BY <1>3 DEF SoleInv
<1> QED BY <1>8, <1>9, <1>10, <1>11 DEF SoleInv

LEMMA NoManager ==
  ASSUME SoleInv, ~managed, ~overlapping, NEW a \in Try
  PROVE  ~Manage(a)
<1> SUFFICES ASSUME Manage(a) PROVE FALSE
  OBVIOUS
<1>1. batch[a].stage = "manage"
  BY DEF Manage, Phase, InStage
<1>2. Occupied(batch[a])
  BY <1>1 DEF Occupied
<1>3. Sane(verified, batch[a])
  BY <1>2 DEF SoleInv, Working
<1> QED BY <1>1, <1>3 DEF Sane

\* What no step of an attempt changes.
LEMMA AttemptsKept ==
  ASSUME ResearchNext
  PROVE  DOMAIN batch' = DOMAIN batch /\ managed' = managed /\ (overlapping => overlapping')
<1>1. PICK a \in Try :
         \/ Start(a) \/ Manage(a) \/ PlanQueries(a) \/ Retrieve(a) \/ Draft(a) \/ Verify(a)
         \/ Synthesize(a) \/ Write(a) \/ Return(a) \/ RecordRow(a)
         \/ FallBack(a) \/ Fail(a) \/ Crash(a)
  BY DEF ResearchNext
<1>2. CASE Start(a)
  BY <1>2 DEF Start
<1>3. CASE Manage(a)
  BY <1>3 DEF Manage, Phase, Recovers, Computes
<1>4. CASE PlanQueries(a)
  BY <1>4 DEF PlanQueries, Phase, Recovers, Computes
<1>5. CASE Retrieve(a)
  BY <1>5 DEF Retrieve, Phase, Recovers, Computes
<1>6. CASE Draft(a)
  BY <1>6 DEF Draft, Phase, Recovers, Computes
<1>7. CASE Verify(a)
  <2>1. PICK c : batch' = [batch EXCEPT ![a] = c] /\ UNCHANGED <<managed, overlapping>>
    BY <1>7, Zenon DEF Verify, Recovers, Computes
  <2> QED BY <2>1
<1>8. CASE Synthesize(a)
  BY <1>8 DEF Synthesize, Phase, Recovers, Computes
<1>9. CASE Write(a)
  BY <1>9 DEF Write, Phase, Recovers, Computes
<1>10. CASE Return(a)
  BY <1>10 DEF Return
<1>11. CASE RecordRow(a)
  BY <1>11 DEF RecordRow
<1>12. CASE FallBack(a)
  BY <1>12 DEF FallBack
<1>13. CASE Fail(a) \/ Crash(a)
  BY <1>13 DEF Fail, Crash
<1> QED BY <1>1, <1>2, <1>3, <1>4, <1>5, <1>6, <1>7, <1>8, <1>9, <1>10, <1>11, <1>12, <1>13

LEMMA SoleInit ==
  ASSUME ResearchInit
  PROVE  SoleInv
<1>1. DOMAIN batch = Try /\ \A a \in Try : batch[a] = NoBatch
  BY DEF ResearchInit
<1>2. \A a \in Try : ~Occupied(batch[a])
  BY <1>1, IdleShape DEF Occupied
<1>3. TakeTurns(batch)
  BY <1>1, <1>2, IdleShape DEF TakeTurns
<1>4. \A key : ~Live(<<>>, key)
  BY DEF Live, RowsOf
<1>5. ChainHolds(stepRows, newest, verified)
  BY <1>4 DEF ResearchInit, ChainHolds
<1> QED BY <1>1, <1>2, <1>3, <1>5 DEF SoleInv

LEMMA SoleSteps ==
  ASSUME VerifiedResearchAssumption, SoleInv, [ResearchNext]_researchVars
  PROVE  SoleInv'
<1>1. CASE UNCHANGED researchVars
  BY <1>1 DEF researchVars, SoleInv
<1>2. CASE ResearchNext
  <2>1. DOMAIN batch' = Try /\ managed' = managed /\ (overlapping => overlapping')
    BY <1>2, AttemptsKept DEF SoleInv
  <2>2. SUFFICES ASSUME ~managed, ~overlapping, ~overlapping'
                 PROVE  SoleInv'
    BY <2>1 DEF SoleInv
  <2>3. PICK a \in Try :
           \/ Start(a) \/ Manage(a) \/ PlanQueries(a) \/ Retrieve(a) \/ Draft(a) \/ Verify(a)
           \/ Synthesize(a) \/ Write(a) \/ Return(a) \/ RecordRow(a)
           \/ FallBack(a) \/ Fail(a) \/ Crash(a)
    BY <1>2 DEF ResearchNext
  <2> QED BY <2>2, <2>3, SoleStarts, NoManager, SolePlans, SoleRetrieves, SoleDrafts, SoleVerifies,
             SoleSynthesizes, SoleWrites, SoleReturns, SoleRecords, SoleFallsBack, SoleFails,
             SoleCrashes
<1> QED BY <1>1, <1>2

LEMMA SoleCites ==
  ASSUME SoleInv
  PROVE  SoleAttemptCitesItsEvidence
<1> SUFFICES ASSUME ~managed, ~overlapping, NEW a \in Try, NEW r \in Results(a)
             PROVE  Cited(r) /\ r.text = r.claims
  BY DEF SoleAttemptCitesItsEvidence
<1>1. PICK i \in DOMAIN batch[a].results : r = batch[a].results[i]
  BY DEF Results
<1>2. Occupied(batch[a])
  <2>1. DOMAIN <<>> = {}
    OBVIOUS
  <2> QED BY <1>1, <2>1, IdleShape DEF SoleInv, TakeTurns
<1>3. CitedResult(verified, r)
  BY <1>1, <1>2 DEF SoleInv, Working, Sane
<1> QED BY <1>3 DEF CitedResult, Cited

\* A research without a manager whose attempts never overlap delivers each claim with
\* the passages its Verifier saw for it, however its phases take over checkpoint rows:
\* research_agents.py and sqlite_step_checkpoints.py.
THEOREM SoleAttemptsCite == ResearchSpec => []SoleAttemptCitesItsEvidence
<1>1. ResearchInit => SoleInv
  BY SoleInit
<1>2. SoleInv /\ [ResearchNext]_researchVars => SoleInv'
  BY VerifiedResearchAssumption, SoleSteps
<1>3. SoleInv => SoleAttemptCitesItsEvidence
  BY SoleCites
<1> QED BY <1>1, <1>2, <1>3, PTL DEF ResearchSpec

--------------------------------------------------------------------------------
(* Transcripts.                                                                *)

MessageShape == [conv : Conversation, role : Role, turn : Nat, sequence : Nat, run : Run \cup {NoRun}]
RequestShape == [at : {"look", "prior", "turn", "append"}, kind : {"chat", "deep", "post"},
                 conv : Conversation, role : Role, turn : Nat, sequence : Nat,
                 run : Run \cup {NoRun}]
TalkShape ==
  /\ said \in Seq(MessageShape) /\ counted \in [Conversation -> Nat] /\ turns \in Nat
  /\ asking \in [Asker -> RequestShape \cup {NotAsking}]

\* The place in a conversation that a message has, or that a request is about to fill.
Mark(x) == [conv |-> x.conv, turn |-> x.turn, sequence |-> x.sequence, run |-> x.run]
Appending == {a \in Asker : asking[a].at = "append"}
Marks == {Mark(said[i]) : i \in DOMAIN said} \cup {Mark(asking[a]) : a \in Appending}
\* A turn has one place; and while no requests overlap, so has a sequence number of
\* a conversation, and a run in a conversation.
MarksAgree ==
  /\ \A x \in Marks : x.turn <= turns
  /\ \A x, y \in Marks : x.turn = y.turn => x = y
  /\ ~crowded => \A x, y \in Marks :
       x.conv = y.conv /\ (x.sequence = y.sequence \/ (x.run = y.run /\ x.run # NoRun)) => x = y

InConversation(c) == {i \in DOMAIN said : said[i].conv = c}
MessagesHold ==
  /\ \A c \in Conversation : counted[c] = Cardinality(InConversation(c))
  /\ \A c \in Conversation : \E n \in Sequences(c) : \A k \in Sequences(c) : k <= n
  /\ \A i \in DOMAIN said : said[i].role = "assistant" /\ said[i].run = NoRun =>
       \E j \in 1..(i - 1) : said[j].turn = said[i].turn /\ said[j].role = "user"
  /\ ~crowded => \A i, j \in DOMAIN said :
       /\ said[i].role = said[j].role
       /\ said[i].turn = said[j].turn \/ (said[i].run = said[j].run /\ said[i].run # NoRun)
       => i = j

\* What a request is about.
RequestHolds(q) ==
  /\ q.kind = "chat" => q.run = NoRun /\ q.at \in {"turn", "append"}
  /\ q.kind = "deep" => q.run \in Objective /\ <<q.conv, q.run>> \in asked
  /\ q.kind = "post" => q.run = q.conv
  /\ q.kind = "chat" /\ q.role = "assistant" =>
       q.at = "append" /\ \E i \in DOMAIN said : said[i].turn = q.turn /\ said[i].role = "user"
  /\ q.kind = "deep" /\ q.role = "assistant" => Existing(q.run, "user") # {}
\* Nobody has said what a request is about to say.
Unsaid(q) ==
  /\ q.run # NoRun =>
       /\ q.at \in {"prior", "turn", "append"} => Existing(q.run, q.role) = {}
       /\ q.at = "turn" => Prior(q.conv, q.run) = {}
  /\ q.run = NoRun /\ q.at = "append" =>
       \A i \in DOMAIN said : said[i].turn = q.turn => q.role = "assistant" /\ said[i].role = "user"
Apart(q, p) == q.conv # p.conv /\ (q.run = NoRun \/ q.run # p.run)
RequestsHold ==
  /\ \A a \in Asker : Asking(a) => RequestHolds(asking[a])
  /\ ~crowded => \A a \in Asker : Asking(a) =>
       /\ Unsaid(asking[a])
       /\ \A b \in Asker \ {a} : Asking(b) => Apart(asking[a], asking[b])

ServedHold ==
  /\ \A i \in DOMAIN said : said[i].run \in Objective => <<said[i].conv, said[i].run>> \in asked
  /\ \A c \in Conversation, o \in Objective : <<c, o>> \in served =>
       \A role \in Role : Existing(o, role) # {}

TalkInv == TalkShape /\ MarksAgree /\ MessagesHold /\ RequestsHold /\ ServedHold

\* A request in progress has its fields, one that is not has none.
LEMMA RequestsHaveShape ==
  ASSUME TalkShape, NEW a \in Asker
  PROVE  /\ Asking(a) => asking[a] \in RequestShape
         /\ ~Asking(a) => asking[a] = NotAsking /\ asking[a].at = "idle"
         /\ asking[a].at = "append" => Asking(a)
<1>1. asking[a] \in RequestShape \cup {NotAsking}
  BY DEF TalkShape
<1>2. asking[a] \in RequestShape => asking[a].at # "idle"
  BY DEF RequestShape
<1>3. NotAsking.at = "idle"
  BY DEF NotAsking
<1> QED BY <1>1, <1>2, <1>3 DEF Asking

\* The next sequence number of a conversation is beyond those of its messages.
LEMMA NextIsNew ==
  ASSUME TalkShape, MessagesHold, NEW c \in Conversation
  PROVE  /\ NextSequence(c) \in Nat
         /\ \A i \in DOMAIN said : said[i].conv = c => said[i].sequence < NextSequence(c)
<1>1. \A i \in DOMAIN said : said[i] \in MessageShape
  BY DEF TalkShape
<1>2. \A n \in Sequences(c) : n \in Nat
  BY <1>1 DEF Sequences, MessageShape
<1>3. \E n \in Sequences(c) : \A k \in Sequences(c) : k <= n
  BY DEF MessagesHold
<1> DEFINE last == CHOOSE n \in Sequences(c) : \A k \in Sequences(c) : k <= n
<1>4. last \in Sequences(c) /\ \A k \in Sequences(c) : k <= last
  BY <1>3
<1>5. NextSequence(c) = 1 + last
  BY Zenon DEF NextSequence
<1> HIDE DEF last
<1>6. ASSUME NEW i \in DOMAIN said, said[i].conv = c PROVE said[i].sequence < NextSequence(c)
  <2>1. said[i].sequence \in Sequences(c)
    BY <1>6 DEF Sequences
  <2> QED BY <1>2, <1>4, <1>5, <2>1
<1> QED BY <1>2, <1>4, <1>5, <1>6

\* What a request was about it still is, whatever is asked or said after it.
LEMMA RequestKept ==
  ASSUME NEW q, RequestHolds(q), asked \subseteq asked', DOMAIN said \subseteq DOMAIN said',
         \A i \in DOMAIN said : said'[i] = said[i]
  PROVE  RequestHolds(q)'
<1>1. \A r, role : Existing(r, role) \subseteq Existing(r, role)'
  BY DEF Existing
<1>2. Existing(q.run, "user") # {} => Existing(q.run, "user")' # {}
  BY <1>1
<1>3. (\E i \in DOMAIN said : said[i].turn = q.turn /\ said[i].role = "user") =>
        \E i \in DOMAIN said' : said'[i].turn = q.turn /\ said'[i].role = "user"
  OBVIOUS
<1> QED BY <1>2, <1>3 DEF RequestHolds

\* Fewer places.
LEMMA FewerMarks ==
  ASSUME MarksAgree, Marks' \subseteq Marks, turns' = turns, crowded => crowded'
  PROVE  MarksAgree'
BY DEF MarksAgree

\* A request moves to a place there is, or to none.
LEMMA MarkMoves ==
  ASSUME TalkShape, NEW a \in Asker, NEW q, asking' = [asking EXCEPT ![a] = q], said' = said,
         q.at = "append" => Mark(q) \in Marks
  PROVE  Marks' \subseteq Marks
<1> SUFFICES ASSUME NEW x \in Marks' PROVE x \in Marks
  OBVIOUS
<1>1. asking'[a] = q /\ \A b \in Asker : b # a => asking'[b] = asking[b]
  BY DEF TalkShape
<1>2. CASE \E i \in DOMAIN said' : x = Mark(said'[i])
  BY <1>2 DEF Marks
<1>3. ASSUME NEW b \in Asker, asking'[b].at = "append", x = Mark(asking'[b]) PROVE x \in Marks
  <2>1. CASE b = a
    BY <1>1, <1>3, <2>1
  <2>2. CASE b # a
    BY <1>1, <1>3, <2>2 DEF Marks, Appending
  <2> QED BY <2>1, <2>2
<1> QED BY <1>2, <1>3 DEF Marks, Appending

\* A request moves and nobody says anything.
LEMMA RequestMoves ==
  ASSUME TalkShape, RequestsHold, NEW a \in Asker, NEW q \in RequestShape \cup {NotAsking},
         asking' = [asking EXCEPT ![a] = q], said' = said, asked \subseteq asked',
         crowded => crowded',
         q.at # "idle" => RequestHolds(q)',
         ~crowded' /\ q.at # "idle" =>
           Unsaid(q) /\ \A b \in Asker \ {a} : Asking(b) => Apart(q, asking[b]) /\ Apart(asking[b], q)
  PROVE  RequestsHold'
<1>1. asking'[a] = q /\ \A b \in Asker : b # a => asking'[b] = asking[b]
  BY DEF TalkShape
<1>2. \A b \in Asker : b # a => Asking(b)' = Asking(b)
  BY <1>1 DEF Asking
<1>3. ASSUME NEW b \in Asker, Asking(b)' PROVE RequestHolds(asking[b])'
  <2>1. CASE b = a
    <3>1. q.at # "idle"
      BY <1>1, <1>3, <2>1 DEF Asking
    <3> QED BY <1>1, <2>1, <3>1
  <2>2. CASE b # a
    <3>1. PICK p : p = asking[b]
      OBVIOUS
    <3>2. RequestHolds(p) /\ asking'[b] = p
      BY <1>1, <1>2, <1>3, <2>2, <3>1 DEF RequestsHold
    <3>3. RequestHolds(p)'
      BY <3>2, RequestKept
    <3> QED BY <3>2, <3>3
  <2> QED BY <2>1, <2>2
<1>4. ASSUME ~crowded', NEW b \in Asker, Asking(b)'
      PROVE  /\ Unsaid(asking[b])'
             /\ \A c \in Asker \ {b} : Asking(c)' => Apart(asking'[b], asking'[c])
  <2>1. ~crowded /\ (Asking(a)' => q.at # "idle")
    BY <1>1, <1>4 DEF Asking
  <2>2. \A p : Unsaid(p)' = Unsaid(p)
    BY DEF Unsaid, Existing, Prior
  <2>3. CASE b = a
    <3>1. Unsaid(q) /\ \A c \in Asker \ {a} : Asking(c) => Apart(q, asking[c])
      BY <1>4, <2>1, <2>3
    <3>2. Unsaid(q)' /\ \A c \in Asker \ {a} : Asking(c)' => Apart(q, asking'[c])
      BY <1>1, <1>2, <2>2, <3>1
    <3> QED BY <1>1, <2>3, <3>2
  <2>4. CASE b # a
    <3>1. PICK p : p = asking[b]
      OBVIOUS
    <3>2. /\ Asking(b) /\ asking'[b] = p /\ Unsaid(p)
          /\ \A c \in Asker \ {b} : Asking(c) => Apart(p, asking[c])
      BY <1>1, <1>2, <1>4, <2>1, <2>4, <3>1 DEF RequestsHold
    <3>3. Unsaid(p)'
      BY <2>2, <3>2
    <3>4. ASSUME NEW c \in Asker \ {b}, Asking(c)' PROVE Apart(p, asking'[c])
      <4>1. CASE c = a
        BY <1>1, <1>4, <2>1, <2>4, <3>1, <3>2, <3>4, <4>1
      <4>2. CASE c # a
        BY <1>1, <1>2, <3>2, <3>4, <4>2
      <4> QED BY <4>1, <4>2
    <3> QED BY <3>2, <3>3, <3>4
  <2> QED BY <2>3, <2>4
<1> QED BY <1>3, <1>4 DEF RequestsHold

\* The messages, while nobody says anything.
LEMMA MessagesKept ==
  ASSUME MessagesHold, said' = said, counted' = counted, crowded => crowded'
  PROVE  MessagesHold'
<1>1. \A c \in Conversation : InConversation(c)' = InConversation(c) /\ Sequences(c)' = Sequences(c)
  BY DEF InConversation, Sequences
<1>2. \A c \in Conversation : counted'[c] = Cardinality(InConversation(c)')
  BY <1>1 DEF MessagesHold
<1>3. \A c \in Conversation : \E n \in Sequences(c)' : \A k \in Sequences(c)' : k <= n
  BY <1>1 DEF MessagesHold
<1> QED BY <1>2, <1>3 DEF MessagesHold

\* What is served, while nobody says anything.
LEMMA ServedKept ==
  ASSUME ServedHold, said' = said, asked \subseteq asked', served' = served
  PROVE  ServedHold'
<1>1. \A r, role : Existing(r, role)' = Existing(r, role)
  BY DEF Existing
<1>2. \A c \in Conversation, o \in Objective : <<c, o>> \in served' =>
        \A role \in Role : Existing(o, role)' # {}
  BY <1>1 DEF ServedHold
<1> QED BY <1>2 DEF ServedHold

\* A request begins.
LEMMA RequestBegins ==
  ASSUME TalkInv, NEW a \in Asker, NEW c \in Conversation, NEW at \in {"look", "turn"},
         NEW kind \in {"chat", "deep", "post"}, NEW role \in Role, NEW r \in Run \cup {NoRun},
         BeginRequest(a, at, kind, c, role, r), asked \subseteq asked',
         r # NoRun => at = "look", kind = "chat" => r = NoRun /\ role = "user" /\ at = "turn",
         kind = "deep" => r \in Objective /\ <<c, r>> \in asked' /\ role = "user",
         kind = "post" => r = c
  PROVE  TalkInv'
<1> DEFINE q == [at |-> at, kind |-> kind, conv |-> c, role |-> role, turn |-> 0, sequence |-> 0,
                 run |-> r]
<1>1. /\ ~Asking(a) /\ asking' = [asking EXCEPT ![a] = q] /\ UNCHANGED <<said, counted, turns, served>>
      /\ crowded' = (crowded \/ Overlaps(c, r))
  BY DEF BeginRequest
<1>2. q \in RequestShape
  BY DEF RequestShape
<1>3. /\ q.at = at /\ q.kind = kind /\ q.conv = c /\ q.role = role /\ q.run = r
      /\ q.at # "append" /\ q.at # "idle"
  OBVIOUS
<1> HIDE DEF q
<1>4. TalkShape'
  BY <1>1, <1>2 DEF TalkInv, TalkShape
<1>5. MarksAgree'
  <2>1. Marks' \subseteq Marks
    BY <1>1, <1>3, MarkMoves DEF TalkInv
  <2> QED BY <1>1, <2>1, FewerMarks DEF TalkInv
<1>6. RequestHolds(q)'
  BY <1>3 DEF RequestHolds
<1>7. ASSUME ~crowded'
      PROVE  Unsaid(q) /\ \A b \in Asker \ {a} : Asking(b) => Apart(q, asking[b]) /\ Apart(asking[b], q)
  <2>1. Unsaid(q)
    BY <1>3 DEF Unsaid
  <2>2. \A b \in Asker : Asking(b) => asking[b].conv # c /\ (r = NoRun \/ asking[b].run # r)
    BY <1>1, <1>7 DEF Overlaps
  <2> QED BY <1>3, <2>1, <2>2 DEF Apart
<1>8. RequestsHold'
  BY <1>1, <1>2, <1>3, <1>6, <1>7, RequestMoves DEF TalkInv
<1>9. MessagesHold' /\ ServedHold'
  BY <1>1, MessagesKept, ServedKept DEF TalkInv
<1> QED BY <1>4, <1>5, <1>8, <1>9 DEF TalkInv

\* A request breaks off.
LEMMA BreakOffKeeps ==
  ASSUME TalkInv, NEW a \in Asker, BreakOff(a)
  PROVE  TalkInv'
<1>1. /\ asking' = [asking EXCEPT ![a] = NotAsking]
      /\ UNCHANGED <<said, counted, turns, asked, served, crowded>>
  BY DEF BreakOff
<1>2. NotAsking.at = "idle" /\ NotAsking \in RequestShape \cup {NotAsking}
  BY DEF NotAsking
<1>3. TalkShape'
  BY <1>1, <1>2 DEF TalkInv, TalkShape
<1>4. MarksAgree'
  <2>1. Marks' \subseteq Marks
    BY <1>1, <1>2, MarkMoves DEF TalkInv
  <2> QED BY <1>1, <2>1, FewerMarks DEF TalkInv
<1>5. RequestsHold'
  BY <1>1, <1>2, RequestMoves DEF TalkInv
<1>6. MessagesHold' /\ ServedHold'
  BY <1>1, MessagesKept, ServedKept DEF TalkInv
<1> QED BY <1>3, <1>4, <1>5, <1>6 DEF TalkInv

\* A request in progress goes on without saying anything.
LEMMA GoesOn ==
  ASSUME TalkInv, NEW a \in Asker, Asking(a), NEW q \in RequestShape,
         asking' = [asking EXCEPT ![a] = q], UNCHANGED <<said, counted, asked, served, crowded>>,
         q.conv = asking[a].conv /\ q.run = asking[a].run,
         RequestHolds(q), ~crowded => Unsaid(q), turns' \in Nat, MarksAgree'
  PROVE  TalkInv'
<1>1. TalkShape'
  BY DEF TalkInv, TalkShape
<1>2. RequestHolds(q)'
  BY RequestKept
<1>3. ~crowded => \A b \in Asker \ {a} : Asking(b) => Apart(q, asking[b]) /\ Apart(asking[b], q)
  BY DEF TalkInv, RequestsHold, Apart
<1>4. RequestsHold'
  BY <1>2, <1>3, RequestMoves DEF TalkInv
<1>5. MessagesHold' /\ ServedHold'
  BY MessagesKept, ServedKept DEF TalkInv
<1> QED BY <1>1, <1>4, <1>5 DEF TalkInv

\* It looks for its message, which may be there and the request over.
LEMMA LookKeeps ==
  ASSUME TalkInv, NEW a \in Asker, Look(a)
  PROVE  TalkInv'
<1>1. PICK q : q = asking[a]
  OBVIOUS
<1>2. /\ q.at = "look" /\ Asking(a) /\ q \in RequestShape /\ RequestHolds(q)
      /\ UNCHANGED <<said, counted, turns, asked, crowded>>
  BY <1>1, RequestsHaveShape DEF TalkInv, RequestsHold, Look, Asking
<1>3. q.kind # "chat"
  BY <1>2 DEF RequestHolds
<1>4. CASE Existing(q.run, q.role) = {}
  <2> DEFINE p == [q EXCEPT !.at = "prior"]
  <2>1. asking' = [asking EXCEPT ![a] = p] /\ UNCHANGED served
    BY <1>1, <1>2, <1>4 DEF Look
  <2>2. /\ p \in RequestShape /\ p.at = "prior" /\ p.conv = q.conv /\ p.run = q.run
        /\ p.kind = q.kind /\ p.role = q.role /\ p.turn = q.turn
    BY <1>2 DEF RequestShape
  <2> HIDE DEF p
  <2>3. RequestHolds(p)
    BY <1>2, <1>3, <2>2 DEF RequestHolds
  <2>4. Unsaid(p)
    BY <1>4, <2>2 DEF Unsaid
  <2>5. MarksAgree'
    <3>1. Marks' \subseteq Marks
      BY <1>2, <2>1, <2>2, MarkMoves DEF TalkInv
    <3> QED BY <1>2, <3>1, FewerMarks DEF TalkInv
  <2>6. turns' \in Nat
    BY <1>2 DEF TalkInv, TalkShape
  <2> QED BY <1>1, <1>2, <2>1, <2>2, <2>3, <2>4, <2>5, <2>6, GoesOn
<1>5. CASE Existing(q.run, q.role) # {}
  <2>1. Onward(a, "look")
    BY <1>1, <1>2, <1>5 DEF Look
  <2>2. CASE q.kind = "deep" /\ q.role # "assistant"
    <3> DEFINE p == [q EXCEPT !.role = "assistant", !.at = "look"]
    <3>1. asking' = [asking EXCEPT ![a] = p] /\ UNCHANGED served
      BY <1>1, <2>1, <2>2 DEF Onward
    <3>2. /\ p \in RequestShape /\ p.at = "look" /\ p.conv = q.conv /\ p.run = q.run
          /\ p.kind = q.kind /\ p.role = "assistant"
      BY <1>2 DEF RequestShape, Role
    <3> HIDE DEF p
    <3>3. q.role = "user"
      BY <1>2, <2>2 DEF RequestShape, Role
    <3>4. RequestHolds(p)
      BY <1>2, <1>5, <2>2, <3>2, <3>3 DEF RequestHolds
    <3>5. Unsaid(p)
      BY <3>2 DEF Unsaid
    <3>6. MarksAgree'
      <4>1. Marks' \subseteq Marks
        BY <1>2, <3>1, <3>2, MarkMoves DEF TalkInv
      <4> QED BY <1>2, <4>1, FewerMarks DEF TalkInv
    <3>7. turns' \in Nat
      BY <1>2 DEF TalkInv, TalkShape
    <3> QED BY <1>1, <1>2, <3>1, <3>2, <3>4, <3>5, <3>6, <3>7, GoesOn
  <2>3. CASE ~(q.kind = "deep" /\ q.role # "assistant")
    <3>1. (q.kind = "post" \/ q.role = "assistant") = TRUE
      BY <1>2, <1>3, <2>3 DEF RequestShape
    <3>2. asking' = [asking EXCEPT ![a] = NotAsking]
      BY <1>1, <2>1, <3>1, Zenon DEF Onward
    <3>3. served' = IF q.kind = "deep" THEN served \cup {<<q.conv, q.run>>} ELSE served
      BY <1>1, <2>1, <3>1, Zenon DEF Onward
    <3>4. NotAsking.at = "idle" /\ NotAsking \in RequestShape \cup {NotAsking}
      BY DEF NotAsking
    <3>5. TalkShape'
      BY <1>2, <3>2, <3>4 DEF TalkInv, TalkShape
    <3>6. MarksAgree'
      <4>1. Marks' \subseteq Marks
        BY <1>2, <3>2, <3>4, MarkMoves DEF TalkInv
      <4> QED BY <1>2, <4>1, FewerMarks DEF TalkInv
    <3>7. RequestsHold'
      BY <1>2, <3>2, <3>4, RequestMoves DEF TalkInv
    <3>8. MessagesHold'
      BY <1>2, MessagesKept DEF TalkInv
    <3>9. q.kind = "deep" => \A role \in Role : Existing(q.run, role) # {}
      BY <1>2, <1>5, <2>3 DEF RequestHolds, Role
    <3>10. ServedHold'
      <4>1. \A r, role : Existing(r, role)' = Existing(r, role)
        BY <1>2 DEF Existing
      <4>2. ASSUME NEW c \in Conversation, NEW o \in Objective, <<c, o>> \in served', NEW role \in Role
            PROVE  Existing(o, role) # {}
        <5>1. CASE <<c, o>> \in served
          BY <5>1 DEF TalkInv, ServedHold
        <5>2. CASE q.kind = "deep" /\ <<c, o>> = <<q.conv, q.run>>
          BY <3>9, <5>2
        <5> QED BY <3>3, <4>2, <5>1, <5>2
      <4>3. \A i \in DOMAIN said' : said'[i].run \in Objective => <<said'[i].conv, said'[i].run>> \in asked'
        BY <1>2 DEF TalkInv, ServedHold
      <4> QED BY <4>1, <4>2, <4>3 DEF ServedHold
    <3> QED BY <3>5, <3>6, <3>7, <3>8, <3>10 DEF TalkInv
  <2> QED BY <2>2, <2>3
<1> QED BY <1>4, <1>5

\* It takes the turn of its run, if there is one in the conversation.
LEMMA LookPriorKeeps ==
  ASSUME TalkInv, NEW a \in Asker, LookPrior(a)
  PROVE  TalkInv'
<1>1. PICK q : q = asking[a]
  OBVIOUS
<1>2. /\ q.at = "prior" /\ Asking(a) /\ q \in RequestShape /\ RequestHolds(q)
      /\ ~crowded => Unsaid(q)
      /\ UNCHANGED <<said, counted, turns, asked, served, crowded>>
  BY <1>1, RequestsHaveShape DEF TalkInv, RequestsHold, LookPrior, Asking
<1>3. q.kind # "chat"
  BY <1>2 DEF RequestHolds
<1>4. q.run # NoRun
  BY <1>2, <1>3, ConversationAssumption DEF RequestHolds, RequestShape
<1>5. ~crowded => Existing(q.run, q.role) = {}
  BY <1>2, <1>4 DEF Unsaid
<1>6. turns' \in Nat
  BY <1>2 DEF TalkInv, TalkShape
<1>7. ASSUME Prior(q.conv, q.run) = {}, asking' = [asking EXCEPT ![a].at = "turn"]
      PROVE  TalkInv'
  <2> DEFINE p == [q EXCEPT !.at = "turn"]
  <2>1. asking' = [asking EXCEPT ![a] = p]
    BY <1>1, <1>7
  <2>2. /\ p \in RequestShape /\ p.at = "turn" /\ p.conv = q.conv /\ p.run = q.run
        /\ p.kind = q.kind /\ p.role = q.role
    BY <1>2 DEF RequestShape
  <2> HIDE DEF p
  <2>3. RequestHolds(p)
    BY <1>2, <1>3, <2>2 DEF RequestHolds
  <2>4. ~crowded => Unsaid(p)
    BY <1>4, <1>5, <1>7, <2>2 DEF Unsaid
  <2>5. MarksAgree'
    <3>1. Marks' \subseteq Marks
      BY <1>2, <2>1, <2>2, MarkMoves DEF TalkInv
    <3> QED BY <1>2, <3>1, FewerMarks DEF TalkInv
  <2> QED BY <1>1, <1>2, <1>6, <2>1, <2>2, <2>3, <2>4, <2>5, GoesOn
<1>8. ASSUME NEW i \in Prior(q.conv, q.run),
             asking' = [asking EXCEPT ![a].at = "append", ![a].turn = said[i].turn,
                                      ![a].sequence = said[i].sequence]
      PROVE  TalkInv'
  <2> DEFINE p == [q EXCEPT !.at = "append", !.turn = said[i].turn, !.sequence = said[i].sequence]
  <2>1. asking' = [asking EXCEPT ![a] = p]
    BY <1>1, <1>8 DEF TalkInv, TalkShape
  <2>2. i \in DOMAIN said /\ said[i] \in MessageShape /\ said[i].conv = q.conv /\ said[i].run = q.run
    BY <1>8 DEF Prior, TalkInv, TalkShape
  <2>3. /\ p \in RequestShape /\ p.at = "append" /\ p.conv = q.conv /\ p.run = q.run
        /\ p.kind = q.kind /\ p.role = q.role /\ p.turn = said[i].turn
        /\ p.sequence = said[i].sequence
    BY <1>2, <2>2 DEF RequestShape, MessageShape
  <2> HIDE DEF p
  <2>4. RequestHolds(p)
    BY <1>2, <1>3, <2>3 DEF RequestHolds
  <2>5. ~crowded => Unsaid(p)
    BY <1>4, <1>5, <2>3 DEF Unsaid
  <2>6. MarksAgree'
    <3>1. Mark(p) = Mark(said[i])
      BY <2>2, <2>3 DEF Mark
    <3>2. Mark(p) \in Marks
      BY <2>2, <3>1 DEF Marks
    <3>3. Marks' \subseteq Marks
      BY <1>2, <2>1, <3>2, MarkMoves DEF TalkInv
    <3> QED BY <1>2, <3>3, FewerMarks DEF TalkInv
  <2> QED BY <1>1, <1>2, <1>6, <2>1, <2>3, <2>4, <2>5, <2>6, GoesOn
<1>9. LookPrior(a) => \/ Prior(q.conv, q.run) = {} /\ asking' = [asking EXCEPT ![a].at = "turn"]
                      \/ \E i \in Prior(q.conv, q.run) :
                           asking' = [asking EXCEPT ![a].at = "append", ![a].turn = said[i].turn,
                                                    ![a].sequence = said[i].sequence]
  BY <1>1, Zenon DEF LookPrior
<1> QED BY <1>7, <1>8, <1>9, Zenon

\* It takes a turn that nobody has.
LEMMA NextTurnKeeps ==
  ASSUME TalkInv, NEW a \in Asker, NextTurn(a)
  PROVE  TalkInv'
<1>1. PICK q : q = asking[a]
  OBVIOUS
<1>2. /\ q.at = "turn" /\ Asking(a) /\ q \in RequestShape /\ RequestHolds(q)
      /\ ~crowded => Unsaid(q)
      /\ UNCHANGED <<said, counted, asked, served, crowded>> /\ turns' = turns + 1
  BY <1>1, RequestsHaveShape DEF TalkInv, RequestsHold, NextTurn, Asking
<1>3. PICK s : s = NextSequence(q.conv)
  OBVIOUS
<1>4. /\ s \in Nat /\ turns \in Nat /\ q.conv \in Conversation
      /\ \A i \in DOMAIN said : said[i].conv = q.conv => said[i].sequence < s
  BY <1>2, <1>3, NextIsNew DEF TalkInv, TalkShape, RequestShape
<1> DEFINE p == [q EXCEPT !.at = "append", !.turn = turns + 1, !.sequence = s]
<1>5. asking' = [asking EXCEPT ![a] = p]
  BY <1>1, <1>3 DEF NextTurn, TalkInv, TalkShape
<1>6. /\ p \in RequestShape /\ p.at = "append" /\ p.conv = q.conv /\ p.run = q.run
      /\ p.kind = q.kind /\ p.role = q.role /\ p.turn = turns + 1 /\ p.sequence = s
  <2>1. PICK t \in Nat : t = turns + 1
    BY <1>4
  <2>2. p = [q EXCEPT !.at = "append", !.turn = t, !.sequence = s]
    BY <2>1
  <2> HIDE DEF p
  <2> QED BY <1>2, <1>4, <2>1, <2>2 DEF RequestShape
<1> HIDE DEF p
<1>7. Mark(p).turn = turns + 1 /\ Mark(p).conv = q.conv /\ Mark(p).sequence = s /\ Mark(p).run = q.run
  BY <1>6 DEF Mark
<1>8. \A x \in Marks : x.turn \in Nat /\ x.turn <= turns
  <2>1. \A i \in DOMAIN said : Mark(said[i]).turn \in Nat
    <3>1. \A i \in DOMAIN said : said[i] \in MessageShape
      BY DEF TalkInv, TalkShape
    <3> QED BY <3>1 DEF Mark, MessageShape
  <2>2. \A b \in Appending : Mark(asking[b]).turn \in Nat
    BY RequestsHaveShape DEF Mark, TalkInv, Appending, RequestShape
  <2>3. \A x \in Marks : x.turn \in Nat
    BY <2>1, <2>2 DEF Marks
  <2> QED BY <2>3 DEF TalkInv, MarksAgree
<1>9. Marks' \subseteq Marks \cup {Mark(p)}
  <2> SUFFICES ASSUME NEW x \in Marks' PROVE x \in Marks \/ x = Mark(p)
    OBVIOUS
  <2>1. asking'[a] = p /\ \A b \in Asker : b # a => asking'[b] = asking[b]
    BY <1>5 DEF TalkInv, TalkShape
  <2>2. CASE \E i \in DOMAIN said' : x = Mark(said'[i])
    BY <1>2, <2>2 DEF Marks
  <2>3. ASSUME NEW b \in Asker, asking'[b].at = "append", x = Mark(asking'[b])
        PROVE  x \in Marks \/ x = Mark(p)
    <3>1. CASE b = a
      BY <2>1, <2>3, <3>1
    <3>2. CASE b # a
      BY <2>1, <2>3, <3>2 DEF Marks, Appending
    <3> QED BY <3>1, <3>2
  <2> QED BY <2>2, <2>3 DEF Marks, Appending
<1>10. ASSUME ~crowded, NEW x \in Marks, x.conv = q.conv
       PROVE  x.sequence # s /\ (x.run # q.run \/ q.run = NoRun)
  <2>1. ASSUME NEW i \in DOMAIN said, x = Mark(said[i])
        PROVE  x.sequence # s /\ (x.run # q.run \/ q.run = NoRun)
    <3>1. said[i].conv = q.conv /\ x.sequence = said[i].sequence /\ x.run = said[i].run
      BY <1>10, <2>1 DEF Mark
    <3>2. said[i].sequence \in Nat
      <4>1. said[i] \in MessageShape
        BY DEF TalkInv, TalkShape
      <4> QED BY <4>1 DEF MessageShape
    <3>3. q.run # NoRun => Prior(q.conv, q.run) = {}
      BY <1>2, <1>10 DEF Unsaid
    <3>4. said[i].run = q.run => i \in Prior(q.conv, q.run)
      BY <3>1 DEF Prior
    <3> QED BY <1>4, <3>1, <3>2, <3>3, <3>4
  <2>2. ASSUME NEW b \in Appending, x = Mark(asking[b]) PROVE FALSE
    <3>1. b \in Asker /\ b # a /\ Asking(b) /\ asking[b].conv = q.conv
      BY <1>1, <1>2, <1>10, <2>2, RequestsHaveShape DEF Appending, Mark, TalkInv
    <3>2. Apart(asking[a], asking[b])
      BY <1>2, <1>10, <3>1 DEF TalkInv, RequestsHold
    <3> QED BY <1>1, <3>1, <3>2 DEF Apart
  <2> QED BY <2>1, <2>2 DEF Marks
<1>11. MarksAgree'
  <2>1. \A x \in Marks' : x.turn <= turns'
    BY <1>2, <1>4, <1>7, <1>8, <1>9
  <2>2. \A x, y \in Marks' : x.turn = y.turn => x = y
    <3>1. \A x \in Marks : x.turn # turns + 1
      BY <1>4, <1>8
    <3>2. \A x, y \in Marks : x.turn = y.turn => x = y
      BY DEF TalkInv, MarksAgree
    <3> QED BY <1>7, <1>9, <3>1, <3>2
  <2>3. ASSUME ~crowded', NEW x \in Marks', NEW y \in Marks', x.conv = y.conv,
               x.sequence = y.sequence \/ (x.run = y.run /\ x.run # NoRun)
        PROVE  x = y
    <3>1. ~crowded /\ (x \in Marks \/ x = Mark(p)) /\ (y \in Marks \/ y = Mark(p))
      BY <1>2, <1>9, <2>3
    <3>2. CASE x \in Marks /\ y \in Marks
      BY <2>3, <3>1, <3>2 DEF TalkInv, MarksAgree
    <3>3. CASE x \in Marks /\ y = Mark(p)
      BY <1>7, <1>10, <2>3, <3>1, <3>3
    <3>4. CASE x = Mark(p) /\ y \in Marks
      BY <1>7, <1>10, <2>3, <3>1, <3>4
    <3> QED BY <3>1, <3>2, <3>3, <3>4
  <2> QED BY <2>1, <2>2, <2>3 DEF MarksAgree
<1>12. q.kind = "chat" => q.role = "user"
  BY <1>2 DEF RequestHolds, RequestShape, Role
<1>13. RequestHolds(p)
  BY <1>2, <1>6, <1>12 DEF RequestHolds
<1>14. ASSUME ~crowded PROVE Unsaid(p)
  <2>1. p.run # NoRun => Existing(p.run, p.role) = {}
    BY <1>2, <1>6, <1>14 DEF Unsaid
  <2>2. \A i \in DOMAIN said : said[i].turn # p.turn
    <3>1. \A i \in DOMAIN said : Mark(said[i]) \in Marks /\ Mark(said[i]).turn = said[i].turn
      BY DEF Marks, Mark
    <3> QED BY <1>4, <1>6, <1>8, <3>1
  <2> QED BY <1>6, <2>1, <2>2 DEF Unsaid
<1>15. turns' \in Nat
  BY <1>2, <1>4
<1> QED BY <1>1, <1>2, <1>5, <1>6, <1>11, <1>13, <1>14, <1>15, GoesOn

\* A message is said after those there are.
LEMMA SaidGrows ==
  ASSUME TalkShape, NEW m \in MessageShape, said' = Append(said, m)
  PROVE  /\ said' \in Seq(MessageShape) /\ Len(said) \in Nat /\ DOMAIN said = 1..Len(said)
         /\ DOMAIN said' = 1..(Len(said) + 1) /\ said'[Len(said) + 1] = m
         /\ \A i \in DOMAIN said : i \in DOMAIN said' /\ said'[i] = said[i]
BY DEF TalkShape

\* It says its message, at the place it has.
LEMMA AppendMessageKeeps ==
  ASSUME TalkInv, NEW a \in Asker, AppendMessage(a)
  PROVE  TalkInv'
<1>1. PICK q : q = asking[a]
  OBVIOUS
<1>2. /\ q.at = "append" /\ Asking(a) /\ q \in RequestShape /\ RequestHolds(q)
      /\ ~crowded => Unsaid(q)
      /\ UNCHANGED <<turns, begun, asked, crowded>>
  BY <1>1, RequestsHaveShape DEF TalkInv, RequestsHold, AppendMessage, Asking
<1> DEFINE new == [conv |-> q.conv, role |-> q.role, turn |-> q.turn, sequence |-> q.sequence,
                   run |-> q.run]
<1>3. PICK m : m = new
  OBVIOUS
<1>4. /\ m \in MessageShape /\ Mark(m) = Mark(q) /\ m.conv = q.conv /\ m.role = q.role
      /\ m.turn = q.turn /\ m.sequence = q.sequence /\ m.run = q.run
  BY <1>2, <1>3 DEF MessageShape, RequestShape, Mark
<1>5. /\ said' = Append(said, m) /\ counted' = [counted EXCEPT ![q.conv] = @ + 1]
      /\ Onward(a, IF q.kind = "deep" THEN "look" ELSE "append")
  BY <1>1, <1>3 DEF AppendMessage
<1> HIDE DEF new
<1>6. PICK k : k = Len(said)
  OBVIOUS
<1>7. /\ said' \in Seq(MessageShape) /\ k \in Nat /\ DOMAIN said = 1..k
      /\ DOMAIN said' = 1..(k + 1) /\ said'[k + 1] = m
      /\ \A i \in DOMAIN said : i \in DOMAIN said' /\ said'[i] = said[i]
  BY <1>4, <1>5, <1>6, SaidGrows DEF TalkInv
<1>8. \A i \in DOMAIN said' : i \in DOMAIN said \/ i = k + 1
  BY <1>7
<1>9. Mark(q) \in Marks /\ a \in Appending
  BY <1>1, <1>2 DEF Marks, Appending
<1>10. \A i \in DOMAIN said : Mark(said[i]) \in Marks
  BY DEF Marks
<1>11. \A i \in DOMAIN said : said[i].turn = q.turn => said[i].conv = q.conv /\ said[i].run = q.run
  <2>1. \A i \in DOMAIN said : said[i].turn = q.turn => Mark(said[i]) = Mark(q)
    <3>1. \A i \in DOMAIN said : said[i].turn = q.turn => Mark(said[i]).turn = Mark(q).turn
      BY DEF Mark
    <3> QED BY <1>9, <1>10, <3>1 DEF TalkInv, MarksAgree
  <2>2. \A i \in DOMAIN said : Mark(said[i]).conv = said[i].conv /\ Mark(said[i]).run = said[i].run
    BY DEF Mark
  <2>3. Mark(q).conv = q.conv /\ Mark(q).run = q.run
    BY DEF Mark
  <2> QED BY <2>1, <2>2, <2>3
<1>12. \A r, role : /\ Existing(r, role) \subseteq Existing(r, role)'
                    /\ Existing(r, role)' \subseteq Existing(r, role) \cup {k + 1}
                    /\ k + 1 \in Existing(r, role)' <=> m.run = r /\ m.role = role
  BY <1>7, <1>8 DEF Existing
\* The messages.
<1>13. \A c \in Conversation : counted'[c] = Cardinality(InConversation(c)')
  <2> SUFFICES ASSUME NEW c \in Conversation PROVE counted'[c] = Cardinality(InConversation(c)')
    OBVIOUS
  <2>1. InConversation(c) \subseteq 1..k /\ IsFiniteSet(InConversation(c)) /\ k + 1 \notin InConversation(c)
    <3>1. InConversation(c) \subseteq 1..k
      BY <1>7 DEF InConversation
    <3>2. IsFiniteSet(1..k)
      BY <1>7, FS_Interval
    <3>3. k + 1 \notin 1..k
      BY <1>7
    <3> QED BY <3>1, <3>2, <3>3, FS_Subset
  <2>2. counted[c] = Cardinality(InConversation(c)) /\ counted[c] \in Nat
    BY DEF TalkInv, MessagesHold, TalkShape
  <2>3. CASE c = q.conv
    <3>1. InConversation(c)' = InConversation(c) \cup {k + 1}
      BY <1>4, <1>7, <1>8, <2>3 DEF InConversation
    <3>2. Cardinality(InConversation(c) \cup {k + 1}) = Cardinality(InConversation(c)) + 1
      BY <2>1, FS_AddElement
    <3>3. counted'[c] = counted[c] + 1
      BY <1>5, <2>3 DEF TalkInv, TalkShape
    <3> QED BY <2>2, <3>1, <3>2, <3>3
  <2>4. CASE c # q.conv
    <3>1. InConversation(c)' = InConversation(c)
      BY <1>4, <1>7, <1>8, <2>4 DEF InConversation
    <3>2. counted'[c] = counted[c]
      BY <1>5, <2>4 DEF TalkInv, TalkShape
    <3> QED BY <2>2, <3>1, <3>2
  <2> QED BY <2>3, <2>4
<1>14. \A c \in Conversation : \E n \in Sequences(c)' : \A j \in Sequences(c)' : j <= n
  <2> SUFFICES ASSUME NEW c \in Conversation
               PROVE  \E n \in Sequences(c)' : \A j \in Sequences(c)' : j <= n
    OBVIOUS
  <2>1. Sequences(c) \subseteq Sequences(c)' /\ Sequences(c)' \subseteq Sequences(c) \cup {m.sequence}
    BY <1>7, <1>8 DEF Sequences
  <2>2. Sequences(c) \subseteq Nat /\ m.sequence \in Nat
    <3>1. \A i \in DOMAIN said : said[i] \in MessageShape
      BY DEF TalkInv, TalkShape
    <3> QED BY <1>4, <3>1 DEF Sequences, MessageShape
  <2>3. PICK n \in Sequences(c) : \A j \in Sequences(c) : j <= n
    BY DEF TalkInv, MessagesHold
  <2>4. CASE m.sequence \in Sequences(c)' /\ m.sequence > n
    <3>1. \A j \in Sequences(c)' : j <= m.sequence
      BY <2>1, <2>2, <2>3, <2>4
    <3> QED BY <2>4, <3>1
  <2>5. CASE ~(m.sequence \in Sequences(c)' /\ m.sequence > n)
    <3>1. \A j \in Sequences(c)' : j <= n
      BY <2>1, <2>2, <2>3, <2>5
    <3> QED BY <2>1, <2>3, <3>1
  <2> QED BY <2>4, <2>5
<1>15. ASSUME NEW i \in DOMAIN said', said'[i].role = "assistant", said'[i].run = NoRun
       PROVE  \E j \in 1..(i - 1) : said'[j].turn = said'[i].turn /\ said'[j].role = "user"
  <2>1. CASE i \in DOMAIN said
    <3>1. PICK j \in 1..(i - 1) : said[j].turn = said[i].turn /\ said[j].role = "user"
      BY <1>7, <1>15, <2>1 DEF TalkInv, MessagesHold
    <3>2. j \in DOMAIN said
      BY <1>7, <2>1
    <3> QED BY <1>7, <2>1, <3>1, <3>2
  <2>2. CASE i = k + 1
    <3>1. q.run = NoRun /\ q.role = "assistant"
      BY <1>4, <1>7, <1>15, <2>2
    <3>2. q.kind = "chat"
      BY <1>2, <3>1, ConversationAssumption DEF RequestHolds, RequestShape
    <3>3. PICK j \in DOMAIN said : said[j].turn = q.turn /\ said[j].role = "user"
      BY <1>2, <3>1, <3>2 DEF RequestHolds
    <3>4. j \in 1..(i - 1)
      BY <1>7, <2>2
    <3> QED BY <1>4, <1>7, <2>2, <3>3, <3>4
  <2> QED BY <1>8, <2>1, <2>2
<1>16. ASSUME ~crowded, NEW i \in DOMAIN said, said[i].role = q.role
       PROVE  said[i].turn # q.turn /\ (said[i].run # q.run \/ q.run = NoRun)
  <2>1. CASE q.run # NoRun
    <3>1. i \notin Existing(q.run, q.role)
      BY <1>2, <1>16, <2>1 DEF Unsaid
    <3>2. said[i].run # q.run
      BY <1>16, <3>1 DEF Existing
    <3> QED BY <1>11, <3>2
  <2>2. CASE q.run = NoRun
    BY <1>2, <1>16, <2>2 DEF Unsaid
  <2> QED BY <2>1, <2>2
<1>17. ASSUME ~crowded', NEW i \in DOMAIN said', NEW j \in DOMAIN said', said'[i].role = said'[j].role,
              said'[i].turn = said'[j].turn \/ (said'[i].run = said'[j].run /\ said'[i].run # NoRun)
       PROVE  i = j
  <2>1. ~crowded
    BY <1>2, <1>17
  <2>2. CASE i \in DOMAIN said /\ j \in DOMAIN said
    BY <1>7, <1>17, <2>1, <2>2 DEF TalkInv, MessagesHold
  <2>3. CASE i \in DOMAIN said /\ j = k + 1
    BY <1>4, <1>7, <1>16, <1>17, <2>1, <2>3
  <2>4. CASE i = k + 1 /\ j \in DOMAIN said
    BY <1>4, <1>7, <1>16, <1>17, <2>1, <2>4
  <2> QED BY <1>8, <2>2, <2>3, <2>4
<1>18. MessagesHold'
  BY <1>13, <1>14, <1>15, <1>17 DEF MessagesHold
\* The request.
<1>19. PICK n \in RequestShape \cup {NotAsking} :
         /\ asking' = [asking EXCEPT ![a] = n]
         /\ n.at = "append" => Mark(n) = Mark(q)
         /\ n.at # "idle" => RequestHolds(n)' /\ n.conv = q.conv /\ n.run = q.run
                             /\ (~crowded => Unsaid(n)')
  <2>1. CASE q.kind = "post" \/ q.role = "assistant"
    <3>1. (q.kind = "post" \/ q.role = "assistant") = TRUE
      BY <2>1
    <3>2. asking' = [asking EXCEPT ![a] = NotAsking]
      BY <1>1, <1>5, <3>1, Zenon DEF Onward
    <3>3. NotAsking.at = "idle" /\ NotAsking \in RequestShape \cup {NotAsking}
      BY DEF NotAsking
    <3> QED BY <3>2, <3>3
  <2>2. CASE ~(q.kind = "post" \/ q.role = "assistant")
    <3>1. (q.kind = "post" \/ q.role = "assistant") = FALSE
      BY <2>2
    <3>2. PICK at \in {"look", "append"} : at = IF q.kind = "deep" THEN "look" ELSE "append"
      OBVIOUS
    <3>3. PICK n : n = [q EXCEPT !.role = "assistant", !.at = at]
      OBVIOUS
    <3>4. asking' = [asking EXCEPT ![a] = n]
      BY <1>1, <1>5, <3>1, <3>2, <3>3, Zenon DEF Onward
    <3>5. /\ n \in RequestShape /\ n.role = "assistant" /\ n.at = at /\ n.conv = q.conv
          /\ n.run = q.run /\ n.kind = q.kind /\ n.turn = q.turn /\ n.sequence = q.sequence
      BY <1>2, <3>3 DEF RequestShape, Role
    <3>6. q.role = "user" /\ q.kind \in {"chat", "deep"}
      BY <1>2, <2>2 DEF RequestShape, Role
    <3>7. Mark(n) = Mark(q)
      BY <3>5 DEF Mark
    <3>8. CASE q.kind = "deep"
      <4>1. at = "look" /\ q.run # NoRun
        BY <1>2, <3>2, <3>8, ConversationAssumption DEF RequestHolds
      <4>2. k + 1 \in Existing(q.run, "user")'
        BY <1>4, <1>12, <3>6
      <4>3. RequestHolds(n)'
        BY <1>2, <3>5, <3>8, <4>2 DEF RequestHolds
      <4>4. Unsaid(n)'
        BY <3>5, <4>1 DEF Unsaid
      <4> QED BY <3>4, <3>5, <3>7, <4>3, <4>4
    <3>9. CASE q.kind = "chat"
      <4>1. at = "append" /\ q.run = NoRun
        BY <1>2, <3>2, <3>9 DEF RequestHolds
      <4>2. k + 1 \in DOMAIN said' /\ said'[k + 1].turn = n.turn /\ said'[k + 1].role = "user"
        BY <1>4, <1>7, <3>5, <3>6
      <4>3. RequestHolds(n)'
        BY <3>5, <3>9, <4>1, <4>2 DEF RequestHolds
      <4>4. ASSUME ~crowded PROVE Unsaid(n)'
        <5>1. \A i \in DOMAIN said : said[i].turn # q.turn
          BY <1>2, <3>6, <4>1, <4>4 DEF Unsaid
        <5>2. \A i \in DOMAIN said' : said'[i].turn = n.turn => said'[i].role = "user"
          BY <1>7, <1>8, <3>5, <4>2, <5>1
        <5> QED BY <3>5, <4>1, <5>2 DEF Unsaid
      <4> QED BY <3>4, <3>5, <3>7, <4>3, <4>4
    <3> QED BY <3>6, <3>8, <3>9
  <2> QED BY <2>1, <2>2
<1>20. asking'[a] = n /\ \A b \in Asker : b # a => asking'[b] = asking[b] /\ Asking(b)' = Asking(b)
  BY <1>19 DEF TalkInv, TalkShape, Asking
<1>21. TalkShape'
  <2>1. asking' \in [Asker -> RequestShape \cup {NotAsking}]
    BY <1>19 DEF TalkInv, TalkShape
  <2>2. counted' \in [Conversation -> Nat] /\ turns' \in Nat
    <3>1. counted \in [Conversation -> Nat] /\ turns \in Nat
      BY DEF TalkInv, TalkShape
    <3>2. q.conv \in Conversation
      BY <1>2 DEF RequestShape
    <3>3. counted[q.conv] + 1 \in Nat
      BY <3>1, <3>2
    <3> QED BY <1>2, <1>5, <3>1, <3>3
  <2> QED BY <1>7, <2>1, <2>2 DEF TalkShape
<1>22. MarksAgree'
  <2>1. Marks' \subseteq Marks
    <3> SUFFICES ASSUME NEW x \in Marks' PROVE x \in Marks
      OBVIOUS
    <3>1. ASSUME NEW i \in DOMAIN said', x = Mark(said'[i]) PROVE x \in Marks
      BY <1>4, <1>7, <1>8, <1>9, <1>10, <3>1
    <3>2. ASSUME NEW b \in Asker, asking'[b].at = "append", x = Mark(asking'[b]) PROVE x \in Marks
      <4>1. CASE b = a
        BY <1>9, <1>19, <1>20, <3>2, <4>1
      <4>2. CASE b # a
        BY <1>20, <3>2, <4>2 DEF Marks, Appending
      <4> QED BY <4>1, <4>2
    <3> QED BY <3>1, <3>2 DEF Marks, Appending
  <2> QED BY <1>2, <2>1, FewerMarks DEF TalkInv
<1>23. ASSUME ~crowded, NEW b \in Asker \ {a}, Asking(b) PROVE Apart(q, asking[b]) /\ Apart(asking[b], q)
  BY <1>1, <1>2, <1>23 DEF TalkInv, RequestsHold
<1>24. ASSUME NEW b \in Asker, Asking(b)' PROVE RequestHolds(asking[b])'
  <2>1. CASE b = a
    <3>1. n.at # "idle"
      BY <1>20, <1>24, <2>1 DEF Asking
    <3> QED BY <1>19, <1>20, <2>1, <3>1
  <2>2. CASE b # a
    <3>1. PICK p : p = asking[b]
      OBVIOUS
    <3>2. RequestHolds(p) /\ asking'[b] = p
      BY <1>20, <1>24, <2>2, <3>1 DEF TalkInv, RequestsHold
    <3>3. asked \subseteq asked' /\ DOMAIN said \subseteq DOMAIN said'
      BY <1>2, <1>7
    <3>4. RequestHolds(p)'
      BY <1>7, <3>2, <3>3, RequestKept
    <3> QED BY <3>2, <3>4
  <2> QED BY <2>1, <2>2
<1>25. ASSUME ~crowded', NEW b \in Asker, Asking(b)' PROVE Unsaid(asking[b])'
  <2>1. ~crowded
    BY <1>2, <1>25
  <2>2. CASE b = a
    <3>1. n.at # "idle"
      BY <1>20, <1>25, <2>2 DEF Asking
    <3> QED BY <1>19, <1>20, <2>1, <2>2, <3>1
  <2>3. CASE b # a
    <3>1. PICK p : p = asking[b]
      OBVIOUS
    <3>2. asking'[b] = p /\ Asking(b) /\ Unsaid(p) /\ Apart(p, q) /\ p \in RequestShape
      BY <1>20, <1>23, <1>25, <2>1, <2>3, <3>1, RequestsHaveShape DEF TalkInv, RequestsHold
    <3>3. p.run # NoRun => Existing(p.run, p.role)' = Existing(p.run, p.role)
      BY <1>4, <1>12, <3>2 DEF Apart
    <3>4. Prior(p.conv, p.run)' = Prior(p.conv, p.run)
      BY <1>4, <1>7, <1>8, <3>2 DEF Prior, Apart
    <3>5. p.at = "append" => p.turn # q.turn
      <4> SUFFICES ASSUME p.at = "append", p.turn = q.turn PROVE FALSE
        OBVIOUS
      <4>1. Mark(p) \in Marks /\ Mark(p).turn = Mark(q).turn
        BY <3>1 DEF Marks, Appending, Mark
      <4>2. Mark(p) = Mark(q)
        BY <1>9, <4>1 DEF TalkInv, MarksAgree
      <4>3. p.conv = q.conv
        BY <4>2 DEF Mark
      <4> QED BY <3>2, <4>3 DEF Apart
    <3>6. p.run = NoRun /\ p.at = "append" =>
            \A i \in DOMAIN said' : said'[i].turn = p.turn => p.role = "assistant" /\ said'[i].role = "user"
      <4> SUFFICES ASSUME p.run = NoRun, p.at = "append", NEW i \in DOMAIN said', said'[i].turn = p.turn
                   PROVE  p.role = "assistant" /\ said'[i].role = "user"
        OBVIOUS
      <4>1. i \in DOMAIN said
        BY <1>4, <1>7, <1>8, <3>5
      <4> QED BY <1>7, <3>2, <4>1 DEF Unsaid
    <3>7. Unsaid(p)'
      BY <3>2, <3>3, <3>4, <3>6 DEF Unsaid
    <3> QED BY <3>2, <3>7
  <2> QED BY <2>2, <2>3
<1>26. ASSUME ~crowded', NEW b \in Asker, Asking(b)', NEW c \in Asker \ {b}, Asking(c)'
       PROVE  Apart(asking'[b], asking'[c])
  <2>1. ~crowded
    BY <1>2, <1>26
  <2>2. n.at # "idle" => n.conv = q.conv /\ n.run = q.run
    BY <1>19
  <2>3. CASE b = a
    BY <1>20, <1>23, <1>26, <2>1, <2>2, <2>3 DEF Apart, Asking
  <2>4. CASE c = a
    BY <1>20, <1>23, <1>26, <2>1, <2>2, <2>4 DEF Apart, Asking
  <2>5. CASE b # a /\ c # a
    BY <1>20, <1>26, <2>1, <2>5 DEF TalkInv, RequestsHold
  <2> QED BY <2>3, <2>4, <2>5
<1>27. RequestsHold'
  BY <1>24, <1>25, <1>26 DEF RequestsHold
\* What is served.
<1>28. ASSUME NEW i \in DOMAIN said', said'[i].run \in Objective
       PROVE  <<said'[i].conv, said'[i].run>> \in asked'
  <2>1. CASE i \in DOMAIN said
    BY <1>2, <1>7, <1>28, <2>1 DEF TalkInv, ServedHold
  <2>2. CASE i = k + 1
    <3>1. q.run \in Objective
      BY <1>4, <1>7, <1>28, <2>2
    <3>2. q.kind = "deep"
      BY <1>2, <3>1, ConversationAssumption DEF RequestHolds, RequestShape
    <3> QED BY <1>2, <1>4, <1>7, <2>2, <3>2 DEF RequestHolds
  <2> QED BY <1>8, <2>1, <2>2
<1>29. ASSUME NEW c \in Conversation, NEW o \in Objective, <<c, o>> \in served', NEW role \in Role
       PROVE  Existing(o, role)' # {}
  <2>1. CASE <<c, o>> \in served
    <3>1. Existing(o, role) # {}
      BY <2>1 DEF TalkInv, ServedHold
    <3> QED BY <1>12, <3>1
  <2>2. CASE <<c, o>> \notin served
    <3>1. served' # served
      BY <1>29, <2>2
    <3>2. CASE (q.kind = "post" \/ q.role = "assistant") = TRUE
      <4>1. served' = IF q.kind = "deep" THEN served \cup {<<q.conv, q.run>>} ELSE served
        BY <1>1, <1>5, <3>2, Zenon DEF Onward
      <4>2. q.kind = "deep" /\ q.role = "assistant" /\ o = q.run
        BY <1>29, <2>2, <3>2, <4>1
      <4>3. Existing(o, "user") # {}
        BY <1>2, <4>2 DEF RequestHolds
      <4>4. Existing(o, "user")' # {}
        BY <1>12, <4>3
      <4>5. k + 1 \in Existing(o, "assistant")'
        BY <1>4, <1>12, <4>2
      <4> QED BY <4>4, <4>5 DEF Role
    <3>3. CASE (q.kind = "post" \/ q.role = "assistant") = FALSE
      BY <1>1, <1>5, <3>1, <3>3, Zenon DEF Onward
    <3> QED BY <3>2, <3>3
  <2> QED BY <2>1, <2>2
<1>30. ServedHold'
  BY <1>28, <1>29 DEF ServedHold
<1> QED BY <1>18, <1>21, <1>22, <1>27, <1>30 DEF TalkInv

\* Nobody has said anything.
LEMMA TalkInvInit == TalkInit => TalkInv
<1> SUFFICES ASSUME TalkInit PROVE TalkInv
  OBVIOUS
<1> USE DEF TalkInit
<1>1. said = <<>> /\ DOMAIN said = {} /\ \A a \in Asker : asking[a] = NotAsking /\ ~Asking(a)
  BY DEF Asking, NotAsking
<1>2. TalkShape
  BY DEF TalkShape
<1>3. MarksAgree
  <2>1. Marks = {}
    BY <1>1 DEF Marks, Appending, NotAsking
  <2> QED BY <2>1 DEF MarksAgree
<1>4. MessagesHold
  <2>1. \A c \in Conversation : counted[c] = 0 /\ InConversation(c) = {}
    BY <1>1 DEF InConversation
  <2>2. \A c \in Conversation : Sequences(c) = {0}
    BY <1>1 DEF Sequences
  <2>3. \A c \in Conversation : \E n \in Sequences(c) : \A k \in Sequences(c) : k <= n
    BY <2>2
  <2> QED BY <1>1, <2>1, <2>3, FS_EmptySet DEF MessagesHold
<1>5. RequestsHold
  BY <1>1 DEF RequestsHold
<1>6. ServedHold
  BY <1>1 DEF ServedHold
<1> QED BY <1>2, <1>3, <1>4, <1>5, <1>6 DEF TalkInv

\* Each step keeps the transcripts.
LEMMA TalkStep == TalkInv /\ [TalkNext]_talkVars => TalkInv'
<1> SUFFICES ASSUME TalkInv, [TalkNext]_talkVars PROVE TalkInv'
  OBVIOUS
<1>1. ASSUME NEW a \in Asker, NEW c \in Conversation, AskPlain(a, c) PROVE TalkInv'
  <2>1. BeginRequest(a, "turn", "chat", c, "user", NoRun) /\ asked \subseteq asked'
    BY <1>1 DEF AskPlain
  <2> QED BY <2>1, RequestBegins DEF Role
<1>2. ASSUME NEW a \in Asker, NEW c \in Conversation, NEW o \in Objective, Deep(a, c, o) PROVE TalkInv'
  <2>1. BeginRequest(a, "look", "deep", c, "user", o) /\ asked \subseteq asked' /\ <<c, o>> \in asked'
    BY <1>2 DEF Deep
  <2>2. o \in Run \cup {NoRun} /\ "user" \in Role
    BY DEF Run, Role
  <2> QED BY <2>1, <2>2, RequestBegins
<1>3. ASSUME NEW a \in Asker, NEW c \in Conversation, NEW role \in Role, Post(a, c, role) PROVE TalkInv'
  <2>1. BeginRequest(a, "look", "post", c, role, c) /\ asked \subseteq asked'
    BY <1>3 DEF Post
  <2>2. c \in Run \cup {NoRun}
    BY DEF Run
  <2> QED BY <2>1, <2>2, RequestBegins
<1>4. ASSUME NEW a \in Asker, Look(a) \/ LookPrior(a) \/ NextTurn(a) \/ AppendMessage(a) \/ BreakOff(a)
      PROVE  TalkInv'
  BY <1>4, LookKeeps, LookPriorKeeps, NextTurnKeeps, AppendMessageKeeps, BreakOffKeeps
<1>5. CASE UNCHANGED talkVars
  <2>1. UNCHANGED <<said, counted, turns, asking, asked, served, crowded>>
    BY <1>5 DEF talkVars
  <2>2. TalkShape'
    BY <2>1 DEF TalkInv, TalkShape
  <2>3. MarksAgree'
    <3>1. Marks' = Marks
      BY <2>1 DEF Marks, Appending
    <3> QED BY <2>1, <3>1, FewerMarks DEF TalkInv
  <2>4. MessagesHold' /\ ServedHold'
    BY <2>1, MessagesKept, ServedKept DEF TalkInv
  <2>5. RequestsHold'
    BY <2>1 DEF TalkInv, RequestsHold, RequestHolds, Unsaid, Existing, Prior, Asking
  <2> QED BY <2>2, <2>3, <2>4, <2>5 DEF TalkInv
<1> QED BY <1>1, <1>2, <1>3, <1>4, <1>5, Zenon DEF TalkNext

\* Transcripts whose places agree hold together.
LEMMA TalkInvHolds == TalkInv => TranscriptsHold
<1> SUFFICES ASSUME TalkInv PROVE TurnsHoldTogether /\ RetriesCompleteTheTurn
  BY DEF TranscriptsHold
<1>1. \A i \in DOMAIN said : said[i] \in MessageShape
  BY DEF TalkInv, TalkShape
<1>2. \A i \in DOMAIN said :
        /\ Mark(said[i]) \in Marks /\ Mark(said[i]).turn = said[i].turn
        /\ Mark(said[i]).conv = said[i].conv /\ Mark(said[i]).run = said[i].run
        /\ Mark(said[i]).sequence = said[i].sequence
  BY DEF Marks, Mark
<1>3. TurnsHoldTogether
  <2>1. \A c \in Conversation : counted[c] = Cardinality({i \in DOMAIN said : said[i].conv = c})
    BY DEF TalkInv, MessagesHold, InConversation
  <2>2. \A i \in DOMAIN said : said[i].role = "assistant" /\ said[i].run = NoRun =>
          \E j \in 1..(i - 1) : said[j].turn = said[i].turn /\ said[j].role = "user"
    BY DEF TalkInv, MessagesHold
  <2>3. ASSUME NEW i \in DOMAIN said, NEW j \in DOMAIN said, said[i].turn = said[j].turn
        PROVE  Mark(said[i]) = Mark(said[j])
    BY <1>2, <2>3 DEF TalkInv, MarksAgree
  <2>4. ASSUME ~crowded, NEW i \in DOMAIN said, NEW j \in DOMAIN said, i # j,
               said[i].conv = said[j].conv
        PROVE  /\ said[i].sequence = said[j].sequence => said[i].turn = said[j].turn
               /\ said[i].turn = said[j].turn => said[i].role # said[j].role
    <3>1. said[i].sequence = said[j].sequence => Mark(said[i]) = Mark(said[j])
      BY <1>2, <2>4 DEF TalkInv, MarksAgree
    <3>2. said[i].sequence = said[j].sequence => said[i].turn = said[j].turn
      BY <1>2, <3>1
    <3>3. said[i].turn = said[j].turn => said[i].role # said[j].role
      BY <2>4 DEF TalkInv, MessagesHold
    <3> QED BY <3>2, <3>3
  <2>5. \A i, j \in DOMAIN said :
          /\ said[i].turn = said[j].turn =>
               said[i].conv = said[j].conv /\ said[i].run = said[j].run
               /\ said[i].sequence = said[j].sequence
          /\ ~crowded /\ i # j /\ said[i].conv = said[j].conv =>
               /\ said[i].sequence = said[j].sequence => said[i].turn = said[j].turn
               /\ said[i].turn = said[j].turn => said[i].role # said[j].role
    BY <1>2, <2>3, <2>4
  <2> QED BY <2>1, <2>2, <2>5, Zenon DEF TurnsHoldTogether
<1>4. ASSUME ~crowded, NEW r \in Run, NEW role \in Role
      PROVE  Cardinality(Existing(r, role)) <= 1
  <2>1. r # NoRun
    BY ConversationAssumption DEF Run
  <2>2. \A i, j \in Existing(r, role) : i = j
    BY <1>4, <2>1 DEF Existing, TalkInv, MessagesHold
  <2>3. CASE Existing(r, role) = {}
    BY <2>3, FS_EmptySet
  <2>4. ASSUME NEW i \in Existing(r, role) PROVE Cardinality(Existing(r, role)) = 1
    <3>1. Existing(r, role) = {i}
      BY <2>2
    <3> QED BY <3>1, FS_Singleton
  <2> QED BY <2>3, <2>4
<1>5. ASSUME ~crowded, NEW c \in Conversation, NEW o \in Objective, <<c, o>> \in served,
             \A d \in Conversation \ {c} : <<d, o>> \notin asked
      PROVE  \E i \in Existing(o, "user"), j \in Existing(o, "assistant") :
               said[i].conv = c /\ said[i].turn = said[j].turn
  <2>1. Existing(o, "user") # {} /\ Existing(o, "assistant") # {}
    BY <1>5 DEF TalkInv, ServedHold, Role
  <2>2. PICK i \in Existing(o, "user"), j \in Existing(o, "assistant") : TRUE
    BY <2>1
  <2>3. i \in DOMAIN said /\ j \in DOMAIN said /\ said[i].run = o /\ said[j].run = o /\ o # NoRun
    BY ConversationAssumption DEF Existing
  <2>4. \A k \in DOMAIN said : said[k].run = o => said[k].conv = c
    <3>1. \A k \in DOMAIN said : said[k].conv \in Conversation
      BY <1>1 DEF MessageShape
    <3>2. \A k \in DOMAIN said : said[k].run = o => <<said[k].conv, o>> \in asked
      BY DEF TalkInv, ServedHold
    <3> QED BY <1>5, <3>1, <3>2
  <2>5. Mark(said[i]) = Mark(said[j])
    BY <1>2, <1>5, <2>3, <2>4 DEF TalkInv, MarksAgree
  <2> QED BY <1>2, <2>3, <2>4, <2>5
<1>6. RetriesCompleteTheTurn
  BY <1>4, <1>5 DEF RetriesCompleteTheTurn
<1> QED BY <1>3, <1>6

\* A transcript holds together however its requests interleave, break off and are
\* made again: the messages of a turn are one question and its answer, numbers are
\* not used twice while no requests overlap, and a retry completes the turn.
THEOREM TranscriptsAlwaysHold == TalkSpec => []TranscriptsHold
<1>1. TalkInit => TalkInv
  BY TalkInvInit
<1>2. TalkInv /\ [TalkNext]_talkVars => TalkInv'
  BY TalkStep
<1>3. TalkInv => TranscriptsHold
  BY TalkInvHolds
<1> QED BY <1>1, <1>2, <1>3, PTL DEF TalkSpec

\* The requests that have no turn yet, and those that have still a question to record.
MayDraw(q) == q.at \in {"look", "prior", "turn"} /\ q.turn = 0
MayAsk(q) == q.at # "idle" /\ q.kind # "post" /\ q.role = "user"
InTalk == {a \in Asker : Asking(a)}
ToDraw == {a \in Asker : MayDraw(asking[a])}
ToAsk == {a \in Asker : MayAsk(asking[a])}
One(holds) == IF holds THEN 1 ELSE 0

\* A request draws one turn and records two messages at most, for one that has a turn
\* finds it again; and no number is beyond the turns drawn.
WithinTurns(x) == x.turn <= turns /\ x.sequence <= turns
FindsTurn(q) ==
  /\ q.at = "append" => q.turn # 0
  /\ q.at \in {"look", "prior", "turn"} /\ q.turn # 0 =>
       q.at # "turn" /\ Prior(q.conv, q.run) # {}
TalkCounts ==
  /\ begun \in Turn /\ crowded \in BOOLEAN
  /\ served \subseteq asked /\ asked \subseteq Conversation \X Objective
  /\ IsFiniteSet(InTalk)
  /\ turns + Cardinality(ToDraw) <= begun
  /\ Len(said) + Cardinality(InTalk) + Cardinality(ToAsk) <= 2 * begun
  /\ \A i \in DOMAIN said : WithinTurns(said[i]) /\ said[i].turn # 0
  /\ \A a \in Asker : Asking(a) => WithinTurns(asking[a]) /\ FindsTurn(asking[a])

\* One member more or less.
LEMMA OneMember ==
  ASSUME NEW S, IsFiniteSet(S), NEW a, NEW T, T = S \cup {a} \/ T = S \ {a}
  PROVE  /\ IsFiniteSet(T) /\ Cardinality(S) \in Nat /\ Cardinality(T) \in Nat
         /\ Cardinality(T) = Cardinality(S) + One(a \in T) - One(a \in S)
<1>1. CASE T = S \cup {a}
  BY <1>1, FS_AddElement, FS_CardinalityType DEF One
<1>2. CASE T = S \ {a}
  <2>1. /\ IsFiniteSet(T)
        /\ Cardinality(T) = IF a \in S THEN Cardinality(S) - 1 ELSE Cardinality(S)
    BY <1>2, FS_RemoveElement
  <2>2. Cardinality(S) \in Nat /\ Cardinality(T) \in Nat
    BY <2>1, FS_CardinalityType
  <2> QED BY <1>2, <2>1, <2>2 DEF One
<1> QED BY <1>1, <1>2

\* What the move of a request changes of the counts.
LEMMA CountsMove ==
  ASSUME TalkShape, IsFiniteSet(InTalk), NEW a \in Asker, NEW q,
         asking' = [asking EXCEPT ![a] = q]
  PROVE  /\ IsFiniteSet(InTalk')
         /\ Cardinality(InTalk) \in Nat /\ Cardinality(InTalk') \in Nat
         /\ Cardinality(ToDraw) \in Nat /\ Cardinality(ToDraw') \in Nat
         /\ Cardinality(ToAsk) \in Nat /\ Cardinality(ToAsk') \in Nat
         /\ Cardinality(InTalk') = Cardinality(InTalk) + One(q.at # "idle") - One(Asking(a))
         /\ Cardinality(ToDraw') = Cardinality(ToDraw) + One(MayDraw(q)) - One(MayDraw(asking[a]))
         /\ Cardinality(ToAsk') = Cardinality(ToAsk) + One(MayAsk(q)) - One(MayAsk(asking[a]))
<1>1. asking'[a] = q /\ \A b \in Asker : b # a => asking'[b] = asking[b]
  BY DEF TalkShape
<1>2. /\ InTalk' = InTalk \cup {a} \/ InTalk' = InTalk \ {a}
      /\ (a \in InTalk' <=> q.at # "idle") /\ (a \in InTalk <=> Asking(a))
  BY <1>1 DEF InTalk, Asking
<1>3. /\ ToDraw' = ToDraw \cup {a} \/ ToDraw' = ToDraw \ {a}
      /\ (a \in ToDraw' <=> MayDraw(q)) /\ (a \in ToDraw <=> MayDraw(asking[a]))
  BY <1>1 DEF ToDraw, MayDraw
<1>4. /\ ToAsk' = ToAsk \cup {a} \/ ToAsk' = ToAsk \ {a}
      /\ (a \in ToAsk' <=> MayAsk(q)) /\ (a \in ToAsk <=> MayAsk(asking[a]))
  BY <1>1 DEF ToAsk, MayAsk
<1>5. IsFiniteSet(ToDraw) /\ IsFiniteSet(ToAsk)
  <2>1. ToDraw \subseteq InTalk /\ ToAsk \subseteq InTalk
    BY DEF ToDraw, ToAsk, InTalk, MayDraw, MayAsk, Asking
  <2> QED BY <2>1, FS_Subset
<1>6. /\ IsFiniteSet(InTalk') /\ Cardinality(InTalk) \in Nat /\ Cardinality(InTalk') \in Nat
      /\ Cardinality(InTalk') = Cardinality(InTalk) + One(a \in InTalk') - One(a \in InTalk)
  BY <1>2, OneMember
<1>7. /\ Cardinality(ToDraw) \in Nat /\ Cardinality(ToDraw') \in Nat
      /\ Cardinality(ToDraw') = Cardinality(ToDraw) + One(a \in ToDraw') - One(a \in ToDraw)
  BY <1>3, <1>5, OneMember
<1>8. /\ Cardinality(ToAsk) \in Nat /\ Cardinality(ToAsk') \in Nat
      /\ Cardinality(ToAsk') = Cardinality(ToAsk) + One(a \in ToAsk') - One(a \in ToAsk)
  BY <1>4, <1>5, OneMember
<1> QED BY <1>2, <1>3, <1>4, <1>6, <1>7, <1>8 DEF One

\* What was said stays, and what is new has a turn.
SaysMore(longer) ==
  /\ Len(said') = Len(said) + longer
  /\ DOMAIN said \subseteq DOMAIN said' /\ \A i \in DOMAIN said : said'[i] = said[i]
  /\ \A i \in DOMAIN said' \ DOMAIN said :
       said'[i].turn # 0 /\ said'[i].turn <= turns' /\ said'[i].sequence <= turns'

\* The counts after a step of one request, which draws and records what it may.
LEMMA CountsHold ==
  ASSUME TalkShape, TalkCounts, NEW a \in Asker, NEW q,
         asking' = [asking EXCEPT ![a] = q],
         begun' \in Turn, turns' \in Nat, turns <= turns',
         NEW longer \in {0, 1}, SaysMore(longer),
         turns' - turns + One(MayDraw(q)) <= begun' - begun + One(MayDraw(asking[a])),
         longer + One(q.at # "idle") + One(MayAsk(q)) <=
           2 * (begun' - begun) + One(Asking(a)) + One(MayAsk(asking[a])),
         q.at # "idle" => WithinTurns(q)' /\ FindsTurn(q)',
         asked' \subseteq Conversation \X Objective, served' \subseteq asked', crowded' \in BOOLEAN
  PROVE  TalkCounts'
<1> USE DEF One
<1>0. begun \in Nat /\ begun' \in Nat /\ turns \in Nat /\ Len(said) \in Nat
  BY ConversationAssumption, LenProperties DEF TalkCounts, TalkShape, Turn
<1>1. /\ IsFiniteSet(InTalk')
      /\ Cardinality(InTalk) \in Nat /\ Cardinality(InTalk') \in Nat
      /\ Cardinality(ToDraw) \in Nat /\ Cardinality(ToDraw') \in Nat
      /\ Cardinality(ToAsk) \in Nat /\ Cardinality(ToAsk') \in Nat
      /\ Cardinality(InTalk') = Cardinality(InTalk) + One(q.at # "idle") - One(Asking(a))
      /\ Cardinality(ToDraw') = Cardinality(ToDraw) + One(MayDraw(q)) - One(MayDraw(asking[a]))
      /\ Cardinality(ToAsk') = Cardinality(ToAsk) + One(MayAsk(q)) - One(MayAsk(asking[a]))
  BY CountsMove DEF TalkCounts
<1>3. turns' + Cardinality(ToDraw') <= begun'
  <2>1. PICK more \in 0..1, less \in 0..1 :
          more = One(MayDraw(q)) /\ less = One(MayDraw(asking[a]))
    OBVIOUS
  <2>2. turns + Cardinality(ToDraw) <= begun
    BY DEF TalkCounts
  <2>3. PICK had \in Nat, has \in Nat : had = Cardinality(ToDraw) /\ has = Cardinality(ToDraw')
    BY <1>1
  <2>4. has = had + more - less
    BY <1>1, <2>1, <2>3
  <2>5. turns' - turns + more <= begun' - begun + less
    BY <2>1
  <2>6. PICK t \in Nat, t1 \in Nat, b \in Nat, b1 \in Nat :
          t = turns /\ t1 = turns' /\ b = begun /\ b1 = begun'
    BY <1>0
  <2>7. t + had <= b /\ t1 - t + more <= b1 - b + less
    BY <2>2, <2>3, <2>5, <2>6
  <2>8. t1 + has <= b1
    BY <2>4, <2>7
  <2> QED BY <2>3, <2>6, <2>8
<1>4. Len(said') + Cardinality(InTalk') + Cardinality(ToAsk') <= 2 * begun'
  <2>1. Len(said) + Cardinality(InTalk) + Cardinality(ToAsk) <= 2 * begun
    BY DEF TalkCounts
  <2>2. Len(said') = Len(said) + longer
    BY DEF SaysMore
  <2>3. PICK talks \in 0..1, talked \in 0..1, asks \in 0..1, was \in 0..1 :
          /\ talks = One(q.at # "idle") /\ talked = One(Asking(a))
          /\ asks = One(MayAsk(q)) /\ was = One(MayAsk(asking[a]))
    OBVIOUS
  <2>4. PICK in \in Nat, in1 \in Nat, ask \in Nat, ask1 \in Nat :
          /\ in = Cardinality(InTalk) /\ in1 = Cardinality(InTalk')
          /\ ask = Cardinality(ToAsk) /\ ask1 = Cardinality(ToAsk')
    BY <1>1
  <2>5. in1 = in + talks - talked /\ ask1 = ask + asks - was
    BY <1>1, <2>3, <2>4
  <2>6. longer + talks + asks <= 2 * (begun' - begun) + talked + was
    BY <2>3
  <2>7. PICK l \in Nat, l1 \in Nat, b \in Nat, b1 \in Nat :
          l = Len(said) /\ l1 = Len(said') /\ b = begun /\ b1 = begun'
    BY <1>0, <2>2
  <2>8. l + in + ask <= 2 * b /\ l1 = l + longer
        /\ longer + talks + asks <= 2 * (b1 - b) + talked + was
    BY <2>1, <2>2, <2>4, <2>6, <2>7
  <2>9. l1 + in1 + ask1 <= 2 * b1
    BY <2>5, <2>8
  <2> QED BY <2>4, <2>7, <2>9
<1>5. \A i \in DOMAIN said' : WithinTurns(said[i])' /\ said'[i].turn # 0
  <2>1. ASSUME NEW i \in DOMAIN said PROVE WithinTurns(said[i])' /\ said'[i].turn # 0
    <3>1. PICK m : m = said[i]
      OBVIOUS
    <3>2. WithinTurns(m) /\ m.turn # 0 /\ said'[i] = m
      BY <3>1 DEF TalkCounts, SaysMore
    <3>3. m \in MessageShape
      BY <3>1 DEF TalkShape
    <3>4. m.turn \in Nat /\ m.sequence \in Nat
      BY <3>3 DEF MessageShape
    <3>5. m.turn <= turns' /\ m.sequence <= turns'
      BY <1>0, <3>2, <3>4, SMTT(30) DEF WithinTurns
    <3> QED BY <3>2, <3>5 DEF WithinTurns
  <2> QED BY <2>1 DEF WithinTurns, SaysMore
<1>6. ASSUME NEW b \in Asker, Asking(b)'
      PROVE  WithinTurns(asking[b])' /\ FindsTurn(asking[b])'
  <2>1. CASE b = a
    <3>1. asking'[b] = q
      BY <2>1 DEF TalkShape
    <3> QED BY <1>6, <3>1 DEF Asking
  <2>2. CASE b # a
    <3>1. asking'[b] = asking[b]
      BY <2>2 DEF TalkShape
    <3>2. Asking(b) /\ WithinTurns(asking[b]) /\ FindsTurn(asking[b])
      BY <1>6, <3>1 DEF Asking, TalkCounts
    <3>3. PICK p : p = asking[b]
      OBVIOUS
    <3>4. p \in RequestShape
      BY <3>2, <3>3, RequestsHaveShape
    <3>5. WithinTurns(p)'
      BY <1>0, <3>2, <3>3, <3>4 DEF WithinTurns, RequestShape
    <3>6. Prior(p.conv, p.run) \subseteq Prior(p.conv, p.run)'
      BY DEF Prior, SaysMore
    <3>7. FindsTurn(p)'
      BY <3>2, <3>3, <3>6 DEF FindsTurn
    <3> QED BY <3>1, <3>3, <3>5, <3>7
  <2> QED BY <2>1, <2>2
<1> QED BY <1>1, <1>3, <1>4, <1>5, <1>6 DEF TalkCounts

\* The same when nobody says anything.
LEMMA QuietCounts ==
  ASSUME TalkShape, TalkCounts, NEW a \in Asker, NEW q,
         asking' = [asking EXCEPT ![a] = q], said' = said,
         begun' \in Turn, turns' \in Nat, turns <= turns',
         turns' - turns + One(MayDraw(q)) <= begun' - begun + One(MayDraw(asking[a])),
         One(q.at # "idle") + One(MayAsk(q)) <=
           2 * (begun' - begun) + One(Asking(a)) + One(MayAsk(asking[a])),
         q.at # "idle" => WithinTurns(q)' /\ FindsTurn(q),
         asked' \subseteq Conversation \X Objective, served' \subseteq asked', crowded' \in BOOLEAN
  PROVE  TalkCounts'
<1>1. PICK longer \in {0, 1} : longer = 0
  OBVIOUS
<1>2. /\ Len(said') = Len(said) + longer /\ DOMAIN said \subseteq DOMAIN said'
      /\ \A i \in DOMAIN said : said'[i] = said[i] /\ DOMAIN said' = DOMAIN said
  <2>1. Len(said) \in Nat
    BY LenProperties DEF TalkShape
  <2> QED BY <1>1, <2>1
<1>3. longer + One(q.at # "idle") + One(MayAsk(q)) <=
        2 * (begun' - begun) + One(Asking(a)) + One(MayAsk(asking[a]))
  <2>1. One(q.at # "idle") \in Nat
    BY DEF One
  <2> QED BY <1>1, <2>1
<1>4. q.at # "idle" => WithinTurns(q)' /\ FindsTurn(q)'
  BY DEF FindsTurn, Prior
<1>5. SaysMore(longer)
  BY <1>2 DEF SaysMore
<1> QED BY <1>3, <1>4, <1>5, CountsHold

\* A request begins.
LEMMA BeginCounts ==
  ASSUME TalkShape, TalkCounts, NEW a \in Asker, NEW c \in Conversation, NEW at \in {"look", "turn"},
         NEW kind \in {"chat", "deep", "post"}, NEW role \in Role, NEW r \in Run \cup {NoRun},
         BeginRequest(a, at, kind, c, role, r), asked \subseteq asked', asked' \subseteq Conversation \X Objective
  PROVE  TalkCounts'
<1> DEFINE q == [at |-> at, kind |-> kind, conv |-> c, role |-> role, turn |-> 0, sequence |-> 0,
                 run |-> r]
<1>1. /\ ~Asking(a) /\ asking' = [asking EXCEPT ![a] = q] /\ UNCHANGED <<said, turns, served>>
      /\ crowded' = (crowded \/ Overlaps(c, r)) /\ begun < MaxRequests /\ begun' = begun + 1
  BY DEF BeginRequest
<1>2. q.at # "idle" /\ q.turn = 0 /\ q.sequence = 0 /\ q.kind = kind /\ q.role = role
      /\ q.at # "append"
  OBVIOUS
<1> HIDE DEF q
<1>3. /\ begun \in Nat /\ begun' \in Turn /\ begun' - begun = 1 /\ turns \in Nat /\ turns' = turns
      /\ Len(said) \in Nat
  BY <1>1, ConversationAssumption, LenProperties DEF TalkCounts, TalkShape, Turn
<1>4. ~MayDraw(asking[a]) /\ ~MayAsk(asking[a])
  BY <1>1 DEF MayDraw, MayAsk, Asking
<1>5. turns' - turns + One(MayDraw(q)) <= begun' - begun + One(MayDraw(asking[a]))
  BY <1>3, <1>4 DEF One
<1>6. One(q.at # "idle") + One(MayAsk(q)) <=
        2 * (begun' - begun) + One(Asking(a)) + One(MayAsk(asking[a]))
  BY <1>1, <1>3, <1>4 DEF One
<1>7. WithinTurns(q)' /\ FindsTurn(q)
  <2>1. q.turn <= turns' /\ q.sequence <= turns'
    BY <1>2, <1>3
  <2> QED BY <1>2, <2>1 DEF WithinTurns, FindsTurn
<1>8. crowded' \in BOOLEAN /\ served' \subseteq asked' /\ turns <= turns' /\ turns' \in Nat
  BY <1>1, <1>3 DEF TalkCounts
<1> QED BY <1>1, <1>3, <1>5, <1>6, <1>7, <1>8, QuietCounts

\* A request goes on, or ends.
LEMMA GoingOnCounts ==
  ASSUME TalkInv, TalkCounts, NEW a \in Asker,
         Look(a) \/ LookPrior(a) \/ NextTurn(a) \/ AppendMessage(a) \/ BreakOff(a)
  PROVE  TalkCounts'
<1>1. PICK q : q = asking[a]
  OBVIOUS
<1>2. q.at # "idle" /\ begun' = begun /\ asked' = asked /\ crowded' = crowded
  BY <1>1 DEF Look, LookPrior, NextTurn, AppendMessage, BreakOff, Asking
<1>3. /\ TalkShape /\ Asking(a) /\ q \in RequestShape /\ RequestHolds(q)
      /\ WithinTurns(q) /\ FindsTurn(q)
  BY <1>1, <1>2, RequestsHaveShape DEF TalkInv, TalkCounts, RequestsHold, Asking
<1>4. /\ begun \in Nat /\ begun' \in Turn /\ begun' - begun = 0 /\ turns \in Nat /\ Len(said) \in Nat
      /\ q.turn \in Nat /\ q.sequence \in Nat /\ asked' \subseteq Conversation \X Objective
      /\ crowded' \in BOOLEAN
  BY <1>2, <1>3, ConversationAssumption, LenProperties DEF TalkCounts, TalkShape, Turn, RequestShape
<1>5. NotAsking.at = "idle" /\ ~MayDraw(NotAsking) /\ ~MayAsk(NotAsking)
  BY DEF NotAsking, MayDraw, MayAsk
<1>6. ASSUME NEW p, asking' = [asking EXCEPT ![a] = p], said' = said, turns' = turns,
             served' \subseteq asked', MayDraw(p) => MayDraw(q), MayAsk(p) => MayAsk(q),
             p.at # "idle" => WithinTurns(p) /\ FindsTurn(p)
      PROVE  TalkCounts'
  <2>1. turns' - turns + One(MayDraw(p)) <= begun' - begun + One(MayDraw(asking[a]))
    BY <1>1, <1>4, <1>6 DEF One
  <2>2. One(p.at # "idle") + One(MayAsk(p)) <=
          2 * (begun' - begun) + One(Asking(a)) + One(MayAsk(asking[a]))
    BY <1>1, <1>3, <1>4, <1>6 DEF One
  <2>3. p.at # "idle" => WithinTurns(p)'
    BY <1>6 DEF WithinTurns
  <2>4. turns' \in Nat /\ turns <= turns'
    BY <1>4, <1>6
  <2> QED BY <1>3, <1>4, <1>6, <2>1, <2>2, <2>3, <2>4, QuietCounts
<1>7. served \subseteq asked' /\ (q.kind = "deep" => <<q.conv, q.run>> \in asked')
  BY <1>2, <1>3 DEF TalkCounts, RequestHolds
<1>8. CASE BreakOff(a)
  BY <1>5, <1>6, <1>7, <1>8 DEF BreakOff
<1>9. CASE Look(a)
  <2>1. said' = said /\ turns' = turns /\ q.at = "look" /\ q.kind # "chat"
    BY <1>1, <1>3, <1>9 DEF Look, RequestHolds
  <2>2. CASE Existing(q.run, q.role) = {}
    <3>1. asking' = [asking EXCEPT ![a] = [q EXCEPT !.at = "prior"]] /\ served' = served
      BY <1>1, <1>9, <2>2 DEF Look, TalkInv, TalkShape
    <3>2. PICK p : p = [q EXCEPT !.at = "prior"]
      OBVIOUS
    <3>3. /\ p.at = "prior" /\ p.kind = q.kind /\ p.role = q.role /\ p.conv = q.conv /\ p.run = q.run
          /\ p.turn = q.turn /\ p.sequence = q.sequence
      BY <1>3, <3>2 DEF RequestShape
    <3>4. MayDraw(p) => MayDraw(q)
      BY <2>1, <3>3 DEF MayDraw
    <3>5. MayAsk(p) => MayAsk(q)
      BY <1>2, <3>3 DEF MayAsk
    <3>6. WithinTurns(p) /\ FindsTurn(p)
      BY <1>3, <2>1, <3>3 DEF WithinTurns, FindsTurn
    <3> QED BY <1>6, <1>7, <2>1, <3>1, <3>2, <3>4, <3>5, <3>6
  <2>3. CASE Existing(q.run, q.role) # {}
    <3>1. Onward(a, "look")
      BY <1>1, <1>9, <2>3 DEF Look
    <3>2. served' \subseteq asked'
      BY <1>1, <1>7, <3>1 DEF Onward
    <3>3. CASE q.kind = "post" \/ q.role = "assistant"
      <4>1. asking' = [asking EXCEPT ![a] = NotAsking]
        BY <1>1, <3>1, <3>3 DEF Onward
      <4> QED BY <1>5, <1>6, <2>1, <3>2, <4>1
    <3>4. CASE ~(q.kind = "post" \/ q.role = "assistant")
      <4>1. PICK p : p = [q EXCEPT !.role = "assistant", !.at = "look"]
        OBVIOUS
      <4>2. asking' = [asking EXCEPT ![a] = p]
        BY <1>1, <3>1, <3>4, <4>1 DEF Onward
      <4>3. /\ p.at = "look" /\ p.kind = "deep" /\ p.role = "assistant" /\ p.conv = q.conv
            /\ p.run = q.run /\ p.turn = q.turn /\ p.sequence = q.sequence
        BY <1>3, <2>1, <3>4, <4>1 DEF RequestShape
      <4>5. (MayDraw(p) => MayDraw(q)) /\ ~MayAsk(p)
        BY <2>1, <4>3 DEF MayDraw, MayAsk
      <4>6. WithinTurns(p) /\ FindsTurn(p)
        BY <1>3, <2>1, <4>3 DEF WithinTurns, FindsTurn
      <4> QED BY <1>6, <2>1, <3>2, <4>2, <4>5, <4>6
    <3> QED BY <3>3, <3>4
  <2> QED BY <2>2, <2>3
<1>10. CASE LookPrior(a)
  <2>1. q.at = "prior" /\ UNCHANGED <<said, turns, served>>
    BY <1>1, <1>10 DEF LookPrior
  <2>2. CASE Prior(q.conv, q.run) = {} /\ asking' = [asking EXCEPT ![a].at = "turn"]
    <3>1. PICK p : p = [q EXCEPT !.at = "turn"]
      OBVIOUS
    <3>2. asking' = [asking EXCEPT ![a] = p]
      BY <1>1, <2>2, <3>1 DEF TalkInv, TalkShape
    <3>3. /\ p.at = "turn" /\ p.kind = q.kind /\ p.role = q.role /\ p.conv = q.conv
          /\ p.run = q.run /\ p.turn = q.turn /\ p.sequence = q.sequence
      BY <1>3, <3>1 DEF RequestShape
    <3>4. q.turn = 0
      BY <1>3, <2>1, <2>2 DEF FindsTurn
    <3>5. MayDraw(q) /\ (MayAsk(p) => MayAsk(q))
      BY <1>2, <2>1, <3>3, <3>4 DEF MayDraw, MayAsk
    <3>6. WithinTurns(p) /\ FindsTurn(p)
      BY <1>3, <3>3, <3>4 DEF WithinTurns, FindsTurn
    <3> QED BY <1>6, <1>7, <2>1, <3>2, <3>5, <3>6
  <2>3. ASSUME NEW i \in Prior(q.conv, q.run),
               asking' = [asking EXCEPT ![a].at = "append", ![a].turn = said[i].turn,
                                        ![a].sequence = said[i].sequence]
        PROVE  TalkCounts'
    <3>1. PICK p : p = [q EXCEPT !.at = "append", !.turn = said[i].turn,
                                 !.sequence = said[i].sequence]
      OBVIOUS
    <3>2. asking' = [asking EXCEPT ![a] = p]
      BY <1>1, <2>3, <3>1 DEF TalkInv, TalkShape
    <3>3. /\ p.at = "append" /\ p.kind = q.kind /\ p.role = q.role
          /\ p.turn = said[i].turn /\ p.sequence = said[i].sequence
      BY <1>3, <3>1 DEF RequestShape
    <3>4. WithinTurns(said[i]) /\ said[i].turn # 0
      BY DEF Prior, TalkCounts
    <3>5. ~MayDraw(p) /\ (MayAsk(p) => MayAsk(q))
      BY <1>2, <3>3 DEF MayDraw, MayAsk
    <3>6. WithinTurns(p) /\ FindsTurn(p)
      BY <3>3, <3>4 DEF WithinTurns, FindsTurn
    <3> QED BY <1>6, <1>7, <2>1, <3>2, <3>5, <3>6
  <2> QED BY <1>1, <1>10, <2>2, <2>3 DEF LookPrior
<1>11. CASE NextTurn(a)
  <2>1. /\ q.at = "turn" /\ said' = said /\ served' = served /\ turns' = turns + 1
    BY <1>1, <1>11 DEF NextTurn
  <2>2. PICK s : s = NextSequence(q.conv)
    OBVIOUS
  <2>3. s \in Nat /\ s <= turns + 1
    <3>1. q.conv \in Conversation
      BY <1>3 DEF RequestShape
    <3>2. s \in Nat
      BY <2>2, <3>1, NextIsNew DEF TalkInv
    <3>3. \E n \in Sequences(q.conv) : \A k \in Sequences(q.conv) : k <= n
      BY <3>1 DEF TalkInv, MessagesHold
    <3>4. PICK n \in Sequences(q.conv) : s = 1 + n
      BY <2>2, <3>3 DEF NextSequence
    <3>5. \A i \in DOMAIN said : said[i].sequence <= turns
      BY DEF TalkCounts, WithinTurns
    <3>6. n <= turns
      BY <1>4, <3>5 DEF Sequences
    <3>7. n \in Nat
      <4>1. \A i \in DOMAIN said : said[i] \in MessageShape
        BY <1>3 DEF TalkShape
      <4> QED BY <4>1 DEF Sequences, MessageShape
    <3> QED BY <1>4, <3>2, <3>4, <3>6, <3>7
  <2>4. PICK p : p = [q EXCEPT !.at = "append", !.turn = turns + 1, !.sequence = s]
    OBVIOUS
  <2>5. asking' = [asking EXCEPT ![a] = p]
    BY <1>1, <1>11, <2>2, <2>4 DEF NextTurn, TalkInv, TalkShape
  <2>6. /\ p.at = "append" /\ p.kind = q.kind /\ p.role = q.role
        /\ p.turn = turns + 1 /\ p.sequence = s
    BY <1>3, <2>4 DEF RequestShape
  <2>7. q.turn = 0
    BY <1>3, <2>1 DEF FindsTurn
  <2>8. MayDraw(asking[a]) /\ ~MayDraw(p) /\ (MayAsk(p) => MayAsk(asking[a]))
    BY <1>1, <1>2, <2>1, <2>6, <2>7 DEF MayDraw, MayAsk
  <2>9. turns' - turns + One(MayDraw(p)) <= begun' - begun + One(MayDraw(asking[a]))
    BY <1>4, <2>1, <2>8 DEF One
  <2>10. One(p.at # "idle") + One(MayAsk(p)) <=
           2 * (begun' - begun) + One(Asking(a)) + One(MayAsk(asking[a]))
    BY <1>3, <1>4, <2>6, <2>8 DEF One
  <2>11. WithinTurns(p)' /\ FindsTurn(p)
    BY <1>4, <2>1, <2>3, <2>6 DEF WithinTurns, FindsTurn
  <2>12. turns' \in Nat /\ turns <= turns' /\ served' \subseteq asked'
    BY <1>4, <1>7, <2>1
  <2> QED BY <1>3, <1>4, <2>1, <2>5, <2>9, <2>10, <2>11, <2>12, QuietCounts
<1>12. CASE AppendMessage(a)
  <2> DEFINE new == [conv |-> q.conv, role |-> q.role, turn |-> q.turn, sequence |-> q.sequence,
                     run |-> q.run]
  <2>1. PICK m : m = new
    OBVIOUS
  <2>2. /\ m \in MessageShape /\ m.conv = q.conv /\ m.turn = q.turn /\ m.sequence = q.sequence
        /\ m.run = q.run
    BY <1>3, <2>1 DEF MessageShape, RequestShape
  <2>3. /\ q.at = "append" /\ said' = Append(said, m) /\ turns' = turns
        /\ Onward(a, IF q.kind = "deep" THEN "look" ELSE "append")
    BY <1>1, <1>12, <2>1 DEF AppendMessage
  <2> HIDE DEF new
  <2>4. /\ Len(said) \in Nat /\ DOMAIN said = 1..Len(said)
        /\ DOMAIN said' = 1..(Len(said) + 1) /\ said'[Len(said) + 1] = m
        /\ said' \in Seq(MessageShape)
        /\ \A i \in DOMAIN said : i \in DOMAIN said' /\ said'[i] = said[i]
    BY <1>3, <2>2, <2>3, SaidGrows
  <2>5. PICK longer \in {0, 1} : longer = 1
    OBVIOUS
  <2>6. Len(said') = Len(said) + longer
    BY <1>3, <2>2, <2>3, <2>5 DEF TalkShape
  <2>7. \A i \in DOMAIN said' \ DOMAIN said :
          said'[i].turn # 0 /\ said'[i].turn <= turns' /\ said'[i].sequence <= turns'
    <3>1. \A i \in DOMAIN said' \ DOMAIN said : said'[i] = m
      BY <2>4
    <3>2. m.turn <= turns' /\ m.sequence <= turns' /\ m.turn # 0
      BY <1>3, <2>2, <2>3 DEF WithinTurns, FindsTurn
    <3> QED BY <3>1, <3>2
  <2>8. Prior(q.conv, q.run)' # {}
    <3>1. Len(said) + 1 \in DOMAIN said'
      BY <2>4
    <3> QED BY <2>2, <2>4, <3>1 DEF Prior
  <2>9. served' \subseteq asked'
    BY <1>1, <1>7, <2>3 DEF Onward
  <2>10. ASSUME NEW p, asking' = [asking EXCEPT ![a] = p], ~MayAsk(p),
                ~MayDraw(p) /\ (p.at # "idle" => MayAsk(q) /\ WithinTurns(p)' /\ FindsTurn(p)')
         PROVE  TalkCounts'
    <3>1. turns' - turns + One(MayDraw(p)) <= begun' - begun + One(MayDraw(asking[a]))
      BY <1>4, <2>3, <2>10 DEF One
    <3>2. longer + One(p.at # "idle") + One(MayAsk(p)) <=
            2 * (begun' - begun) + One(Asking(a)) + One(MayAsk(asking[a]))
      BY <1>1, <1>3, <1>4, <2>5, <2>10 DEF One
    <3>3. turns' \in Nat /\ turns <= turns'
      BY <1>4, <2>3
    <3>4. SaysMore(longer)
      BY <2>4, <2>6, <2>7 DEF SaysMore
    <3>5. p.at # "idle" => WithinTurns(p)' /\ FindsTurn(p)'
      BY <2>10
    <3> QED BY <1>3, <1>4, <2>9, <2>10, <3>1, <3>2, <3>3, <3>4, <3>5, CountsHold
  <2>11. CASE q.kind = "post" \/ q.role = "assistant"
    <3>1. asking' = [asking EXCEPT ![a] = NotAsking]
      BY <1>1, <2>3, <2>11 DEF Onward
    <3> QED BY <1>5, <2>10, <3>1
  <2>12. CASE ~(q.kind = "post" \/ q.role = "assistant")
    <3>1. PICK p : p = [q EXCEPT !.role = "assistant",
                                 !.at = IF q.kind = "deep" THEN "look" ELSE "append"]
      OBVIOUS
    <3>2. asking' = [asking EXCEPT ![a] = p]
      BY <1>1, <2>3, <2>12, <3>1 DEF Onward
    <3>3. /\ p.at \in {"look", "append"} /\ p.role = "assistant" /\ p.conv = q.conv
          /\ p.run = q.run /\ p.turn = q.turn /\ p.sequence = q.sequence
      BY <1>3, <3>1 DEF RequestShape
    <3>4. q.role = "user" /\ q.turn # 0 /\ MayAsk(q)
      BY <1>2, <1>3, <2>3, <2>12 DEF RequestShape, Role, FindsTurn, MayAsk
    <3>5. ~MayDraw(p) /\ ~MayAsk(p)
      BY <3>3, <3>4 DEF MayDraw, MayAsk
    <3>6. WithinTurns(p)'
      BY <1>3, <2>3, <3>3 DEF WithinTurns
    <3>7. FindsTurn(p)'
      BY <2>8, <3>3, <3>4 DEF FindsTurn
    <3> QED BY <2>10, <3>2, <3>4, <3>5, <3>6, <3>7
  <2> QED BY <2>11, <2>12
<1> QED BY <1>8, <1>9, <1>10, <1>11, <1>12

\* However the requests interleave, break off and are made again: a request draws one
\* turn and records two messages at most, no sequence number is beyond the turns, and
\* a conversation counts no message that is not there.
THEOREM TalkTypeCorrect == TalkSpec => []TalkTypeOK
<1>1. TalkInit => TalkInv /\ TalkCounts
  <2> SUFFICES ASSUME TalkInit PROVE TalkCounts
    BY TalkInvInit
  <2>1. InTalk = {} /\ ToDraw = {} /\ ToAsk = {} /\ DOMAIN said = {} /\ Len(said) = 0
    BY DEF TalkInit, InTalk, ToDraw, ToAsk, MayDraw, MayAsk, Asking, NotAsking
  <2>2. IsFiniteSet({}) /\ Cardinality({}) = 0
    BY FS_EmptySet
  <2>3. begun = 0 /\ turns = 0 /\ 0 \in Turn /\ asked = {} /\ served = {} /\ crowded = FALSE
    BY ConversationAssumption DEF TalkInit, Turn
  <2>4. \A a \in Asker : ~Asking(a)
    BY <2>1 DEF InTalk
  <2>5. /\ turns + Cardinality(ToDraw) <= begun
        /\ Len(said) + Cardinality(InTalk) + Cardinality(ToAsk) <= 2 * begun
    BY <2>1, <2>2, <2>3
  <2>6. begun \in Turn /\ served \subseteq asked /\ asked \subseteq Conversation \X Objective
    BY <2>3
  <2>7. crowded \in BOOLEAN /\ IsFiniteSet(InTalk)
    BY <2>1, <2>2, <2>3
  <2>8. \A i \in DOMAIN said : WithinTurns(said[i]) /\ said[i].turn # 0
    BY <2>1
  <2> QED BY <2>4, <2>5, <2>6, <2>7, <2>8 DEF TalkCounts
<1>2. TalkInv /\ TalkCounts /\ [TalkNext]_talkVars => (TalkInv /\ TalkCounts)'
  <2> SUFFICES ASSUME TalkInv, TalkCounts, [TalkNext]_talkVars PROVE TalkCounts'
    BY TalkStep
  <2>0. TalkShape /\ asked \subseteq Conversation \X Objective
    BY DEF TalkInv, TalkCounts
  <2>1. CASE UNCHANGED talkVars
    BY <2>1 DEF talkVars, TalkCounts, InTalk, ToDraw, ToAsk, MayDraw, MayAsk, Asking, WithinTurns,
       FindsTurn, Prior
  <2>2. ASSUME NEW a \in Asker, NEW c \in Conversation, AskPlain(a, c) PROVE TalkCounts'
    <3>1. BeginRequest(a, "turn", "chat", c, "user", NoRun) /\ asked' = asked
      BY <2>2 DEF AskPlain
    <3> QED BY <2>0, <3>1, BeginCounts DEF Role
  <2>3. ASSUME NEW a \in Asker, NEW c \in Conversation, NEW o \in Objective, Deep(a, c, o)
        PROVE  TalkCounts'
    <3>1. BeginRequest(a, "look", "deep", c, "user", o) /\ asked' = asked \cup {<<c, o>>}
      BY <2>3 DEF Deep
    <3>2. o \in Run \cup {NoRun} /\ "user" \in Role
      BY DEF Run, Role
    <3>3. asked \subseteq asked' /\ asked' \subseteq Conversation \X Objective
      BY <2>0, <3>1
    <3> QED BY <2>0, <3>1, <3>2, <3>3, BeginCounts
  <2>4. ASSUME NEW a \in Asker, NEW c \in Conversation, NEW role \in Role, Post(a, c, role)
        PROVE  TalkCounts'
    <3>1. BeginRequest(a, "look", "post", c, role, c) /\ asked' = asked
      BY <2>4 DEF Post
    <3>2. c \in Run \cup {NoRun}
      BY DEF Run
    <3> QED BY <2>0, <3>1, <3>2, BeginCounts
  <2>5. ASSUME NEW a \in Asker,
               Look(a) \/ LookPrior(a) \/ NextTurn(a) \/ AppendMessage(a) \/ BreakOff(a)
        PROVE  TalkCounts'
    BY <2>5, GoingOnCounts
  <2> QED BY <2>1, <2>2, <2>3, <2>4, <2>5, Zenon DEF TalkNext
<1>3. TalkInv /\ TalkCounts => TalkTypeOK
  <2> SUFFICES ASSUME TalkInv, TalkCounts PROVE TalkTypeOK
    OBVIOUS
  <2>0. /\ turns \in Nat /\ begun \in Nat /\ begun <= MaxRequests /\ MaxRequests \in Nat
        /\ Len(said) \in Nat /\ IsFiniteSet(InTalk) /\ DOMAIN said = 1..Len(said)
    BY ConversationAssumption, LenProperties DEF TalkInv, TalkShape, TalkCounts, Turn
  <2>1. Cardinality(InTalk) \in Nat /\ Cardinality(ToDraw) \in Nat /\ Cardinality(ToAsk) \in Nat
    <3>1. ToDraw \subseteq InTalk /\ ToAsk \subseteq InTalk
      BY DEF ToDraw, ToAsk, InTalk, MayDraw, MayAsk, Asking
    <3> QED BY <2>0, <3>1, FS_Subset, FS_CardinalityType
  <2>2. turns <= MaxRequests /\ Len(said) <= 2 * MaxRequests
    <3>1. turns + Cardinality(ToDraw) <= begun
          /\ Len(said) + Cardinality(InTalk) + Cardinality(ToAsk) <= 2 * begun
      BY DEF TalkCounts
    <3> QED BY <2>0, <2>1, <3>1
  <2>3. said \in Seq(Message)
    <3>1. \A i \in 1..Len(said) : said[i] \in Message
      <4> SUFFICES ASSUME NEW i \in 1..Len(said) PROVE said[i] \in Message
        OBVIOUS
      <4>1. PICK m : m = said[i]
        OBVIOUS
      <4>2. m \in MessageShape
        BY <2>0, <4>1 DEF TalkInv, TalkShape
      <4>3. WithinTurns(m)
        BY <2>0, <4>1 DEF TalkCounts
      <4>4. m.turn \in Turn /\ m.sequence \in Turn
        BY <2>0, <2>2, <4>2, <4>3 DEF MessageShape, WithinTurns, Turn
      <4>5. m \in Message
        BY <4>2, <4>4 DEF MessageShape, Message
      <4> QED BY <4>1, <4>5
    <3>2. said = [i \in 1..Len(said) |-> said[i]]
      BY <2>0 DEF TalkInv, TalkShape
    <3> QED BY <2>0, <3>1, <3>2
  <2>4. counted \in [Conversation -> 0..Len(said)]
    <3>1. ASSUME NEW c \in Conversation PROVE counted[c] \in 0..Len(said)
      <4>1. counted[c] = Cardinality(InConversation(c)) /\ counted[c] \in Nat
        BY DEF TalkInv, TalkShape, MessagesHold
      <4>2. InConversation(c) \subseteq 1..Len(said)
        BY <2>0 DEF InConversation
      <4>3. /\ IsFiniteSet(1..Len(said))
            /\ Cardinality(1..Len(said)) = IF 1 > Len(said) THEN 0 ELSE Len(said) - 1 + 1
        <5>1. 1 \in Int /\ Len(said) \in Int
          BY <2>0
        <5> QED BY <5>1, FS_Interval
      <4>4. Cardinality(InConversation(c)) <= Cardinality(1..Len(said))
        BY <4>2, <4>3, FS_Subset
      <4> QED BY <2>0, <4>1, <4>3, <4>4
    <3> QED BY <3>1 DEF TalkInv, TalkShape
  <2>5. asking \in [Asker -> Request \cup {NotAsking}]
    <3>1. ASSUME NEW a \in Asker PROVE asking[a] \in Request \cup {NotAsking}
      <4>1. PICK q : q = asking[a]
        OBVIOUS
      <4>2. CASE Asking(a)
        <5>1. q \in RequestShape /\ WithinTurns(q)
          BY <4>1, <4>2, RequestsHaveShape DEF TalkInv, TalkCounts
        <5>2. q.turn \in Turn /\ q.sequence \in Turn
          BY <2>0, <2>2, <5>1 DEF RequestShape, WithinTurns, Turn
        <5>3. q \in Request
          BY <5>1, <5>2 DEF RequestShape, Request
        <5> QED BY <4>1, <5>3
      <4>3. CASE ~Asking(a)
        BY <4>3, RequestsHaveShape DEF TalkInv
      <4> QED BY <4>2, <4>3
    <3> QED BY <3>1 DEF TalkInv, TalkShape
  <2>6. turns \in Turn
    BY <2>0, <2>2 DEF Turn
  <2> QED BY <2>2, <2>3, <2>4, <2>5, <2>6 DEF TalkTypeOK, TalkCounts
<1> QED BY <1>1, <1>2, <1>3, PTL DEF TalkSpec
===================================================================================
