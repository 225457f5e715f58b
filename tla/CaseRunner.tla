------------------------------- MODULE CaseRunner --------------------------------
(* The runner of evaluation cases: a batch makes a task of each case that the    *)
(* checkpoint file does not show as completed, a semaphore lets some of them     *)
(* call, a call that raises is repeated after a pause, and a result is written   *)
(* to the file.  The first task that gives up ends the batch; the threads of     *)
(* calls under way end, and their results are dropped.  A call may be paid.  The *)
(* kill switch is only reported and the statistics are left out.                 *)
EXTENDS FiniteSets, Naturals, Sequences

CONSTANTS
  Case,           \* the cases of the batch
  MaxConcurrency, \* max_concurrency
  MaxTries,       \* max_retries
  MaxBatches      \* bound: batches

ASSUME RunnerAssumption == MaxConcurrency \in Nat \ {0} /\ MaxTries \in Nat /\ MaxBatches \in Nat

VARIABLES
  checkpoint, \* the fragments of the file: the case, and whether a line end follows
  task,       \* where the task of each case is
  tries,      \* failed calls of each task in progress
  batches,    \* batches begun
  running,    \* a batch runs
  paid,       \* calls of each case that gave a result
  unrecorded  \* of these, the ones whose record cannot be read

caseVars == <<checkpoint, task, tries, batches, running, paid, unrecorded>>

MaxPaid == MaxBatches * (MaxTries + 1)

RunnerTypeOK ==
  /\ checkpoint \in Seq([of : Case, whole : BOOLEAN])
  /\ task \in [Case -> {"none", "waiting", "calling", "record", "pause", "done", "failed"}]
  /\ tries \in [Case -> 0..(MaxTries + 1)]
  /\ batches \in 0..MaxBatches /\ running \in BOOLEAN
  /\ paid \in [Case -> 0..MaxPaid] /\ unrecorded \in [Case -> 0..MaxPaid]

RunnerInit ==
  /\ checkpoint = <<>> /\ task = [c \in Case |-> "none"] /\ tries = [c \in Case |-> 0]
  /\ batches = 0 /\ running = FALSE
  /\ paid = [c \in Case |-> 0] /\ unrecorded = paid

--------------------------------------------------------------------------------
\* a record that follows one without a line end is part of its line, which does
\* not parse
OnOwnLine(file, i) == i = 1 \/ file[i - 1].whole

\* Mutant of Completed: reading stops at the first line that does not parse.
CompletedUpToTear ==
  {c \in Case : \E i \in DOMAIN checkpoint :
     checkpoint[i].of = c /\ \A j \in 1..i : checkpoint[j].whole}
\* load_completed_case_ids
Completed ==
  {c \in Case : \E i \in DOMAIN checkpoint :
     checkpoint[i].of = c /\ checkpoint[i].whole /\ OnOwnLine(checkpoint, i)}

TaskMoves(c, from, to) == task[c] = from /\ task' = [task EXCEPT ![c] = to]
HoldsSemaphore(c) == task[c] \in {"calling", "record", "pause"}
Lose(cases) == unrecorded' = [c \in Case |-> unrecorded[c] + IF c \in cases THEN 1 ELSE 0]

StartBatch ==
  /\ ~running /\ running' = TRUE
  /\ batches < MaxBatches /\ batches' = batches + 1
  /\ task' = [c \in Case |-> IF c \in Completed THEN "none" ELSE "waiting"]
  /\ UNCHANGED <<checkpoint, tries, paid, unrecorded>>

Acquire(c) ==
  /\ Cardinality({d \in Case : HoldsSemaphore(d)}) < MaxConcurrency
  /\ TaskMoves(c, "waiting", "calling")
  /\ UNCHANGED <<checkpoint, tries, batches, running, paid, unrecorded>>

CallReturns(c) ==
  /\ TaskMoves(c, "calling", "record")
  /\ paid' = [paid EXCEPT ![c] = @ + 1]
  /\ UNCHANGED <<checkpoint, tries, batches, running, unrecorded>>

\* the call, or the writing of its record, raised: the pause of the backoff, unless
\* the retries are used up
TryFails(c, at) ==
  /\ TaskMoves(c, at, IF tries[c] >= MaxTries THEN "failed" ELSE "pause")
  /\ tries' = [tries EXCEPT ![c] = @ + 1]
  /\ UNCHANGED <<batches, running, paid>>

CallRaises(c) ==
  /\ TryFails(c, "calling")
  /\ UNCHANGED <<checkpoint, unrecorded>>

Retry(c) ==
  /\ TaskMoves(c, "pause", "calling")
  /\ UNCHANGED <<checkpoint, tries, batches, running, paid, unrecorded>>

Record(c) ==
  /\ TaskMoves(c, "record", "done")
  /\ checkpoint' = Append(checkpoint, [of |-> c, whole |-> TRUE])
  /\ Lose(IF OnOwnLine(checkpoint', Len(checkpoint')) THEN {} ELSE {c})
  /\ tries' = [tries EXCEPT ![c] = 0]
  /\ UNCHANGED <<batches, running, paid>>

\* what a write that breaks off leaves
Torn(c) == {checkpoint, Append(checkpoint, [of |-> c, whole |-> FALSE])}

\* the disk is full: inside the try, so that the call is made again
RecordRaises(c) ==
  /\ TryFails(c, "record")
  /\ checkpoint' \in Torn(c)
  /\ Lose({c})

BatchEnds ==
  /\ running /\ \A c \in Case : task[c] \in {"none", "done"}
  /\ running' = FALSE
  /\ UNCHANGED <<checkpoint, task, tries, batches, paid, unrecorded>>

\* gather raises and asyncio.run cancels the other tasks; threads that have a result
\* later, or have it already, have paid for nothing
BatchFails ==
  /\ running /\ \E c \in Case : task[c] = "failed"
  /\ running' = FALSE
  /\ task' = [c \in Case |-> "none"] /\ tries' = [c \in Case |-> 0]
  /\ \E late \in SUBSET {c \in Case : task[c] = "calling"} :
       /\ paid' = [c \in Case |-> paid[c] + IF c \in late THEN 1 ELSE 0]
       /\ Lose(late \cup {c \in Case : task[c] = "record"})
  /\ UNCHANGED <<checkpoint, batches>>

\* the process dies; at most one record was being written
CrashRunner ==
  LET ready == {c \in Case : task[c] = "record"} IN
  /\ running /\ running' = FALSE
  /\ task' = [c \in Case |-> "none"] /\ tries' = [c \in Case |-> 0]
  /\ checkpoint' \in {checkpoint} \cup UNION {Torn(c) : c \in ready}
  /\ Lose(ready)
  /\ UNCHANGED <<batches, paid>>

RunnerNext ==
  \/ StartBatch \/ BatchEnds \/ BatchFails \/ CrashRunner
  \/ \E c \in Case : \/ Acquire(c) \/ CallReturns(c) \/ CallRaises(c) \/ Retry(c)
                     \/ Record(c) \/ RecordRaises(c)

RunnerSpec == RunnerInit /\ [][RunnerNext]_caseVars

--------------------------------------------------------------------------------
\* A case is called again after it gave a result only if the record of that result
\* cannot be read: it was not written, or it follows one that was not ended.  So
\* each case is paid for once, and once more for each such result.
CasesPaidOnce == \A c \in Case : paid[c] <= 1 + unrecorded[c]
================================================================================
