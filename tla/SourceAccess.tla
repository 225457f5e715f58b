------------------------------- MODULE SourceAccess -------------------------------
(* Searches of arXiv: the cache of responses, the lock of the governor, which    *)
(* every search of the process shares, the interval between requests, and the    *)
(* retries, which keep the lock.  A step is what a thread does between two waits. *)
(* One query is searched; other processes have governors of their own, and what  *)
(* a failed search records is left out.                                          *)
EXTENDS Naturals

CONSTANTS
  Search,         \* threads that search
  Interval,       \* min_interval_seconds
  MaxAttempts,    \* max_attempts
  MaxRetryWait,   \* max_retry_wait_seconds
  CacheTtl,       \* cache_ttl_seconds
  MaxClock        \* bound: the last time of the clock

ASSUME SourceAssumption ==
  /\ "free" \notin Search
  /\ Interval \in Nat /\ MaxRetryWait \in Nat /\ CacheTtl \in Nat
  /\ MaxAttempts \in Nat \ {0} /\ MaxClock \in Nat

VARIABLES
  sourceTime,    \* the time
  session,       \* the search that holds the governor's lock, or "free"
  lastRequestAt, \* _last_request_at, Never before the first
  searchAt,      \* where each search is
  wakeAt,        \* when its sleep ends
  attempt,       \* the number of its request
  retryWait,     \* its total_retry_wait
  cached         \* stored_at of the response in the cache, or Never

sourceVars == <<sourceTime, session, lastRequestAt, searchAt, wakeAt, attempt, retryWait, cached>>

Never == MaxClock + 1

SourceTypeOK ==
  /\ sourceTime \in 0..MaxClock
  /\ session \in Search \cup {"free"}
  /\ lastRequestAt \in 0..Never /\ cached \in 0..Never
  /\ searchAt \in [Search -> {"idle", "queued", "turn", "sent", "answered", "backoff"}]
  /\ wakeAt \in [Search -> Nat] /\ retryWait \in [Search -> 0..MaxRetryWait]
  /\ attempt \in [Search -> 0..MaxAttempts]

SourceInit ==
  /\ sourceTime = 0 /\ session = "free" /\ lastRequestAt = Never /\ cached = Never
  /\ searchAt = [c \in Search |-> "idle"]
  /\ wakeAt = [c \in Search |-> 0] /\ attempt = wakeAt /\ retryWait = wakeAt

SearchGoes(c, from, to) == searchAt[c] = from /\ searchAt' = [searchAt EXCEPT ![c] = to]

SourceTick ==
  /\ sourceTime < MaxClock /\ sourceTime' = sourceTime + 1
  /\ UNCHANGED <<session, lastRequestAt, searchAt, wakeAt, attempt, retryWait, cached>>

Fresh == CacheTtl > 0 /\ cached # Never /\ sourceTime <= cached + CacheTtl

\* search: an answer that is cached ends it at once
LookUp(c) ==
  /\ ~Fresh
  /\ SearchGoes(c, "idle", "queued")
  /\ UNCHANGED <<sourceTime, session, lastRequestAt, wakeAt, attempt, retryWait, cached>>

\* Mutant of TurnAt: the interval is not waited for.
TurnAtOnce == sourceTime
\* wait_for_turn: when its sleep will end
TurnAt ==
  IF lastRequestAt # Never /\ lastRequestAt + Interval > sourceTime
  THEN lastRequestAt + Interval ELSE sourceTime

\* Mutant of Free: the sessions are not exclusive.
FreeAlways == TRUE
Free == session = "free"

\* request_session, and the first wait_for_turn
EnterSession(c) ==
  /\ Free
  /\ SearchGoes(c, "queued", "turn")
  /\ session' = c
  /\ wakeAt' = [wakeAt EXCEPT ![c] = TurnAt]
  /\ attempt' = [attempt EXCEPT ![c] = 1] /\ retryWait' = [retryWait EXCEPT ![c] = 0]
  /\ UNCHANGED <<sourceTime, lastRequestAt, cached>>

SendRequest(c) ==
  /\ sourceTime >= wakeAt[c]
  /\ SearchGoes(c, "turn", "sent")
  /\ lastRequestAt' = sourceTime
  /\ UNCHANGED <<sourceTime, session, wakeAt, attempt, retryWait, cached>>

LeaveSession(c, to) ==
  /\ searchAt' = [searchAt EXCEPT ![c] = to]
  /\ session' = "free"
  /\ UNCHANGED <<sourceTime, lastRequestAt, wakeAt, attempt, retryWait, cached>>

\* a response of status 200
Answers(c) == searchAt[c] = "sent" /\ LeaveSession(c, "answered")

\* the transport raised, the status allows no retry, or no attempt, no time or no
\* permission (retry_allowed) is left for one
GivesUp(c) ==
  /\ searchAt[c] = "sent" \/ (searchAt[c] = "backoff" /\ sourceTime >= wakeAt[c])
  /\ LeaveSession(c, "idle")

\* status 429 or 5xx; the delay is that of Retry-After, or the backoff
RetryLater(c, delay) ==
  /\ attempt[c] < MaxAttempts /\ retryWait[c] + delay <= MaxRetryWait
  /\ SearchGoes(c, "sent", "backoff")
  /\ wakeAt' = [wakeAt EXCEPT ![c] = sourceTime + delay]
  /\ retryWait' = [retryWait EXCEPT ![c] = @ + delay]
  /\ UNCHANGED <<sourceTime, session, lastRequestAt, attempt, cached>>

\* the next attempt waits for its turn
RetryNow(c) ==
  /\ sourceTime >= wakeAt[c]
  /\ SearchGoes(c, "backoff", "turn")
  /\ wakeAt' = [wakeAt EXCEPT ![c] = TurnAt]
  /\ attempt' = [attempt EXCEPT ![c] = @ + 1]
  /\ UNCHANGED <<sourceTime, session, lastRequestAt, retryWait, cached>>

\* outside the session: the answer parses and is stored, or does not
StoreAnswer(c) ==
  /\ SearchGoes(c, "answered", "idle")
  /\ cached' \in {cached, sourceTime}
  /\ UNCHANGED <<sourceTime, session, lastRequestAt, wakeAt, attempt, retryWait>>

\* The process restarts, with a governor that has seen no request.
RestartSearches ==
  /\ session' = "free" /\ lastRequestAt' = Never
  /\ searchAt' = [c \in Search |-> "idle"]
  /\ wakeAt' = [c \in Search |-> 0] /\ attempt' = wakeAt' /\ retryWait' = wakeAt'
  /\ UNCHANGED <<sourceTime, cached>>

SearchStep(c) ==
  \/ LookUp(c) \/ EnterSession(c) \/ SendRequest(c) \/ Answers(c) \/ GivesUp(c) \/ RetryNow(c)
  \/ StoreAnswer(c) \/ \E delay \in 0..MaxRetryWait : RetryLater(c, delay)

SourceNext == SourceTick \/ RestartSearches \/ \E c \in Search : SearchStep(c)
SourceSpec == SourceInit /\ [][SourceNext]_sourceVars

--------------------------------------------------------------------------------
\* The requests of one process, first attempts and retries of all its searches,
\* are at least the interval apart.
RequestsSpaced ==
  [][\A c \in Search : SendRequest(c) /\ lastRequestAt # Never =>
       sourceTime >= lastRequestAt + Interval]_sourceVars
================================================================================
