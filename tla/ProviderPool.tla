------------------------------- MODULE ProviderPool -------------------------------
(* ProviderPoolRouter: failover over the endpoints in the order of priority, a   *)
(* circuit breaker and a rate limit for each.  A call runs in the thread of its  *)
(* caller; what it does between two HTTP requests is one step.                   *)
EXTENDS Naturals, Sequences, FiniteSets

CONSTANTS
  Endpoints,   \* number of endpoints; 1 is the primary
  ChatCall,    \* callers of complete_chat
  Threshold,   \* failure_threshold
  Recovery,    \* recovery_timeout_seconds
  Rpm,         \* rate_limit_rpm of every endpoint
  Window,      \* its window, the minute
  MaxTime      \* bound: the last time of the clock

ASSUME ProviderPoolAssumption ==
  /\ Endpoints \in Nat /\ MaxTime \in Nat
  /\ Rpm \in Nat \ {0}   \* 0 would mean no limit
  /\ Threshold \in Nat \ {0} /\ Recovery \in Nat \ {0} /\ Window \in Nat \ {0}

VARIABLES
  poolTime,     \* time.time()
  circuit,      \* state of each circuit breaker
  failureCount, \* its failure_count
  lastFailure,  \* its last_failure_time
  sent,         \* requests to each endpoint in the window, retries too
  toggle,       \* endpoints with supports_thinking_toggle
  calling,      \* endpoint each call is at, 0 when there is none
  onWire,       \* what it has sent there
  streak,       \* hard failures of each since it last succeeded or was reset, up to Threshold
  lastHard      \* time of the last of them

poolVars == <<poolTime, circuit, failureCount, lastFailure, sent, toggle, calling, onWire, streak,
              lastHard>>

Endpoint == 1..Endpoints

ProviderPoolTypeOK ==
  /\ poolTime \in 0..MaxTime
  /\ circuit \in [Endpoint -> {"CLOSED", "OPEN", "HALF_OPEN"}]
  /\ failureCount \in [Endpoint -> Nat] /\ streak \in [Endpoint -> Nat]
  /\ lastFailure \in [Endpoint -> 0..MaxTime] /\ lastHard \in [Endpoint -> 0..MaxTime]
  /\ sent \in [Endpoint -> Seq([at : 0..MaxTime, recorded : BOOLEAN])]
  /\ toggle \subseteq Endpoint
  /\ calling \in [ChatCall -> 0..Endpoints]
  /\ onWire \in [ChatCall -> {"nothing", "request", "retry"}]

ProviderPoolInit ==
  /\ poolTime = 0
  /\ circuit = [e \in Endpoint |-> "CLOSED"]
  /\ failureCount = [e \in Endpoint |-> 0] /\ streak = [e \in Endpoint |-> 0]
  /\ lastFailure = [e \in Endpoint |-> 0] /\ lastHard = [e \in Endpoint |-> 0]
  /\ sent = [e \in Endpoint |-> << >>]
  /\ toggle \in SUBSET Endpoint
  /\ calling = [c \in ChatCall |-> 0]
  /\ onWire = [c \in ChatCall |-> "nothing"]

PoolTick ==
  /\ poolTime < MaxTime /\ poolTime' = poolTime + 1
  /\ UNCHANGED <<circuit, failureCount, lastFailure, sent, toggle, calling, onWire, streak,
                 lastHard>>

CompleteChat(c) ==
  /\ calling[c] = 0 /\ Endpoints > 0
  /\ calling' = [calling EXCEPT ![c] = 1]
  /\ UNCHANGED <<poolTime, circuit, failureCount, lastFailure, sent, toggle, onWire, streak,
                 lastHard>>

\* the next candidate, or ProviderFailoverExhaustedError
NextCandidate(c) ==
  calling' = [calling EXCEPT ![c] = IF @ = Endpoints THEN 0 ELSE @ + 1]

--------------------------------------------------------------------------------
\* Mutant of CooledDown: the recovery time is not waited for.
CooledDownAlways(e) == TRUE
CooledDown(e) == poolTime >= lastFailure[e] + Recovery

\* can_attempt, which also moves an open circuit to half open
CanAttempt(e) == circuit[e] # "OPEN" \/ CooledDown(e)
Probed(e) == IF circuit[e] = "OPEN" /\ CooledDown(e) THEN "HALF_OPEN" ELSE circuit[e]

InWindow(r) == r.at + Window > poolTime
\* is_rate_limited, of the requests record_request was told of
RateLimited(e) ==
  Cardinality({i \in DOMAIN sent[e] : InWindow(sent[e][i]) /\ sent[e][i].recorded}) >= Rpm

\* the clean-up of is_rate_limited; in the order of time, what has left the
\* window is in front
StillInWindow(s) ==
  SubSeq(s, 1 + Cardinality({i \in DOMAIN s : ~InWindow(s[i])}), Len(s))

Send(e, recorded) ==
  sent' = [sent EXCEPT ![e] =
             Append(StillInWindow(@), [at |-> poolTime, recorded |-> recorded])]

SkipCandidate(c) ==
  LET e == calling[c] IN
  /\ e # 0 /\ onWire[c] = "nothing"
  /\ ~CanAttempt(e) \/ RateLimited(e)
  /\ circuit' = [circuit EXCEPT ![e] = Probed(e)]
  /\ NextCandidate(c)
  /\ UNCHANGED <<poolTime, failureCount, lastFailure, sent, toggle, onWire, streak, lastHard>>

StartRequest(c) ==
  LET e == calling[c] IN
  /\ e # 0 /\ onWire[c] = "nothing"
  /\ CanAttempt(e) /\ ~RateLimited(e)
  /\ circuit' = [circuit EXCEPT ![e] = Probed(e)]
  /\ Send(e, TRUE)
  /\ onWire' = [onWire EXCEPT ![c] = "request"]
  /\ UNCHANGED <<poolTime, failureCount, lastFailure, toggle, calling, streak, lastHard>>

--------------------------------------------------------------------------------
\* record_success, whatever became of the circuit since the request
Succeeds(c) ==
  LET e == calling[c] IN
  /\ onWire[c] # "nothing"
  /\ circuit' = [circuit EXCEPT ![e] = IF @ = "HALF_OPEN" THEN "CLOSED" ELSE @]
  /\ failureCount' = [failureCount EXCEPT ![e] = 0]
  /\ streak' = [streak EXCEPT ![e] = 0]
  /\ calling' = [calling EXCEPT ![c] = 0] /\ onWire' = [onWire EXCEPT ![c] = "nothing"]
  /\ UNCHANGED <<poolTime, lastFailure, sent, toggle, lastHard>>

\* Mutant of Tripped: a failure in half open closes nothing.
TrippedNot(e) == circuit[e]
\* the state after record_failure of a hard failure
Tripped(e) ==
  IF circuit[e] = "HALF_OPEN" \/ failureCount[e] + 1 >= Threshold THEN "OPEN" ELSE circuit[e]

HardFailure(c) ==
  LET e == calling[c] IN
  /\ circuit' = [circuit EXCEPT ![e] = Tripped(e)]
  /\ failureCount' = [failureCount EXCEPT ![e] = IF circuit[e] = "CLOSED" THEN @ + 1 ELSE @]
  /\ lastFailure' = [lastFailure EXCEPT ![e] = poolTime]
  /\ streak' = [streak EXCEPT ![e] = IF @ < Threshold THEN @ + 1 ELSE @]
  /\ lastHard' = [lastHard EXCEPT ![e] = poolTime]
  /\ NextCandidate(c)
  /\ onWire' = [onWire EXCEPT ![c] = "nothing"]

\* an error of the network or of HTTP, whichever status; of the retry, the error
\* of the request before it counts
FailsHard(c) ==
  /\ onWire[c] # "nothing"
  /\ HardFailure(c)
  /\ UNCHANGED <<poolTime, sent, toggle>>

\* a response that does not parse is no failure of the endpoint
FailsSoft(c) ==
  /\ onWire[c] = "request"
  /\ NextCandidate(c)
  /\ onWire' = [onWire EXCEPT ![c] = "nothing"]
  /\ UNCHANGED <<poolTime, circuit, failureCount, lastFailure, sent, toggle, streak, lastHard>>

StillToggles(e) == e \in toggle

\* HTTP 400 to a request with enable_thinking: sent again without it, unrecorded
RetryWithoutToggle(c) ==
  LET e == calling[c] IN
  /\ onWire[c] = "request" /\ StillToggles(e)
  /\ toggle' = toggle \ {e}
  /\ Send(e, FALSE)
  /\ onWire' = [onWire EXCEPT ![c] = "retry"]
  /\ UNCHANGED <<poolTime, circuit, failureCount, lastFailure, calling, streak, lastHard>>

\* reset_circuit; get_health_status, which probes every circuit
ResetCircuit(e) ==
  /\ circuit' = [circuit EXCEPT ![e] = "CLOSED"]
  /\ failureCount' = [failureCount EXCEPT ![e] = 0]
  /\ lastFailure' = [lastFailure EXCEPT ![e] = 0]
  /\ streak' = [streak EXCEPT ![e] = 0]
  /\ UNCHANGED <<poolTime, sent, toggle, calling, onWire, lastHard>>

GetHealthStatus ==
  /\ circuit' = [e \in Endpoint |-> Probed(e)]
  /\ UNCHANGED <<poolTime, failureCount, lastFailure, sent, toggle, calling, onWire, streak,
                 lastHard>>

ProviderPoolNext ==
  \/ PoolTick \/ GetHealthStatus
  \/ \E e \in Endpoint : ResetCircuit(e)
  \/ \E c \in ChatCall :
       \/ CompleteChat(c) \/ SkipCandidate(c) \/ StartRequest(c)
       \/ Succeeds(c) \/ FailsHard(c) \/ FailsSoft(c) \/ RetryWithoutToggle(c)

ProviderPoolSpec == ProviderPoolInit /\ [][ProviderPoolNext]_poolVars

--------------------------------------------------------------------------------
\* An endpoint whose last Threshold calls or more have failed hard, whatever was
\* in flight when, is left alone until Recovery has passed since the last failure.
CoolsDown ==
  [][\A c \in ChatCall : StartRequest(c) =>
       \/ streak[calling[c]] < Threshold
       \/ poolTime >= lastHard[calling[c]] + Recovery]_poolVars
================================================================================
