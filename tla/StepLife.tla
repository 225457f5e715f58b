-------------------------------- MODULE StepLife --------------------------------
(* What the ledger promises about the life of every step, without tables,      *)
(* leases, clocks or statuses: a step has one holder at a time, numbered by    *)
(* its grants; it is granted in order and only while its run is open; and a    *)
(* paid call that nobody heard back from keeps it from being granted again     *)
(* until the user decides.                                                     *)
EXTENDS Naturals

CONSTANTS
  Run,     \* the runs
  Steps,   \* number of steps of a run
  Number,  \* the numbers of grants
  Paid     \* the steps that pay for what they call

Step == Run \X (1..Steps)

VARIABLES
  closed,  \* the runs that accept no more work
  done,    \* the steps later ones may build on
  granted, \* the grants made so far, pairs of a step and a number
  holder,  \* the grant at work on each step, or 0
  open     \* the grants whose call nobody heard back from or decided about

vars == <<closed, done, granted, holder, open>>

Init == /\ closed = {} /\ done = {} /\ granted = {} /\ open = {}
        /\ holder = [s \in Step |-> 0]

\* The part of a set of grants that belongs to a step.
Of(S, s) == {n \in Number : <<s, n>> \in S}

\* A new holder, numbered after all the earlier ones, which may be the first
\* or take over from one that vanished.
Grant(s) ==
  /\ s \notin done
  /\ \A k \in 1..Steps : k < s[2] => <<s[1], k>> \in done
  /\ s[1] \notin closed
  /\ s \in Paid => Of(open, s) = {}
  /\ \E n \in Number :
       /\ \A m \in Of(granted, s) : m < n
       /\ Of(granted', s) = Of(granted, s) \cup {n}
       /\ holder'[s] = n
  /\ s \notin done' /\ Of(open', s) = Of(open, s)

\* The holder calls outside, once.
Call(s) ==
  /\ holder[s] \in Number /\ holder'[s] = holder[s]
  /\ s[1] \notin closed
  /\ holder[s] \notin Of(open, s)
  /\ Of(open', s) = Of(open, s) \cup {holder[s]}
  /\ Of(granted', s) = Of(granted, s)
  /\ s \in done' <=> s \in done

\* The holder ends; its call is answered only when the step is done.
End(s) ==
  /\ holder[s] \in Number /\ holder'[s] = 0
  /\ Of(granted', s) = Of(granted, s)
  /\ \/ Of(open', s) = Of(open, s)
     \/ s \in done' /\ Of(open', s) = Of(open, s) \ {holder[s]}

\* The user decides about a call nobody is waiting for any more.
Decide(s) ==
  /\ holder[s] = 0 /\ holder'[s] = 0
  /\ Of(granted', s) = Of(granted, s)
  /\ \E n \in Of(open, s) : Of(open', s) = Of(open, s) \ {n}
  /\ s \in done' <=> s \in done

\* A step without a holder is skipped.
Skip(s) ==
  /\ holder[s] = 0 /\ holder'[s] = 0
  /\ Of(granted', s) = Of(granted, s) /\ Of(open', s) = Of(open, s)
  /\ s \in done'

Rest(s) == /\ holder'[s] = holder[s]
           /\ Of(granted', s) = Of(granted, s) /\ Of(open', s) = Of(open, s)
           /\ s \in done' <=> s \in done

\* One transaction may touch steps of two runs, so every step moves or rests.
Next == /\ closed \subseteq closed'
        /\ \A s \in Step : Grant(s) \/ Call(s) \/ End(s)
                            \/ Decide(s) \/ Skip(s) \/ Rest(s)

Spec == Init /\ [][Next]_vars
================================================================================
