--------------------------- MODULE CircuitBreaker ---------------------------
(***************************************************************************)
(* The circuit breaker between the search handler and the analytics        *)
(* service.  A handler asks Allow, makes the call without the lock and     *)
(* records the outcome later: in between others may trip the breaker, let  *)
(* a probe through or close it.  Any success closes it, whenever the call  *)
(* was allowed.                                                            *)
(*                                                                         *)
(* Time is counted in ticks, from the last trip and from the start of each *)
(* call, since the code compares nothing else.                             *)
(***************************************************************************)
EXTENDS Integers, FiniteSets

CONSTANTS
    Requests,   \* the search requests that may run at one time
    Threshold,  \* failures that trip the breaker
    Cooldown,   \* ticks for which it stays open
    Timeout     \* ticks after which the HTTP client gives up a call

\* 5 failures, 30 s and 200 ms: a call is over long before the cooldown is.
ASSUME BreakerAssumption ==
    /\ Threshold \in Nat \ {0}
    /\ Timeout \in Nat \ {0}
    /\ Cooldown \in Nat /\ Cooldown > Timeout

VARIABLES
    state,      \* the state of the breaker
    failures,   \* the failures counted, up to Threshold
    sinceTrip,  \* ticks since lastTripped, up to the first beyond Cooldown
    call,       \* what each request does with the service, and for how many ticks
    service     \* does the analytics service answer?

vars == <<state, failures, sinceTrip, call, service>>

NoCall == [pc |-> "none", age |-> 0]
InFlight == {r \in Requests : call[r].pc # "none"}

TypeOK ==
    /\ state \in {"closed", "open", "halfOpen"}
    /\ failures \in 0..Threshold
    /\ sinceTrip \in 0..(Cooldown + 1)
    /\ call \in [Requests -> [pc : {"none", "sent", "answered"}, age : 0..Timeout]]
    /\ service \in {"up", "down"}
    /\ state = "closed" <=> failures < Threshold

\* lastTripped is the zero time at first.
Init ==
    /\ state = "closed"
    /\ failures = 0
    /\ sinceTrip = Cooldown + 1
    /\ call = [r \in Requests |-> NoCall]
    /\ service \in {"up", "down"}

-----------------------------------------------------------------------------

SetCall(r, c) == call' = [call EXCEPT ![r] = c]

\* Variant with a bug: half open lets everybody through.
AllowMany(r) ==
    /\ call[r] = NoCall
    /\ state = "open" => sinceTrip > Cooldown
    /\ state' = IF state = "open" THEN "halfOpen" ELSE state
    /\ SetCall(r, [NoCall EXCEPT !.pc = "sent"])
    /\ UNCHANGED <<failures, sinceTrip, service>>

\* Allow, and the call if the answer is true.
Allow(r) ==
    /\ call[r] = NoCall
    /\ \/ state = "closed" /\ UNCHANGED state
       \/ state = "open" /\ sinceTrip > Cooldown /\ state' = "halfOpen"
    /\ SetCall(r, [NoCall EXCEPT !.pc = "sent"])
    /\ UNCHANGED <<failures, sinceTrip, service>>

\* The service answers; any HTTP status counts as a success.
Answer(r) ==
    /\ call[r].pc = "sent"
    /\ service = "up"
    /\ SetCall(r, [call[r] EXCEPT !.pc = "answered"])
    /\ UNCHANGED <<state, failures, sinceTrip, service>>

\* Variant with a bug: the failures of the past stay on the count.
RecordSuccessOnly(r) ==
    /\ call[r].pc = "answered"
    /\ state' = "closed"
    /\ SetCall(r, NoCall)
    /\ UNCHANGED <<failures, sinceTrip, service>>

RecordSuccess(r) ==
    /\ call[r].pc = "answered"
    /\ failures' = 0
    /\ state' = "closed"
    /\ SetCall(r, NoCall)
    /\ UNCHANGED <<sinceTrip, service>>

\* Variant with a bug: only a closed breaker is tripped.
RecordFailureClosed(r) ==
    /\ call[r].pc = "sent"
    /\ service = "down"
    /\ failures' = IF failures < Threshold THEN failures + 1 ELSE failures
    /\ IF failures' = Threshold /\ state = "closed"
       THEN state' = "open" /\ sinceTrip' = 0
       ELSE UNCHANGED <<state, sinceTrip>>
    /\ SetCall(r, NoCall)
    /\ UNCHANGED service

\* The call failed or timed out.
RecordFailure(r) ==
    /\ call[r].pc = "sent"
    /\ service = "down"
    /\ failures' = IF failures < Threshold THEN failures + 1 ELSE failures
    /\ IF failures' = Threshold
       THEN state' = "open" /\ sinceTrip' = 0
       ELSE UNCHANGED <<state, sinceTrip>>
    /\ SetCall(r, NoCall)
    /\ UNCHANGED service

\* A call is over and recorded within Timeout.
Tick ==
    /\ \A r \in InFlight : call[r].age < Timeout
    /\ sinceTrip' = IF sinceTrip <= Cooldown THEN sinceTrip + 1 ELSE sinceTrip
    /\ call' = [r \in Requests |-> IF r \in InFlight THEN [call[r] EXCEPT !.age = @ + 1]
                                   ELSE call[r]]
    /\ UNCHANGED <<state, failures, service>>

Change ==
    /\ service' \in {"up", "down"} \ {service}
    /\ UNCHANGED <<state, failures, sinceTrip, call>>

Next ==
    \/ \E r \in Requests : Allow(r) \/ Answer(r) \/ RecordSuccess(r) \/ RecordFailure(r)
    \/ Tick
    \/ Change

Spec == Init /\ [][Next]_vars

-----------------------------------------------------------------------------

\* Calls that were allowed while the breaker was closed may still close it right after
\* it was tripped, but no later than Timeout: from then on only the success of the probe
\* does, which is alone with the service.
ProbeDecides ==
    [][ state # "closed" /\ state' = "closed" /\ sinceTrip > Timeout =>
            state = "halfOpen" /\ \E r \in Requests : InFlight = {r} ]_vars

\* Requests keep coming and are served; time goes on.
Fairness ==
    /\ WF_vars(\E r \in Requests : Allow(r))
    /\ \A r \in Requests : WF_vars(Answer(r) \/ RecordSuccess(r) \/ RecordFailure(r))
    /\ WF_vars(Tick)

FairSpec == Spec /\ Fairness

\* The breaker follows the service: it closes for good once the service stays up, and is
\* never left waiting for a probe; it stays open or probing once the service stays down.
FollowsService ==
    /\ <>[](service = "up") => <>[](state = "closed")
    /\ <>[](service = "down") => <>[](state # "closed")
=============================================================================
