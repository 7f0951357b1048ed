------------------------ MODULE CircuitBreakerProofs ------------------------
(***************************************************************************)
(* For every threshold, every number of requests and every cooldown longer *)
(* than the timeout: the breaker's states and counters keep their ranges,  *)
(* and once Timeout has passed since a trip only the probe closes it.      *)
(***************************************************************************)
EXTENDS CircuitBreaker, TLAPS

\* A call still under way when the breaker is open began before the trip, so it is at
\* least as old; hence none is left when the probe is let through.
CallsAreOld ==
    /\ state = "open" => \A r \in InFlight : sinceTrip <= call[r].age
    /\ state = "halfOpen" => /\ sinceTrip = Cooldown + 1
                             /\ \E r \in Requests : InFlight = {r}

Inv == TypeOK /\ CallsAreOld

LEMMA InitInv == Init => Inv
  BY BreakerAssumption, SMT DEF Init, Inv, TypeOK, CallsAreOld, NoCall, InFlight

\* Once Timeout has passed since the trip, an open breaker has no call under way.
LEMMA QuietWhenLate ==
  ASSUME Inv, state = "open", sinceTrip > Timeout
  PROVE  InFlight = {}
  BY BreakerAssumption, SMT DEF Inv, TypeOK, CallsAreOld, InFlight

LEMMA NextInv ==
  ASSUME Inv, [Next]_vars
  PROVE  Inv'
<1> USE BreakerAssumption
<1>1. ASSUME NEW r \in Requests, Allow(r) PROVE Inv'
  <2>1. TypeOK'
    <3>1. call' \in [Requests -> [pc : {"none", "sent", "answered"}, age : 0..Timeout]]
      BY <1>1, SMT DEF Inv, TypeOK, Allow, SetCall, NoCall
    <3>2. /\ state' \in {"closed", "open", "halfOpen"}
          /\ state' = "closed" <=> failures < Threshold
      BY <1>1, SMT DEF Inv, TypeOK, Allow
    <3> QED BY <1>1, <3>1, <3>2, SMT DEF Inv, TypeOK, Allow
  <2>2. CASE state = "closed"
    BY <1>1, <2>1, <2>2, SMT DEF Inv, CallsAreOld, Allow
  <2>3. CASE state = "open"
    <3>1. sinceTrip = Cooldown + 1 /\ state' = "halfOpen"
      BY <1>1, <2>3, SMT DEF Inv, TypeOK, Allow
    <3>2. InFlight = {}
      BY <2>3, <3>1, QuietWhenLate, SMT
    <3>3. InFlight' = {r}
      BY <1>1, <3>2, SMT DEF Inv, TypeOK, Allow, SetCall, NoCall, InFlight
    <3> QED BY <1>1, <2>1, <3>1, <3>3, SMT DEF Inv, CallsAreOld, Allow
  <2> QED BY <1>1, <2>2, <2>3, SMT DEF Allow
<1>2. ASSUME NEW r \in Requests, Answer(r) PROVE Inv'
  <2>1. TypeOK'
    BY <1>2, SMT DEF Inv, TypeOK, Answer, SetCall
  <2>2. InFlight' = InFlight /\ \A q \in Requests : call'[q].age = call[q].age
    BY <1>2, SMT DEF Inv, TypeOK, Answer, SetCall, InFlight
  <2> QED BY <1>2, <2>1, <2>2, SMT DEF Inv, CallsAreOld, Answer, InFlight
<1>3. ASSUME NEW r \in Requests, RecordSuccess(r) PROVE Inv'
  BY <1>3, SMT DEF Inv, TypeOK, CallsAreOld, RecordSuccess, SetCall, NoCall
<1>4. ASSUME NEW r \in Requests, RecordFailure(r) PROVE Inv'
  <2>1. TypeOK'
    BY <1>4, SMT DEF Inv, TypeOK, RecordFailure, SetCall, NoCall
  <2>2. state' # "halfOpen"
    BY <1>4, SMT DEF Inv, TypeOK, RecordFailure
  <2>3. state' = "open" => sinceTrip' = 0
    BY <1>4, SMT DEF Inv, TypeOK, RecordFailure
  <2> QED BY <2>1, <2>2, <2>3, SMT DEF Inv, TypeOK, CallsAreOld, InFlight
<1>5. ASSUME Tick PROVE Inv'
  <2>1. TypeOK'
    BY <1>5, SMT DEF Inv, TypeOK, Tick, InFlight
  <2>2. InFlight' = InFlight
    BY <1>5, SMT DEF Inv, TypeOK, Tick, InFlight
  <2>3. \A q \in InFlight : call'[q].age = call[q].age + 1
    BY <1>5, SMT DEF Inv, TypeOK, Tick, InFlight
  <2> QED BY <1>5, <2>1, <2>2, <2>3, SMT DEF Inv, TypeOK, CallsAreOld, Tick, InFlight
<1>6. ASSUME Change PROVE Inv'
  BY <1>6, SMT DEF Inv, TypeOK, CallsAreOld, Change, InFlight
<1>7. CASE UNCHANGED vars
  BY <1>7, SMT DEF Inv, TypeOK, CallsAreOld, InFlight, vars
<1> QED BY <1>1, <1>2, <1>3, <1>4, <1>5, <1>6, <1>7 DEF Next

\* The types, the range of every counter and the relation of state and failures.
THEOREM TypeCorrect == Spec => []TypeOK
<1>1. Spec => []Inv
  BY InitInv, NextInv, PTL DEF Spec
<1> QED BY <1>1, PTL DEF Inv

\* Handlers whose calls were allowed before the trip do not close a breaker that has been
\* open for longer than a call takes: only a probe does, alone with the service.
THEOREM OnlyProbeCloses == Spec => ProbeDecides
<1> DEFINE Decides == state # "closed" /\ state' = "closed" /\ sinceTrip > Timeout =>
                          state = "halfOpen" /\ \E r \in Requests : InFlight = {r}
<1>1. Spec => []Inv
  BY InitInv, NextInv, PTL DEF Spec
<1>2. ASSUME Inv, [Next]_vars PROVE [Decides]_vars
  <2> SUFFICES ASSUME Next, state # "closed", state' = "closed", sinceTrip > Timeout
               PROVE  state = "halfOpen" /\ \E r \in Requests : InFlight = {r}
    BY <1>2
  <2>1. PICK r \in Requests : RecordSuccess(r)
    <3>1. \A r \in Requests : ~Allow(r) /\ ~Answer(r)
      BY DEF Allow, Answer
    <3>2. \A r \in Requests : ~RecordFailure(r)
      BY SMT DEF RecordFailure
    <3>3. ~Tick /\ ~Change
      BY DEF Tick, Change
    <3> QED BY <3>1, <3>2, <3>3, Zenon DEF Next
  <2>2. r \in InFlight
    BY <2>1, SMT DEF RecordSuccess, InFlight
  <2>3. state # "open"
    BY <1>2, <2>2, QuietWhenLate
  <2> QED BY <1>2, <2>3, SMT DEF Inv, TypeOK, CallsAreOld
<1> QED BY <1>1, <1>2, PTL DEF Spec, ProbeDecides
=============================================================================
