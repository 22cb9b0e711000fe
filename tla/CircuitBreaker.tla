--------------------------- MODULE CircuitBreaker ---------------------------
(***************************************************************************)
(* The circuit breaker that guards the language model behind ap-assistant: *)
(* class circuit_breaker in ap-assistant/src/core.ts, together with the    *)
(* way stream_with_reliability and the two catch blocks of the core drive  *)
(* it.  One breaker is shared by every turn of every resident, so calls    *)
(* admitted in different breaker states overlap freely.                    *)
(*                                                                         *)
(* Data abstraction.                                                       *)
(*  - opened_at and the clock are read in one comparison only (has         *)
(*    recovery_window_ms passed since opened_at?).  "recovered" is the     *)
(*    answer; it becomes TRUE some time after the breaker opened and is    *)
(*    FALSE whenever the breaker is not open.                              *)
(*  - consecutive_failures is compared with the threshold only, so it      *)
(*    saturates there.                                                     *)
(***************************************************************************)
EXTENDS Naturals, FiniteSets

CONSTANTS Calls,      \* model calls that may be in flight at once
          Threshold   \* circuit_breaker_options.failure_threshold

ASSUME ThresholdAssumption == Threshold \in Nat \ {0}

VARIABLES breaker,    \* the four private fields of the class
          call        \* per call: "idle", or what allow() let it in as

vars == <<breaker, call>>

Breakers == [state: {"closed", "open", "half_open"},
             consecutive_failures: 0..Threshold,
             probe_in_flight: BOOLEAN,
             recovered: BOOLEAN]

\* One type invariant for the module: field ranges of the class.
TypeOK == /\ breaker \in Breakers
          /\ call \in [Calls -> {"idle", "normal", "probe"}]

Init == /\ breaker = [state |-> "closed", consecutive_failures |-> 0,
                      probe_in_flight |-> FALSE, recovered |-> FALSE]
        /\ call = [c \in Calls |-> "idle"]

-----------------------------------------------------------------------------
(* The methods, as functions of the breaker's fields. *)

\* Faulty variant for mutation: the recovery window is never consulted again.
allow_never_recovers(b) == \/ b.state = "closed"
                           \/ b.state = "half_open" /\ ~b.probe_in_flight

allow(b) == \/ b.state = "closed"
            \/ b.state = "open" /\ b.recovered
            \/ b.state = "half_open" /\ ~b.probe_in_flight

after_allow(b) ==
  IF b.state = "closed" THEN b
  ELSE [b EXCEPT !.state = "half_open", !.probe_in_flight = TRUE,
                 !.recovered = FALSE]

after_success(b) ==
  [b EXCEPT !.state = "closed", !.consecutive_failures = 0,
            !.probe_in_flight = FALSE, !.recovered = FALSE]

failures_plus_one(b) ==
  IF b.consecutive_failures < Threshold THEN b.consecutive_failures + 1
  ELSE Threshold

\* Faulty variant for mutation: a failure leaves the probe flag as it was.
after_failure_keeps_probe(b) ==
  IF b.state = "half_open" \/ failures_plus_one(b) >= Threshold
  THEN [b EXCEPT !.consecutive_failures = failures_plus_one(b),
                 !.state = "open", !.recovered = FALSE]
  ELSE [b EXCEPT !.consecutive_failures = failures_plus_one(b)]

after_failure(b) ==
  IF b.state = "half_open" \/ failures_plus_one(b) >= Threshold
  THEN [b EXCEPT !.consecutive_failures = failures_plus_one(b),
                 !.probe_in_flight = FALSE, !.state = "open",
                 !.recovered = FALSE]
  ELSE [b EXCEPT !.consecutive_failures = failures_plus_one(b),
                 !.probe_in_flight = FALSE]

is_open(b) == b.state = "open" /\ ~b.recovered

-----------------------------------------------------------------------------
(* A call is let in by allow() or refused (circuit_open).  One that is let  *)
(* in settles by succeeding, by a transient failure, or by any other        *)
(* failure, which the catch blocks do not report to the breaker.            *)

Admit(c) == /\ call[c] = "idle"
            /\ allow(breaker)
            /\ breaker' = after_allow(breaker)
            /\ call' = [call EXCEPT ![c] = IF breaker.state = "closed"
                                           THEN "normal" ELSE "probe"]

\* The caller answers with the degraded text; the breaker is as it was.
Refuse(c) == /\ call[c] = "idle"
             /\ ~allow(breaker)
             /\ UNCHANGED vars

Succeed(c) == /\ call[c] # "idle"
              /\ breaker' = after_success(breaker)
              /\ call' = [call EXCEPT ![c] = "idle"]

FailTransient(c) == /\ call[c] # "idle"
                    /\ breaker' = after_failure(breaker)
                    /\ call' = [call EXCEPT ![c] = "idle"]

FailOther(c) == /\ call[c] # "idle"
                /\ call' = [call EXCEPT ![c] = "idle"]
                /\ UNCHANGED breaker

RecoveryWindowElapses == /\ is_open(breaker)
                         /\ breaker' = [breaker EXCEPT !.recovered = TRUE]
                         /\ UNCHANGED call

Settle(c) == Succeed(c) \/ FailTransient(c) \/ FailOther(c)

Next == \/ RecoveryWindowElapses
        \/ \E c \in Calls : \/ Admit(c)
                            \/ Refuse(c)
                            \/ Succeed(c)
                            \/ FailTransient(c)
                            \/ FailOther(c)

Spec == Init /\ [][Next]_vars

\* Time passes, and every call settles (the client library times it out).
\* Nothing makes residents ask again, so Admit has no fairness.
Fairness == /\ WF_vars(RecoveryWindowElapses)
            /\ \A c \in Calls : WF_vars(Settle(c))

FairSpec == Spec /\ Fairness

-----------------------------------------------------------------------------
(* Safety *)

\* The three private fields never disagree, whatever calls settle late: the
\* probe flag is up exactly while the breaker is half open, and the breaker
\* is closed exactly while fewer than Threshold consecutive transient
\* failures are counted.  (core.ts:146-150 tests the flag in state half_open
\* as if it could be down there; this says it cannot.)
FieldsAgree ==
  /\ breaker.probe_in_flight <=> breaker.state = "half_open"
  /\ breaker.state = "closed" <=> breaker.consecutive_failures < Threshold
  /\ breaker.recovered => breaker.state = "open"

\* A call is let in past an opened breaker only when a recovery window has
\* passed since the breaker last opened, and letting it in ends that window:
\* nothing else gets in until a settled call reports a result.
ProbeUsesUpWindow ==
  [][\A c \in Calls : (call[c] = "idle" /\ call'[c] = "probe") =>
       /\ breaker.state = "open" /\ breaker.recovered
       /\ ~allow(breaker')]_vars

\* "single probe" (core.ts:142): at most one call is out as a probe.  The model
\* refutes it: a failure of a call of the closed era clears the flag.
SingleProbe == Cardinality({c \in Calls : call[c] = "probe"}) <= 1

-----------------------------------------------------------------------------
(* Liveness *)

\* The probe's call settled without telling the breaker.
ProbeLost == /\ breaker.probe_in_flight
             /\ \A c \in Calls : call[c] # "probe"

\* An opened breaker gets out of the opened and half-open states far enough
\* to let a call in again, unless the probe was lost.
LetsCallsInAgain == ~allow(breaker) ~> (allow(breaker) \/ ProbeLost)

\* What the resident is told while the breaker refuses, "Please try again in
\* a moment" (core.ts:590): a refusing breaker lets some call in later.
TryAgainInAMoment == ~allow(breaker) ~> allow(breaker)
=============================================================================
