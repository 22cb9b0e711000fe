-------------------------------- MODULE Backend --------------------------------
(***************************************************************************)
(* Parts of the application plane that share neither state nor an await:   *)
(* the circuit breaker of the model, the stores, the way of a request, and *)
(* the life of the process.  A behaviour is the history of one of them.    *)
(***************************************************************************)
EXTENDS CircuitBreaker, Stores, Requests, Lifecycle

VARIABLE part

backend_vars == <<part, vars, store_vars, request_vars, host_vars>>

\* The request of a behaviour about something else: it is over.
NoRequest ==
  /\ path = health /\ token = "none" /\ body = FALSE /\ expired = FALSE /\ stage = "answered"
  /\ tool = "none" /\ calls = 0 /\ acts = {} /\ cited = {} /\ shown = {}
  /\ trouble = "none" /\ answer = "200"

BackendInit ==
  /\ part \in {"breaker", "stores", "requests", "process"} /\ Init
  /\ StoresInit /\ (part # "stores" => table = "resident_profile")
  /\ IF part = "requests" THEN RequestsInit ELSE NoRequest
  /\ LifecycleInit /\ (part # "process" => pool = "none")

BackendNext ==
  /\ UNCHANGED part
  /\ \/ /\ part = "breaker" /\ Next
        /\ UNCHANGED <<store_vars, request_vars, host_vars>>
     \/ /\ part = "stores" /\ StoresNext
        /\ UNCHANGED <<vars, request_vars, host_vars>>
     \/ /\ part = "requests" /\ RequestsNext
        /\ UNCHANGED <<vars, store_vars, host_vars>>
     \/ /\ part = "process" /\ LifecycleNext
        /\ UNCHANGED <<vars, store_vars, request_vars>>

BackendSpec ==
  /\ BackendInit /\ [][BackendNext]_backend_vars
  /\ Fairness /\ RequestsFairness /\ LifecycleFairness
=============================================================================
