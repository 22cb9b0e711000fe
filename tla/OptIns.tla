-------------------------------- MODULE OptIns --------------------------------
(***************************************************************************)
(* How a resident's notification opt-ins reach ap-notifications: the       *)
(* toggles of Portal.tsx, the registrations and the cached read of         *)
(* useNotifications.ts, and the registration store, which keeps one row    *)
(* per resident (so one resident and one phone are modelled).              *)
(*                                                                         *)
(* Aborting a request does not stop one that has left the phone: the       *)
(* server may handle it later, after newer ones.  The answer of a read may *)
(* be older than what has been stored since.                               *)
(*                                                                         *)
(* Data abstraction: preferences are the set of types that are on.         *)
(***************************************************************************)
EXTENDS Naturals

CONSTANTS Types,          \* notification types with an opt-in
          MaxRegisters,   \* bound: register() calls
          MaxStrays       \* bound: abandoned requests under way, per body

ASSUME OptInsAssumption == MaxRegisters \in Nat /\ MaxStrays \in Nat

Preferences == SUBSET Types
Null == <<>>
Records == {Null} \cup {<<p>> : p \in Preferences}

default_preferences == Types

VARIABLES registration,   \* the resident's row
          strays,         \* per body, abandoned requests the server may get
          persisted,      \* the read persisted on the phone
          phone,          \* the app's state
          live,           \* the latest register() call
          registers,      \* how many there were (bound)
          chosen          \* what the resident asked for so far (history)

opt_ins_vars == <<registration, strays, persisted, phone, live, registers, chosen>>

Phones == [state: {"closed", "asking", "denied", "granted"},
           preferences_ref: Preferences,
           data: Records,         \* prefs_query.data
           incoming: Records,     \* on its way to it
           push_enabled: BOOLEAN, \* the portal's toggles
           enabled: Preferences,
           prefs_loaded: BOOLEAN]

\* Made on opening, or by a change of the toggles before ("early") or after the
\* stored opt-ins were loaded into them.  An older request has overtaken it when
\* it was handled since (history).
Calls == [body: Preferences, by: {"opening", "early", "choice"},
          overtaken: BOOLEAN,
          state: {"posting", "stored", "waiting", "over"}]

opened(read) == [state |-> "asking", preferences_ref |-> default_preferences,
                 data |-> Null, incoming |-> read, push_enabled |-> TRUE,
                 enabled |-> default_preferences, prefs_loaded |-> FALSE]

OptInsInit ==
  /\ registration = Null
  /\ strays = [p \in Preferences |-> 0]
  /\ persisted = Null
  /\ phone = [opened(Null) EXCEPT !.state = "closed"]
  /\ live = [body |-> {}, by |-> "opening", overtaken |-> FALSE, state |-> "over"]
  /\ registers = 0
  /\ chosen = {}

IsOpen == phone.state # "closed"

to_push_prefs(p) == IF p.push_enabled THEN p.enabled ELSE {}

-----------------------------------------------------------------------------
(* register() and its retry loop *)

\* A request is given up: the server never gets it, or gets it later.
Abandon(body) ==
  \/ UNCHANGED strays
  \/ /\ strays[body] < MaxStrays
     /\ strays' = [strays EXCEPT ![body] = @ + 1]

AbortLive == IF live.state = "posting" THEN Abandon(live.body)
             ELSE UNCHANGED strays

\* The prior call's loop is aborted first.
register(body, by) ==
  /\ registers < MaxRegisters
  /\ registers' = registers + 1
  /\ AbortLive
  /\ live' = [body |-> body, by |-> by, overtaken |-> FALSE,
               state |-> "posting"]

\* Faulty variant for mutation: a row that is there keeps its opt-outs.
upserted_narrows(body) ==
  IF registration = Null THEN <<body>> ELSE <<registration[1] \cap body>>

upserted(body) == <<body>>

PostStores ==
  /\ live.state = "posting"
  /\ registration' = upserted(live.body)
  /\ live' = [live EXCEPT !.state = "stored"]
  /\ UNCHANGED <<strays, persisted, phone, registers, chosen>>

PostAccepted ==
  /\ live.state = "stored"
  /\ live' = [live EXCEPT !.state = "over"]
  /\ UNCHANGED <<registration, strays, persisted, phone, registers, chosen>>

\* Faulty variant for mutation: one attempt only.
PostFails_gives_up ==
  /\ live.state \in {"posting", "stored"}
  /\ AbortLive
  /\ live' = [live EXCEPT !.state = "over"]
  /\ UNCHANGED <<registration, persisted, phone, registers, chosen>>

\* No answer or not ok: back off, with the request perhaps still under way.
PostFails ==
  /\ live.state \in {"posting", "stored"}
  /\ AbortLive
  /\ live' = [live EXCEPT !.state = "waiting"]
  /\ UNCHANGED <<registration, persisted, phone, registers, chosen>>

Retry ==
  /\ live.state = "waiting"
  /\ live' = [live EXCEPT !.state = "posting"]
  /\ UNCHANGED <<registration, strays, persisted, phone, registers, chosen>>

\* The server handles an abandoned request after all, or never will.
StrayStores(body) ==
  /\ strays[body] > 0
  /\ registration' = upserted(body)
  /\ strays' = [strays EXCEPT ![body] = @ - 1]
  /\ live' = [live EXCEPT !.overtaken = TRUE]
  /\ UNCHANGED <<persisted, phone, registers, chosen>>

StrayIsLost(body) ==
  /\ strays[body] > 0
  /\ strays' = [strays EXCEPT ![body] = @ - 1]
  /\ UNCHANGED <<registration, persisted, phone, live, registers, chosen>>

-----------------------------------------------------------------------------
(* The app's life: opening, the permission, the read and its cache. *)

\* The persisted read comes back unless it has expired.
Open ==
  /\ ~IsOpen
  /\ \E read \in {Null, persisted} : phone' = opened(read)
  /\ UNCHANGED <<registration, strays, persisted, live, registers, chosen>>

Close ==
  /\ IsOpen
  /\ phone' = [opened(Null) EXCEPT !.state = "closed"]
  /\ AbortLive
  /\ live' = [live EXCEPT !.state = "over", !.by = "opening"]
  /\ UNCHANGED <<registration, persisted, registers, chosen>>

Grant ==
  /\ phone.state = "asking"
  /\ phone' = [phone EXCEPT !.state = "granted"]
  /\ register(phone.preferences_ref, "opening")
  /\ UNCHANGED <<registration, persisted, chosen>>

Deny ==
  /\ phone.state = "asking"
  /\ phone' = [phone EXCEPT !.state = "denied"]
  /\ UNCHANGED <<registration, strays, persisted, live, registers, chosen>>

\* The server reads the row; the answer is on its way.
QueryReads ==
  /\ IsOpen
  /\ phone' = [phone EXCEPT !.incoming = registration]
  /\ UNCHANGED <<registration, strays, persisted, live, registers, chosen>>

\* The portal takes over the first opt-ins that come.
seeds == ~phone.prefs_loaded

\* prefs_query.data; an answer that equals it changes nothing.
DataArrives ==
  /\ IsOpen
  /\ phone.incoming # Null
  /\ phone' = [phone EXCEPT
       !.incoming = Null,
       !.data = phone.incoming,
       !.preferences_ref = IF phone.incoming = phone.data THEN @ ELSE phone.incoming[1],
       !.enabled = IF seeds THEN phone.incoming[1] ELSE @,
       !.prefs_loaded = TRUE]
  /\ persisted' = phone.incoming
  /\ UNCHANGED <<registration, strays, live, registers, chosen>>

-----------------------------------------------------------------------------
(* on_prefs_change, set_preferences *)

SetPreferences(push_enabled, enabled) ==
  LET next == [phone EXCEPT !.push_enabled = push_enabled, !.enabled = enabled]
      prefs == to_push_prefs(next)
  IN  /\ IsOpen
      /\ phone' = [next EXCEPT !.preferences_ref = prefs]
      /\ register(prefs, IF phone.prefs_loaded THEN "choice" ELSE "early")
      /\ chosen' = chosen \cup {prefs}
      /\ UNCHANGED <<registration, persisted>>

TogglePush == SetPreferences(~phone.push_enabled, phone.enabled)

ToggleType(t) ==
  SetPreferences(phone.push_enabled,
                 IF t \in phone.enabled THEN phone.enabled \ {t}
                 ELSE phone.enabled \cup {t})

-----------------------------------------------------------------------------
OptInsNext ==
  \/ PostStores \/ PostAccepted \/ PostFails \/ Retry
  \/ \E p \in Preferences : StrayStores(p) \/ StrayIsLost(p)
  \/ Open \/ Close \/ Grant \/ Deny \/ QueryReads \/ DataArrives
  \/ TogglePush \/ \E t \in Types : ToggleType(t)

OptInsSpec == OptInsInit /\ [][OptInsNext]_opt_ins_vars

\* The loop goes on, and not every attempt fails.
OptInsFairSpec ==
  /\ OptInsSpec
  /\ WF_opt_ins_vars(Retry)
  /\ SF_opt_ins_vars(PostStores) /\ SF_opt_ins_vars(PostAccepted)

OptInsTypeOK ==
  /\ registration \in Records
  /\ strays \in [Preferences -> 0..MaxStrays]
  /\ persisted \in Records
  /\ phone \in Phones
  /\ live \in Calls
  /\ registers \in 0..MaxRegisters
  /\ chosen \subseteq Preferences

\* Aborted, retried and late requests, stale reads and caches never make up
\* opt-ins: what is stored is the default or was asked for by the resident.
NothingInvented ==
  registration # Null => registration[1] \in chosen \cup {default_preferences}

\* The resident's last change of the toggles is stored in the end and stays,
\* and the toggles show it, whichever attempts fail and whatever stale reads
\* come, if the app stays open, the stored opt-ins had been loaded before and
\* no abandoned request overtakes it.
Settles ==
  <>[](IsOpen /\ live.by = "choice" /\ ~live.overtaken)
    => <>[](registration = <<to_push_prefs(phone)>>)

-----------------------------------------------------------------------------
(* A statement of the code that the model refutes. *)

\* useNotifications.ts:143, "so a re-register keeps current opt-ins": when the
\* row holds what the resident asked for, a registration leaves it like that.
ReRegisterKeeps ==
  [][(PostStores /\ registration # Null /\ registration[1] \in chosen)
       => registration'[1] \in chosen]_opt_ins_vars
=============================================================================
