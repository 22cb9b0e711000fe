# AssistantSA in TLA+

AssistantSA is a resident's city assistant. A TypeScript backend of small
services runs composed in one Node process (`ap-server`), a Rust service
(`ap-voice`) beside it speaks and listens, and a mobile app is the resident's
end. These modules model the parts whose correctness depends on interleaving,
failure and order, TLC checks them on small instances, and TLAPS proves the
central properties for every instance.

Paths below are relative to `src/application-plane/`; `core.ts` is
`backend/ap-assistant/src/core.ts`, `service.rs` is `backend/ap-voice/src/service.rs`.

Contents: [the system](#the-system), [modules](#modules),
[runs](#runs), [fairness](#fairness), [what the code says and does
not do](#where-the-code-and-its-comments-disagree), [proofs](#proofs),
[abstractions](#abstractions), [not modelled](#not-modelled),
[plan](#plan).

## The system

Everything a resident says reaches `ap-assistant`: as a chat request
(`POST`, streamed back), or as the query of a voice session, for which
`ap-voice` dials `ap-assistant` over a WebSocket. A turn streams from the model,
may run tools that belong to the other services, and ends by storing the pair of
messages. The other services serve the app directly, through the gateway, and run
timers (`scheduler.ts`) whose results go through `ap-notifications` to the phone,
which polls. The services share Postgres (one schema per city) and Redis (sessions).

| component | state | operations | interacts with | hard because | correct when |
|---|---|---|---|---|---|
| **ap-assistant core** (`core.ts`) | per session: pending confirmation (in process), history (Redis); per turn: locals | a turn: confirmation, filler and FAQ paths, model streams with retry, tool hops, `append_history` | model SDK, dispatcher, session store | turns of one session overlap at every `await`; streams fail half way; load and save are two round trips | the stored history is sound whatever overlaps; nothing is shown or stored twice; a confirmation runs a tool once |
| **circuit breaker** (`core.ts:129-172`) | state, failure count, opened-at, probe flag | `allow`, `on_success`, `on_failure`, `is_open` | one for all turns | calls let in under one state settle under another | its fields never disagree; it refuses in a bad spell and lets calls in again |
| **handler** (`handler.ts`) | one promise chain per voice socket | message, close | core | turns that throw, sockets that close mid-queue | one turn per socket at a time, in order, and each ends |
| **dispatcher, registry, seed tools, tool ports** | the registered tools | dispatch, register, deregister | core; the other services | a tool vanishes between a question and its answer; the token expires between two tools | a gated tool runs only on its own confirmation; a source stands for data that was read |
| **model adapter** (`adapters/anthropic.ts`) | none | open a stream | SDK | errors with and without a status | transient errors are told from others |
| **gateway** (`gateway.ts`) and the services' handlers | none; a request's own way | 19 routes, two sockets | the app, all services | the token is verified more than once on the way; a stream is open before the work begins | the answer says what was done, and a failed token is told from failed work |
| **process, supervisor** (`index.ts`, `supervisor.ts`, `scheduler.ts`) | sidecar processes, timers, the pool | start, shutdown, spawn, stop | the operating system | sidecars that ignore a signal, exit by themselves or were never up; passes that hold a connection | a shutdown comes to an end and leaves no sidecar |
| **ap-reminders** (`service.ts`) | `reminders` rows | set, list, dismiss, evaluate | notifier, scheduler | evaluations overlap; each call may fail or the process may go between two | nothing early, nothing repeated, everything due fires |
| **ap-notifications** (`service.ts`) | registrations, `notifications_pending` | register, read, notify (resident, city), drain | every notifying service, the phone | the drain deletes what it returns; registrations are retried and abandoned | nothing duplicated, opt-outs respected |
| **ap-utility** (`service.ts`) | profiles, links, bills, usage, outages | link, push, unlink, save a profile, check outages, evaluate bills | outage source, notifier, the phone | a check before and a write after an await; one address fails a pass | what is stored is told, once; no data of an unlinked site |
| **ap-civic** (`service.ts`) | alerts, events, records resolved by address, dismissals | fetch, warm, refresh, list, dismiss | city pages, GIS, notifier | insert, prune, notify are separate steps; sources fail alone or together; error pages look like data | a stored alert is told, once; every record becomes current again |
| **stores** (`adapters/postgres.ts`, `memory.ts`) | 11 tables, and maps in their place | the services' ports | all services | two adapters, and only one is used in production | both hold the same after the same calls |
| **ap-voice session** (`service.rs`) | transcription connection, queue of turns, barge-in generation, `first_audio` | transcribe, end utterance, run a turn, filler, barge in | speech providers, ap-assistant, the phone | four tasks on several threads share a sink and two flags | replies in order and unmixed, a barge-in silences the old reply and not the next |
| **voice bridge** (`voice-bridge.ts`) | queued frames, the handshake | verify, connect, relay, close | phone, ap-voice | frames come before either end is open | every frame arrives, in order |
| **mobile: assistant engine** (`m-res-assistant`) | voice session and timers, microphone, wake word detector, thread | toggle, capture, detect, submit, retry | ap-voice, gateway, the native audio engine | callbacks of sessions and calls that are over; effects applied late | the microphone has an owner, sessions end, each turn is somebody's |
| **mobile: accounts and scraping** | linked list, keystore, daily marks, in-flight set; scripts in a WebView | link, unlink, edit, sync, scrape | ap-utility, the sites | refetches, mutations and syncs overtake each other; a navigation destroys the script | phone and server come to agree, what is linked gets scraped |
| **mobile: reminders** | cached list, timer | list, dismiss, restore, fire | ap-reminders | deletions and re-creations in any order | an undo persists, what is due fires |
| **mobile: notifications** | preferences, poll | register, toggle, poll, raise | ap-notifications | registering races the read of preferences | a choice is stored, stays, and is shown |
| **mobile: civic, portal, shell** | cached reads, dismissals | render, dismiss, undo | services | dismissals fail one by one | the feed shows what the server lists |
| **crawl service, scrape scripts** | the number of the next step, in `window.name` | run a step, extract | third-party pages | pages load at any moment | each step runs once, in order |

`PROJECT.json` lists the hazards of this code line by line, with the property
that watches each.

## Modules

| module | models | state and how it maps | extends or instantiates |
|---|---|---|---|
| `CircuitBreaker` | the breaker class and the ways the core drives it | `breaker` holds the four private fields; `call` what `allow()` let each caller in as | - |
| `History` | the pure part of `append_history` | none: `appended(h, t)` pushes the pair, trims, drops leading answers | - |
| `ConversationLog` | the abstract specification of a session's history: turns enter one at a time, whole | `log` | `History` |
| `Assistant` | turns, tools, confirmations, the socket queues, the store | `turn[t]` holds the locals of `run_turn` and its generators (`phase` is where it awaits); `pending`, `history`, `registered`, `queue`, `closed` are the code's maps | `History`; `CircuitBreaker` as `CB`; `ConversationLog` as `Log` |
| `Requests` | one request: routes, tokens, the services' handlers, a turn's tools behind their ports | `stage` is where the request awaits; `acts` history of what was done to a store and for whom; `shown` the chunks besides text | - |
| `Lifecycle` | `main`, `shutdown`, the supervisor's children and timers, the scheduler's passes, the pool | `child[s]` a sidecar's process, `waiting` the promises of `stop_all`, `work[j]` a job's pass | - |
| `Stores` | every table of `postgres.ts` beside its map of `memory.ts` | `rows`, `entries`: what each adapter holds of the table the behaviour is about; `apart` history: owners who had an outage the adapters treat unlike | - |
| `Backend` | the parts of the process that share nothing | `part` | extends `CircuitBreaker`, `Stores`, `Requests`, `Lifecycle` |
| `Reminders` | rows, evaluations, the pending queue, the phone's poll | `row`, `pending` are tables; `tick[k]` the locals of `run_reminder_evaluation`; `known` the bootstrapped schemas; `answer` an answer on its way; `unreadable` the reminders whose `scheduled_at` is no time | - |
| `Outages` | the scheduled outage pass, the check a saved profile starts, the resident's gate in `ap-notifications` | `check[c]` the locals of a check; `stored`, `address` are tables; `source` what the provider reports | - |
| `Accounts` | `useAccounts.ts` with the portal's sync triggers, and the links and pushes of `ap-utility` | `linked`, `data` are tables; `cache`, `fetching`, `answer` the query of the linked list; `creds`, `marked` the keystore; `queue`, `run`, `syncing` the syncs; `unlink`, `link` the mutations; `leftover`, `outlived` histories of data and of marks that nothing removed | - |
| `CivicFetch` | the alerts' and the events' fetches with paging, retention and the fan-out to a city | `entries`, `old` are `civic_entry`; `pass[p]` the locals of a pass; `down` the sources that do not answer | - |
| `CivicRecords` | the records resolved by address: warm pass, opening refresh | `record` is `civic_resolved`; `visit[v]` an address under way with its jobs | - |
| `Civic` | `run_scheduled_fetch` | - | extends `CivicFetch`, `CivicRecords` |
| `VoiceSession` | transcription loop, pump, worker, filler, inbound pump, the phone's suppression | `generation` is the `AbortSignal`; `sent` every frame written to the client; `client.suppressing` is `audio-io.ts`'s flag | - |
| `OptIns` | the portal's notification toggles, the registrations, the persisted read, the registration row | `phone` is `preferences_ref`, `prefs_query.data`, the portal's `prefs` and `prefs_loaded`; `live` the latest `register()` call; `strays` aborted requests the server may still get; `persisted` the persisted read; `registration` the row | - |
| `Engine` | voice sessions and their timers, microphone capture, the wake word's effect | `voice_ref`, `voice_state`, `silence_timer`, `watchdog` are the hook's refs and state; `promise`, `abandoned` the calls of `start_capture`; `sockets` each session's | - |
| `WakeWord` | the streaming detector | `raw`, `mel`, `embeddings`, `mel_window_start`, `debounce` are its buffers and counters; `awaits` the inference under way | - |
| `Uplink` | the phone's voice stream and the server's bridge, up to `ap-voice` | `pending`, `wire`, `queued`, `heard`: a frame's four places; `auth_state`, `upstream`, `socket` | - |
| `Thread` | typed queries with their streams and retries, transcript bubbles | `turns`, `sending`, `voice_turn_ids` are the hook's; `chat_stream` the reply of the open stream; `late` history: bubbles of transcripts that came after the stop | - |
| `AlertFeed` | alerts shown, dismissed, undone | `dismissed_alerts`, `alert_undo` the portal's and the feed's; `alert_data`, `alert_read` the query; `mutations` the requests; `dismissals` the table | - |
| `ReminderFeed` | the phone's reminders | `reminders` the cached list, `timer` the deadline; `saves`, `deletions`, `answer` the requests; `rows` the table; `batch`, `dropped` histories: what the undo was offered for, and what it did nothing for | - |
| `ScrapeScript` | both site scripts in the WebView | `window_name` the pointer; `page`, `next_page`, one of those a click may lead to; `job` the runner's | - |
| `Phone` | the parts of the app that share nothing | `part` | extends the seven modules above |
| `MCAssistant`, `MCReminders` | the functions TLC needs as constants | | |
| `Assistant_proofs`, `Backend_proofs`, `Civic_proofs`, `Outages_proofs`, `Phone_proofs`, `Portal_proofs`, `Reminders_proofs`, `VoiceSession_proofs` | the theorems, of the module of the same name; `Portal_proofs` has those of `Accounts` and `OptIns` | | the module it is about |

A step is the code between two points where another actor may run. In Node those
are the awaits and yields; in `ap-voice`, tasks run on several threads, so a step
is at most one access to something shared. Each definition's lines are in
`PROJECT.json`, "map". A definition whose comment begins "Faulty variant for
mutation", or that is named as another one with a suffix, is not part of the
model: it is one definition the way a plausible bug would have it, and the run
that checks the property named with it in `PROJECT.json` fails when the variant
takes the definition's place.

How modules compose:

* `Assistant` and `CircuitBreaker`: every step of the breaker in `Assistant` is an
  action of `CircuitBreaker`, the callers being the turns. That `Assistant`
  implements `CircuitBreaker!Spec` (`BreakerSpec`) is checked and proved, so what
  is shown of the breaker holds in the assistant.
* `Assistant` and `ConversationLog`: a refinement, when a session has one socket.
* `Reminders`, `Outages`, `CivicFetch`, `OptIns`, `Accounts`, `AlertFeed`,
  `ReminderFeed`, `Thread` and `Uplink` each hold both ends of a protocol: the
  service with its tables and the app, or the notified queue, that it talks to.
* `Backend`, `Phone` and `Civic` put side by side parts that share neither a
  variable nor an await, in the code as in the modules. What such parts do
  together is the product of what each does alone, and every property speaks of
  one of them, so a behaviour in which only one part moves loses nothing; it
  spares TLC the product. Their theorems are proved of the whole.

## Runs

| run | instance | shows | distinct states |
|---|---|---|---|
| `Backend` | 5 overlapping calls, threshold 2; two owners, sites and ids in each table; a request of two residents with 2 tools; 2 sidecars, 2 jobs | the breaker's fields agree and a refusing breaker lets calls in again; both store adapters hold the same, as far as that is so; a request's answer says what was done and each request ends; a shutdown ends and leaves no sidecar | 80 K |
| `AssistantOverlap` | 2 turns of one resident, one on a voice socket, one by chat; 3 tools of which one gated and volatile, one never registered; history of 3 | the stored history is sound and holds nothing twice, replies are what was shown, first requests alternate, one run per confirmation, the breaker is `CircuitBreaker` | 622 K |
| `AssistantSocket` | 2 turns on one socket | each ends, and the history implements `ConversationLog` | 22 K |
| `Reminders` | 2 reminders of 2 residents in 2 cities, restarts, any call failing | at most one delivery per evaluation, none duplicated, everything due fires unless a reminder set for no time stands before it | 19 K |
| `RemindersAlwaysDelivered` | the same | *refuted*: a reminder is always delivered | - |
| `Outages` | 2 residents, one with alerts on, 1 area, 2 outages of which one undated; a pass and a save that overlap, 2 changes, a retention window, 1 fault | what is stored is told, or is accounted for; told once; the store catches up | 520 K |
| `Accounts` | 1 site, 2 operations of the resident, 1 fault, a midnight | in flight means under way, no data of an unlinked site and no mark without data but in the ways named; the list keeps links; everything catches up | 325 K |
| `Civic` | 2 entries, 2 pages, 2 overlapping passes, 2 residents opted in; or 2 addresses, 2 kinds of record, a warm pass and an opening; 2 changes of the city, a mishap | a stored alert is told, and once; what is listed is stored, and every record current, again and again | 619 K |
| `Voice` | 2 utterances, 2 units of audio, 2 of filler, a barge-in | replies in order and unmixed, filler and barged-out audio yield, the next reply plays | 4.4 M |
| `VoiceProgress` | 2 utterances, a flapping transcription service, 1 reconnect | queued turns end, flapping ends | 43 K |
| `OptIns` | 1 phone, 2 notification types, 3 registrations, 1 abandoned request per body | nothing stored that nobody asked for; a change made after loading is stored, stays and is shown | 493 K |
| `Phone` | each part of the app at the sizes below | ten properties of the app, named in its modules | 304 K |

`RemindersAlwaysDelivered` is expected to be violated
([below](#where-the-code-and-its-comments-disagree)); all others pass.

Why the bounds are enough:

* **Backend.** Threshold 2 is the least at which a failure can be counted
  without opening. Five calls allow two to open it, one to be the probe and two
  to settle late, a success and a failure, in any order. The failure count
  saturates at the threshold: the code only compares it. A store's call names one
  owner, site and id: two of each show what it does to the others. A
  request concerns one resident; two, so that "for whom" can be wrong. Two tools,
  so that the token can expire between them. Two sidecars, so that one ignores
  the signal and the other has exited; two jobs, so that one holds a connection
  and another asks for one.
* **Assistant.** Two turns are the least that overlap, and every safety property
  relates at most two. `MaxHistory` 3 is odd, so trimming cuts through a pair,
  and one pair more than fits is reached. Two hops, two tools per reply and one
  retry are the least that exercise "another" of each; `Threshold` 1 lets a
  single failure open the breaker under the other turn. `AssistantSocket` keeps
  hops and tools at 1, because what it asks does not depend on them, and has
  `MaxHistory` 4, so that a lost or a doubled pair is there to be seen and not
  trimmed. The theorems remove these bounds.
* **Reminders.** Two reminders in two cities separate "one fails and the other
  waits" and "the city is unknown after a restart" from the ordinary case. The
  run has one evaluation at a time because of the liveness part; with two that
  overlap (496 K states) TLC finds the same safety properties true, and the
  theorems have any number.
* **Outages.** Two residents, because a pass that fails at one skips the other;
  two outages, one that changes its status and one that cannot be stored; two
  checks, because each hazard is about two. One fault may come anywhere. The
  theorems remove these bounds.
* **Accounts.** Sites share the linked list and the marks and nothing else. One
  site keeps the run small; with two sites and no fault (6 M states) the safety
  properties were found to hold as well. Two operations are the least that reverse each
  other (an unlink under a sync, a relink under an unlink).
* **Civic.** Two entries on two pages, so that one page fails and the other does
  not; two passes are the least that overlap; two residents, so that a fan-out
  can be cut between them. Two addresses, so that one fails before the other.
  Which pages are down for good is a choice, so the liveness part covers every set.
* **Opt-ins.** Two types, so that changing one must keep the other. Three
  registrations are the one of an opening, a change and one more of either kind,
  of this or of a later opening; one abandoned request per body is enough to
  overtake, since a second of the same body stores the same.
* **Voice.** One barge-in may come while a turn is spoken and another waits,
  between two, or after both; two units are the least of which one can be late
  and another wrongly sent. Reconnecting does not interact with speaking: the
  `Voice` run has none, and `VoiceProgress` has one reconnect, no filler.
* **Phone.** *Engine:* two sessions, so that one's callbacks meet the other; one
  toggle of the wake word, two frames and one failure anywhere. *WakeWord:* the
  code's windows of 76, 8 and 16 scaled to 6, 3 and 2, in the same order, the tail
  and the debounce kept; ten steps fill every window and drop from each, and one
  inference fails. *Uplink:* four frames, so that some come before the socket is
  open, some before the handshake is through and some after. *Thread:* four turns
  and frames: a typed turn that fails and is retried around a voice session's
  two bubbles. *AlertFeed:* three alerts, one of them critical, which
  is dismissed as read and never by clearing all; three dismissals: a batch, one
  that fails and an undo. *ReminderFeed:* one time, two rows:
  the first and its re-creation, and two reads of the list; the delay of two ticks
  is above the timer's limit of one. *ScrapeScript:* the scripts themselves, 8 and 3 steps.

TLC's deadlock check is on in `Reminders`, `Outages`, `Accounts` and `Civic`,
which never stop. The others have a fixed number of turns, calls or requests and
really may stop.

## Fairness

* `CircuitBreaker!FairSpec`: time passes, and every call settles, since the
  client library bounds a request by a timeout. Nothing makes residents ask, so
  `Admit` has none.
* `Assistant!FairSpec`: a turn under way goes on: Node runs a ready
  continuation, and the model, the store and the tool ports answer or throw.
  Arrivals, closes and registrations have none.
* `Requests`: a request that is being worked on goes on, for the same reason.
  The token need not expire.
* `Lifecycle`: timers elapse, a query is answered, a killed process is gone.
  Nothing makes a sidecar exit by itself or heed a signal, nor a pass end.
* `Reminders!FairSpec`: the timer ticks (`setInterval`), phones poll
  (`useNotifications.ts`), the process does not restart for ever, and no single
  call fails every time it is made: strong fairness on the database calls,
  because a failing call ends its evaluation and the next one makes it again. One
  call does fail every time, and has an action of its own: `list_due`, while an
  upcoming reminder of the city has a `scheduled_at` postgres cannot read (`ListThrows`).
* `Outages`, `CivicFetch`, `CivicRecords`: timers tick on and each check's or
  pass's next step happens. Failures and restarts are bounded in number, except
  that a source may be down for good. The residents, the city and the provider
  have none.
* `Accounts`: the app is opened again and again, its effects run, requests are
  answered or fail, and a scrape has a timeout (`scrape_timeout_ms`).
* `OptIns!OptInsFairSpec`: `post_registration` waits and tries again until aborted
  (weak fairness of `Retry`), and not every attempt fails (strong fairness of the
  server's part and of its answer). Reads, the resident and the life of the app
  have none; `Settles` assumes what it needs of them.
* `VoiceSession!FairSpec`: the runtime runs ready tasks, a connection attempt
  ends one way or the other, and a reply is finite: strong fairness on its end,
  because it may yield audio any number of times first. Speaking, closing and
  dropping a connection have none. `IdleSpec` adds that the transcription
  service drops a connection some time, as it does one that gets no audio.
* `Engine`: timers fire, React applies effects, a socket opens or closes. The
  permission prompt has none: a resident may leave it.
* `Uplink`: sockets open and `onopen` is called, and the bridge handles what has
  arrived. Closing has none.
* `Thread`: the gateway ends a turn's response, which `EveryRequestEnds` and
  `EveryTurnEnds` show of it. `ReminderFeed`: a timer that is set elapses.

## Where the code and its comments disagree

One such statement is a run that TLC must refute, because what it loses cannot be
had again:

* `RemindersAlwaysDelivered` - *a reminder the resident set is always delivered*
  (`ap-server/src/index.ts:213`). The row is set to fired before the delivery is
  queued; a throw or a restart between the two loses it.

The others are stated in the modules, each under the heading "a statement of the code
that the model refutes", with no run of their own. To see the counterexample, give
the definition to TLC as the one property of the run of its module.

* `TryAgainInAMoment` (`CircuitBreaker`) - *Please try again in a moment*
  (`core.ts:590`). A probe that fails with an error `is_transient` does not
  accept is not reported (`core.ts:286-288`): the flag stays up in the half-open
  state, and every later call is refused until the process restarts.
  `LetsCallsInAgain` says this is the only way.
* `NoStoredPairLost` (`Assistant`, run `AssistantOverlap` with a history of 4) - turns never *race
  append_history on the same session* (`handler.ts:56-58`). They are serialized per
  socket, and a session has several: chat requests, and a socket for every query of
  `ap-voice`. Two loads before two saves lose a pair. What remains true is `HistorySound`.
* `CloseEndsSession` (`VoiceSession`, with `IdleSpec`) - *close ends it*
  (`ap-voice/src/main.rs:206-207`). The session holds an audio sender of its own,
  so the transcription loop never sees its channel close; each connection that
  lasted ten seconds resets its attempts.
* `ReRegisterKeeps` (`OptIns`) - *so a re-register keeps current opt-ins*
  (`useNotifications.ts:143`). Opening the app registers as soon as the permission is
  there; when the stored opt-ins have not been read by then, the defaults, all on,
  overwrite the row. A resident who turned alerts off has them on again, and the
  toggles show it once the read arrives.
* `ManualStaysOpen` (`Engine`) - *A manual toggle (silence_timeout false) stays
  open until toggled off* (`useAssistantEngine.ts:347-348`). The error of a session
  that was stopped earlier stops the one that is on (`on_status`, line 401, does not
  look whose it is), and a countdown an earlier session left behind does too.
* `FailuresAreRolledBack` (`AlertFeed`) - *so the list reflects what the server
  actually stored* (`Portal.tsx:292-293`). When a dismissal fails and the restore
  of its undo fails as well, the roll-back of the undo (`Portal.tsx:323`) hides
  an alert that the server lists.
* `RestoreKeepsStatus` (`ReminderFeed`) - *restore() returns it to its prior status
  rather than guessing* (`useReminders.ts:99-100`). The re-created row is upcoming,
  and a reminder that had gone off goes off again.
* `TornDownWithHost` (`Lifecycle`) - *torn down when the host shuts down*
  (`supervisor.ts:2-3`). The sidecars are spawned before the key is imported and
  before the signals are listened for: a start that fails, or a signal that comes
  first, leaves them running.
* `SingleProbe` (`CircuitBreaker`; `core.ts:142`): a call let in while the breaker was
  closed fails while the probe is out; `on_failure` clears the probe flag whoever failed
  (`core.ts:162`), and after the next window a second probe goes out beside the first.
* `RequestsAlternate` (`Assistant`; `core.ts:594-595`, *a lone user message would
  break role alternation*): a grounded follow-up itself sends two consecutive user
  messages, and one more per hop (`core.ts:421`). `FirstRequestAlternates` says the
  first call of a turn never does.
* `HistoryMatchesShown` (`Assistant`): text streamed before a confirmation question is
  shown and not stored (`core.ts:290-291` and `330`).
* `QueuedIsDelivered` (`Reminders`): a drained delivery whose answer is lost is gone
  (`postgres.ts:619`).
* `EveryDueFires` (`Reminders`; `ap-reminders/src/service.ts:58`): `scheduled_at` is text
  that nothing on its way looks at (`gateway.ts:321`, `tool_ports.ts:88-95`), and `list_due`
  casts it to a time (`postgres.ts:554`). One reminder with a text that is none makes
  `list_due` of its city throw on every evaluation, and the cities behind it in the
  loop wait too, until the resident deletes it. The resident cannot see it in the app: the list
  casts as well (`postgres.ts:528`), and fails.
* `SameOutages` (`Stores`; `memory.ts:2`, *same module store ports*): an outage without
  a date (`fetch.ts:191`) stays in the map, while its INSERT throws and takes those after
  it along; and the map compares dates as text when it prunes (`memory.ts:182`), so one in local
  time goes as many hours early as its offset.
* `UnlinkLeavesNothing` (`Accounts`; *must not keep serving bills or usage*,
  `ap-utility/src/service.ts:204`): a push that was checked before the unlink (line 75)
  stores after it, and a deletion that throws leaves the data without the link.
* `ScrapesFresh` (`Accounts`; *so relinking the site later today scrapes fresh
  instead of being skipped*, `useAccounts.ts:273`): an unlink whose answer is lost never
  comes to take the mark away; nor does one on another device, for this one; and a sync, or
  another unlink, that read the marks before this one wrote them writes the site's back.
* `SessionsLeaveNothing` (`Thread`; *a pending empty bubble is dropped, since the session
  ended*, `useAssistantEngine.ts:282-284`): a transcript that was on its way when the
  session stopped seeds another bubble, which looks worked on until the next session stops.
* `TakenBackIsBack` (`ReminderFeed`; *so the undo persists*, `useReminders.ts:230`): the
  undo looks the entry up in the list (lines 234-237). After a refetch has dropped it, the
  undo does nothing and the reminder is lost, with the undo still offered.
* `BillsAreOfTheSecureArea` (`ScrapeScript`; *the extraction reads the secure-area flash
  message*, `herokuapp.js:15`): rejected credentials lead back to the login page, whose
  message has the same id, and is pushed as a bill.

Properties that hold only with an exception name it, and say that it is the only one:

| property | exception |
|---|---|
| `ToldOnce` of `Outages` | two checks of one resident at once; outages older than the retention |
| `ToldOnce` of `CivicFetch` | two passes that find an entry new at the same time |
| `StoredIsTold`, `CivicSound` | `lost`: what a check or pass that failed had stored |
| `CatchesUp` | an outage without a date, whose INSERT throws and keeps every resident after it from being checked (`service.ts:150-161`) |
| `StoresAgree` | bills and usage, of which `memory.ts` keeps the whole last push and `postgres.ts` the last bill; `apart`: residents who had an outage without a date, or in local time |
| `DueFires` | `OutOfReach`: a reminder set for no time stands before it |
| `UnlinkedHoldsNothing` of `AccountsAgree` | `leftover`: a deletion that failed, a push checked before the unlink and stored after it |
| `MarkMeansData` of `AccountsAgree` | `outlived`: data that went on another device, with an unlink whose answer was lost, or under a push that had stored it and was to mark it; a mark another call wrote back. No other way of overlapping is excused, nor a failed deletion |
| `WorkedOnIsOwned` | `late`: bubbles of transcripts that came after the stop, until the next session |
| `CanSendAgain` | a connection cut unnoticed: there is no timeout (`chat-client.ts:39`) |
| `UndoPersists` | a request that failed; a dismissal of an entry the list was behind with; `dropped`: taken back after a refetch had dropped the entry |
| `FeedAgrees` | a restore that failed, requests the server took in another order, a last read that failed |
| `StepsInOrder` | a page that takes longer than the three seconds a click is given (`herokuapp.js:220`); a login that was refused |

`OptIns` shows one more in its actions: with the permission denied,
the comment *Portal toggles stay inert* (`useNotifications.ts:211`) does not hold,
since `set_preferences` registers whatever the permission.

## Proofs

Every invariant and every action property that a run checks is a theorem, and so are
the two refinements. The theorems hold for every value of the constants that
satisfies the named assumptions, which TLC evaluates in the runs. These are of
three kinds: the limits are positive, or natural numbers (`MaxHistory`, `Threshold`,
the windows of the detector); a value that stands for nothing is not in the set it is
added to, and a set of those who opted in is a subset of the residents; and what one
answer or one push may hold is finite (the alerts, the ids of a push, the times of
reminders). None limits the number of turns, sessions, residents, tools, retries,
checks, passes or overlaps.

Seldom is a property inductive as it stands. What each proof adds:

**`Backend_proofs`** - *Breaker* (`TypeCorrect`, `FieldsAlwaysAgree`,
`ProbesUseUpWindows`): `FieldsAgree` is inductive with `TypeOK`; that a probe uses up its
window follows from it, because `allow` is false once the probe flag is up.
*Requests* (`AnswersAlwaysAgree`): of each stage what is known of the request by
then: nothing done and no trouble before the token was looked at, a resident's
token after it, a tool there is while one is called. *Stores*
(`StoresAlwaysAgree`): the property is inductive once a table that holds no outages
has nobody `apart`, and the work is in the calls: for each table the rows an upsert replaces in postgres, by the table's key,
are those the map overwrites, and what a prune deletes is what the map drops, of
an outage if its text orders as its time does. For
bills, postgres keeps the last of a push, which exists because a push has finitely
many ids: the lemma `LastPlace` takes it by the well-foundedness of finite subsets.
*Process*
(`SidecarsNeverLeftUp`): a sidecar that has been asked to go is awaited until it has
gone or was killed: the safety that `ExitsClean` relies on.

**`Assistant_proofs`** - begins with facts on sequences: `AppendedSound` (trimming and
dropping keep pairs, the limit included) and `AppendedOnce` (no message twice if
the turn is new). Roles alternate by the parity of the position; trimming takes a
suffix; what is dropped in front is at most one message, because two neighbours are
never both answers. The invariant `Inv` has these parts:

* types, and `CB!TypeOK` with the history sound in the store *and in every
  `loaded`*: a save writes `appended(loaded, t)`, and what was loaded may be
  stale, so soundness of the store alone is not inductive;
* what each phase says of a turn's locals (a turn that executes has a tool; a
  streaming one was admitted by the breaker, `call[t] # "idle"`);
* the queue: a running turn is at the head of its channel's queue, a queue
  holds a turn at most once, and only turns that are queued or running.

From it: `TypesKept`, `HistoryAlwaysSound`, `SocketsSerialize`
(`OneTurnPerSocket`), `ConfirmationsRunOnce`, and `BreakerImplemented`: every step
is a step of `CircuitBreaker` or leaves its variables alone. `NothingStoredTwice`
adds that a turn which has not yet saved is in no history and in no `loaded` of
its session. `LogImplemented` is the refinement of `ConversationLog` under the
assumption that a session has one socket: the turn that saves is then the only
one running, so `loaded` is the current history and the save is `Record`.
`ExchangesAlwaysSound` adds what each phase says of a turn's text (`Exchange`): while it
is under way it has shown at most one piece of each stream so far and none of a
later one (`Streamed`); what it gives to `append_history` is what it has shown, or
the question or refusal it ends with (`Kept`).

**`Reminders_proofs`** - `TypesKept`; `NeverEarly`, with the strengthening that
what an evaluation lists or is firing is past (its `now` was past when it began);
`RowsNeverReturn`; `DeliveriesNotCopied`; and `QueuedOncePerEvaluation`, whose
invariant counts: what was sent of a reminder and the evaluations that
still hold it are together at most the evaluations there are, and nobody who has
finished with a row can list it again, since it is no longer upcoming.

**`Outages_proofs`** - `StoredAlwaysTold`. What a check still has to tell changes
its place twice, from `fresh` less `left` while it stores to `left` while it
tells; the invariant adds that `left` is part of `fresh` while it stores, and that
a check at work has a resident there is. Lemma `Preserved` says once what a step of one
check must show, and that it takes nothing from what the others have to tell.
`NobodyToldTwice` is an action property: at the step that tells, the status must be
one not yet told. `OnceInv` gives it, for residents no two checks have worked on at once
(`Alone`) and until the first retention window passes: nothing stored or held is
newer than the source (`NoNewer`); what was told is stored, or something later of the
same outage (`Known`); and what a check is about to store is later than what is
stored, what it is about to tell is stored and not told (`UpToDate`).

**`Civic_proofs`** - `CivicAlwaysSound` and `ToldOnceEach`, from two invariants that
never meet, as the parts of `Civic` do. `FetchInv` says what a pass holds by how far
it has come (`PassOK`): what it has to tell and has inserted is stored, not past
retention, and told to those it has gone through (`AtWork`); of what it alone has
to tell nobody else is told (`TellsNew`, `Alone`); what is stored is told, lost with a
pass that failed, or still to be told by the pass that stored it (`StoredThenTold`). A
fetch has a last page because pages are finite. `RecordsInv` says that a job with
an answer has nothing the city has not said.

**`Portal_proofs`** - *Accounts* (`AccountsAlwaysAgree`, `LinksStayListed`). A mark
is `Good` if it stands for data, is about to be taken away, or is `outlived`; so must be
each mark in the copies that an unlink or a sync has read and is yet to write, and the
site of a push that has stored and is yet to mark it has data or is `outlived`
(`MarksOK`). A push that was let through has its site linked, or its unlink has passed it
by (`CheckedIsLinked`). For the list: what stays registered
is linked, is not being unlinked, and is on every answer that is on its way
(`ListOK`). *Opt-ins*
(`OptInsTypesKept`, `OptInsNotInvented`): that the row holds only what was asked
for, or the default, must hold of everything that may become the row: the body of
the live call, those of the abandoned ones, the reference the next registration
sends, and what was read or persisted.

**`VoiceSession_proofs`** - `TurnsAlwaysInOrder`, `AudioAlwaysYields`,
`NextReplyAlwaysPlays`. The turns not taken yet are the last ones queued, in order, and all before the last
one taken are over (`TurnsQueued`); the frames sent are of turns taken, in their
order, audio after its turn's start (`FramesOrdered`). That at most one unit follows
a barge-in, and at most one of filler a turn's own audio, holds of the frames
from that moment on, and none is there yet while one is being sent (`AudioBounded`).
While the phone suppresses, it has read the start of no turn queued after the last
barge-in (`SuppressedOnly`).

**`Phone_proofs`** - all are theorems of `PhoneSpec`: a step of the app is a step of
the part or leaves its variables alone.

* `MicAlwaysOwned`: `MicIsOwned` is inductive once a promise that is kept implies that
  capture is asked for.
* `WorkedOnAlwaysOwned`: the open stream writes to a bubble of its own, which needs
  that a bubble of a voice session has never failed, since only failed turns are
  retried, and that ids up to the counter are all there are. A bubble that is worked on
  and not `late` is one of the session under way, because the stop clears both of its.
* `WakeWordAlwaysHeard`: the frames are in order and the embeddings of full windows, each
  a step on from the one before, the last of the window just left (`BuffersSound`); while
  no inference has failed no frame is missing (`Unbroken`) and no buffer holds more
  than its cap and what this step added (`HoldsAtMost`).
* `FeedAlwaysAgrees`: with no request under way what was read is what is stored; handled
  in their order, the requests of a hidden alert leave it dismissed (`StaysDismissed`),
  whether it is critical or not.
* `UndoAlwaysPersists`: a reminder the resident keeps is carried by exactly one row or
  one unsaved re-creation (`Carried`), and an id is known for one reminder (`KnownOnce`).
  One that is `dropped` is carried by none, so it stays lost (`Holds`); what the undo is
  offered for is the `batch`, whether or not the list still has it.
* `StepsAlwaysInOrder`: what ran is the steps behind the pointer, and the page, or the one
  on its way, is one of those they may lead to (`PagesAfter`), as long as no click was
  outrun. Behind the last step that is its page or a refused login.
* `FramesAlwaysInOrder`, the safety part of `FramesAreHeard`: the bridge has taken so many
  frames, its queue or the wire goes on from there up to the microphone, nothing
  leaves the phone before the handshake, nor reaches `ap-voice` before the
  token is verified.

What the proofs found, each now in the model:

* an undone reminder that was shown twice is `Outdated` in a third way, which
  `ReminderFeed` had left out of what it excepts;
* two unlinks at once overwrite each other's record of scrapes
  (`useAccounts.ts:273-279`), as an unlink and a sync do: a site unlinked and
  relinked that day passes for scraped. `MarkMeansData` excepted only the latter, and
  names each cause now;
* `ToldOnce` of `Outages` needs that an outage is reported for one area. The source
  names each by its area, so `SourceChanges` says so; one area in TLC's run had hidden it;
* the maps of `memory.ts` agree with the tables on the last bill only because a push
  is finite, which `Stores` assumes of its ids.

Theorems of properties that no run checks by name: `ProbesUseUpWindows`,
`NeverEarly`, `RowsNeverReturn`, `SocketsSerialize`, `NothingStoredTwice`,
`SidecarsNeverLeftUp`, those of types, and `FramesAlwaysInOrder`, which is part of a property.

Only model-checked: liveness, which needs fairness and ENABLED, beyond this prover
(`LetsCallsInAgain`, `EveryRequestEnds`, `ExitsClean`, `EveryTurnEnds`, `DueFires`,
`DueIsFired`, `SessionProgresses`, `WakeSessionEnds`, `FramesAreHeard`, `CanSendAgain`,
`Settles`, and `CatchesUp`, `AccountsCatchUp` and `CivicCatchesUp`).

## Abstractions

* *Text.* What a model stream yields is one piece, named for the stream's place in
  its turn; prompts, arguments, reminder and source chunks carry no state the
  properties tell apart. A voice reply is its audio units, so a reply cut off when
  the assistant's socket closes early (`service.rs:405`) looks complete.
* *Time.* The breaker's window, a reminder's instant, the ten seconds of a
  transcription connection, countdowns and timeouts are each a flag or an action
  that may happen. `Outages` counts retention windows, `ReminderFeed` ticks,
  `Accounts` days.
* *Classification.* Whether a message is an affirmative, filler or an FAQ is left
  open: `ConfirmTool`, `SuppressFiller`, `AnswerFaq` and the model turn are
  alternatives, which includes every classifier.
* *The handler* looks at `closed` before it awaits the token's verification; the
  model merges that wait with the first step of the turn. A chat client that
  disconnects does not stop its turn, so chat has no `Close`.
* *Tools.* Every seed tool is ungated today; `Gated` is a parameter, because the
  gate is code. Likewise `Register` and `Deregister` are the registry's interface,
  which nothing calls after start; `Volatile` says for which names they happen, and
  `AssistantSocket` has none.
* *Store.* Redis is modelled as in production: two round trips, each of which may
  fail with or without effect. In the services' modules a table is a set, and a
  statement that fails may or may not have had its effect where the code could not tell.
  `Stores` alone compares adapters; there calls come one at a time.
* *Requests.* Requests share the stores and nothing else, so a behaviour is one
  request. What a service does is one act on a store, a turn its tools; what
  it does in detail is in the service's own module. `token` is a resident, absent or
  not verifiable; the tenant comes from the same claims.
* *Lifecycle.* A sidecar is one process; passes of one job that overlap count as one,
  since they hold connections the same way.
* *Reminders.* Each id is set once. Listing by city follows the schemas this
  process has bootstrapped (`postgres.ts:563`), which is why `DueFires` needs a
  phone of the city that polls. A `scheduled_at` is a time, or text that is none. In
  `ReminderFeed` the times are readable: of a resident with one that is not, no list arrives.
* *Outages.* An address is the ZIP the source is asked for, or names none; a status is
  the number of times the source changed it.
* *Accounts.* Of a site's bills, whether there are any; of the record of scrapes, whether
  its date is today's. A scrape is one step here and has a module of its own.
  One device is modelled; what the resident does on another shows in
  what is linked and stored when the app is started (`Init`). Restarting a fetch on invalidation and `isFetchedAfterMount` are the query client's,
  modelled from how the app uses them.
* *Civic.* An entry is its `entry_id`, and a page what entries it lists; a record is the
  number of times the city changed it, or blank, when an error page was parsed.
* *Opt-ins.* The store keeps one row per resident and nothing relates two, so one
  resident and one phone are modelled. Preferences are the set of types that are on.
  A read answers with the row as it was at some time since the app was opened; the
  persisted read is the latest that arrived, or none once it has expired. Failed
  reads change nothing.
* *Voice.* `JoinHandle::abort` takes effect at the next await only. Sending the
  final transcript and queueing the turn is one step; nothing else reads what is
  between. `enable_barge_in = false` turns the server's signal off while the
  phone still flushes its playback; the runs have it on. A barge-in frame that comes
  before the bridge has opened its upstream is queued like any other; `Uplink` numbers the audio frames only.
* *The app.* A socket still delivers what had arrived when it is closed. Of a frame,
  what it does to the timers (`Engine`), its number (`Uplink`, `WakeWord`) or its
  bubble (`Thread`). An effect runs some time after the state that asks for it. Of a
  detector whose inference failed, `WakeWordHeard` says only that what follows is full
  windows in order: any gap is allowed from then on.
* *Bounds* named `Max...` in `VoiceSession`, `OptIns`, `Outages`, `Accounts`,
  `CivicFetch`, `CivicRecords`, `Requests` and the parts of `Phone` stand in the guards and
  have no counterpart in the code, except `MaxRetries` of `ScrapeScript`. All others are
  the code's own limits, or the sizes of sets.

## Not modelled

* `run_bill_due_evaluation` of `ap-utility` keeps no state: it tells the same bills
  on each run of a day, which is what it is written to do. In `Lifecycle` it is a pass.
* `useReminders.add()` has no caller in the app; the assistant's tool sets reminders.
* The engine's unmount ends with the app. The deep link of a tapped notification only
  chooses a panel.
* The concurrent bootstrap of a city's schema (`ensure_schema`) is idempotent DDL.
* `session.ts`, `session-context.tsx` and the device settings read a value once.
* Screens, themes, fonts, navigation and icons render what the modelled hooks hold
  (about a third of the lines of the app).
* Page parsers, `crawl-service` and the providers' wire formats are text handling and
  I/O; their failures are actions of the modules that call them.
* `config.ts` reads the environment once. Latency statistics and sentence splitting
  are left out of the voice model.
* An utterance's text that stays in the buffer when a connection drops
  (`service.rs:513`) joins the next one: text, so not in this model.

## Plan

Done: all services and the app's protocols. What would add most next:

1. **Proofs** - what makes the liveness properties true and is itself safety: in
   `Accounts`, that nothing under way waits for what is not under way; in
   `VoiceSession`, that a worker that waits has a queue that is empty.
2. **Composition** - `Engine` with `VoiceSession`, for the phone's and the server's
   idea of a session; `Requests` with `Reminders`, for a tool that sets a reminder
   while the evaluation runs.
3. **Refinement** - `Outages` and `CivicFetch` tell each item at most once unless they
   overlap: one abstract specification for both.
