----------------------------- MODULE ScrapeScript -----------------------------
(***************************************************************************)
(* One scrape of a site in the phone's hidden WebView: the site script     *)
(* (ap-utility/scrape_scripts), which the runner (scrape-runner.tsx)       *)
(* injects into every page that loads, and which keeps the number of its   *)
(* next step in window.name.  A navigation destroys the script that runs   *)
(* in the page at any moment.                                              *)
(*                                                                         *)
(* Data abstraction: of a page, its name; an element is found on the       *)
(* pages that have it.  The steps are those of the two scripts there are.  *)
(* Rejected credentials lead to "refused", the login page with a message.  *)
(***************************************************************************)
EXTENDS Naturals, Sequences

CONSTANTS MaxRetries   \* bound: attempts to extract

ASSUME ScriptAssumption == MaxRetries \in Nat \ {0}

\* Where a step's element is, and where the step leads.
Goto(to) == [type |-> "goto", on |-> {}, to |-> to]
Click(on, to) == [type |-> "click", on |-> on, to |-> to]
Fill(on) == [type |-> "fill", on |-> {on}, to |-> on]
WaitFor(on) == [type |-> "wait_for", on |-> {on}, to |-> on]

herokuapp == <<Goto("home"), Click({"home"}, "keys"), Fill("keys"), Goto("login"),
               WaitFor("login"), Fill("login"), Fill("login"), Click({"login"}, "secure")>>

\* "Next" is on the first two pages and leads from each to the one after it.
toscrape_js == <<Goto("page1"), Click({"page1", "page2"}, "next"),
                 Click({"page1", "page2"}, "next")>>

Scripts == {herokuapp, toscrape_js}

FirstPage(steps) == IF steps = herokuapp THEN "home" ELSE "page1"
LastPage(steps) == IF steps = herokuapp THEN "secure" ELSE "page3"

\* What EXTRACTION finds: a flash message, of a login whatever came of it, and a
\* quote on every page.
HasBills(p) == p \in {"secure", "refused", "page1", "page2", "page3"}

\* Where a click on page p may lead: "secure" is for the right credentials only.
Leads(p, to) ==
  CASE to = "next" -> {IF p = "page1" THEN "page2" ELSE "page3"}
    [] to = "secure" -> {"secure", "refused"}
    [] OTHER -> {to}

VARIABLES
  NAV_STEPS,    \* the script's
  page,         \* that the WebView shows
  next_page,    \* that it is on its way to, or "none"
  window_name,  \* the number of steps behind
  script,       \* "loading", "stepping", "settling", "waiting", "extracting" or "posted"
  attempts,     \* left to extract
  job,          \* "queued", "running", "bills", "empty", "failed" or "timed_out"
  ran,          \* history: the steps since the script last started from its first
  outran        \* history: it went on before the page of a click had come

scrape_vars == <<NAV_STEPS, page, next_page, window_name, script, attempts, job, ran, outran>>

ScrapeInit ==
  /\ NAV_STEPS \in Scripts /\ page = FirstPage(NAV_STEPS) /\ next_page = "none"
  /\ window_name = 0 /\ script = "loading" /\ attempts = 0
  /\ job = "queued" /\ ran = <<>> /\ outran = FALSE

-----------------------------------------------------------------------------
(* The runner *)

RunJob ==
  /\ job = "queued" /\ job' = "running"
  /\ UNCHANGED <<NAV_STEPS, page, next_page, window_name, script, attempts, ran, outran>>

\* A result; the WebView is gone with it.
Posted(result) == job' = result /\ script' = "posted"

\* scrape_timeout_ms, or a page that does not load.
JobIsGivenUp ==
  /\ job = "running" /\ \E result \in {"timed_out", "failed"} : Posted(result)
  /\ UNCHANGED <<NAV_STEPS, page, next_page, window_name, attempts, ran, outran>>

Navigates ==
  /\ job = "running" /\ next_page # "none"
  /\ page' = next_page /\ next_page' = "none" /\ script' = "loading"
  /\ UNCHANGED <<NAV_STEPS, window_name, attempts, job, ran, outran>>

-----------------------------------------------------------------------------
(* The script *)

\* The pointer is reset before anything is extracted.
Extracting ==
  /\ script' = "extracting" /\ window_name' = 0 /\ attempts' = MaxRetries

\* run_scrape, in each page that loads.
Injected ==
  /\ job = "running" /\ script = "loading"
  /\ \/ window_name >= Len(NAV_STEPS) /\ Extracting /\ UNCHANGED ran
     \/ /\ window_name < Len(NAV_STEPS) /\ script' = "stepping"
        /\ ran' = IF window_name = 0 THEN <<>> ELSE ran
        /\ UNCHANGED <<window_name, attempts>>
  /\ UNCHANGED <<NAV_STEPS, page, next_page, job, outran>>

\* Faulty variant for mutation: the pointer is advanced when a click has settled.
AfterClick_late == window_name

\* Before the click: it may navigate at once.
AfterClick == window_name + 1

\* run_step, whose element is on the page; a goto or a click leads away.
Step ==
  LET step == NAV_STEPS[window_name + 1]
  IN  /\ job = "running" /\ script = "stepping" /\ window_name < Len(NAV_STEPS)
      /\ step.type # "goto" => page \in step.on
      /\ ran' = Append(ran, window_name + 1)
      /\ \/ step.type = "goto" /\ script' = "waiting"
            /\ next_page' = step.to /\ window_name' = window_name + 1
         \/ step.type = "click" /\ script' = "settling"
            /\ next_page' \in Leads(page, step.to) /\ window_name' = AfterClick
         \/ step.type \in {"fill", "wait_for"} /\ window_name' = window_name + 1
            /\ UNCHANGED <<script, next_page>>
      /\ UNCHANGED <<NAV_STEPS, page, attempts, job, outran>>

\* wait_el finds nothing in time.
StepFails ==
  /\ job = "running" /\ script = "stepping" /\ window_name < Len(NAV_STEPS)
  /\ NAV_STEPS[window_name + 1].type # "goto" /\ page \notin NAV_STEPS[window_name + 1].on
  /\ Posted("failed")
  /\ UNCHANGED <<NAV_STEPS, page, next_page, window_name, attempts, ran, outran>>

\* Three seconds after a click the script goes on in the page it is in, behind the click.
Settled ==
  /\ job = "running" /\ script = "settling" /\ script' = "stepping"
  /\ window_name' = ran[Len(ran)] /\ outran' = (outran \/ next_page # "none")
  /\ UNCHANGED <<NAV_STEPS, page, next_page, attempts, job, ran>>

\* The last step did not navigate in time.
StepsAreOver ==
  /\ job = "running" /\ script = "stepping" /\ window_name >= Len(NAV_STEPS)
  /\ Extracting
  /\ UNCHANGED <<NAV_STEPS, page, next_page, job, ran, outran>>

\* The page may not have rendered what is looked for, and is looked at again.
Extract ==
  /\ job = "running" /\ script = "extracting"
  /\ \/ HasBills(page) /\ Posted("bills") /\ UNCHANGED attempts
     \/ attempts > 0 /\ attempts' = attempts - 1 /\ UNCHANGED <<script, job>>
     \/ attempts = 0 /\ Posted("empty") /\ UNCHANGED attempts
  /\ UNCHANGED <<NAV_STEPS, page, next_page, window_name, ran, outran>>

-----------------------------------------------------------------------------
ScrapeNext ==
  \/ RunJob \/ JobIsGivenUp \/ Navigates
  \/ Injected \/ Step \/ StepFails \/ Settled \/ StepsAreOver \/ Extract

-----------------------------------------------------------------------------
ScrapeTypeOK ==
  /\ NAV_STEPS \in Scripts /\ window_name \in 0..Len(NAV_STEPS)
  /\ script \in {"loading", "stepping", "settling", "waiting", "extracting", "posted"}
  /\ attempts \in 0..MaxRetries
  /\ job \in {"queued", "running", "bills", "empty", "failed", "timed_out"}
  /\ ran \in Seq(1..Len(NAV_STEPS))

\* "The pointer must already point at the next step so re-injection resumes past
\* this click" (herokuapp.js:213-214): each step runs once and in its order, wherever
\* a navigation destroys the script, and what is extracted is extracted behind the
\* last step, from the page it leads to; unless the page of a click took longer than
\* the script waits for it.  The login's last step leads, with rejected credentials,
\* to a page that is no bill's, and is extracted from all the same.
StepsInOrder ==
  /\ ScrapeTypeOK
  /\ ~outran => \A i \in DOMAIN ran : ran[i] = i
  /\ ~outran /\ job = "bills" =>
       Len(ran) = Len(NAV_STEPS) /\ page \in {LastPage(NAV_STEPS), "refused"}

-----------------------------------------------------------------------------
(* A statement of the code that the model refutes. *)

\* "The extraction reads the secure-area flash message" (herokuapp.js:15): the
\* message of a login that was refused is reported as a bill too.
BillsAreOfTheSecureArea ==
  ~outran /\ job = "bills" => page = LastPage(NAV_STEPS)
=============================================================================
