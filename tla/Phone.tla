--------------------------------- MODULE Phone ---------------------------------
(***************************************************************************)
(* The resident's app: the parts that share neither state nor an await, so *)
(* that what they do together is what each does alone.  A behaviour is the *)
(* history of one of them; the others stay as the app finds them on        *)
(* opening.                                                                *)
(***************************************************************************)
EXTENDS Engine, WakeWord, Uplink, Thread, AlertFeed, ReminderFeed, ScrapeScript

VARIABLE part

app_vars == <<part, engine_vars, detector_vars, uplink_vars, thread_vars, alert_vars,
              reminder_vars, scrape_vars>>

Parts == {"engine", "detector", "uplink", "thread", "alerts", "reminders", "scrape"}

PhoneInit ==
  /\ part \in Parts
  /\ EngineInit /\ (part # "engine" => ~wake_enabled)
  /\ DetectorInit /\ UplinkInit /\ ThreadInit
  /\ AlertsInit /\ (part # "alerts" => dismissals = {})
  /\ RemindersInit
  /\ ScrapeInit /\ (part # "scrape" => NAV_STEPS = herokuapp)

PhoneNext ==
  /\ UNCHANGED part
  /\ \/ /\ part = "engine" /\ EngineNext
        /\ UNCHANGED <<detector_vars, uplink_vars, thread_vars, alert_vars, reminder_vars, scrape_vars>>
     \/ /\ part = "detector" /\ DetectorNext
        /\ UNCHANGED <<engine_vars, uplink_vars, thread_vars, alert_vars, reminder_vars, scrape_vars>>
     \/ /\ part = "uplink" /\ UplinkNext
        /\ UNCHANGED <<engine_vars, detector_vars, thread_vars, alert_vars, reminder_vars, scrape_vars>>
     \/ /\ part = "thread" /\ ThreadNext
        /\ UNCHANGED <<engine_vars, detector_vars, uplink_vars, alert_vars, reminder_vars, scrape_vars>>
     \/ /\ part = "alerts" /\ AlertsNext
        /\ UNCHANGED <<engine_vars, detector_vars, uplink_vars, thread_vars, reminder_vars, scrape_vars>>
     \/ /\ part = "reminders" /\ RemindersNext
        /\ UNCHANGED <<engine_vars, detector_vars, uplink_vars, thread_vars, alert_vars, scrape_vars>>
     \/ /\ part = "scrape" /\ ScrapeNext
        /\ UNCHANGED <<engine_vars, detector_vars, uplink_vars, thread_vars, alert_vars, reminder_vars>>

PhoneSpec ==
  /\ PhoneInit /\ [][PhoneNext]_app_vars
  /\ EngineFairness /\ UplinkFairness /\ ThreadFairness /\ RemindersFairness
=============================================================================
