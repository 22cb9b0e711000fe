------------------------------ MODULE Lifecycle ------------------------------
(***************************************************************************)
(* The life of the ap-server process: main brings up the sidecars, wires   *)
(* the modules and starts the scheduler; a signal takes all of it down.    *)
(* What it starts goes on by itself meanwhile: sidecars are processes that *)
(* exit when they like, and passes of the scheduler hold a connection of   *)
(* the pool while they wait for postgres.                                  *)
(*                                                                         *)
(* A sidecar is its one process: the shell it is spawned through becomes   *)
(* it.  Passes of one job that overlap count as one; requests hold         *)
(* connections the same way.                                               *)
(***************************************************************************)
EXTENDS Naturals

CONSTANTS Sidecars,  \* redis and ap-voice
          Jobs       \* jobs of the scheduler

VARIABLES host,      \* what main, and then shutdown, has come to
          child,     \* what each sidecar's process does
          waiting,   \* sidecars stop_all awaits
          timers,    \* whether the scheduler's are set
          work,      \* what each job's pass does
          pool       \* the pool of connections; none without a database

host_vars == <<host, child, waiting, timers, work, pool>>

Gone == {"unspawned", "exited"}
HostIsGone == host \in {"stopped", "crashed"}

LifecycleInit ==
  /\ host = "loading" /\ child = [s \in Sidecars |-> "unspawned"] /\ waiting = {}
  /\ timers = FALSE /\ work = [j \in Jobs |-> "idle"] /\ pool \in {"open", "none"}

-----------------------------------------------------------------------------
(* main *)

\* The sidecars come first, unless the configuration leaves them to others; a
\* command that is not there is an exit.
start_all ==
  /\ host = "loading" /\ host' = "wiring"
  /\ \/ child' \in [Sidecars -> {"up", "exited"}]
     \/ UNCHANGED child
  /\ UNCHANGED <<waiting, timers, work, pool>>

\* The key is imported; then every module is wired, every job run once, the port
\* listened at and, last of all, the signals.
Wired ==
  /\ host = "wiring" /\ host' = "up"
  /\ timers' = TRUE /\ work' = [j \in Jobs |-> "running"]
  /\ UNCHANGED <<child, waiting, pool>>

\* The configuration or the key is no good, the port is taken, a signal comes
\* before it is listened for, the process is killed: no sidecar is stopped.
Crash ==
  /\ ~HostIsGone /\ host' = "crashed"
  /\ timers' = FALSE /\ work' = [j \in Jobs |-> "idle"]
  /\ UNCHANGED <<child, waiting, pool>>

-----------------------------------------------------------------------------
(* scheduler.ts, and the pool its passes use *)

Pass(j, to) == work' = [work EXCEPT ![j] = to]
               /\ UNCHANGED <<host, child, waiting, timers, pool>>

tick(j) == timers /\ work[j] = "idle" /\ Pass(j, "running")

\* A call of a store waits for a connection, of a pool that still gives any; else
\* it throws, and the pass with it.  Without a database it just answers.
StoreCalled(j) ==
  /\ work[j] = "running"
  /\ \/ pool = "open" /\ Pass(j, "querying")
     \/ pool = "ending" /\ Pass(j, "idle")
Answered(j) == work[j] = "querying" /\ Pass(j, "running")
PassOver(j) == work[j] = "running" /\ Pass(j, "idle")

-----------------------------------------------------------------------------
(* supervisor.ts *)

\* stop_all's promise of a sidecar: resolved when it exits, or by the timer.
Exits(s) ==
  /\ child[s] \in {"up", "asked", "killed"}
  /\ child' = [child EXCEPT ![s] = "exited"] /\ waiting' = waiting \ {s}
  /\ UNCHANGED <<host, timers, work, pool>>

Kills_not(s) == UNCHANGED child
Kills(s) == child' = [child EXCEPT ![s] = "killed"]
FiveSeconds(s) ==
  /\ host = "stopping" /\ s \in waiting /\ Kills(s) /\ waiting' = waiting \ {s}
  /\ UNCHANGED <<host, timers, work, pool>>

Live == {s \in Sidecars : child[s] = "up"}
stop_all ==
  /\ waiting' = Live
  /\ child' = [s \in Sidecars |-> IF s \in Live THEN "asked" ELSE child[s]]

-----------------------------------------------------------------------------
(* shutdown: once, whatever signals follow; a sidecar the terminal interrupts   *)
(* too exits as any other does                                                 *)

shutdown ==
  /\ host = "up" /\ host' = "stopping"
  /\ timers' = FALSE /\ stop_all /\ UNCHANGED <<work, pool>>

end ==
  /\ host = "stopping" /\ waiting = {}
  /\ \/ pool = "open" /\ host' = "ending" /\ pool' = "ending" /\ UNCHANGED work
     \/ pool = "none" /\ host' = "stopped" /\ UNCHANGED pool /\ work' = [j \in Jobs |-> "idle"]
  /\ UNCHANGED <<child, waiting, timers>>

\* pool.end resolves when the last connection that is out has been given back.
PoolEnds ==
  /\ host = "ending" /\ \A j \in Jobs : work[j] # "querying"
  /\ host' = "stopped" /\ pool' = "ended" /\ work' = [j \in Jobs |-> "idle"]
  /\ UNCHANGED <<child, waiting, timers>>

-----------------------------------------------------------------------------

LifecycleNext ==
  \/ start_all \/ Wired \/ Crash \/ shutdown \/ end \/ PoolEnds
  \/ \E s \in Sidecars : Exits(s) \/ FiveSeconds(s)
  \/ \E j \in Jobs : tick(j) \/ StoreCalled(j) \/ Answered(j) \/ PassOver(j)

\* Timers elapse, postgres answers, a process that is killed is gone.
LifecycleFairness ==
  /\ WF_host_vars(end) /\ WF_host_vars(PoolEnds)
  /\ \A s \in Sidecars : WF_host_vars(FiveSeconds(s)) /\ WF_host_vars(child[s] = "killed" /\ Exits(s))
  /\ \A j \in Jobs : WF_host_vars(Answered(j))

\* stop_all waits for every sidecar, and what its timer finds alive it kills
\* (supervisor.ts:62-65): the pool is ended, and the process exits, after that, so
\* none that the signal found alive outlives them unkilled.
NoneLeftUp ==
  host \in {"ending", "stopped"} => \A s \in Sidecars : child[s] \in Gone \cup {"killed"}

\* "One signal takes it all down" (supervisor.ts:4), whatever the sidecars make
\* of it and whatever pass is under way: from a shutdown on, unless the process
\* dies of something else, it comes to stand still with no sidecar left.
ExitsClean ==
  host = "stopping" ~>
    (host = "crashed" \/ [](host = "stopped" /\ \A s \in Sidecars : child[s] \in Gone))

-----------------------------------------------------------------------------
(* A statement of the code that the model refutes. *)

\* supervisor.ts:2-3, the sidecars are torn down when the host shuts down: not by
\* a start that fails after they were spawned, nor by a signal before main's end.
TornDownWithHost == HostIsGone ~> \A s \in Sidecars : child[s] \in Gone
=============================================================================
