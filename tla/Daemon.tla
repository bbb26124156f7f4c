------------------------------- MODULE Daemon -------------------------------
(***************************************************************************)
(* Starting and stopping the routing daemon (src/src/service.rs run,       *)
(* src/src/lifecycle.rs stop_daemon, deactivate and the quiescing part of  *)
(* apply_deprovision).  Processes meet in three files of the runtime       *)
(* directory, daemon.lock (an flock), daemon.pid and stop.request, and in  *)
(* the configuration file, which everybody reads, edits and replaces.      *)
(***************************************************************************)
EXTENDS Naturals, FiniteSets

CONSTANTS
  Daemons,     \* processes that run `buzzr daemon`
  Stoppers,    \* processes that run `buzzr stop`, `deactivate` or `deprovision --apply`
  Kinds,       \* which of "stop", "deactivate", "deprovision" they run
  Ids,         \* agent identities a pass may have to provision
  None,
  MayTimeOut,  \* stop_daemon may run into its 30 seconds
  MaxStarts, MaxCrashes   \* bounds

ASSUME DaemonAssumption ==
  /\ Kinds \subseteq {"stop", "deactivate", "deprovision"}
  /\ MayTimeOut \in BOOLEAN /\ MaxStarts \in Nat /\ MaxCrashes \in Nat
  /\ Daemons \cap Stoppers = {} /\ None \notin Daemons \cup Stoppers

Configs == [on : BOOLEAN, ids : SUBSET Ids]
Fresh == [on |-> TRUE, ids |-> {}]  \* what was set up; also a text nobody has read

VARIABLES
  lockFile,   \* daemon.lock exists
  lock,       \* the process that holds its flock
  pid,        \* daemon.pid
  stopReq,    \* stop.request exists
  config,     \* config.toml: automatic writers enabled, identities
  \* a daemon: its place, whether SIGTERM came, the config of its pass, the text it
  \* is about to write back, and how often it was started
  dpc, term, loaded, dtext, starts,
  \* a stopper: its place, what it runs, the text it is about to write back, the run
  \* of the daemon it found holding the lock
  spc, kind, stext, found,
  crashes,
  overtaken   \* history: a daemon took the lock after a cleanup had stopped those before and
              \* before it disabled the writers again

files == <<lockFile, pid, stopReq>>
daemon == <<dpc, term, loaded, dtext, starts>>
stopper == <<spc, kind, stext, found>>
vars == <<files, lock, config, daemon, stopper, crashes, overtaken>>

DGoto(d, l) == dpc' = [dpc EXCEPT ![d] = l]
SGoto(s, l) == spc' = [spc EXCEPT ![s] = l]

\* Places of a daemon that it reaches with the lock held, and those inside a pass.
Inside == {"locked", "cleared", "loop", "pass", "append", "leaving", "left"}
Passing == {"pass", "append"}

----------------------------------------------------------------------------
(* The daemon.                                                             *)

\* cmd_daemon: a deactivated bridge is not started.
Launch(d) ==
  /\ dpc[d] = "off" /\ starts[d] < MaxStarts /\ config.on
  /\ starts' = [starts EXCEPT ![d] = @ + 1]
  /\ DGoto(d, "launched")
  /\ UNCHANGED <<files, lock, config, term, loaded, dtext, stopper, crashes, overtaken>>

Stopping == {"tidy", "tidier", "reapply", "reapplying"}

Overtakes == overtaken \/ \E s \in Stoppers : kind[s] = "deprovision" /\ spc[s] \in Stopping

AcquireAlways(d) ==  \* a mutant of Acquire: the lock is not looked at
  /\ dpc[d] = "launched"
  /\ lockFile' = TRUE /\ lock' = d /\ DGoto(d, "locked") /\ overtaken' = Overtakes
  /\ UNCHANGED <<pid, stopReq, config, term, loaded, dtext, starts, stopper, crashes>>

\* try_lock_exclusive, or "buzzr daemon is already running".
Acquire(d) ==
  /\ dpc[d] = "launched"
  /\ lockFile' = TRUE
  /\ \/ lock = None /\ lock' = d /\ DGoto(d, "locked") /\ overtaken' = Overtakes
     \/ lock # None /\ DGoto(d, "off") /\ UNCHANGED <<lock, overtaken>>
  /\ UNCHANGED <<pid, stopReq, config, term, loaded, dtext, starts, stopper, crashes>>

ClearStop(d) ==
  /\ dpc[d] = "locked"
  /\ stopReq' = FALSE /\ DGoto(d, "cleared")
  /\ UNCHANGED <<lockFile, pid, lock, config, term, loaded, dtext, starts, stopper,
                 crashes, overtaken>>

\* The pid is written, and signals are handled from here on.
WritePid(d) ==
  /\ dpc[d] = "cleared"
  /\ pid' = d /\ DGoto(d, "loop")
  /\ UNCHANGED <<lockFile, stopReq, lock, config, term, loaded, dtext, starts, stopper,
                 crashes, overtaken>>

\* run_loop: a pass reads the configuration first.
BeginPass(d) ==
  /\ dpc[d] = "loop" /\ ~term[d] /\ ~stopReq
  /\ loaded' = [loaded EXCEPT ![d] = config] /\ DGoto(d, "pass")
  /\ UNCHANGED <<files, lock, config, term, dtext, starts, stopper, crashes, overtaken>>

\* append_identities, in provisioning of an agent without identity: read ...
ReadConfig(d) ==
  /\ dpc[d] = "pass" /\ loaded[d].on /\ loaded[d].ids # Ids
  /\ dtext' = [dtext EXCEPT ![d] = config] /\ DGoto(d, "append")
  /\ UNCHANGED <<files, lock, config, term, loaded, starts, stopper, crashes, overtaken>>

\* ... and replace; the pass goes on with what the file then says.
WriteConfig(d) ==
  /\ dpc[d] = "append"
  /\ \E ids \in (SUBSET (Ids \ loaded[d].ids)) \ {{}} :
       config' = IF ids \subseteq dtext[d].ids THEN config
                 ELSE [on |-> dtext[d].on, ids |-> dtext[d].ids \cup ids]
  /\ loaded' = [loaded EXCEPT ![d] = config'] /\ dtext' = [dtext EXCEPT ![d] = Fresh]
  /\ DGoto(d, "pass")
  /\ UNCHANGED <<files, lock, term, starts, stopper, crashes, overtaken>>

EndPassClears(d) ==  \* a mutant of EndPass: a request that came meanwhile is removed
  /\ dpc[d] = "pass" /\ DGoto(d, "loop")
  /\ loaded' = [loaded EXCEPT ![d] = Fresh] /\ stopReq' = FALSE
  /\ UNCHANGED <<lockFile, pid, lock, config, term, dtext, starts, stopper, crashes, overtaken>>

EndPass(d) ==
  /\ dpc[d] = "pass" /\ DGoto(d, "loop")
  /\ loaded' = [loaded EXCEPT ![d] = Fresh]
  /\ UNCHANGED <<files, lock, config, term, dtext, starts, stopper, crashes, overtaken>>

Leave(d) ==
  /\ dpc[d] = "loop" /\ (term[d] \/ stopReq)
  /\ term' = [term EXCEPT ![d] = FALSE] /\ DGoto(d, "leaving")
  /\ UNCHANGED <<files, lock, config, loaded, dtext, starts, stopper, crashes, overtaken>>

RemovePid(d) ==
  /\ dpc[d] = "leaving"
  /\ pid' = None /\ DGoto(d, "left")
  /\ UNCHANGED <<lockFile, stopReq, lock, config, term, loaded, dtext, starts, stopper,
                 crashes, overtaken>>

\* stop.request is removed and then the lock released, by the end of the process.
RemoveStop(d) ==
  /\ dpc[d] = "left"
  /\ stopReq' = FALSE /\ DGoto(d, "unlock")
  /\ UNCHANGED <<lockFile, pid, lock, config, term, loaded, dtext, starts, stopper,
                 crashes, overtaken>>

Release(d) ==
  /\ dpc[d] = "unlock"
  /\ lock' = None /\ DGoto(d, "off")
  /\ UNCHANGED <<files, config, term, loaded, dtext, starts, stopper, crashes, overtaken>>

Signal(d) ==
  /\ dpc[d] \in {"loop"} \cup Passing /\ ~term[d]
  /\ term' = [term EXCEPT ![d] = TRUE]
  /\ UNCHANGED <<files, lock, config, dpc, loaded, dtext, starts, stopper, crashes, overtaken>>

\* What a process knows dies with it.
Forget(d) ==
  /\ term' = [term EXCEPT ![d] = FALSE]
  /\ loaded' = [loaded EXCEPT ![d] = Fresh] /\ dtext' = [dtext EXCEPT ![d] = Fresh]

\* The process is killed: the flock goes with it, the files stay.
Crash(d) ==
  /\ dpc[d] # "off" /\ crashes < MaxCrashes
  /\ crashes' = crashes + 1
  /\ lock' = IF lock = d THEN None ELSE lock
  /\ DGoto(d, "off") /\ Forget(d)
  /\ UNCHANGED <<files, config, starts, stopper, overtaken>>

----------------------------------------------------------------------------
(* `buzzr stop`, `buzzr deactivate`, `buzzr deprovision --apply`.          *)

Begin(s, k) ==
  /\ spc[s] = "off"
  /\ kind' = [kind EXCEPT ![s] = k]
  /\ SGoto(s, IF k = "stop" THEN "look" ELSE "disable")
  /\ UNCHANGED <<files, lock, config, daemon, stext, found, crashes, overtaken>>

\* update_bridge_settings: read, edit, replace; deprovision does it once more after
\* the daemon has stopped.
ReadSettings(s) ==
  /\ spc[s] \in {"disable", "reapply"}
  /\ stext' = [stext EXCEPT ![s] = config]
  /\ SGoto(s, IF spc[s] = "disable" THEN "disabling" ELSE "reapplying")
  /\ UNCHANGED <<files, lock, config, daemon, kind, found, crashes, overtaken>>

WriteSettings(s) ==
  /\ spc[s] \in {"disabling", "reapplying"}
  /\ config' = [on |-> FALSE, ids |-> stext[s].ids]
  /\ stext' = [stext EXCEPT ![s] = Fresh]
  /\ SGoto(s, IF spc[s] = "disabling" THEN "look" ELSE "verify")
  /\ UNCHANGED <<files, lock, daemon, kind, found, crashes, overtaken>>

\* No daemon.lock: nothing ever ran here.
LookForLock(s) ==
  /\ spc[s] = "look"
  /\ SGoto(s, IF lockFile THEN "probe" ELSE "tidy")
  /\ UNCHANGED <<files, lock, config, daemon, kind, stext, found, crashes, overtaken>>

\* The run of the daemon that holds the lock.
Runs(p) == IF p \in Daemons THEN <<p, starts[p]>> ELSE None

\* The first try_lock_exclusive: free means not running.
Probe(s) ==
  /\ spc[s] = "probe"
  /\ \/ lock = None /\ lock' = s /\ SGoto(s, "probed") /\ UNCHANGED found
     \/ /\ lock # None /\ found' = [found EXCEPT ![s] = Runs(lock)]
        /\ UNCHANGED lock /\ SGoto(s, "ask")
  /\ UNCHANGED <<files, config, daemon, kind, stext, crashes, overtaken>>

\* A mutant of Ask: the request is written once, before the loop.
AskOnce(s) ==
  /\ spc[s] = "ask"
  /\ stopReq' = TRUE /\ SGoto(s, "wait")
  /\ UNCHANGED <<lockFile, pid, lock, config, daemon, kind, stext, found, crashes, overtaken>>

\* The request is written again in each round of the loop.
Ask(s) ==
  /\ spc[s] \in {"ask", "wait"}
  /\ stopReq' = TRUE /\ SGoto(s, "wait")
  /\ UNCHANGED <<lockFile, pid, lock, config, daemon, kind, stext, found, crashes, overtaken>>

\* A mutant of Stopped: the daemon is taken to be gone when its pid file is.
StoppedByPid(s) ==
  /\ spc[s] = "wait" /\ (lock = None \/ pid = None)
  /\ lock' = IF lock = None THEN s ELSE lock
  /\ SGoto(s, "probed")
  /\ UNCHANGED <<files, config, daemon, kind, stext, found, crashes, overtaken>>

Stopped(s) ==
  /\ spc[s] = "wait" /\ lock = None
  /\ lock' = s /\ SGoto(s, "probed")
  /\ UNCHANGED <<files, config, daemon, kind, stext, found, crashes, overtaken>>

\* The last round: the request is written, the lock is held, the time is up; "did not stop
\* within 30 seconds; its stop request remains queued".  Of all that a daemon does with the
\* lock held only a pass can last that long.
TimeOut(s) ==
  /\ spc[s] = "wait" /\ MayTimeOut
  /\ \E d \in Daemons : lock = d /\ dpc[d] \in Passing
  /\ stopReq' = TRUE /\ SGoto(s, "failed")
  /\ UNCHANGED <<lockFile, pid, lock, config, daemon, kind, stext, found, crashes, overtaken>>

Unlock(s) ==
  /\ spc[s] = "probed"
  /\ lock' = (IF lock = s THEN None ELSE lock) /\ SGoto(s, "tidy")
  /\ UNCHANGED <<files, config, daemon, kind, stext, found, crashes, overtaken>>

TidyPid(s) ==
  /\ spc[s] = "tidy"
  /\ pid' = None /\ SGoto(s, "tidier")
  /\ UNCHANGED <<lockFile, stopReq, lock, config, daemon, kind, stext, found, crashes, overtaken>>

\* A mutant of TidyStop: deprovision goes on without disabling the writers again.
TidyStopNoReapply(s) ==
  /\ spc[s] = "tidier"
  /\ stopReq' = FALSE /\ SGoto(s, IF kind[s] = "deprovision" THEN "cleaning" ELSE "done")
  /\ UNCHANGED <<lockFile, pid, lock, config, daemon, kind, stext, found, crashes, overtaken>>

TidyStop(s) ==
  /\ spc[s] = "tidier"
  /\ stopReq' = FALSE /\ SGoto(s, IF kind[s] = "deprovision" THEN "reapply" ELSE "done")
  /\ UNCHANGED <<lockFile, pid, lock, config, daemon, kind, stext, found, crashes, overtaken>>

\* Cleanup is refused when the writers could not be disabled.
Verify(s) ==
  /\ spc[s] = "verify"
  /\ SGoto(s, IF config.on THEN "failed" ELSE "cleaning")
  /\ UNCHANGED <<files, lock, config, daemon, kind, stext, found, crashes, overtaken>>

Clean(s) ==
  /\ spc[s] = "cleaning" /\ SGoto(s, "done")
  /\ UNCHANGED <<files, lock, config, daemon, kind, stext, found, crashes, overtaken>>

----------------------------------------------------------------------------
Init ==
  /\ lockFile = FALSE /\ lock = None /\ pid = None /\ stopReq = FALSE
  /\ config = Fresh
  /\ dpc = [d \in Daemons |-> "off"] /\ term = [d \in Daemons |-> FALSE]
  /\ loaded = [d \in Daemons |-> config] /\ dtext = [d \in Daemons |-> config]
  /\ starts = [d \in Daemons |-> 0]
  /\ spc = [s \in Stoppers |-> "off"] /\ kind = [s \in Stoppers |-> "stop"]
  /\ stext = [s \in Stoppers |-> config] /\ found = [s \in Stoppers |-> None]
  /\ crashes = 0 /\ overtaken = FALSE

DaemonStep(d) ==
  \/ Acquire(d) \/ ClearStop(d) \/ WritePid(d) \/ BeginPass(d) \/ ReadConfig(d)
  \/ WriteConfig(d) \/ EndPass(d) \/ Leave(d) \/ RemovePid(d) \/ RemoveStop(d) \/ Release(d)

StopperStep(s) ==
  \/ ReadSettings(s) \/ WriteSettings(s) \/ LookForLock(s) \/ Probe(s) \/ Ask(s)
  \/ Stopped(s) \/ TimeOut(s) \/ Unlock(s) \/ TidyPid(s) \/ TidyStop(s) \/ Verify(s) \/ Clean(s)

Next ==
  \/ \E d \in Daemons : Launch(d) \/ DaemonStep(d) \/ Signal(d) \/ Crash(d)
  \/ \E s \in Stoppers : (\E k \in Kinds : Begin(s, k)) \/ StopperStep(s)

Spec == Init /\ [][Next]_vars

(* A process that is not killed goes on, and a pass ends.  Weak fairness is enough: *)
(* a stopper that waits writes its request again and tries the lock again.           *)
Fairness ==
  /\ \A d \in Daemons : WF_vars(DaemonStep(d))
  /\ \A s \in Stoppers : WF_vars(StopperStep(s))

FairSpec == Spec /\ Fairness

----------------------------------------------------------------------------
(* Properties.                                                             *)

TypeOK ==
  /\ lockFile \in BOOLEAN /\ lock \in Daemons \cup Stoppers \cup {None}
  /\ pid \in Daemons \cup {None} /\ stopReq \in BOOLEAN /\ config \in Configs
  /\ dpc \in [Daemons -> {"off", "launched", "unlock"} \cup Inside]
  /\ term \in [Daemons -> BOOLEAN]
  /\ loaded \in [Daemons -> Configs] /\ dtext \in [Daemons -> Configs]
  /\ starts \in [Daemons -> 0..MaxStarts]
  /\ spc \in [Stoppers -> {"off", "disable", "disabling", "look", "probe", "ask", "wait",
                           "probed", "tidy", "tidier", "reapply", "reapplying", "verify",
                           "cleaning", "failed", "done"}]
  /\ kind \in [Stoppers -> {"stop", "deactivate", "deprovision"}]
  /\ stext \in [Stoppers -> Configs]
  /\ found \in [Stoppers -> (Daemons \X (0..MaxStarts)) \cup {None}]
  /\ crashes \in 0..MaxCrashes /\ overtaken \in BOOLEAN

\* Two daemons never run their loops at once (README.md 291: "A runtime lock prevents
\* duplicate routing daemons").
SingleDaemon == \A d, e \in Daemons : dpc[d] \in Inside /\ dpc[e] \in Inside => d = e

Ended(run) == run = None \/ starts[run[1]] # run[2] \/ dpc[run[1]] \notin Inside

\* A stopper that reports success has seen the end of the daemon it found running,
\* however starts, crashes and other stoppers interleave (lifecycle.rs 59-92).
StopEndsDaemon ==
  \A s \in Stoppers :
    spc[s] \in {"tidy", "tidier", "reapply", "reapplying", "verify", "cleaning", "done"}
      => Ended(found[s])

\* Somebody who asks a daemon to stop succeeds, even when the daemon is just starting
\* and removes the request, or another stopper does (lifecycle.rs 78-92).
StopCompletes == \A s \in Stoppers : spc[s] = "ask" ~> spc[s] \in {"done", "failed"}

\* Deprovisioning deletes nothing while the writers are enabled, in the configuration
\* or in a pass that loaded it earlier, whatever passes wrote back before they ended; unless
\* a daemon started between the stop and the second deactivation (lifecycle.rs 705: "quiesce
\* every writer").
CleanupQuiesced ==
  \A s \in Stoppers, d \in Daemons :
    spc[s] = "cleaning" /\ ~overtaken => ~config.on /\ ~(dpc[d] \in Passing /\ loaded[d].on)

\* The request of a stopper that gave up ends the run it was meant for (lifecycle.rs 97:
\* "its stop request remains queued"), however many daemons and stoppers there are; unless
\* another stopper, which found no lock file or a free lock, removes it (55-66, 88-91).
QueuedStopHonoured ==
  \A s \in Stoppers :
    spc[s] = "failed" /\ stopReq ~> \/ Ended(found[s])
                                    \/ \E t \in Stoppers \ {s} : spc[t] = "tidier"
============================================================================
