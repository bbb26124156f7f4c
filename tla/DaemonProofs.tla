---------------------------- MODULE DaemonProofs ----------------------------
(***************************************************************************)
(* For any number of daemons and stoppers, starts and crashes: at most one *)
(* daemon runs its loop, a stopper that reports success has seen the end   *)
(* of the run it found, and a cleanup works while nobody else writes.      *)
(*                                                                         *)
(* The flock is what all rest on.  LockInv says who holds it, by the       *)
(* place a process is in; FoundInv says that the run a stopper found is    *)
(* one that really held it, so that it never comes back once it ended;     *)
(* QuietInv says that from the stop to the second deactivation nobody is   *)
(* inside, so that from then on no pass can have read other settings.      *)
(***************************************************************************)
EXTENDS Daemon, TLAPS

Before == {"off", "disable", "disabling", "look", "probe"}
Reported == {"tidy", "tidier", "reapply", "reapplying", "verify", "cleaning", "done"}

LockInv ==
  /\ \A d \in Daemons : dpc[d] \in Inside \cup {"unlock"} <=> lock = d
  /\ \A s \in Stoppers : spc[s] = "probed" => lock = s

FoundInv ==
  \A s \in Stoppers :
    /\ spc[s] \in Before => found[s] = None
    /\ found[s] # None =>
         /\ found[s][2] <= starts[found[s][1]]
         /\ dpc[found[s][1]] = "launched" => found[s][2] # starts[found[s][1]]
    /\ spc[s] \in Reported \cup {"probed"} => Ended(found[s])

QuietInv ==
  /\ \A d \in Daemons : /\ dpc[d] \in Inside => lockFile
                        /\ dpc[d] = "append" => loaded[d].on
  /\ \A s \in Stoppers :
       /\ spc[s] \in {"reapply", "reapplying", "verify", "cleaning"} => kind[s] = "deprovision"
       /\ ~overtaken /\ kind[s] = "deprovision" =>
            /\ spc[s] \in Stopping => \A d \in Daemons : dpc[d] \notin Inside
            /\ spc[s] \in {"verify", "cleaning"} =>
                 ~config.on /\ \A d \in Daemons : dpc[d] \in Passing => ~loaded[d].on

----------------------------------------------------------------------------
(* Types.                                                                  *)

LEMMA InitType == Init => TypeOK
<1> SUFFICES ASSUME Init PROVE TypeOK
  OBVIOUS
<1>1. config \in Configs
  BY DEF Init, Configs, Fresh
<1>2. /\ term \in [Daemons -> BOOLEAN] /\ loaded \in [Daemons -> Configs]
      /\ dtext \in [Daemons -> Configs] /\ stext \in [Stoppers -> Configs]
  BY <1>1 DEF Init
<1>3. /\ starts \in [Daemons -> 0..MaxStarts] /\ crashes \in 0..MaxCrashes
      /\ found \in [Stoppers -> (Daemons \X (0..MaxStarts)) \cup {None}]
  BY DaemonAssumption DEF DaemonAssumption, Init
<1> QED
  BY <1>1, <1>2, <1>3 DEF Init, TypeOK

LEMMA StepType == ASSUME TypeOK, [Next]_vars PROVE TypeOK'
<1> USE DaemonAssumption DEF DaemonAssumption, TypeOK
<1>0. Fresh \in Configs
  BY DEF Fresh, Configs
<1>1. ASSUME NEW d \in Daemons,
             \/ ClearStop(d) \/ WritePid(d) \/ RemovePid(d) \/ RemoveStop(d) \/ Release(d)
      PROVE  TypeOK'
  BY <1>1 DEF ClearStop, WritePid, RemovePid, RemoveStop, Release,
              DGoto, Inside, files, stopper
<1>2. ASSUME NEW d \in Daemons, Launch(d) \/ Crash(d) PROVE TypeOK'
  <2>1. starts' \in [Daemons -> 0..MaxStarts] /\ crashes' \in 0..MaxCrashes
    BY <1>2 DEF Launch, Crash, stopper
  <2>2. /\ dpc' \in [Daemons -> {"off", "launched", "unlock"} \cup Inside]
        /\ lock' \in Daemons \cup Stoppers \cup {None}
    BY <1>2 DEF Launch, Crash, DGoto
  <2>3. /\ term' \in [Daemons -> BOOLEAN]
        /\ loaded' \in [Daemons -> Configs] /\ dtext' \in [Daemons -> Configs]
    <3>1. CASE Launch(d) BY <3>1 DEF Launch
    <3>2. CASE Crash(d)
      <4>1. term' \in [Daemons -> BOOLEAN] BY <3>2 DEF Crash, Forget
      <4>2. loaded' = [loaded EXCEPT ![d] = Fresh] /\ dtext' = [dtext EXCEPT ![d] = Fresh]
        BY <3>2 DEF Crash, Forget
      <4> QED BY <1>0, <4>1, <4>2
    <3> QED BY <1>2, <3>1, <3>2
  <2> QED
    BY <1>2, <2>1, <2>2, <2>3 DEF Launch, Crash, files, stopper
<1>13. ASSUME NEW d \in Daemons, Leave(d) PROVE TypeOK'
  <2>1. term' \in [Daemons -> BOOLEAN]
    BY <1>13 DEF Leave
  <2> QED
    BY <1>13, <2>1 DEF Leave, DGoto, Inside, files, stopper
<1>14. ASSUME NEW d \in Daemons, EndPass(d) PROVE TypeOK'
  <2>1. loaded' \in [Daemons -> Configs]
    BY <1>0, <1>14 DEF EndPass
  <2> QED
    BY <1>14, <2>1 DEF EndPass, DGoto, Inside, files, stopper
<1>12. ASSUME NEW d \in Daemons, Acquire(d) PROVE TypeOK'
  <2>1. overtaken' \in BOOLEAN
    BY <1>12 DEF Acquire, Overtakes
  <2> QED
    BY <1>12, <2>1 DEF Acquire, DGoto, Inside, stopper
<1>9. ASSUME NEW d \in Daemons, BeginPass(d) \/ ReadConfig(d) PROVE TypeOK'
  <2>1. dpc' \in [Daemons -> {"off", "launched", "unlock"} \cup Inside]
    BY <1>9 DEF BeginPass, ReadConfig, DGoto, Inside
  <2> QED
    BY <1>9, <2>1 DEF BeginPass, ReadConfig, files, stopper
<1>10. ASSUME NEW d \in Daemons, Signal(d) PROVE TypeOK'
  <2>1. term' \in [Daemons -> BOOLEAN]
    BY <1>10 DEF Signal
  <2> QED
    BY <1>10, <2>1 DEF Signal, files, stopper
<1>3. ASSUME NEW d \in Daemons, WriteConfig(d) PROVE TypeOK'
  <2>1. config' \in Configs
    <3>1. PICK ids \in (SUBSET (Ids \ loaded[d].ids)) \ {{}} :
            config' = IF ids \subseteq dtext[d].ids THEN config
                      ELSE [on |-> dtext[d].on, ids |-> dtext[d].ids \cup ids]
      BY <1>3 DEF WriteConfig
    <3> QED
      BY <3>1 DEF Configs
  <2> QED
    BY <1>0, <1>3, <2>1 DEF WriteConfig, DGoto, Inside, files, stopper
<1>4. ASSUME NEW s \in Stoppers, NEW k \in Kinds, Begin(s, k) PROVE TypeOK'
  BY <1>4 DEF Begin, SGoto, files, daemon
<1>5. ASSUME NEW s \in Stoppers, ReadSettings(s) PROVE TypeOK'
  <2>1. stext' \in [Stoppers -> Configs]
    BY <1>5 DEF ReadSettings
  <2> QED
    BY <1>5, <2>1 DEF ReadSettings, SGoto, files, daemon
<1>11. ASSUME NEW s \in Stoppers, WriteSettings(s) PROVE TypeOK'
  <2>1. config' \in Configs
    BY <1>11 DEF WriteSettings, Configs
  <2> QED
    BY <1>0, <1>11, <2>1 DEF WriteSettings, SGoto, files, daemon
<1>6. ASSUME NEW s \in Stoppers, Probe(s) PROVE TypeOK'
  <2>1. Runs(lock) \in (Daemons \X (0..MaxStarts)) \cup {None}
    BY DEF Runs
  <2> QED
    BY <1>6, <2>1 DEF Probe, SGoto, files, daemon
<1>7. ASSUME NEW s \in Stoppers,
             \/ LookForLock(s) \/ Ask(s) \/ Stopped(s) \/ TimeOut(s) \/ Unlock(s)
             \/ TidyPid(s) \/ TidyStop(s) \/ Verify(s) \/ Clean(s)
      PROVE  TypeOK'
  BY <1>7 DEF LookForLock, Ask, Stopped, TimeOut, Unlock, TidyPid, TidyStop, Verify, Clean,
              SGoto, files, daemon
<1>8. CASE UNCHANGED vars
  BY <1>8 DEF vars, files, daemon, stopper
<1> QED
  BY <1>1, <1>2, <1>3, <1>4, <1>5, <1>6, <1>7, <1>8, <1>9, <1>10, <1>11, <1>12, <1>13, <1>14
  DEF Next, DaemonStep, StopperStep

\* Every reachable state is well typed.
THEOREM DaemonTypeCorrect == Spec => []TypeOK
BY InitType, StepType, PTL DEF Spec

----------------------------------------------------------------------------
(* The lock.                                                               *)

LEMMA StepLock == ASSUME TypeOK, LockInv, [Next]_vars PROVE LockInv'
<1> USE DaemonAssumption DEF DaemonAssumption, LockInv
<1>1. ASSUME NEW d \in Daemons, Launch(d) \/ DaemonStep(d) \/ Signal(d) \/ Crash(d)
      PROVE  LockInv'
  <2>1. UNCHANGED spc
    BY <1>1 DEF DaemonStep, Launch, Acquire, ClearStop, WritePid, BeginPass, ReadConfig,
                WriteConfig, EndPass, Leave, RemovePid, RemoveStop, Release, Signal, Crash,
                stopper
  <2>2. CASE Acquire(d) \/ Release(d) \/ Crash(d)
    BY <2>1, <2>2 DEF Acquire, Release, Crash, DGoto, Inside, TypeOK
  <2>3. CASE \/ Launch(d) \/ ClearStop(d) \/ WritePid(d) \/ BeginPass(d) \/ ReadConfig(d)
             \/ WriteConfig(d) \/ EndPass(d) \/ Leave(d) \/ RemovePid(d) \/ RemoveStop(d)
             \/ Signal(d)
    BY <2>1, <2>3 DEF Launch, ClearStop, WritePid, BeginPass, ReadConfig, WriteConfig,
                      EndPass, Leave, RemovePid, RemoveStop, Signal, DGoto, Inside, TypeOK
  <2> QED
    BY <1>1, <2>2, <2>3 DEF DaemonStep
<1>2. ASSUME NEW s \in Stoppers, (\E k \in Kinds : Begin(s, k)) \/ StopperStep(s)
      PROVE  LockInv'
  <2>1. UNCHANGED dpc
    BY <1>2 DEF StopperStep, Begin, ReadSettings, WriteSettings, LookForLock, Probe, Ask,
                Stopped, TimeOut, Unlock, TidyPid, TidyStop, Verify, Clean, daemon
  <2>2. CASE Probe(s) \/ Stopped(s) \/ Unlock(s)
    BY <2>1, <2>2 DEF Probe, Stopped, Unlock, SGoto, Inside, TypeOK
  <2>3. CASE \/ (\E k \in Kinds : Begin(s, k)) \/ ReadSettings(s) \/ WriteSettings(s)
             \/ LookForLock(s) \/ Ask(s) \/ TimeOut(s) \/ TidyPid(s) \/ TidyStop(s)
             \/ Verify(s) \/ Clean(s)
    BY <2>1, <2>3 DEF Begin, ReadSettings, WriteSettings, LookForLock, Ask, TimeOut, TidyPid,
                      TidyStop, Verify, Clean, SGoto, TypeOK
  <2> QED
    BY <1>2, <2>2, <2>3 DEF StopperStep
<1>3. CASE UNCHANGED vars
  BY <1>3 DEF vars, daemon, stopper
<1> QED
  BY <1>1, <1>2, <1>3 DEF Next

LEMMA LockHolds == Spec => []LockInv
<1>1. Init => LockInv
  BY DaemonAssumption DEF DaemonAssumption, Init, LockInv, Inside
<1> QED
  BY <1>1, StepLock, DaemonTypeCorrect, PTL DEF Spec

\* README.md 291: "A runtime lock prevents duplicate routing daemons", whatever
\* crashes, signals and stoppers do.
THEOREM SingleDaemonHolds == Spec => []SingleDaemon
<1>1. LockInv => SingleDaemon
  BY DEF LockInv, SingleDaemon
<1> QED
  BY <1>1, LockHolds, PTL

----------------------------------------------------------------------------
(* The run a stopper found.                                                *)

LEMMA StepFound == ASSUME TypeOK, LockInv, FoundInv, [Next]_vars PROVE FoundInv'
<1> USE DaemonAssumption DEF DaemonAssumption
<1>1. ASSUME NEW s \in Stoppers, found[s] # None
      PROVE  found[s] \in Daemons \X (0..MaxStarts)
  BY <1>1 DEF TypeOK
<1>2. ASSUME NEW d \in Daemons, Launch(d) \/ DaemonStep(d) \/ Signal(d) \/ Crash(d)
      PROVE  FoundInv'
  <2>1. UNCHANGED <<spc, found>>
    BY <1>2 DEF DaemonStep, Launch, Acquire, ClearStop, WritePid, BeginPass, ReadConfig,
                WriteConfig, EndPass, Leave, RemovePid, RemoveStop, Release, Signal, Crash,
                stopper
  \* A process comes to hold the lock from "launched" only, and starts count up.
  <2>2. /\ \A e \in Daemons : dpc'[e] \in Inside =>
             dpc[e] \in Inside \/ dpc[e] = "launched"
        /\ \A e \in Daemons : dpc'[e] = "launched" =>
             (dpc[e] = "launched" /\ starts'[e] = starts[e]) \/ starts'[e] = starts[e] + 1
        /\ \A e \in Daemons : starts'[e] = starts[e] \/ starts'[e] = starts[e] + 1
        /\ \A e \in Daemons : starts'[e] = starts[e] + 1 => dpc'[e] = "launched"
    <3>1. CASE Launch(d)
      BY <3>1 DEF Launch, DGoto, Inside, TypeOK
    <3>2. CASE DaemonStep(d) \/ Signal(d) \/ Crash(d)
      <4>1. UNCHANGED starts
        BY <3>2 DEF DaemonStep, Acquire, ClearStop, WritePid, BeginPass, ReadConfig,
                    WriteConfig, EndPass, Leave, RemovePid, RemoveStop, Release, Signal, Crash
      <4>2. /\ \A e \in Daemons : dpc'[e] \in Inside => dpc[e] \in Inside \/ dpc[e] = "launched"
            /\ \A e \in Daemons : dpc'[e] = "launched" => dpc[e] = "launched"
        BY <3>2 DEF DaemonStep, Acquire, ClearStop, WritePid, BeginPass, ReadConfig,
                    WriteConfig, EndPass, Leave, RemovePid, RemoveStop, Release, Signal,
                    Crash, DGoto, Inside, TypeOK
      <4>3. \A e \in Daemons : starts[e] \in Nat
        BY DEF TypeOK
      <4> QED
        BY <4>1, <4>2, <4>3
    <3> QED
      BY <1>2, <3>1, <3>2
  <2>3. ASSUME NEW s \in Stoppers
        PROVE  /\ spc'[s] \in Before => found'[s] = None
               /\ found'[s] # None =>
                    /\ found'[s][2] <= starts'[found'[s][1]]
                    /\ dpc'[found'[s][1]] = "launched" => found'[s][2] # starts'[found'[s][1]]
               /\ spc'[s] \in Reported \cup {"probed"} => Ended(found[s])'
    <3>1. CASE found[s] = None
      BY <2>1, <3>1 DEF FoundInv, Ended
    <3>2. CASE found[s] # None
      <4> DEFINE e == found[s][1]
                 n == found[s][2]
      <4>1. e \in Daemons /\ n \in Nat /\ starts[e] \in Nat
        BY <1>1, <3>2 DEF TypeOK
      <4>2. n <= starts[e] /\ (dpc[e] = "launched" => n # starts[e])
        BY <3>2 DEF FoundInv
      <4>3. n <= starts'[e] /\ (dpc'[e] = "launched" => n # starts'[e])
        BY <2>2, <4>1, <4>2
      <4>4. ASSUME starts[e] # n \/ dpc[e] \notin Inside
            PROVE  starts'[e] # n \/ dpc'[e] \notin Inside
        BY <2>2, <4>1, <4>2, <4>4
      <4>5. spc[s] \in Reported \cup {"probed"} => starts[e] # n \/ dpc[e] \notin Inside
        BY <3>2 DEF FoundInv, Ended
      <4> QED
        BY <2>1, <3>2, <4>3, <4>4, <4>5 DEF FoundInv, Ended
    <3> QED
      BY <3>1, <3>2
  <2> QED
    BY <2>3 DEF FoundInv
<1>3. ASSUME NEW s \in Stoppers, (\E k \in Kinds : Begin(s, k)) \/ StopperStep(s)
      PROVE  FoundInv'
  <2>1. UNCHANGED <<dpc, starts>>
    BY <1>3 DEF StopperStep, Begin, ReadSettings, WriteSettings, LookForLock, Probe, Ask,
                Stopped, TimeOut, Unlock, TidyPid, TidyStop, Verify, Clean, daemon
  <2>2. CASE Probe(s)
    <3>1. CASE lock = None
      BY <2>1, <2>2, <3>1 DEF Probe, SGoto, FoundInv, Before, Reported, Ended, TypeOK
    <3>2. CASE lock # None
      <4>1. /\ spc' = [spc EXCEPT ![s] = "ask"]
            /\ found' = [found EXCEPT ![s] = Runs(lock)]
        BY <2>2, <3>2 DEF Probe, SGoto
      <4>2. ASSUME Runs(lock) # None
            PROVE  /\ lock \in Daemons /\ Runs(lock) = <<lock, starts[lock]>>
                   /\ dpc[lock] # "launched"
        <5>1. lock \in Daemons /\ Runs(lock) = <<lock, starts[lock]>>
          BY <4>2 DEF Runs
        <5> QED
          BY <5>1 DEF LockInv, Inside
      <4> QED
        BY <2>1, <4>1, <4>2 DEF FoundInv, Before, Reported, Ended, TypeOK
    <3> QED
      BY <3>1, <3>2
  <2>3. CASE Stopped(s)
    <3>1. \A d \in Daemons : dpc[d] \notin Inside
      BY <2>3 DEF Stopped, LockInv
    <3>2. found' = found /\ spc' = [spc EXCEPT ![s] = "probed"]
      BY <2>3 DEF Stopped, SGoto
    <3> QED
      BY <1>1, <2>1, <3>1, <3>2 DEF FoundInv, Before, Reported, Ended, TypeOK
  <2>4. CASE \/ (\E k \in Kinds : Begin(s, k)) \/ ReadSettings(s) \/ WriteSettings(s)
             \/ LookForLock(s) \/ Ask(s) \/ TimeOut(s) \/ Unlock(s) \/ TidyPid(s)
             \/ TidyStop(s) \/ Verify(s) \/ Clean(s)
    <3>1. UNCHANGED found
      BY <2>4 DEF Begin, ReadSettings, WriteSettings, LookForLock, Ask, TimeOut, Unlock,
                  TidyPid, TidyStop, Verify, Clean
    <3>2. ASSUME NEW t \in Stoppers
          PROVE  /\ spc'[t] \in Before => spc[t] \in Before
                 /\ spc'[t] \in Reported \cup {"probed"} =>
                      spc[t] \in Reported \cup {"probed"} \cup Before
      BY <2>4 DEF Begin, ReadSettings, WriteSettings, LookForLock, Ask, TimeOut, Unlock,
                  TidyPid, TidyStop, Verify, Clean, SGoto, Before, Reported, TypeOK
    <3> QED
      BY <2>1, <3>1, <3>2 DEF FoundInv, Ended
  <2> QED
    BY <1>3, <2>2, <2>3, <2>4 DEF StopperStep
<1>4. CASE UNCHANGED vars
  BY <1>4 DEF vars, daemon, stopper, FoundInv, Ended
<1> QED
  BY <1>2, <1>3, <1>4 DEF Next

LEMMA FoundHolds == Spec => []FoundInv
<1>1. Init => FoundInv
  BY DEF Init, FoundInv, Before, Ended
<1> QED
  BY <1>1, StepFound, DaemonTypeCorrect, LockHolds, PTL DEF Spec

\* A stopper that reports success has seen the end of the daemon it found running,
\* whatever is started, killed or stopped at the same time (lifecycle.rs 59-92).
THEOREM StopEndsDaemonHolds == Spec => []StopEndsDaemon
<1>1. FoundInv => StopEndsDaemon
  BY DEF FoundInv, StopEndsDaemon, Reported
<1> QED
  BY <1>1, FoundHolds, PTL

----------------------------------------------------------------------------
(* Cleanup.                                                                *)

\* A daemon's step: only Acquire lets one in, and only a pass that loaded other settings
\* can write them back.
LEMMA DaemonQuiet ==
  ASSUME TypeOK, LockInv, QuietInv, NEW d \in Daemons,
         Launch(d) \/ DaemonStep(d) \/ Signal(d) \/ Crash(d)
  PROVE  QuietInv'
<1> USE DEF QuietInv, TypeOK, DGoto, Inside, Passing, Stopping, files, stopper, Configs
<1>1. CASE Launch(d) \/ Signal(d) BY <1>1 DEF Launch, Signal
<1>2. CASE Acquire(d)
  <2>1. UNCHANGED <<config, loaded, spc, kind>> /\ lockFile' BY <1>2 DEF Acquire
  <2>2. CASE dpc' = [dpc EXCEPT ![d] = "locked"] /\ overtaken' = Overtakes
    <3>1. \A e \in Daemons : /\ dpc'[e] \in Passing => dpc[e] \in Passing
                             /\ dpc'[e] = "append" => dpc[e] = "append"
      BY <2>2
    <3>2. ~overtaken' => /\ ~overtaken
                         /\ \A s \in Stoppers : kind[s] = "deprovision" => spc[s] \notin Stopping
      BY <2>2 DEF Overtakes
    <3> HIDE DEF Stopping, Inside, Passing, Configs, TypeOK
    <3> QED BY <2>1, <3>1, <3>2
  <2>3. CASE dpc' = [dpc EXCEPT ![d] = "off"] /\ overtaken' = overtaken
    <3>1. \A e \in Daemons : /\ dpc'[e] \in Inside => dpc[e] \in Inside
                             /\ dpc'[e] \in Passing => dpc[e] \in Passing
                             /\ dpc'[e] = "append" => dpc[e] = "append"
      BY <2>3
    <3> HIDE DEF Stopping, Inside, Passing, Configs, TypeOK
    <3> QED BY <2>1, <2>3, <3>1
  <2> QED BY <1>2, <2>2, <2>3 DEF Acquire
<1>3. CASE ClearStop(d) \/ WritePid(d) \/ Leave(d)
  BY <1>3 DEF ClearStop, WritePid, Leave
<1>4. CASE RemovePid(d) \/ RemoveStop(d) \/ Release(d)
  BY <1>4 DEF RemovePid, RemoveStop, Release
<1>5. CASE BeginPass(d) BY <1>5 DEF BeginPass
<1>6. CASE ReadConfig(d) BY <1>6 DEF ReadConfig
<1>7. CASE WriteConfig(d)
  <2>1. dpc[d] = "append" /\ loaded[d].on BY <1>7 DEF WriteConfig
  <2>2. \A s \in Stoppers : ~overtaken /\ kind[s] = "deprovision" =>
                              spc[s] \notin Stopping \cup {"verify", "cleaning"}
    BY <2>1
  <2>3. UNCHANGED <<spc, kind, overtaken, lockFile>> /\ dpc' = [dpc EXCEPT ![d] = "pass"]
    BY <1>7 DEF WriteConfig
  <2>4. \A e \in Daemons : dpc'[e] = "append" => dpc[e] = "append" /\ loaded'[e] = loaded[e]
    BY <1>7, <2>3 DEF WriteConfig
  <2>5. \A e \in Daemons : dpc'[e] \in Inside => dpc[e] \in Inside BY <2>1, <2>3
  <2> QED BY <2>2, <2>3, <2>4, <2>5
<1>8. CASE Crash(d) \/ EndPass(d)
  <2>1. /\ UNCHANGED <<config, spc, kind, overtaken, lockFile>>
        /\ \/ dpc' = [dpc EXCEPT ![d] = "off"]
           \/ dpc[d] = "pass" /\ dpc' = [dpc EXCEPT ![d] = "loop"]
        /\ \A e \in Daemons \ {d} : loaded'[e] = loaded[e]
    BY <1>8 DEF Crash, EndPass, Forget
  <2>2. \A e \in Daemons : /\ dpc'[e] \in Inside => dpc[e] \in Inside
                           /\ dpc'[e] \in Passing => dpc[e] \in Passing /\ e # d
                           /\ dpc'[e] = "append" => dpc[e] = "append" /\ e # d
    BY <2>1
  <2> HIDE DEF Stopping, Inside, Passing, Configs, TypeOK
  <2> QED BY <2>1, <2>2
<1> QED BY <1>1, <1>2, <1>3, <1>4, <1>5, <1>6, <1>7, <1>8 DEF DaemonStep

\* A stopper's: it holds the lock when it has seen the end of the daemon.
LEMMA StopperQuiet ==
  ASSUME TypeOK, LockInv, QuietInv, NEW s \in Stoppers,
         (\E k \in Kinds : Begin(s, k)) \/ StopperStep(s)
  PROVE  QuietInv'
<1> USE DEF QuietInv, TypeOK, SGoto, Inside, Passing, Stopping, files, daemon, Configs
<1>1. CASE \E k \in Kinds : Begin(s, k) BY <1>1 DEF Begin
<1>2. CASE ReadSettings(s) BY <1>2 DEF ReadSettings
<1>3. CASE WriteSettings(s) BY <1>3 DEF WriteSettings
<1>4. CASE LookForLock(s) BY <1>4 DEF LookForLock
<1>5. CASE Probe(s) \/ Ask(s) \/ Stopped(s) \/ TimeOut(s)
  BY <1>5 DEF Probe, Ask, Stopped, TimeOut
<1>6. CASE Unlock(s)
  <2>1. \A d \in Daemons : dpc[d] \notin Inside
    BY <1>6, DaemonAssumption DEF Unlock, LockInv
  <2> QED BY <1>6, <2>1 DEF Unlock
<1>7. CASE TidyPid(s) \/ TidyStop(s) BY <1>7 DEF TidyPid, TidyStop
<1>8. CASE Verify(s) \/ Clean(s) BY <1>8 DEF Verify, Clean
<1> QED BY <1>1, <1>2, <1>3, <1>4, <1>5, <1>6, <1>7, <1>8 DEF StopperStep

\* A cleanup deletes nothing while a writer is enabled, whatever daemons wrote back,
\* unless one started in the middle of it (lifecycle.rs 705-733).
THEOREM CleanupQuiescedHolds == Spec => []CleanupQuiesced
<1>1. Init => QuietInv
  BY DEF Init, QuietInv, Inside, Passing, Stopping
<1>2. TypeOK /\ LockInv /\ QuietInv /\ [Next]_vars => QuietInv'
  <2>1. CASE UNCHANGED vars
    BY <2>1 DEF vars, files, daemon, stopper, QuietInv
  <2> QED
    BY <2>1, DaemonQuiet, StopperQuiet DEF Next
<1>3. QuietInv => CleanupQuiesced
  BY DEF QuietInv, CleanupQuiesced
<1> QED
  BY <1>1, <1>2, <1>3, DaemonTypeCorrect, LockHolds, PTL DEF Spec
============================================================================
