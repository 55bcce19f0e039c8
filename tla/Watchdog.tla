------------------------------- MODULE Watchdog -------------------------------
(***************************************************************************)
(* The watchdog facade of a node (watchdog/base.py, watchdog/linux.py) and *)
(* the HA loop that opens it before a promotion, feeds it when the leader  *)
(* key is updated and closes it after a demotion, while the operator       *)
(* changes its configuration.  A device that is open and not fed resets    *)
(* the machine.  The facade is one object under a lock, so each of its     *)
(* methods is a function from a facade to a facade; what the device        *)
(* answers is a parameter of it.                                           *)
(***************************************************************************)
EXTENDS Naturals, FiniteSets

CONSTANTS
  Device,      \* the devices the configuration may name
  NoDevice,    \* the NullWatchdog
  Settable,    \* the devices whose timeout can be set
  Preset,      \* the timeout a device comes with
  Closable,    \* the devices that can be disabled
  Modes,       \* the modes the operator uses: "off", "automatic", "required"
  Timeouts,    \* the timeouts, ttl less safety_margin, he uses
  LoopWait,
  Stumbles,    \* the calls of the driver that may fail: "open", "set", "close"
  MaxReloads, MaxMishaps

WatchdogAssumption ==
  /\ Settable \subseteq Device /\ Closable \subseteq Device /\ NoDevice \notin Device
  /\ Timeouts \subseteq Nat /\ {Preset, LoopWait, MaxReloads, MaxMishaps} \subseteq Nat
  /\ Modes \subseteq {"off", "automatic", "required"}
  /\ Stumbles \subseteq {"open", "set", "close"}

VARIABLES
  wd,       \* the facade and the devices
  role,     \* of postgres: "down", "standby", "promoting", "primary"
  lock,     \* this node has the leader key
  paused,   \* Ha._was_paused
  aborted,  \* a promotion was given up, and the watchdog has not been closed since
  left      \* how many reloads and mishaps there may still be

vars == <<wd, role, lock, paused, aborted, left>>

Config == [mode : Modes, timeout : Timeouts, device : Device]

\* A method fails where the driver does.  Outcomes are the calls that work.
Outcomes == {{"open", "set", "close"} \ s : s \in SUBSET Stumbles}

Running(w) == w.impl \in w.open
Required(w) == w.config.mode = "required"

\* actual_timeout: a device that cannot be set, or was not, has its own.
Safe(w) == Running(w) /\ w.timer[w.impl] <= w.config.timeout

Healthy(w) == Required(w) => w.config.timeout >= LoopWait /\ w.impl # NoDevice

\* impl.open(): the NullWatchdog always can.
Opened(w, works) ==
  IF w.impl = NoDevice THEN w
  ELSE IF "open" \in works THEN [w EXCEPT !.open = @ \cup {w.impl}]
  ELSE [w EXCEPT !.impl = NoDevice]

\* Whoever gives up the device here does not close it.
TimeoutSet(w, works) ==
  IF ~Running(w) \/ w.impl \notin Settable THEN w
  ELSE IF "set" \in works /\ w.config.timeout > 0 THEN [w EXCEPT !.timer[w.impl] = w.config.timeout]
  ELSE [w EXCEPT !.impl = NoDevice]

\* A device that would not even survive loop_wait.
TooShortClosed(w, works) ==
  IF ~Running(w) \/ w.impl \notin Closable \/ w.timer[w.impl] >= LoopWait THEN w
  ELSE [w EXCEPT !.impl = NoDevice, !.open = IF "close" \in works THEN @ \ {w.impl} ELSE @]

Reactivated(w, works) ==
  LET adopted == [w EXCEPT !.act = w.config,
                           !.impl = IF w.config.timeout < LoopWait THEN NoDevice ELSE @]
  IN TooShortClosed(TimeoutSet(Opened(adopted, works), works), works)

Activated(w, works) == [Reactivated(w, works) EXCEPT !.active = TRUE]

\* What activate() answers.
Answer(w) == Required(w) => Safe(w)

\* A device that cannot be disabled is fed for the last time and goes on.
Closed(w, works) ==
  IF ~Running(w) \/ "close" \notin works \/ w.impl \notin Closable THEN w
  ELSE [w EXCEPT !.open = @ \ {w.impl}]

Disabled(w, works) == [Closed(w, works) EXCEPT !.active = FALSE]

TurnedOn(w, works) ==
  IF w.config.mode # "off" /\ w.act.mode = "off"
  THEN Reactivated([w EXCEPT !.impl = w.config.device], works) ELSE w

\* A mutant of Replaced: the old device is forgotten.
ReplacedOpen(w, works) ==
  IF w.config.device # w.act.device
  THEN Reactivated([w EXCEPT !.impl = w.config.device], works) ELSE w

Replaced(w, works) ==
  IF w.config.device # w.act.device
  THEN Reactivated([Closed(w, works) EXCEPT !.impl = w.config.device], works) ELSE w

\* set_timeout() of a device that is not open, not settable or fails raises: the change stays pending.
Adjusted(w, works) ==
  IF w.config.timeout = w.act.timeout THEN [w EXCEPT !.act = w.config]
  ELSE IF Running(w) /\ w.impl \in Settable /\ "set" \in works /\ w.config.timeout > 0
  THEN [w EXCEPT !.timer[w.impl] = w.config.timeout, !.act = w.config] ELSE w

Fed(w, works) ==
  IF w.active /\ w.config # w.act
  THEN Adjusted(Replaced(TurnedOn(w, works), works), works) ELSE w

Reloaded(w, config, works) ==
  LET off == config.mode = "off"
      turned == IF off THEN [(IF w.active THEN Closed(w, works) ELSE w)
                             EXCEPT !.config = config, !.act = config, !.impl = NoDevice]
                ELSE [w EXCEPT !.config = config]
  IN IF w.active THEN turned
     ELSE [turned EXCEPT !.act = config,
                         !.impl = IF config.device # turned.act.device THEN config.device ELSE @]

-----------------------------------------------------------------------------

Init ==
  /\ wd \in {[config |-> c, act |-> c, active |-> FALSE, open |-> {},
              impl |-> IF c.mode = "off" THEN NoDevice ELSE c.device,
              timer |-> [d \in Device |-> Preset]] : c \in Config}
  /\ role = "standby" /\ lock = FALSE /\ paused = FALSE /\ aborted = FALSE
  /\ left = [reloads |-> MaxReloads, mishaps |-> MaxMishaps]

Mishap == left.mishaps > 0 /\ left' = [left EXCEPT !.mishaps = @ - 1]

\* The operator changes the local or the dynamic configuration.
Reload ==
  /\ left.reloads > 0 /\ left' = [left EXCEPT !.reloads = @ - 1]
  /\ \E c \in Config, works \in Outcomes : c # wd.config /\ wd' = Reloaded(wd, c, works)
  /\ UNCHANGED <<role, lock, paused, aborted>>

\* A mutant of Demoted: the demotion of a primary forgets its watchdog.
DemotedOnly(w, works) == w

\* A primary is stopped immediately and started again as a standby; from the safepoint on the
\* watchdog is not needed.
Demoted(w, works) == IF Running(w) THEN Disabled(w, works) ELSE w

\* A mutant of EnforcePrimaryRole: it goes on although the watchdog could not be activated.
EnforceAnyway(w, works) ==
  /\ lock' = TRUE /\ wd' = IF Running(w) THEN w ELSE Activated(w, works)
  /\ role' = IF role = "standby" THEN "promoting" ELSE role

\* With the key: the watchdog first, then the role.
EnforcePrimaryRole(w, works) ==
  LET ready == IF Running(w) THEN w ELSE Activated(w, works)
  IN IF Running(w) \/ Answer(ready)
     THEN /\ lock' = TRUE /\ wd' = ready
          /\ role' = IF role = "standby" THEN "promoting" ELSE role
     ELSE /\ lock' = FALSE /\ role' = "standby"
          /\ wd' = IF role = "primary" THEN Demoted(ready, works) ELSE ready

\* A healthy standby takes the key.
Race ==
  /\ role = "standby" /\ ~lock /\ ~paused /\ Healthy(wd)
  /\ \E works \in Outcomes : EnforcePrimaryRole(wd, works)
  /\ UNCHANGED <<paused, aborted, left>>

\* The key is updated and the watchdog fed.
LeaderCycle ==
  /\ role \in {"standby", "primary"} /\ lock
  /\ \E works \in Outcomes : EnforcePrimaryRole(Fed(wd, works), works)
  /\ paused' = FALSE /\ UNCHANGED <<aborted, left>>

\* While the promotion runs in the background.
LongActionCycle ==
  /\ role = "promoting"
  /\ \E works \in Outcomes : wd' = Fed(wd, works)
  /\ UNCHANGED <<role, lock, paused, aborted, left>>

\* In a paused cluster the watchdog is closed and fed no more, and only a primary keeps the key.
PausedCycle ==
  /\ \E works \in Outcomes : wd' = Disabled(wd, works)
  /\ lock' = (lock /\ role \in {"promoting", "primary"})
  /\ paused' = TRUE /\ aborted' = FALSE /\ UNCHANGED <<role, left>>

Resume ==
  /\ paused /\ ~lock /\ role = "standby"
  /\ paused' = FALSE /\ UNCHANGED <<wd, role, lock, aborted, left>>

Promoted ==
  /\ role = "promoting" /\ role' = "primary" /\ UNCHANGED <<wd, lock, paused, aborted, left>>

\* pre_promote fails, or the key is lost before the promotion: the node remains a standby.
Abort ==
  /\ role = "promoting" /\ Mishap
  /\ role' = "standby" /\ lock' = FALSE /\ aborted' = TRUE /\ UNCHANGED <<wd, paused>>

\* The key cannot be updated, or the leader hands it over.
LoseLock ==
  /\ lock /\ role = "primary" /\ ~paused /\ Mishap
  /\ \E works \in Outcomes : wd' = Demoted(wd, works)
  /\ role' = "standby" /\ lock' = FALSE /\ aborted' = FALSE /\ UNCHANGED paused

\* The DCS is down and failsafe mode keeps the primary.
FailsafeCycle ==
  /\ role = "primary" /\ lock /\ ~paused
  /\ \E works \in Outcomes : wd' = Fed(wd, works)
  /\ UNCHANGED <<role, lock, paused, aborted, left>>

CrashPostgres ==
  /\ role \in {"standby", "primary"} /\ ~paused /\ Mishap
  /\ role' = "down" /\ UNCHANGED <<wd, lock, paused, aborted>>

\* With the key a primary is just started again, unless primary_start_timeout is 0 and another is
\* there to take over; a standby is started as it was.
RecoverLeader ==
  /\ role = "down" /\ lock
  /\ \E works \in Outcomes :
       LET fed == Fed(wd, works)
       IN \/ role' = "primary" /\ lock' = TRUE /\ wd' = fed
          \/ role' = "standby" /\ lock' \in BOOLEAN /\ wd' = Disabled(fed, works)
  /\ paused' = FALSE /\ UNCHANGED <<aborted, left>>

\* Without the key it is started as a standby.
RecoverStandby ==
  /\ role = "down" /\ ~lock
  /\ \E works \in Outcomes : wd' = Disabled(wd, works)
  /\ role' = "standby" /\ paused' = FALSE /\ aborted' = FALSE /\ UNCHANGED <<lock, left>>

\* The start with the key failed.
PostRecover ==
  /\ role = "down" /\ lock
  /\ \E works \in Outcomes : wd' = Disabled(wd, works)
  /\ lock' = FALSE /\ paused' = FALSE /\ aborted' = FALSE /\ UNCHANGED <<role, left>>

Next ==
  \/ Reload \/ Race \/ LeaderCycle \/ LongActionCycle \/ PausedCycle \/ Resume \/ Promoted \/ Abort
  \/ LoseLock \/ FailsafeCycle \/ CrashPostgres \/ RecoverLeader \/ RecoverStandby \/ PostRecover

Spec == Init /\ [][Next]_vars

-----------------------------------------------------------------------------

\* Every variable has its type.
TypeOK ==
  /\ wd \in [config : Config, act : Config, active : BOOLEAN, open : SUBSET Device,
             impl : Device \cup {NoDevice}, timer : [Device -> Nat]]
  /\ role \in {"down", "standby", "promoting", "primary"}
  /\ {lock, paused, aborted} \subseteq BOOLEAN
  /\ left \in [reloads : 0 .. MaxReloads, mishaps : 0 .. MaxMishaps]

\* A machine is not reset for nothing: a device that is open is the one the facade feeds, in a node
\* that has the leader key and will update it, however the configuration changes (Watchdog._disable,
\* Ha.demote).  A node that gave up a promotion is the exception: nobody closes what it opened.
OnlyLeaderIsReset == \A d \in wd.open : d = wd.impl /\ wd.active /\ (lock \/ aborted)

\* After its cycle a primary in required mode has a watchdog that fires in time, whatever happened
\* to the configuration since it was promoted (Watchdog.keepalive, Ha.enforce_primary_role).
RequiredIsChecked ==
  [][LeaderCycle /\ role' = "primary" /\ Required(wd') => Safe(wd')]_vars

\* docs/watchdog.rst:16: If watchdog activation fails and watchdog mode is required then the node
\* will refuse to become leader.
RequiredRefuses ==
  [][role = "standby" /\ role' = "promoting" /\ Required(wd') => Safe(wd')]_vars
===============================================================================
