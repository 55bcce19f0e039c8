---------------------------- MODULE ControlProofs ----------------------------
(***************************************************************************)
(* Proofs about the parts beside the HA loop.                              *)
(*                                                                         *)
(* Watchdog: for any devices, timeouts, reloads and mishaps, when the      *)
(* driver only fails to open.  Each method takes a facade that is Sound to *)
(* one that is: what is open is the facade's own device, with the timeout  *)
(* of the configuration it was activated with, and is fed.  Who goes on    *)
(* without the leader key has closed it before.                            *)
(*                                                                         *)
(* Citus: for any number of workers and of their demotions and crashes.    *)
(* What the handler remembers of pg_dist_node can differ from the table    *)
(* only in the row that the task at work has written; a transaction that   *)
(* is open is that of the task, and differs from the table in its row.     *)
(*                                                                         *)
(* Health: for any TTL, loop_wait and time a request may take.  Who still  *)
(* believes to be the leader has the key, or has lost it for no longer     *)
(* than the answer to its last request was on its way.                     *)
(*                                                                         *)
(* Callbacks: what will be told last, when all that is under way has been  *)
(* done, says what postgres is, unless something else is still to be said. *)
(*                                                                         *)
(* Commands: for any nodes, operators and number of failures.  A request   *)
(* has a version: who has loaded it knows whether the key is still the     *)
(* same.  The leader that carries out a request, or will, holds the leader *)
(* key, and the request is there until it has done so.  Once a cluster is  *)
(* paused nobody loads the old configuration, and who has updated its key  *)
(* since has loaded the new one.                                           *)
(*                                                                         *)
(* Follow: for any members and any number of changes around the node, of   *)
(* PostgreSQL 13 or later.  As long as the times of the files are those    *)
(* that are remembered, so is what is in them, and what is in them is what *)
(* postgres runs; what was read at the beginning of a cycle is so until    *)
(* something happens.                                                      *)
(*                                                                         *)
(* Requests: for any etcd machines, of any settings that are configured.   *)
(* The settings keep the rule, a request has its type, and a round of      *)
(* machines has the time that was left for it.                             *)
(***************************************************************************)
EXTENDS MCControl, Integers, FiniteSetTheorems, SequenceTheorems, WellFoundedInduction, TLAPS

\* The driver does what it is told once a device is open, and the timeouts are such as it takes.
Drivers ==
  /\ Settable = Device /\ Closable = Device
  /\ {"set", "close"} \cap Stumbles = {} /\ 0 \notin FiresAfter

Facade == [config : Wat!Config, act : Wat!Config, active : BOOLEAN, open : SUBSET Device,
           impl : Device \cup {NoDevice}, timer : [Device -> Nat]]

\* What holds of the facade whatever is called of it: a device that is open is its own, with the
\* timeout of the configuration it was activated with; without a device there is nothing to feed.
Steady(w) ==
  /\ w \in Facade
  /\ w.open \subseteq {w.impl}
  /\ w.act.mode = "off" => w.impl = NoDevice
  /\ w.config.mode = "off" => w.act = w.config
  /\ Wat!Running(w) => w.timer[w.impl] = w.act.timeout

\* A device is fed.
Sound(w) == Steady(w) /\ (w.open # {} => w.active)

\* What is open is in a node that has the key, will have it, or gave up a promotion.
WatInv ==
  /\ Wat!TypeOK /\ Sound(wd)
  /\ wd.open # {} => lock \/ aborted
  /\ role = "promoting" => lock

\* What is assumed of the constants.
LEMMA WatConstants ==
  /\ NoDevice \notin Device
  /\ {Preset, LoopWait, MaxReloads, MaxMishaps} \subseteq Nat
  /\ FiresAfter \subseteq Nat
  BY ControlAssumption DEF ControlAssumption, Wat!WatchdogAssumption

\* The calls that can fail are those that open.
LEMMA OutcomeIs ==
  ASSUME Drivers, NEW works \in Wat!Outcomes PROVE "set" \in works /\ "close" \in works
  BY DEF Drivers, Wat!Outcomes

\* The fields of a facade.
LEMMA FacadeIs ==
  ASSUME NEW w \in Facade
  PROVE  /\ w = [config |-> w.config, act |-> w.act, active |-> w.active, open |-> w.open,
                 impl |-> w.impl, timer |-> w.timer]
         /\ w.config \in Wat!Config /\ w.act \in Wat!Config /\ w.active \in BOOLEAN
         /\ w.open \subseteq Device /\ w.impl \in Device \cup {NoDevice} /\ w.timer \in [Device -> Nat]
         /\ w.config.timeout \in FiresAfter /\ w.act.timeout \in FiresAfter
         /\ w.config.timeout \in Nat /\ w.act.timeout \in Nat
         /\ w.config.device \in Device /\ w.act.device \in Device
  <1>1. w.config \in Wat!Config /\ w.act \in Wat!Config /\ w.active \in BOOLEAN
        /\ w.open \subseteq Device /\ w.impl \in Device \cup {NoDevice} /\ w.timer \in [Device -> Nat]
    BY DEF Facade
  <1>2. w = [config |-> w.config, act |-> w.act, active |-> w.active, open |-> w.open,
             impl |-> w.impl, timer |-> w.timer]
    BY DEF Facade
  <1>3. \A c \in Wat!Config : c.timeout \in FiresAfter /\ c.timeout \in Nat /\ c.device \in Device
    BY WatConstants DEF Wat!Config
  <1> QED BY <1>1, <1>2, <1>3

\* A facade with one of its fields changed.
LEMMA ChangeOpen ==
  ASSUME NEW w \in Facade, NEW o
  PROVE  [w EXCEPT !.open = o] = [config |-> w.config, act |-> w.act, active |-> w.active, open |-> o, impl |-> w.impl, timer |-> w.timer]
  BY DEF Facade

LEMMA ChangeActive ==
  ASSUME NEW w \in Facade, NEW b
  PROVE  [w EXCEPT !.active = b] = [config |-> w.config, act |-> w.act, active |-> b, open |-> w.open, impl |-> w.impl, timer |-> w.timer]
  BY DEF Facade

LEMMA ChangeAct ==
  ASSUME NEW w \in Facade, NEW c
  PROVE  [w EXCEPT !.act = c] = [config |-> w.config, act |-> c, active |-> w.active, open |-> w.open, impl |-> w.impl, timer |-> w.timer]
  BY DEF Facade

LEMMA ChangeAdopt ==
  ASSUME NEW w \in Facade, NEW c, NEW i
  PROVE  [w EXCEPT !.act = c, !.impl = i] =
           [config |-> w.config, act |-> c, active |-> w.active, open |-> w.open, impl |-> i, timer |-> w.timer]
  <1> DEFINE v == [config |-> w.config, act |-> c, active |-> w.active, open |-> w.open, impl |-> w.impl,
                   timer |-> w.timer]
  <1>1. [w EXCEPT !.act = c] = v BY ChangeAct
  <1>2. [w EXCEPT !.act = c, !.impl = i] = [[w EXCEPT !.act = c] EXCEPT !.impl = i] OBVIOUS
  <1>3. [v EXCEPT !.impl = i] =
           [config |-> w.config, act |-> c, active |-> w.active, open |-> w.open, impl |-> i, timer |-> w.timer]
    OBVIOUS
  <1> QED BY <1>1, <1>2, <1>3

LEMMA ChangeImpl ==
  ASSUME NEW w \in Facade, NEW i
  PROVE  [w EXCEPT !.impl = i] = [config |-> w.config, act |-> w.act, active |-> w.active, open |-> w.open, impl |-> i, timer |-> w.timer]
  BY DEF Facade

LEMMA ChangeConfig ==
  ASSUME NEW w \in Facade, NEW c
  PROVE  [w EXCEPT !.config = c] = [config |-> c, act |-> w.act, active |-> w.active, open |-> w.open, impl |-> w.impl, timer |-> w.timer]
  BY DEF Facade

LEMMA ChangeTimer ==
  ASSUME NEW w \in Facade, NEW t
  PROVE  [w EXCEPT !.timer = t] =
           [config |-> w.config, act |-> w.act, active |-> w.active, open |-> w.open, impl |-> w.impl, timer |-> t]
  BY DEF Facade

\* Nothing is open, or the device of the facade, which then runs.
LEMMA RunningIs ==
  ASSUME NEW w, Steady(w)
  PROVE  /\ w.open = {} \/ (w.open = {w.impl} /\ w.impl \in Device)
         /\ Wat!Running(w) <=> w.open # {}
  BY FacadeIs DEF Steady, Wat!Running

\* disable() and close() of a device that can be closed.
LEMMA ClosedIs ==
  ASSUME Drivers, NEW w, Steady(w), NEW works \in Wat!Outcomes
  PROVE  Wat!Closed(w, works) = [w EXCEPT !.open = {}]
  <1>1. w \in Facade /\ w.open \subseteq Device BY FacadeIs DEF Steady
  <1>2. CASE w.open = {}
    <2>1. w = [w EXCEPT !.open = {}] BY <1>1, <1>2, FacadeIs
    <2> QED BY <1>2, <2>1 DEF Wat!Closed, Wat!Running
  <1>3. CASE w.open = {w.impl} /\ w.impl \in Device
    <2>1. [w EXCEPT !.open = @ \ {w.impl}] = [w EXCEPT !.open = {}] BY <1>1, <1>3, FacadeIs
    <2> QED BY <1>3, <2>1, OutcomeIs DEF Wat!Closed, Wat!Running, Drivers
  <1> QED BY <1>2, <1>3, RunningIs

\* Nothing else changes.
LEMMA ClosedSteady ==
  ASSUME Drivers, NEW w, Steady(w), NEW works \in Wat!Outcomes
  PROVE  /\ Steady(Wat!Closed(w, works)) /\ Wat!Closed(w, works).open = {}
         /\ Wat!Closed(w, works).config = w.config /\ Wat!Closed(w, works).act = w.act
         /\ Wat!Closed(w, works).active = w.active
  <1> DEFINE c == [w EXCEPT !.open = {}]
  <1>0. w \in Facade BY DEF Steady
  <1>1. c = [config |-> w.config, act |-> w.act, active |-> w.active, open |-> {},
             impl |-> w.impl, timer |-> w.timer]
    BY <1>0, ChangeOpen
  <1>2. c \in Facade BY <1>0, <1>1, FacadeIs DEF Facade
  <1>3. Steady(c) BY <1>1, <1>2 DEF Steady, Wat!Running
  <1>4. Wat!Closed(w, works) = c BY ClosedIs
  <1> QED BY <1>1, <1>3, <1>4

\* _activate() with nothing open: what is open after it is the device of the facade, with the
\* timeout that is configured.
LEMMA ReactivatedSteady ==
  ASSUME Drivers, NEW w \in Facade, w.open = {}, w.config.mode = "off" => w.impl = NoDevice,
         NEW works \in Wat!Outcomes
  PROVE  LET r == Wat!Reactivated(w, works)
         IN /\ Steady(r) /\ r.config = w.config /\ r.act = w.config /\ r.active = w.active
            /\ Wat!Running(r) => Wat!Safe(r)
  <1> DEFINE impl == IF w.config.timeout < LoopWait THEN NoDevice ELSE w.impl
             adopted == [w EXCEPT !.act = w.config, !.impl = impl]
             opened == Wat!Opened(adopted, works)
             set == Wat!TimeoutSet(opened, works)
             r == Wat!TooShortClosed(set, works)
             base(i, o, t) == [config |-> w.config, act |-> w.config, active |-> w.active,
                               open |-> o, impl |-> i, timer |-> t]
  <1>1. r = Wat!Reactivated(w, works) BY DEF Wat!Reactivated
  <1>2. impl \in Device \cup {NoDevice} BY FacadeIs
  <1>3. impl \in Device => impl = w.impl /\ ~(w.config.timeout < LoopWait) BY WatConstants
  <1> HIDE DEF impl
  <1>4. adopted = base(impl, w.open, w.timer) BY ChangeAdopt
  <1>5. CASE impl = NoDevice \/ "open" \notin works
    <2>1. opened = base(NoDevice, {}, w.timer) BY <1>4, <1>5 DEF Wat!Opened
    <2>2. set = opened BY <2>1 DEF Wat!TimeoutSet, Wat!Running
    <2>3. r = opened BY <2>1, <2>2 DEF Wat!TooShortClosed, Wat!Running
    <2>4. r \in Facade BY <2>1, <2>3, FacadeIs DEF Facade
    <2>5. Steady(r) BY <2>1, <2>3, <2>4 DEF Steady, Wat!Running
    <2> QED BY <1>1, <2>1, <2>3, <2>5 DEF Wat!Running
  <1>6. CASE impl \in Device /\ "open" \in works
    <2>1. opened = base(impl, {impl}, w.timer) BY <1>4, <1>6, WatConstants DEF Wat!Opened
    <2>2. w.config.timeout \in Nat /\ w.config.timeout > 0 BY FacadeIs DEF Drivers
    <2> DEFINE timer == [w.timer EXCEPT ![impl] = w.config.timeout]
    <2>3. timer \in [Device -> Nat] /\ timer[impl] = w.config.timeout BY <1>6, <2>2, FacadeIs
    <2>4. set = base(impl, {impl}, timer)
      <3>1. set = [opened EXCEPT !.timer[impl] = w.config.timeout]
        BY <1>6, <2>1, <2>2, OutcomeIs DEF Wat!TimeoutSet, Wat!Running, Drivers
      <3> QED BY <2>1, <3>1
    <2>5. w.config.timeout >= LoopWait BY <1>3, <1>6, <2>2, WatConstants
    <2>6. r = set BY <2>3, <2>4, <2>5 DEF Wat!TooShortClosed
    <2>7. r \in Facade BY <1>6, <2>3, <2>4, <2>6, FacadeIs DEF Facade
    <2>8. w.config.mode # "off" BY <1>3, <1>6, WatConstants
    <2>9. Steady(r) BY <2>3, <2>4, <2>6, <2>7, <2>8 DEF Steady
    <2>10. Wat!Safe(r) BY <2>2, <2>3, <2>4, <2>6 DEF Wat!Safe, Wat!Running
    <2> QED BY <1>1, <2>4, <2>6, <2>9, <2>10
  <1> QED BY <1>2, <1>5, <1>6

\* activate(): as before, and it is fed from now on.
LEMMA ActivatedSound ==
  ASSUME Drivers, NEW w, Sound(w), ~Wat!Running(w), NEW works \in Wat!Outcomes
  PROVE  LET a == Wat!Activated(w, works)
         IN /\ Sound(a) /\ a.active
            /\ Wat!Running(a) => Wat!Safe(a)
            /\ ~Wat!Running(a) => ~Wat!Answer(a) \/ ~Wat!Required(a)
  <1> DEFINE r == Wat!Reactivated(w, works)
             a == [r EXCEPT !.active = TRUE]
  <1>1. w \in Facade /\ w.open = {} /\ (w.config.mode = "off" => w.impl = NoDevice)
    BY RunningIs DEF Sound, Steady
  <1>2. Steady(r) /\ (Wat!Running(r) => Wat!Safe(r)) BY <1>1, ReactivatedSteady
  <1>0. r \in Facade BY <1>2 DEF Steady
  <1> HIDE DEF r
  <1>3. a = [config |-> r.config, act |-> r.act, active |-> TRUE, open |-> r.open,
             impl |-> r.impl, timer |-> r.timer]
    BY <1>0, ChangeActive
  <1>4. a \in Facade BY <1>0, <1>3, FacadeIs DEF Facade
  <1>5. Steady(a) BY <1>2, <1>3, <1>4 DEF Steady, Wat!Running
  <1>6. Wat!Running(a) => Wat!Safe(a) BY <1>2, <1>3 DEF Wat!Running, Wat!Safe
  <1>7. a = Wat!Activated(w, works) BY DEF Wat!Activated, r
  <1> QED BY <1>3, <1>5, <1>6, <1>7 DEF Sound, Wat!Answer, Wat!Safe

\* disable(): nothing is open, and nothing is fed.
LEMMA DisabledSound ==
  ASSUME Drivers, NEW w, Sound(w), NEW works \in Wat!Outcomes
  PROVE  Sound(Wat!Disabled(w, works)) /\ Wat!Disabled(w, works).open = {}
  <1> DEFINE c == Wat!Closed(w, works)
             d == [c EXCEPT !.active = FALSE]
  <1>1. Steady(c) /\ c.open = {} BY ClosedSteady DEF Sound
  <1>0. c \in Facade BY <1>1 DEF Steady
  <1> HIDE DEF c
  <1>2. d = [config |-> c.config, act |-> c.act, active |-> FALSE, open |-> {},
             impl |-> c.impl, timer |-> c.timer]
    BY <1>0, <1>1, ChangeActive
  <1>3. d \in Facade BY <1>0, <1>2, FacadeIs DEF Facade
  <1>4. Steady(d) BY <1>1, <1>2, <1>3 DEF Steady, Wat!Running
  <1>5. d = Wat!Disabled(w, works) BY DEF Wat!Disabled, c
  <1> QED BY <1>2, <1>4, <1>5 DEF Sound

\* So it is after a demotion.
LEMMA DemotedSound ==
  ASSUME Drivers, NEW w, Sound(w), NEW works \in Wat!Outcomes
  PROVE  Sound(Wat!Demoted(w, works)) /\ Wat!Demoted(w, works).open = {}
  <1>1. ~Wat!Running(w) => w.open = {} BY RunningIs DEF Sound
  <1> QED BY <1>1, DisabledSound DEF Wat!Demoted

\* keepalive(): a watchdog that was turned on is activated,
LEMMA TurnedOnSteady ==
  ASSUME Drivers, NEW w, Sound(w), w.active, NEW works \in Wat!Outcomes
  PROVE  LET t == Wat!TurnedOn(w, works)
         IN /\ Sound(t) /\ t.active /\ t.config = w.config
            /\ t.act.mode = "off" => t.config.mode = "off"
  <1> DEFINE v == [w EXCEPT !.impl = w.config.device]
  <1>1. CASE w.config.mode # "off" /\ w.act.mode = "off"
    <2>1. w \in Facade BY DEF Sound, Steady
    <2>2. w.open = {} BY <1>1, RunningIs, WatConstants DEF Sound, Steady
    <2>3. v = [config |-> w.config, act |-> w.act, active |-> w.active, open |-> {},
               impl |-> w.config.device, timer |-> w.timer]
      BY <2>1, <2>2, ChangeImpl
    <2>4. v \in Facade BY <2>1, <2>3, FacadeIs DEF Facade
    <2> HIDE DEF v
    <2>5. v.open = {} /\ v.config = w.config /\ v.active BY <2>3
    <2> DEFINE r == Wat!Reactivated(v, works)
    <2>6. Steady(r) /\ r.config = w.config /\ r.act = w.config /\ r.active
      BY <1>1, <2>4, <2>5, ReactivatedSteady
    <2>7. r = Wat!TurnedOn(w, works) BY <1>1 DEF Wat!TurnedOn, v
    <2> QED BY <2>6, <2>7 DEF Sound
  <1>2. CASE ~(w.config.mode # "off" /\ w.act.mode = "off")
    BY <1>2 DEF Wat!TurnedOn
  <1> QED BY <1>1, <1>2

\* a device that is replaced is closed before,
LEMMA ReplacedSteady ==
  ASSUME Drivers, NEW w, Sound(w), w.active, w.act.mode = "off" => w.config.mode = "off",
         NEW works \in Wat!Outcomes
  PROVE  LET t == Wat!Replaced(w, works)
         IN Sound(t) /\ t.active /\ t.config = w.config /\ (t.act.mode = "off" => t.config.mode = "off")
  <1> DEFINE c == Wat!Closed(w, works)
             v == [c EXCEPT !.impl = w.config.device]
  <1>1. CASE w.config.device # w.act.device
    <2>1. Steady(c) /\ c.open = {} /\ c.config = w.config /\ c.act = w.act /\ c.active
      BY ClosedSteady DEF Sound
    <2>2. c \in Facade /\ w \in Facade BY <2>1 DEF Sound, Steady
    <2> HIDE DEF c
    <2>3. v = [config |-> c.config, act |-> c.act, active |-> c.active, open |-> c.open,
               impl |-> w.config.device, timer |-> c.timer]
      BY <2>2, ChangeImpl
    <2>4. v \in Facade BY <2>2, <2>3, FacadeIs DEF Facade
    <2>5. v.open = {} /\ v.config = w.config /\ v.active BY <2>1, <2>3
    <2> HIDE DEF v
    <2> DEFINE r == Wat!Reactivated(v, works)
    <2>6. Wat!Replaced(w, works) = r BY <1>1 DEF Wat!Replaced, v, c
    <2>7. w.config.mode # "off" BY <1>1 DEF Sound, Steady
    <2>8. Steady(r) /\ r.config = w.config /\ r.act = w.config /\ r.active BY <2>4, <2>5, <2>7, ReactivatedSteady
    <2> QED BY <2>6, <2>8 DEF Sound
  <1>2. CASE w.config.device = w.act.device
    BY <1>2 DEF Wat!Replaced
  <1> QED BY <1>1, <1>2

\* and one whose timeout was changed gets it.
LEMMA AdjustedSteady ==
  ASSUME Drivers, NEW w, Sound(w), w.active, w.act.mode = "off" => w.config.mode = "off",
         NEW works \in Wat!Outcomes
  PROVE  LET t == Wat!Adjusted(w, works)
         IN Sound(t) /\ t.active /\ (Wat!Running(t) => Wat!Safe(t))
  <1> DEFINE timer == [w.timer EXCEPT ![w.impl] = w.config.timeout]
             v == [w EXCEPT !.act = w.config]
             u == [w EXCEPT !.timer[w.impl] = w.config.timeout, !.act = w.config]
             s == [config |-> w.config, act |-> w.act, active |-> w.active, open |-> w.open,
                   impl |-> w.impl, timer |-> timer]
  <1>1. w \in Facade /\ w.config.timeout \in Nat /\ w.config.timeout > 0
    BY FacadeIs DEF Sound, Steady, Drivers
  <1>2. CASE w.config.timeout = w.act.timeout
    <2>1. v = [config |-> w.config, act |-> w.config, active |-> w.active, open |-> w.open,
               impl |-> w.impl, timer |-> w.timer]
      BY <1>1, ChangeAct
    <2>2. v \in Facade BY <1>1, <2>1, FacadeIs DEF Facade
    <2> HIDE DEF v
    <2>3. Sound(v) BY <1>2, <2>1, <2>2 DEF Sound, Steady, Wat!Running
    <2>4. Wat!Running(v) => Wat!Safe(v)
      BY <1>1, <1>2, <2>1 DEF Sound, Steady, Wat!Running, Wat!Safe
    <2>5. v = Wat!Adjusted(w, works) BY <1>2 DEF Wat!Adjusted, v
    <2>6. v.active BY <2>1
    <2> QED BY <2>3, <2>4, <2>5, <2>6
  <1>3. CASE w.config.timeout # w.act.timeout /\ Wat!Running(w)
    <2>1. w.impl \in Device BY <1>3, RunningIs DEF Sound
    <2>2. u = [config |-> w.config, act |-> w.config, active |-> w.active, open |-> w.open,
               impl |-> w.impl, timer |-> timer]
      <3>1. [w EXCEPT !.timer = timer] = s BY <1>1, ChangeTimer
      <3>0. [w EXCEPT !.timer[w.impl] = w.config.timeout] = [w EXCEPT !.timer = timer] OBVIOUS
      <3>2. u = [[w EXCEPT !.timer[w.impl] = w.config.timeout] EXCEPT !.act = w.config] OBVIOUS
      <3> HIDE DEF u, timer
      <3> QED BY <3>0, <3>1, <3>2
    <2>3. timer \in [Device -> Nat] /\ timer[w.impl] = w.config.timeout BY <1>1, <2>1, FacadeIs
    <2> HIDE DEF timer
    <2>4. u \in Facade BY <1>1, <2>2, <2>3, FacadeIs DEF Facade
    <2>5. u = Wat!Adjusted(w, works) BY <1>1, <1>3, <2>1, OutcomeIs DEF Wat!Adjusted, Drivers
    <2> HIDE DEF u
    <2>6. Sound(u) BY <2>2, <2>3, <2>4 DEF Sound, Steady, Wat!Running
    <2>7. Wat!Safe(u) BY <1>1, <1>3, <2>2, <2>3 DEF Wat!Running, Wat!Safe
    <2> QED BY <2>2, <2>5, <2>6, <2>7
  <1>4. CASE w.config.timeout # w.act.timeout /\ ~Wat!Running(w)
    BY <1>4 DEF Wat!Adjusted
  <1> QED BY <1>2, <1>3, <1>4

\* So a device that is fed fires in time.
LEMMA FedSound ==
  ASSUME Drivers, NEW w, Sound(w), NEW works \in Wat!Outcomes
  PROVE  LET f == Wat!Fed(w, works) IN Sound(f) /\ (Wat!Running(f) => Wat!Safe(f))
  <1> DEFINE t == Wat!TurnedOn(w, works)
             r == Wat!Replaced(t, works)
  <1>1. CASE w.active /\ w.config # w.act
    <2>1. Sound(t) /\ t.active /\ (t.act.mode = "off" => t.config.mode = "off")
      BY <1>1, TurnedOnSteady
    <2> HIDE DEF t
    <2>3. Sound(r) /\ r.active /\ (r.act.mode = "off" => r.config.mode = "off")
      BY <2>1, ReplacedSteady
    <2> HIDE DEF r
    <2>4. Wat!Fed(w, works) = Wat!Adjusted(r, works) BY <1>1 DEF Wat!Fed, r, t
    <2> QED BY <2>3, <2>4, AdjustedSteady
  <1>2. CASE ~w.active
    <2>1. Wat!Fed(w, works) = w BY <1>2 DEF Wat!Fed
    <2> QED BY <1>2, <2>1, RunningIs DEF Sound
  <1>3. CASE w.config = w.act
    <2>1. Wat!Fed(w, works) = w BY <1>3 DEF Wat!Fed
    <2>2. Wat!Running(w) => Wat!Safe(w)
      BY <1>3, FacadeIs DEF Sound, Steady, Wat!Safe
    <2> QED BY <2>1, <2>2
  <1> QED BY <1>1, <1>2, <1>3

\* reload_config(), while inactive and while active: it opens nothing.
LEMMA ReloadedSound ==
  ASSUME Drivers, NEW w, Sound(w), NEW c \in Wat!Config, NEW works \in Wat!Outcomes
  PROVE  LET r == Wat!Reloaded(w, c, works) IN Sound(r) /\ (r.open # {} => w.open # {})
  <1> DEFINE k == IF w.active THEN Wat!Closed(w, works) ELSE w
             off == [k EXCEPT !.config = c, !.act = c, !.impl = NoDevice]
             on == [w EXCEPT !.config = c]
             turned == IF c.mode = "off" THEN off ELSE on
             given == [turned EXCEPT !.act = c, !.impl = IF c.device # turned.act.device THEN c.device ELSE @]
  <1>1. w \in Facade /\ c.device \in Device BY DEF Sound, Steady, Wat!Config
  <1>2. Steady(k) /\ k.active = w.active /\ k.open = {}
    BY ClosedSteady, RunningIs DEF Sound
  <1>3. k \in Facade BY <1>2 DEF Steady
  <1> HIDE DEF k
  <1>4. off = [config |-> c, act |-> c, active |-> k.active, open |-> k.open, impl |-> NoDevice, timer |-> k.timer]
    <2>1. [k EXCEPT !.config = c] = [config |-> c, act |-> k.act, active |-> k.active, open |-> k.open,
                                     impl |-> k.impl, timer |-> k.timer]
      BY <1>3, ChangeConfig
    <2>2. off = [[[k EXCEPT !.config = c] EXCEPT !.act = c] EXCEPT !.impl = NoDevice] OBVIOUS
    <2>3. [[config |-> c, act |-> k.act, active |-> k.active, open |-> k.open,
            impl |-> k.impl, timer |-> k.timer] EXCEPT !.act = c] =
            [config |-> c, act |-> c, active |-> k.active, open |-> k.open, impl |-> k.impl, timer |-> k.timer]
      OBVIOUS
    <2>4. [[config |-> c, act |-> c, active |-> k.active, open |-> k.open,
            impl |-> k.impl, timer |-> k.timer] EXCEPT !.impl = NoDevice] =
            [config |-> c, act |-> c, active |-> k.active, open |-> k.open, impl |-> NoDevice, timer |-> k.timer]
      OBVIOUS
    <2> HIDE DEF off
    <2> QED BY <2>1, <2>2, <2>3, <2>4
  <1>5. on = [config |-> c, act |-> w.act, active |-> w.active, open |-> w.open, impl |-> w.impl, timer |-> w.timer]
    BY <1>1, ChangeConfig
  <1>6. off \in Facade /\ on \in Facade BY <1>1, <1>3, <1>4, <1>5, FacadeIs DEF Facade
  <1> HIDE DEF off, on
  <1>7. off.open = {} /\ off.config = c /\ off.act = c /\ off.impl = NoDevice /\ off.active = w.active
        /\ Sound(off)
    BY <1>2, <1>4, <1>6 DEF Sound, Steady, Wat!Running
  <1>8. CASE w.active /\ c.mode # "off"
    <2>1. Wat!Reloaded(w, c, works) = on BY <1>8 DEF Wat!Reloaded, on
    <2>2. Sound(on) BY <1>5, <1>6, <1>8 DEF Sound, Steady, Wat!Running
    <2> QED BY <1>5, <2>1, <2>2
  <1>9. CASE w.active /\ c.mode = "off"
    <2>1. Wat!Reloaded(w, c, works) = off BY <1>9 DEF Wat!Reloaded, off, k
    <2> QED BY <1>7, <2>1
  <1>10. CASE ~w.active
    <2>1. turned \in Facade /\ turned.open = {} /\ turned.config = c /\ turned.impl \in Device \cup {NoDevice}
          /\ turned.active = w.active
      BY <1>5, <1>6, <1>7, <1>10, FacadeIs DEF Sound
    <2>2. c.mode = "off" => turned.impl = NoDevice /\ turned.act = c BY <1>7
    <2>3. Wat!Reloaded(w, c, works) = given BY <1>10 DEF Wat!Reloaded, given, turned, off, on, k
    <2> HIDE DEF turned
    <2> DEFINE i == IF c.device # turned.act.device THEN c.device ELSE turned.impl
    <2>4. given = [config |-> turned.config, act |-> c, active |-> turned.active, open |-> turned.open,
                   impl |-> i, timer |-> turned.timer]
      <3>1. given = [turned EXCEPT !.act = c, !.impl = i] BY <2>1 DEF Facade
      <3> HIDE DEF given, i
      <3> QED BY <2>1, <3>1, ChangeAdopt
    <2>5. i \in Device \cup {NoDevice} /\ (c.mode = "off" => i = NoDevice) BY <1>1, <2>1, <2>2
    <2> HIDE DEF given, i
    <2>6. given \in Facade BY <2>1, <2>4, <2>5, FacadeIs DEF Facade
    <2>7. Sound(given) BY <2>1, <2>4, <2>5, <2>6 DEF Sound, Steady, Wat!Running
    <2> QED BY <2>1, <2>3, <2>4, <2>7
  <1> QED BY <1>8, <1>9, <1>10

\* enforce_primary_role() with a facade that is sound: a node that goes on without the key has
\* nothing open, and one that goes on with it in required mode is safe if it was fed.
LEMMA EnforceSound ==
  ASSUME Drivers, NEW w, Sound(w), NEW works \in Wat!Outcomes, Wat!EnforcePrimaryRole(w, works),
         role \in {"standby", "primary"}
  PROVE  /\ Sound(wd') /\ lock' \in BOOLEAN /\ role' \in {"standby", "promoting", "primary"}
         /\ wd'.open # {} \/ role' = "promoting" => lock'
         /\ (Wat!Running(w) => Wat!Safe(w)) /\ role' = "primary" /\ Wat!Required(wd') => Wat!Safe(wd')
  <1> DEFINE ready == IF Wat!Running(w) THEN w ELSE Wat!Activated(w, works)
  <1>1. Sound(ready) /\ (~Wat!Running(w) => (Wat!Running(ready) => Wat!Safe(ready)))
    BY ActivatedSound
  <1>2. CASE Wat!Running(w) \/ Wat!Answer(ready)
    <2>1. wd' = ready /\ lock' = TRUE /\ role' = IF role = "standby" THEN "promoting" ELSE role
      BY <1>2 DEF Wat!EnforcePrimaryRole
    <2>2. CASE Wat!Running(w) BY <1>1, <2>1, <2>2
    <2>3. CASE ~Wat!Running(w) /\ Wat!Answer(ready) BY <1>1, <2>1, <2>3 DEF Wat!Answer
    <2> QED BY <1>2, <2>2, <2>3
  <1>3. CASE ~(Wat!Running(w) \/ Wat!Answer(ready))
    <2>1. lock' = FALSE /\ role' = "standby"
          /\ wd' = IF role = "primary" THEN Wat!Demoted(ready, works) ELSE ready
      BY <1>3 DEF Wat!EnforcePrimaryRole
    <2> HIDE DEF ready
    <2>2. ready.open = {} BY <1>1, <1>3, RunningIs DEF Wat!Answer, Sound
    <2>3. Sound(wd') /\ wd'.open = {} BY <1>1, <2>1, <2>2, DemotedSound
    <2> QED BY <2>1, <2>3
  <1> QED BY <1>2, <1>3

\* In the beginning nothing is open.
LEMMA WatInit == Wat!Init => WatInv
  <1> SUFFICES ASSUME Wat!Init PROVE WatInv OBVIOUS
  <1>1. PICK c \in Wat!Config :
          wd = [config |-> c, act |-> c, active |-> FALSE, open |-> {},
                impl |-> IF c.mode = "off" THEN NoDevice ELSE c.device,
                timer |-> [d \in Device |-> Preset]]
    BY DEF Wat!Init
  <1>2. c.device \in Device BY DEF Wat!Config
  <1>3. [d \in Device |-> Preset] \in [Device -> Nat] BY WatConstants
  <1>4. wd \in Facade BY <1>1, <1>2, <1>3 DEF Facade
  <1>5. Sound(wd) /\ wd.open = {} BY <1>1, <1>4 DEF Sound, Steady, Wat!Running
  <1>6. left \in [reloads : 0 .. MaxReloads, mishaps : 0 .. MaxMishaps] BY WatConstants DEF Wat!Init
  <1>7. role = "standby" /\ lock = FALSE /\ paused = FALSE /\ aborted = FALSE BY DEF Wat!Init
  <1>8. Wat!TypeOK BY <1>4, <1>6, <1>7 DEF Wat!TypeOK, Facade
  <1> QED BY <1>5, <1>7, <1>8 DEF WatInv

\* The counters of what may happen.
LEMMA LeftType ==
  ASSUME left \in [reloads : 0 .. MaxReloads, mishaps : 0 .. MaxMishaps]
  PROVE  /\ Wat!Mishap => left' \in [reloads : 0 .. MaxReloads, mishaps : 0 .. MaxMishaps]
         /\ left.reloads > 0 /\ left' = [left EXCEPT !.reloads = @ - 1]
              => left' \in [reloads : 0 .. MaxReloads, mishaps : 0 .. MaxMishaps]
  BY WatConstants DEF Wat!Mishap

\* The cycle of a leader, in which the device is fed first.
LEMMA LeaderStep ==
  ASSUME Drivers, WatInv, Wat!LeaderCycle
  PROVE  /\ Sound(wd') /\ lock' \in BOOLEAN /\ role' \in {"standby", "promoting", "primary"}
         /\ wd'.open # {} \/ role' = "promoting" => lock'
         /\ role' = "primary" /\ Wat!Required(wd') => Wat!Safe(wd')
  <1>1. PICK works \in Wat!Outcomes : Wat!EnforcePrimaryRole(Wat!Fed(wd, works), works)
    BY DEF Wat!LeaderCycle
  <1> DEFINE fed == Wat!Fed(wd, works)
  <1>2. Sound(fed) /\ (Wat!Running(fed) => Wat!Safe(fed)) BY FedSound DEF WatInv
  <1>3. Wat!EnforcePrimaryRole(fed, works) /\ role \in {"standby", "primary"} BY <1>1 DEF Wat!LeaderCycle
  <1> HIDE DEF fed
  <1> QED BY <1>2, <1>3, EnforceSound

\* Every step keeps the facade sound.
LEMMA WatStep ==
  ASSUME Drivers, WatInv, Wat!Next
  PROVE  WatInv'
  <1> DEFINE Left == [reloads : 0 .. MaxReloads, mishaps : 0 .. MaxMishaps]
             Role == {"down", "standby", "promoting", "primary"}
             Kept == /\ Sound(wd') /\ (wd'.open # {} => lock' \/ aborted')
                     /\ role' \in Role /\ (role' = "promoting" => lock')
                     /\ lock' \in BOOLEAN /\ paused' \in BOOLEAN /\ aborted' \in BOOLEAN /\ left' \in Left
  <1>0. /\ Sound(wd) /\ (wd.open # {} => lock \/ aborted)
        /\ role \in Role /\ (role = "promoting" => lock)
        /\ lock \in BOOLEAN /\ paused \in BOOLEAN /\ aborted \in BOOLEAN /\ left \in Left
    BY DEF WatInv, Wat!TypeOK
  <1>1. Kept => WatInv'
    BY DEF WatInv, Wat!TypeOK, Sound, Steady, Facade
  <1> SUFFICES Kept BY <1>1
  <1>2. CASE Wat!Reload
    <2>1. PICK c \in Wat!Config, works \in Wat!Outcomes : wd' = Wat!Reloaded(wd, c, works)
      BY <1>2 DEF Wat!Reload
    <2>2. Sound(wd') /\ (wd'.open # {} => wd.open # {}) BY <1>0, <2>1, ReloadedSound
    <2>3. left' \in Left BY <1>0, <1>2, LeftType DEF Wat!Reload
    <2> QED BY <1>0, <1>2, <2>2, <2>3 DEF Wat!Reload
  <1>3. CASE Wat!Race
    <2>1. PICK works \in Wat!Outcomes : Wat!EnforcePrimaryRole(wd, works) BY <1>3 DEF Wat!Race
    <2>2. /\ Sound(wd') /\ lock' \in BOOLEAN /\ role' \in {"standby", "promoting", "primary"}
          /\ wd'.open # {} \/ role' = "promoting" => lock'
      BY <1>0, <1>3, <2>1, EnforceSound DEF Wat!Race
    <2> QED BY <1>0, <1>3, <2>2 DEF Wat!Race
  <1>4. CASE Wat!LeaderCycle
    BY <1>0, <1>4, LeaderStep DEF Wat!LeaderCycle
  <1>5. CASE Wat!LongActionCycle \/ Wat!FailsafeCycle
    <2>1. PICK works \in Wat!Outcomes : wd' = Wat!Fed(wd, works)
      BY <1>5 DEF Wat!LongActionCycle, Wat!FailsafeCycle
    <2>2. Sound(wd') BY <1>0, <2>1, FedSound
    <2> QED BY <1>0, <1>5, <2>2 DEF Wat!LongActionCycle, Wat!FailsafeCycle
  <1>6. CASE Wat!PausedCycle \/ Wat!RecoverStandby \/ Wat!PostRecover
    <2>1. PICK works \in Wat!Outcomes : wd' = Wat!Disabled(wd, works)
      BY <1>6 DEF Wat!PausedCycle, Wat!RecoverStandby, Wat!PostRecover
    <2>2. Sound(wd') /\ wd'.open = {} BY <1>0, <2>1, DisabledSound
    <2> QED BY <1>0, <1>6, <2>2 DEF Wat!PausedCycle, Wat!RecoverStandby, Wat!PostRecover
  <1>7. CASE Wat!Resume \/ Wat!Promoted
    BY <1>0, <1>7 DEF Wat!Resume, Wat!Promoted
  <1>8. CASE Wat!Abort \/ Wat!CrashPostgres
    <2>1. left' \in Left BY <1>0, <1>8, LeftType DEF Wat!Abort, Wat!CrashPostgres
    <2> QED BY <1>0, <1>8, <2>1 DEF Wat!Abort, Wat!CrashPostgres
  <1>9. CASE Wat!LoseLock
    <2>1. PICK works \in Wat!Outcomes : wd' = Wat!Demoted(wd, works) BY <1>9 DEF Wat!LoseLock
    <2>2. Sound(wd') /\ wd'.open = {} BY <1>0, <2>1, DemotedSound
    <2>3. left' \in Left BY <1>0, <1>9, LeftType DEF Wat!LoseLock
    <2> QED BY <1>0, <1>9, <2>2, <2>3 DEF Wat!LoseLock
  <1>10. CASE Wat!RecoverLeader
    <2>1. PICK works \in Wat!Outcomes :
            LET fed == Wat!Fed(wd, works)
            IN \/ role' = "primary" /\ lock' = TRUE /\ wd' = fed
               \/ role' = "standby" /\ lock' \in BOOLEAN /\ wd' = Wat!Disabled(fed, works)
      BY <1>10 DEF Wat!RecoverLeader
    <2>2. Sound(Wat!Fed(wd, works)) BY <1>0, FedSound
    <2>3. Sound(wd') /\ lock' \in BOOLEAN /\ (wd'.open # {} => lock') /\ role' \in {"standby", "primary"}
      BY <2>1, <2>2, DisabledSound
    <2> QED BY <1>0, <1>10, <2>3 DEF Wat!RecoverLeader
  <1> QED BY <1>2, <1>3, <1>4, <1>5, <1>6, <1>7, <1>8, <1>9, <1>10 DEF Wat!Next

-----------------------------------------------------------------------------
\* The invariant of the watchdog, in the system in which the parts are side by side.
LEMMA WatAlways == ASSUME Drivers PROVE Spec => [](part = "watchdog" => WatInv)
  <1>1. Init => (part = "watchdog" => WatInv) BY WatInit DEF Init
  <1>2. (part = "watchdog" => WatInv) /\ [Next]_allVars => (part = "watchdog" => WatInv)'
    <2> SUFFICES ASSUME part = "watchdog" => WatInv, [Next]_allVars, part' = "watchdog" PROVE WatInv' OBVIOUS
    <2>1. CASE UNCHANGED allVars
      BY <2>1 DEF allVars, watVars, WatInv, Wat!TypeOK, Sound, Steady, Wat!Running
    <2>2. CASE Next
      <3>1. part = "watchdog" /\ Wat!Next BY <2>2 DEF Next
      <3> QED BY <3>1, WatStep
    <2> QED BY <2>1, <2>2
  <1> QED BY <1>1, <1>2, PTL DEF Spec

\* A machine is not reset for nothing: a device that is open is the one the facade feeds, in a node that
\* has the leader key, whatever the operator reloads (Watchdog._disable, Ha.demote).
THEOREM WatchdogFeedsLeader == ASSUME Drivers PROVE Spec => []OnlyLeaderIsReset
  <1>1. (part = "watchdog" => WatInv) => OnlyLeaderIsReset
    BY RunningIs DEF WatInv, Sound, OnlyLeaderIsReset, Wat!OnlyLeaderIsReset
  <1> QED BY <1>1, WatAlways, PTL

\* After its cycle a primary in required mode has a watchdog that fires in time (Watchdog.keepalive).
THEOREM WatchdogIsSafe == ASSUME Drivers PROVE Spec => RequiredIsChecked
  <1> DEFINE Checked == Wat!LeaderCycle /\ role' = "primary" /\ Wat!Required(wd') => Wat!Safe(wd')
  <1>1. (part = "watchdog" => WatInv) /\ [Next]_allVars => [Checked]_watVars
    <2> SUFFICES ASSUME part = "watchdog" => WatInv, [Next]_allVars, watVars' # watVars PROVE Checked OBVIOUS
    <2>1. Next BY DEF allVars
    <2>2. part = "watchdog" BY <2>1 DEF Next, watVars
    <2> QED BY <2>2, LeaderStep
  <1> HIDE DEF Checked
  <1>2. Spec => [][Checked]_watVars BY <1>1, WatAlways, PTL DEF Spec
  <1> QED BY <1>2 DEF RequiredIsChecked, Wat!RequiredIsChecked, Checked, watVars, Wat!vars

\* Whatever the driver does, what the methods make of a facade is one.
LEMMA StillFacade ==
  ASSUME NEW w \in Facade
  PROVE  /\ \A o \in SUBSET Device : [w EXCEPT !.open = o] \in Facade
         /\ \A b \in BOOLEAN : [w EXCEPT !.active = b] \in Facade
         /\ \A c \in Wat!Config : [w EXCEPT !.act = c] \in Facade /\ [w EXCEPT !.config = c] \in Facade
         /\ \A i \in Device \cup {NoDevice} : [w EXCEPT !.impl = i] \in Facade
         /\ \A t \in [Device -> Nat] : [w EXCEPT !.timer = t] \in Facade
         /\ \A d \in Device : w.open \cup {d} \subseteq Device /\ w.open \ {d} \subseteq Device
  BY FacadeIs DEF Facade

\* close(), _activate(), disable(), activate(), keepalive() and reload_config() of any facade.
LEMMA ClosedFacade ==
  ASSUME NEW w \in Facade, NEW works PROVE Wat!Closed(w, works) \in Facade
  <1>1. w.open \ {w.impl} \in SUBSET Device BY FacadeIs
  <1>2. [w EXCEPT !.open = @ \ {w.impl}] \in Facade BY <1>1, StillFacade
  <1> QED BY <1>2 DEF Wat!Closed

LEMMA ReactivatedFacade ==
  ASSUME NEW w \in Facade, NEW works PROVE Wat!Reactivated(w, works) \in Facade
  <1> DEFINE impl == IF w.config.timeout < LoopWait THEN NoDevice ELSE w.impl
             adopted == [w EXCEPT !.act = w.config, !.impl = impl]
             opened == Wat!Opened(adopted, works)
             set == Wat!TimeoutSet(opened, works)
  <1>1. adopted \in Facade
    <2>1. impl \in Device \cup {NoDevice} BY FacadeIs
    <2> HIDE DEF impl
    <2>2. adopted = [[w EXCEPT !.act = w.config] EXCEPT !.impl = impl] OBVIOUS
    <2> HIDE DEF adopted
    <2>3. [w EXCEPT !.act = w.config] \in Facade BY StillFacade, FacadeIs
    <2> QED BY <2>1, <2>2, <2>3, StillFacade
  <1>2. Wat!Reactivated(w, works) = Wat!TooShortClosed(set, works) BY DEF Wat!Reactivated
  <1> HIDE DEF adopted
  <1>3. opened \in Facade
    <2>1. adopted.impl \in Device => [adopted EXCEPT !.open = @ \cup {adopted.impl}] \in Facade
      BY <1>1, StillFacade, FacadeIs
    <2>2. [adopted EXCEPT !.impl = NoDevice] \in Facade BY <1>1, StillFacade
    <2> QED BY <1>1, <2>1, <2>2, FacadeIs DEF Wat!Opened
  <1> HIDE DEF opened
  <1>4. set \in Facade
    <2>1. CASE Wat!Running(opened)
      <3>1. opened.impl \in Device BY <1>3, <2>1, FacadeIs DEF Wat!Running
      <3> DEFINE timer == [opened.timer EXCEPT ![opened.impl] = opened.config.timeout]
      <3>2. timer \in [Device -> Nat] BY <1>3, <3>1, FacadeIs
      <3>3. [opened EXCEPT !.timer[opened.impl] = opened.config.timeout] = [opened EXCEPT !.timer = timer]
        OBVIOUS
      <3> HIDE DEF timer
      <3>4. [opened EXCEPT !.timer = timer] \in Facade /\ [opened EXCEPT !.impl = NoDevice] \in Facade
        BY <1>3, <3>2, StillFacade
      <3> QED BY <1>3, <3>3, <3>4 DEF Wat!TimeoutSet
    <2> QED BY <1>3, <2>1 DEF Wat!TimeoutSet
  <1> HIDE DEF set
  <1>5. Wat!TooShortClosed(set, works) \in Facade
    <2> DEFINE o == IF "close" \in works THEN set.open \ {set.impl} ELSE set.open
               v == [set EXCEPT !.impl = NoDevice]
               u == [set EXCEPT !.impl = NoDevice, !.open = IF "close" \in works THEN @ \ {set.impl} ELSE @]
    <2>1. o \in SUBSET Device BY <1>4, FacadeIs
    <2>2. v \in Facade BY <1>4, StillFacade
    <2>3. u = [v EXCEPT !.open = o] BY <1>4 DEF Facade
    <2>4. Wat!TooShortClosed(set, works) \in {set, u} BY DEF Wat!TooShortClosed
    <2> HIDE DEF o, v, u
    <2> QED BY <1>4, <2>1, <2>2, <2>3, <2>4, StillFacade
  <1> QED BY <1>2, <1>5

LEMMA DisabledFacade ==
  ASSUME NEW w \in Facade, NEW works
  PROVE  Wat!Disabled(w, works) \in Facade /\ Wat!Demoted(w, works) \in Facade
  <1>1. Wat!Closed(w, works) \in Facade BY ClosedFacade
  <1>2. Wat!Disabled(w, works) \in Facade BY <1>1, StillFacade DEF Wat!Disabled
  <1> QED BY <1>2 DEF Wat!Demoted

LEMMA ActivatedFacade ==
  ASSUME NEW w \in Facade, NEW works PROVE Wat!Activated(w, works) \in Facade
  <1>1. Wat!Reactivated(w, works) \in Facade BY ReactivatedFacade
  <1> QED BY <1>1, StillFacade DEF Wat!Activated

LEMMA FedFacade ==
  ASSUME NEW w \in Facade, NEW works PROVE Wat!Fed(w, works) \in Facade
  <1> DEFINE t == Wat!TurnedOn(w, works)
             r == Wat!Replaced(t, works)
  <1>1. t \in Facade
    <2>1. [w EXCEPT !.impl = w.config.device] \in Facade BY StillFacade, FacadeIs
    <2>2. Wat!Reactivated([w EXCEPT !.impl = w.config.device], works) \in Facade BY <2>1, ReactivatedFacade
    <2> QED BY <2>2 DEF Wat!TurnedOn
  <1> HIDE DEF t
  <1>2. r \in Facade
    <2>1. Wat!Closed(t, works) \in Facade /\ t.config.device \in Device BY <1>1, ClosedFacade, FacadeIs
    <2>2. [Wat!Closed(t, works) EXCEPT !.impl = t.config.device] \in Facade BY <2>1, StillFacade
    <2>3. Wat!Reactivated([Wat!Closed(t, works) EXCEPT !.impl = t.config.device], works) \in Facade
      BY <2>2, ReactivatedFacade
    <2> QED BY <1>1, <2>3 DEF Wat!Replaced
  <1>3. Wat!Fed(w, works) = IF w.active /\ w.config # w.act THEN Wat!Adjusted(r, works) ELSE w
    BY DEF Wat!Fed, t
  <1> HIDE DEF r
  <1>4. Wat!Adjusted(r, works) \in Facade
    <2> DEFINE v == [r EXCEPT !.act = r.config]
    <2>1. v \in Facade BY <1>2, StillFacade, FacadeIs
    <2>2. CASE Wat!Running(r)
      <3>1. r.impl \in Device BY <1>2, <2>2, FacadeIs DEF Wat!Running
      <3> DEFINE timer == [r.timer EXCEPT ![r.impl] = r.config.timeout]
                 u == [r EXCEPT !.timer[r.impl] = r.config.timeout, !.act = r.config]
      <3>2. timer \in [Device -> Nat] BY <1>2, <3>1, FacadeIs
      <3>3. [r EXCEPT !.timer[r.impl] = r.config.timeout] = [r EXCEPT !.timer = timer] OBVIOUS
      <3>4. u = [[r EXCEPT !.timer[r.impl] = r.config.timeout] EXCEPT !.act = r.config] OBVIOUS
      <3>5. Wat!Adjusted(r, works) \in {v, u, r} BY DEF Wat!Adjusted
      <3> HIDE DEF timer, u, v
      <3>6. [r EXCEPT !.timer = timer] \in Facade BY <1>2, <3>2, StillFacade
      <3>7. u \in Facade BY <1>2, <3>3, <3>4, <3>6, StillFacade, FacadeIs
      <3> QED BY <1>2, <2>1, <3>5, <3>7
    <2>3. CASE ~Wat!Running(r)
      <3>1. Wat!Adjusted(r, works) \in {v, r} BY <2>3 DEF Wat!Adjusted
      <3> HIDE DEF v
      <3> QED BY <1>2, <2>1, <3>1
    <2> QED BY <2>2, <2>3
  <1> QED BY <1>3, <1>4

LEMMA ReloadedFacade ==
  ASSUME NEW w \in Facade, NEW c \in Wat!Config, NEW works PROVE Wat!Reloaded(w, c, works) \in Facade
  <1> DEFINE k == IF w.active THEN Wat!Closed(w, works) ELSE w
             off == [k EXCEPT !.config = c, !.act = c, !.impl = NoDevice]
             on == [w EXCEPT !.config = c]
             turned == IF c.mode = "off" THEN off ELSE on
             i == IF c.device # turned.act.device THEN c.device ELSE turned.impl
             given == [turned EXCEPT !.act = c, !.impl = IF c.device # turned.act.device THEN c.device ELSE @]
  <1>1. k \in Facade BY ClosedFacade
  <1>2. Wat!Reloaded(w, c, works) = IF w.active THEN turned ELSE given BY DEF Wat!Reloaded
  <1> HIDE DEF k
  <1>3. off = [[[k EXCEPT !.config = c] EXCEPT !.act = c] EXCEPT !.impl = NoDevice] OBVIOUS
  <1>4. [k EXCEPT !.config = c] \in Facade BY <1>1, StillFacade
  <1>5. [[k EXCEPT !.config = c] EXCEPT !.act = c] \in Facade BY <1>4, StillFacade
  <1>6. [[[k EXCEPT !.config = c] EXCEPT !.act = c] EXCEPT !.impl = NoDevice] \in Facade BY <1>5, StillFacade
  <1>7. on \in Facade BY StillFacade
  <1> HIDE DEF off, on
  <1>8. turned \in Facade BY <1>3, <1>6, <1>7
  <1> HIDE DEF turned
  <1>9. given \in Facade
    <2>1. given = [[turned EXCEPT !.act = c] EXCEPT !.impl = i] BY <1>8 DEF Facade
    <2>2. [turned EXCEPT !.act = c] \in Facade BY <1>8, StillFacade
    <2>3. i \in Device \cup {NoDevice} BY <1>8, FacadeIs DEF Wat!Config
    <2> HIDE DEF given, i
    <2> QED BY <2>1, <2>2, <2>3, StillFacade
  <1> HIDE DEF given
  <1> QED BY <1>2, <1>8, <1>9

\* Every variable of the watchdog has its type, whatever the driver does.
LEMMA WatTypeInit == Wat!Init => Wat!TypeOK BY WatInit DEF WatInv

\* So is what enforce_primary_role() leaves.
LEMMA EnforceFacade ==
  ASSUME NEW w \in Facade, NEW works, Wat!EnforcePrimaryRole(w, works), role \in {"standby", "primary"}
  PROVE  wd' \in Facade /\ lock' \in BOOLEAN /\ role' \in {"standby", "promoting", "primary"}
  <1> DEFINE ready == IF Wat!Running(w) THEN w ELSE Wat!Activated(w, works)
  <1>1. ready \in Facade BY ActivatedFacade
  <1>2. /\ wd' \in {ready, Wat!Demoted(ready, works)} /\ lock' \in BOOLEAN
        /\ role' \in {"standby", "promoting", "primary"}
    BY DEF Wat!EnforcePrimaryRole
  <1> HIDE DEF ready
  <1> QED BY <1>1, <1>2, DisabledFacade

\* Each action keeps the types.
LEMMA WatTypeStep == ASSUME Wat!TypeOK, Wat!Next PROVE Wat!TypeOK'
  <1> DEFINE Left == [reloads : 0 .. MaxReloads, mishaps : 0 .. MaxMishaps]
  <1>0. /\ wd \in Facade /\ role \in {"down", "standby", "promoting", "primary"}
        /\ lock \in BOOLEAN /\ paused \in BOOLEAN /\ aborted \in BOOLEAN /\ left \in Left
    BY DEF Wat!TypeOK, Facade
  <1>1. SUFFICES /\ wd' \in Facade /\ role' \in {"down", "standby", "promoting", "primary"}
                 /\ lock' \in BOOLEAN /\ paused' \in BOOLEAN /\ aborted' \in BOOLEAN /\ left' \in Left
    BY DEF Wat!TypeOK, Facade
  <1>2. CASE Wat!Reload
    <2>1. PICK c \in Wat!Config, works \in Wat!Outcomes : wd' = Wat!Reloaded(wd, c, works) BY <1>2 DEF Wat!Reload
    <2>2. wd' \in Facade BY <1>0, <2>1, ReloadedFacade
    <2>3. left' \in Left BY <1>0, <1>2, LeftType DEF Wat!Reload
    <2> QED BY <1>0, <1>2, <2>2, <2>3 DEF Wat!Reload
  <1>3. CASE Wat!Race
    <2>1. PICK works \in Wat!Outcomes : Wat!EnforcePrimaryRole(wd, works) BY <1>3 DEF Wat!Race
    <2> QED BY <1>0, <1>3, <2>1, EnforceFacade DEF Wat!Race
  <1>4. CASE Wat!LeaderCycle
    <2>1. PICK works \in Wat!Outcomes : Wat!EnforcePrimaryRole(Wat!Fed(wd, works), works)
      BY <1>4 DEF Wat!LeaderCycle
    <2>2. wd' \in Facade /\ lock' \in BOOLEAN /\ role' \in {"standby", "promoting", "primary"}
      BY <1>0, <1>4, <2>1, FedFacade, EnforceFacade DEF Wat!LeaderCycle
    <2> QED BY <1>0, <1>4, <2>2 DEF Wat!LeaderCycle
  <1>5. CASE Wat!LongActionCycle \/ Wat!FailsafeCycle
    <2>1. wd' \in Facade BY <1>0, <1>5, FedFacade DEF Wat!LongActionCycle, Wat!FailsafeCycle
    <2> QED BY <1>0, <1>5, <2>1 DEF Wat!LongActionCycle, Wat!FailsafeCycle
  <1>6. CASE Wat!PausedCycle \/ Wat!RecoverStandby \/ Wat!PostRecover
    <2>1. wd' \in Facade
      BY <1>0, <1>6, DisabledFacade DEF Wat!PausedCycle, Wat!RecoverStandby, Wat!PostRecover
    <2> QED BY <1>0, <1>6, <2>1 DEF Wat!PausedCycle, Wat!RecoverStandby, Wat!PostRecover
  <1>7. CASE Wat!Resume \/ Wat!Promoted
    BY <1>0, <1>7 DEF Wat!Resume, Wat!Promoted
  <1>8. CASE Wat!Abort \/ Wat!CrashPostgres
    <2>1. left' \in Left BY <1>0, <1>8, LeftType DEF Wat!Abort, Wat!CrashPostgres
    <2> QED BY <1>0, <1>8, <2>1 DEF Wat!Abort, Wat!CrashPostgres
  <1>9. CASE Wat!LoseLock
    <2>1. left' \in Left BY <1>0, <1>9, LeftType DEF Wat!LoseLock
    <2>2. wd' \in Facade BY <1>0, <1>9, DisabledFacade DEF Wat!LoseLock
    <2> QED BY <1>0, <1>9, <2>1, <2>2 DEF Wat!LoseLock
  <1>10. CASE Wat!RecoverLeader
    <2>1. PICK works \in Wat!Outcomes :
            /\ wd' \in {Wat!Fed(wd, works), Wat!Disabled(Wat!Fed(wd, works), works)}
            /\ lock' \in BOOLEAN /\ role' \in {"standby", "primary"}
      BY <1>10 DEF Wat!RecoverLeader
    <2>2. wd' \in Facade BY <1>0, <2>1, FedFacade, DisabledFacade
    <2> QED BY <1>0, <1>10, <2>1, <2>2 DEF Wat!RecoverLeader
  <1> QED BY <1>2, <1>3, <1>4, <1>5, <1>6, <1>7, <1>8, <1>9, <1>10 DEF Wat!Next

\* The types of the watchdog, in the system in which the parts are side by side.
LEMMA WatTypeAlways == Spec => [](part = "watchdog" => Wat!TypeOK)
  <1>1. Init => (part = "watchdog" => Wat!TypeOK) BY WatTypeInit DEF Init
  <1>2. (part = "watchdog" => Wat!TypeOK) /\ [Next]_allVars => (part = "watchdog" => Wat!TypeOK)'
    <2> SUFFICES ASSUME part = "watchdog" => Wat!TypeOK, [Next]_allVars, part' = "watchdog"
                 PROVE  Wat!TypeOK'
      OBVIOUS
    <2>1. CASE UNCHANGED allVars
      BY <2>1 DEF allVars, watVars, Wat!TypeOK
    <2>2. CASE Next
      <3>1. part = "watchdog" /\ Wat!Next BY <2>2 DEF Next
      <3> QED BY <3>1, WatTypeStep
    <2> QED BY <2>1, <2>2
  <1> QED BY <1>1, <1>2, PTL DEF Spec

-----------------------------------------------------------------------------
(* Citus *)

\* The smallest number of a set, as the library's Min chooses it.
LEMMA Smallest ==
  ASSUME NEW S \in SUBSET Nat, NEW n \in S PROVE Cit!Min(S) \in S /\ \A y \in S : Cit!Min(S) <= y
  <1> DEFINE Upto(k) == 1 .. k
             Cuts == {Upto(k) : k \in {j \in S : j <= n}}
             R == StrictSubsetOrdering(1 .. n)
             F == FiniteSubsetsOf(1 .. n)
  <1>0. IsFiniteSet(1 .. n) 
    BY FS_Interval
  <1>1. IsWellFoundedOn(R, F)
    BY <1>0, FS_StrictSubsetOrderingWellFounded
  <1>2. Cuts \subseteq F
    BY <1>0, FS_Subset DEF FiniteSubsetsOf
  <1>3. Cuts # {}
    OBVIOUS
  <1>4. PICK c \in Cuts : \A d \in Cuts : <<d, c>> \notin R
    <2> HIDE DEF Cuts, R, F
    <2> QED BY <1>1, <1>2, <1>3, WFMin
  <1>5. PICK x \in S : x <= n /\ c = Upto(x)
    BY <1>4
  <1>6. ASSUME NEW y \in S, y < x PROVE FALSE
    <2>1. Upto(y) \in Cuts /\ Upto(y) \subseteq 1 .. n /\ c \subseteq 1 .. n
      BY <1>5, <1>6
    <2>2. Upto(y) \subseteq c /\ x \in c /\ x \notin Upto(y)
      BY <1>5, <1>6
    <2>3. <<Upto(y), c>> \in R
      BY <2>1, <2>2 DEF StrictSubsetOrdering
    <2> QED BY <2>1, <2>3, <1>4
  <1>7. \A y \in S : x <= y
    BY <1>6
  <1> QED BY <1>7 DEF Cit!Min

\* What the variables of the handler hold.
HostType == Cit!Host \cup {Cit!NoHost}
RowType == [host : HostType, paused : BOOLEAN]
Occasion == {"before_demote", "before_promote", "after_promote"}
TaskType == {t \in [group : Cit!Group, host : HostType, paused : BOOLEAN, event : Occasion, timed : BOOLEAN,
                    picked : BOOLEAN] : t.paused = (t.event = "before_demote")}
\* Lists of tasks: one of each group.
Lists == {l \in Seq(TaskType) : \A i, j \in 1 .. Len(l) : l[i].group = l[j].group => i = j}

\* find_task_by_group(): the place of the task of the group, 0 if there is none.
LEMMA FindIs ==
  ASSUME NEW l \in Lists, NEW g \in Cit!Group
  PROVE  /\ Cit!Find(l, g) \in 0 .. Len(l)
         /\ Cit!Find(l, g) # 0 => l[Cit!Find(l, g)].group = g
         /\ Cit!Find(l, g) = 0 => \A i \in 1 .. Len(l) : l[i].group # g
  <1> DEFINE I == {i \in 1 .. Len(l) : l[i].group = g}
  <1>1. Cit!Find(l, g) = IF I # {} THEN Cit!Min(I) ELSE 0
    BY DEF Cit!Find, Cit!SelectInSeq
  <1>2. I \in SUBSET Nat /\ (I # {} => Cit!Min(I) \in I)
    BY Smallest DEF Lists
  <1>3. Len(l) \in Nat BY DEF Lists
  <1> QED BY <1>1, <1>2, <1>3

\* What is made of a list of tasks is one.
LEMMA ReplacedList ==
  ASSUME NEW l \in Lists, NEW i \in 1 .. Len(l), NEW t \in TaskType, t.group = l[i].group
  PROVE  [l EXCEPT ![i] = t] \in Lists /\ Len([l EXCEPT ![i] = t]) = Len(l)
  BY DEF Lists, TaskType

LEMMA AppendedList ==
  ASSUME NEW l \in Lists, NEW t \in TaskType, \A i \in 1 .. Len(l) : l[i].group # t.group
  PROVE  Append(l, t) \in Lists /\ Append(l, t) # <<>>
  <1>1. l \in Seq(TaskType) /\ Len(l) \in Nat BY DEF Lists
  <1>2. /\ Append(l, t) \in Seq(TaskType) /\ Append(l, t) # <<>> /\ Len(Append(l, t)) = Len(l) + 1
        /\ \A i \in 1 .. Len(l) : Append(l, t)[i] = l[i]
        /\ Append(l, t)[Len(l) + 1] = t
    BY <1>1, AppendProperties
  <1>3. \A i, j \in 1 .. Len(l) : l[i].group = l[j].group => i = j BY DEF Lists
  <1> DEFINE m == Append(l, t)
  <1>4. ASSUME NEW i \in 1 .. Len(l) + 1, NEW j \in 1 .. Len(l) + 1, m[i].group = m[j].group PROVE i = j
    <2> HIDE DEF m
    <2>1. i \in 1 .. Len(l) \/ i = Len(l) + 1 BY <1>1
    <2>2. j \in 1 .. Len(l) \/ j = Len(l) + 1 BY <1>1
    <2>3. (\A k \in 1 .. Len(l) : m[k] = l[k]) /\ m[Len(l) + 1] = t BY <1>2 DEF m
    <2> QED BY <1>3, <1>4, <2>1, <2>2, <2>3
  <1> QED BY <1>2, <1>4 DEF Lists

\* _add_task() gives a list of tasks, and empties none.
LEMMA AddedList ==
  ASSUME NEW l \in Lists, NEW t \in TaskType
  PROVE  Cit!Added(l, t) \in Lists /\ (l # <<>> => Cit!Added(l, t) # <<>>)
  <1> DEFINE i == Cit!Find(l, t.group)
  <1>1. t.group \in Cit!Group BY DEF TaskType
  <1>2. i \in 0 .. Len(l) /\ Len(l) \in Nat BY <1>1, FindIs DEF Lists
  <1>3. i # 0 => [l EXCEPT ![i] = t] \in Lists /\ Len([l EXCEPT ![i] = t]) = Len(l)
    BY <1>1, <1>2, FindIs, ReplacedList
  <1>4. i = 0 => Append(l, t) \in Lists /\ Append(l, t) # <<>>
    BY <1>1, FindIs, AppendedList
  <1>5. i # 0 => l # <<>> BY <1>2
  <1>8. \A m \in {l, [l EXCEPT ![i] = t]} : Len(m) = Len(l) \/ i = 0
    BY <1>3
  <1>6. CASE i # 0
    <2>1. Cit!Added(l, t) \in {l, [l EXCEPT ![i] = t]} BY <1>6 DEF Cit!Added
    <2>2. Cit!Added(l, t) \in Lists BY <1>3, <1>6, <2>1
    <2>3. Len(Cit!Added(l, t)) = Len(l) /\ Len(l) # 0 BY <1>2, <1>6, <1>8, <2>1
    <2>4. Cit!Added(l, t) # <<>> BY <2>3
    <2> QED BY <2>2, <2>4
  <1>7. CASE i = 0
    <2>1. Cit!Added(l, t) \in {l, Append(l, t)} BY <1>7 DEF Cit!Added
    <2> QED BY <1>4, <1>7, <2>1
  <1> QED BY <1>6, <1>7

\* The tasks that are dropped on the way to the oldest, and the one that is done.
LEMMA CutList ==
  ASSUME NEW l \in Lists, NEW a \in 1 .. Len(l) + 1, NEW b \in a - 1 .. Len(l)
  PROVE  SubSeq(l, a, b) \in Lists /\ Len(SubSeq(l, a, b)) = b - a + 1
  <1>1. l \in Seq(TaskType) /\ Len(l) \in Nat /\ a \in Nat /\ b \in Nat /\ \A i \in a .. b : l[i] \in TaskType
    BY DEF Lists
  <1>2. /\ SubSeq(l, a, b) \in Seq(TaskType) /\ Len(SubSeq(l, a, b)) = IF a <= b THEN b - a + 1 ELSE 0
        /\ \A i \in 1 .. b - a + 1 : SubSeq(l, a, b)[i] = l[a + i - 1]
    BY <1>1, SubSeqProperties
  <1>3. Len(SubSeq(l, a, b)) = b - a + 1 BY <1>1, <1>2
  <1>4. \A i \in 1 .. b - a + 1 : a + i - 1 \in 1 .. Len(l) BY <1>1
  <1>5. \A i, j \in 1 .. Len(l) : l[i].group = l[j].group => i = j BY DEF Lists
  <1> DEFINE m == SubSeq(l, a, b)
  <1> HIDE DEF m
  <1>6. ASSUME NEW i \in 1 .. b - a + 1, NEW j \in 1 .. b - a + 1, m[i].group = m[j].group PROVE i = j
    <2>1. m[i] = l[a + i - 1] /\ m[j] = l[a + j - 1] BY <1>2 DEF m
    <2>2. a + i - 1 = a + j - 1 BY <1>4, <1>5, <1>6, <2>1
    <2> QED BY <1>1, <2>2
  <1> QED BY <1>2, <1>3, <1>6 DEF Lists, m

LEMMA RemovedList ==
  ASSUME NEW l \in Lists, NEW i \in 1 .. Len(l)
  PROVE  Cit!RemoveAt(l, i) \in Lists
  <1> DEFINE u == SubSeq(l, 1, i - 1)
             v == SubSeq(l, i + 1, Len(l))
  <1>0. l \in Seq(TaskType) /\ Len(l) \in Nat /\ i \in Nat /\ 1 <= i /\ i <= Len(l)
    BY DEF Lists
  <1>1. u \in Seq(TaskType) /\ Len(u) = i - 1 /\ \A k \in 1 .. i - 1 : u[k] = l[k]
    BY <1>0, SubSeqProperties
  <1>2. v \in Seq(TaskType) /\ Len(v) = Len(l) - i /\ \A k \in 1 .. Len(l) - i : v[k] = l[i + k]
    BY <1>0, SubSeqProperties
  <1> HIDE DEF u, v
  <1> DEFINE w == u \o v
  <1>9. /\ w \in Seq(TaskType) /\ Len(w) = Len(u) + Len(v)
        /\ \A k \in 1 .. Len(u) + Len(v) : w[k] = IF k <= Len(u) THEN u[k] ELSE v[k - Len(u)]
    BY <1>1, <1>2, ConcatProperties
  <1> HIDE DEF w
  <1>3. w \in Seq(TaskType) /\ Len(w) = Len(l) - 1
    BY <1>0, <1>1, <1>2, <1>9
  <1>4. \A k \in 1 .. Len(l) - 1 : w[k] = l[IF k < i THEN k ELSE k + 1]
    <2> SUFFICES ASSUME NEW k \in 1 .. Len(l) - 1 PROVE w[k] = l[IF k < i THEN k ELSE k + 1] OBVIOUS
    <2>1. CASE k < i
      <3>1. k \in 1 .. i - 1 /\ k \in 1 .. Len(u) + Len(v) /\ k <= Len(u) BY <1>0, <1>1, <1>2, <2>1
      <3> QED BY <1>1, <1>9, <2>1, <3>1
    <2>2. CASE ~(k < i)
      <3>1. k - Len(u) \in 1 .. Len(l) - i /\ k \in 1 .. Len(u) + Len(v) /\ ~(k <= Len(u))
            /\ i + (k - Len(u)) = k + 1
        BY <1>0, <1>1, <1>2, <2>2
      <3>2. w[k] = v[k - Len(u)] BY <1>9, <3>1
      <3>3. v[k - Len(u)] = l[i + (k - Len(u))] BY <1>2, <3>1
      <3> QED BY <2>2, <3>1, <3>2, <3>3
    <2> QED BY <2>1, <2>2
  <1>6. \A j, k \in 1 .. Len(l) : l[j].group = l[k].group => j = k BY DEF Lists
  <1>5. ASSUME NEW j \in 1 .. Len(l) - 1, NEW k \in 1 .. Len(l) - 1, w[j].group = w[k].group PROVE j = k
    <2> DEFINE p(x) == IF x < i THEN x ELSE x + 1
    <2>1. p(j) \in 1 .. Len(l) /\ p(k) \in 1 .. Len(l) /\ (p(j) = p(k) => j = k) BY <1>0
    <2>2. w[j] = l[p(j)] /\ w[k] = l[p(k)] BY <1>4
    <2> QED BY <1>5, <1>6, <2>1, <2>2
  <1> QED BY <1>3, <1>5 DEF Cit!RemoveAt, Lists, u, v, w

\* Where the thread is, and the types of all.
ThreadType == [pc : {"not started", "top", "waiting", "waiting until", "next", "rollback", "load", "pick", "begin",
                     "update", "commit", "done"},
               task : TaskType \cup {Cit!NoTask}, i : Nat, known : BOOLEAN, result : {"none", "changed", "begun", "error"}]

CitTypes ==
  /\ table \in [Cit!Group -> RowType] /\ tx \in [Cit!Group -> RowType] \cup {Cit!NoTable}
  /\ link \in {"good", "broken"} /\ coord \in {"leader", "demoting", "replica"}
  /\ cache \in [Cit!Group -> HostType]
  /\ reload \in BOOLEAN /\ expired \in BOOLEAN /\ notified \in BOOLEAN
  /\ tasks \in Lists
  /\ flight \in TaskType \cup {Cit!NoTask}
  /\ thread \in ThreadType
  /\ DOMAIN seen \subseteq Cit!Group /\ \A g \in DOMAIN seen : seen[g] \in HostType
  /\ worker \in [Cit!Worker -> [leader : HostType, state : {"running", "stopping", "vacant", "promoting"}]]
  /\ posts \subseteq [group : Cit!Worker, type : Occasion, leader : HostType]

\* The thread has a task; the task is the end of what a transaction was begun for.
AtWork == thread.pc \in {"begin", "update", "commit", "done"}
Ends == thread.task.event = "after_promote"

\* The task at work: it is of the group of the transaction, and the list is not empty.
Works ==
  /\ AtWork => thread.task \in TaskType /\ thread.i > 0 /\ (Cit!InFlight => thread.task.group = flight.group)
  /\ thread.pc = "commit" => Ends
  /\ thread.pc = "done" /\ thread.result = "changed" => Ends
  /\ thread.pc = "done" /\ thread.result = "begun" => ~Ends
  /\ thread.pc = "done" => thread.result # "none" /\ (thread.result = "error" => reload)
  /\ thread.pc = "load" => ~Cit!InFlight
  /\ AtWork /\ coord = "leader" => tasks # <<>>

\* The task begins a transaction.
Opening == (thread.pc = "update" /\ ~Ends) \/ (thread.pc = "done" /\ thread.result = "begun")

\* The transaction: there is one when a task began it, and it changes the row of that task only.
Transacts ==
  /\ coord = "replica" => tx = Cit!NoTable
  /\ coord = "leader" /\ tx # Cit!NoTable => Cit!InFlight \/ Opening
  /\ coord = "leader" /\ thread.pc = "done" /\ thread.result # "begun" => tx = Cit!NoTable
  /\ coord = "leader" /\ tx # Cit!NoTable =>
       \A g \in Cit!Group : g # (IF AtWork THEN thread.task.group ELSE flight.group) => tx[g] = table[g]
  /\ coord = "leader" /\ ~reload /\ tx = Cit!NoTable /\ ((Cit!InFlight /\ thread.pc # "done") \/ Opening) => link = "broken"

\* What has been done in the transaction.
Effects ==
  coord = "leader" /\ ~reload /\ tx # Cit!NoTable =>
    /\ thread.pc \notin {"commit", "done"} /\ Cit!InFlight /\ ~flight.paused => tx[flight.group] = Cit!Row(flight)
    /\ thread.pc = "commit" => tx[thread.task.group].host = thread.task.host
    /\ thread.pc = "done" /\ ~thread.task.paused => tx[thread.task.group] = Cit!Row(thread.task)

\* A row that was written and is not in the cache yet.
Unnoted(g) ==
  /\ g = thread.task.group /\ table[g].host = thread.task.host
  /\ (thread.pc = "commit" /\ ~Cit!InFlight) \/ (thread.pc = "done" /\ thread.result = "changed")

\* What is remembered of the table is so, but for the row that is being written.
Caches ==
  coord = "leader" /\ ~reload /\ thread.pc # "load" =>
    /\ \A g \in Cit!Group : cache[g] \in {Cit!NoHost, table[g].host} \/ Unnoted(g)
    /\ thread.pc = "commit" /\ ~Cit!InFlight => table[thread.task.group].host = thread.task.host
    /\ thread.pc = "done" /\ thread.result = "changed" => table[thread.task.group].host = thread.task.host

\* All of it.
CitInv == CitTypes /\ Works /\ Transacts /\ Effects /\ Caches

\* What is assumed of the constants.
LEMMA CitConstants ==
  /\ 0 \in Cit!Group /\ Cit!Worker \subseteq Cit!Group /\ 0 \notin Cit!Worker
  /\ Cit!NoTask \notin TaskType /\ Cit!NoTask.group \in Cit!Group
  /\ \A f \in [Cit!Group -> RowType] : f # Cit!NoTable
  /\ Cit!Host \subseteq HostType /\ Cit!NoHost \in HostType /\ {"a", "b"} = Cit!Host
  <1>1. MaxGroup \in Nat BY ControlAssumption DEF ControlAssumption, Cit!CitusAssumption
  <1>2. 0 \in Cit!Group /\ Cit!Worker \subseteq Cit!Group /\ 0 \notin Cit!Worker BY <1>1 DEF Cit!Group,
      Cit!Worker
  <1>3. ASSUME NEW f \in [Cit!Group -> RowType] PROVE f # Cit!NoTable
    <2>1. DOMAIN f # DOMAIN Cit!NoTable BY <1>2 DEF Cit!NoTable
    <2> QED BY <2>1
  <1>4. Cit!NoTask \notin TaskType /\ Cit!NoTask.group = 0 BY DEF Cit!NoTask, TaskType, Occasion
  <1> QED BY <1>2, <1>3, <1>4 DEF HostType, Cit!Host

\* A task has the type of one.
LEMMA TaskIs ==
  ASSUME NEW g \in Cit!Group, NEW event \in Occasion, NEW h \in HostType, NEW timed \in BOOLEAN
  PROVE  Cit!Task(g, event, h, timed) \in TaskType
  BY DEF Cit!Task, TaskType

\* The task that is picked is of the group of the transaction.
LEMMA Picks ==
  ASSUME CitTypes, Cit!PickTask
  PROVE  /\ tasks' \in Lists /\ thread' \in ThreadType
         /\ \/ thread'.pc = "top"
            \/ /\ thread'.pc = "begin" /\ thread'.task \in TaskType /\ thread'.i > 0 /\ tasks' # <<>>
               /\ Cit!InFlight => thread'.task.group = flight.group
  <1> DEFINE c == Cit!Find(tasks, 0)
             rest == IF c # 0 /\ Cit!Cached(tasks[c]) THEN Cit!RemoveAt(tasks, c) ELSE tasks
             first == Cit!SelectInSeq(rest, LAMBDA t : ~Cit!Cached(t))
             list == IF Cit!InFlight \/ Cit!Find(rest, 0) # 0 THEN rest
                     ELSE IF first = 0 THEN <<>> ELSE SubSeq(rest, first, Len(rest))
             i == IF Cit!InFlight THEN Cit!Find(tasks, flight.group)
                  ELSE IF Cit!Find(rest, 0) # 0 THEN Cit!Find(rest, 0) ELSE IF first = 0 THEN 0 ELSE 1
             kept == IF Cit!InFlight THEN tasks ELSE list
  <1>1. tasks \in Lists /\ Len(tasks) \in Nat BY DEF CitTypes, Lists
  <1>2. Cit!InFlight => flight.group \in Cit!Group BY DEF CitTypes, Cit!InFlight, TaskType
  <1>3. c \in 0 .. Len(tasks) BY <1>1, CitConstants, FindIs
  <1>4. rest \in Lists /\ Len(rest) \in Nat
    <2>1. c # 0 => Cit!RemoveAt(tasks, c) \in Lists BY <1>1, <1>3, RemovedList
    <2>2. rest \in Lists BY <1>1, <2>1
    <2> QED BY <2>2 DEF Lists
  <1>5. first \in 0 .. Len(rest)
    <2> HIDE DEF rest
    <2> DEFINE I == {k \in 1 .. Len(rest) : ~Cit!Cached(rest[k])}
    <2>1. first = IF I # {} THEN Cit!Min(I) ELSE 0 BY DEF Cit!SelectInSeq
    <2>2. I \in SUBSET Nat /\ (I # {} => Cit!Min(I) \in I) BY Smallest
    <2> QED BY <1>4, <2>1, <2>2
  <1> HIDE DEF c, first
  <1>6. Cit!Find(rest, 0) \in 0 .. Len(rest) BY <1>4, CitConstants, FindIs
  <1>7. ~Cit!InFlight => list \in Lists /\ i \in 0 .. Len(list)
    <2> HIDE DEF rest
    <2>1. <<>> \in Lists /\ Len(<<>>) = 0 BY DEF Lists
    <2>2. first # 0 => SubSeq(rest, first, Len(rest)) \in Lists
                       /\ Len(SubSeq(rest, first, Len(rest))) = Len(rest) - first + 1
      BY <1>4, <1>5, CutList
    <2> QED BY <1>4, <1>5, <1>6, <2>1, <2>2
  <1>8. Cit!InFlight => i \in 0 .. Len(tasks) /\ (i # 0 => tasks[i].group = flight.group)
    BY <1>1, <1>2, FindIs
  <1>9. kept \in Lists /\ i \in 0 .. Len(kept) /\ (Cit!InFlight /\ i # 0 => kept[i].group = flight.group)
    <2> HIDE DEF list, i
    <2> QED BY <1>1, <1>7, <1>8
  <1>10. /\ i = 0 => thread' = Cit!Idle /\ tasks' = kept
         /\ i # 0 => /\ tasks' = [kept EXCEPT ![i].picked = TRUE]
                     /\ thread' = [pc |-> "begin", i |-> i, result |-> "none",
                                   task |-> [kept[i] EXCEPT !.picked = TRUE],
                                   known |-> cache[kept[i].group] # Cit!NoHost]
    BY DEF Cit!PickTask, c, first
  <1> HIDE DEF i, kept, rest, list
  <1>11. CASE i = 0
    <2>1. Cit!Idle \in ThreadType /\ Cit!Idle.pc = "top" BY DEF Cit!Idle, ThreadType
    <2> QED BY <1>9, <1>10, <1>11, <2>1
  <1>12. CASE i # 0
    <2> DEFINE t == [kept[i] EXCEPT !.picked = TRUE]
    <2>1. kept \in Seq(TaskType) /\ i \in 1 .. Len(kept) /\ Len(kept) \in Nat BY <1>9, <1>12 DEF Lists
    <2>2. kept[i] \in TaskType BY <2>1
    <2>3. t \in TaskType /\ t.group = kept[i].group BY <2>2 DEF TaskType
    <2>4. tasks' = [kept EXCEPT ![i] = t] BY <1>10, <1>12
    <2> HIDE DEF t
    <2>5. tasks' \in Lists /\ Len(tasks') = Len(kept) BY <1>9, <2>1, <2>3, <2>4, ReplacedList
    <2>6. tasks' # <<>> BY <2>1, <2>5
    <2>7. thread' = [pc |-> "begin", i |-> i, result |-> "none", task |-> t, known |-> cache[kept[i].group] # Cit!NoHost]
      BY <1>10, <1>12 DEF t
    <2>8. thread' \in ThreadType /\ thread'.pc = "begin" /\ thread'.task = t /\ thread'.i > 0
      BY <2>1, <2>3, <2>7 DEF ThreadType
    <2> QED BY <1>9, <1>12, <2>3, <2>5, <2>6, <2>8
  <1> QED BY <1>11, <1>12

\* The invariant holds at the beginning.
LEMMA CitBegins == Cit!Init => CitInv
  <1> SUFFICES ASSUME Cit!Init PROVE CitInv OBVIOUS
  <1>1. CitTypes
    <2>1. <<>> \in Lists BY DEF Lists
    <2>2. [Cit!NoRow EXCEPT !.host = "b"] \in RowType /\ Cit!NoRow \in RowType BY DEF Cit!NoRow, RowType,
        HostType, Cit!Host
    <2> QED BY <2>1, <2>2, CitConstants DEF Cit!Init, CitTypes, Cit!Idle, ThreadType, Cit!NoTable
  <1>2. Works /\ Transacts /\ Effects /\ Caches
    BY DEF Cit!Init, Works, Transacts, Effects, Caches, AtWork, Ends, Opening, Cit!Idle, Cit!InFlight
  <1> QED BY <1>1, <1>2 DEF CitInv

\* What it leaves alone.
LEMMA PickFrame ==
  Cit!PickTask => /\ thread.pc = "pick"
              /\ UNCHANGED <<table, tx, link, cache, reload, flight, expired, notified, seen, coord, worker, posts>>
  BY DEF Cit!PickTask, Cit!workVars

\* An update writes the row of the task and no other; who fails begins anew.
LEMMA Updates ==
  ASSUME CitTypes, Works, Cit!UpdateNode
  PROVE  /\ thread.pc = "update" /\ thread' \in ThreadType /\ thread'.task = thread.task /\ thread'.i = thread.i
         /\ UNCHANGED <<cache, tasks, expired, notified, seen, coord, worker, posts>>
         /\ \/ /\ \E new \in [Cit!Group -> RowType] :
                    LET rows == IF tx = Cit!NoTable THEN table ELSE tx
                    IN  /\ \A g \in Cit!Group : g # thread.task.group => new[g] = rows[g]
                        /\ ~thread.task.paused => new[thread.task.group].host = thread.task.host
                                                 /\ new[thread.task.group] = Cit!Row(thread.task)
                        /\ new = rows \/ (link = "good" /\ coord # "replica")
                        /\ IF tx = Cit!NoTable THEN table' = new /\ UNCHANGED tx ELSE tx' = new /\ UNCHANGED table
               /\ thread'.pc = IF Ends THEN "commit" ELSE "done"
               /\ thread'.result = IF Ends THEN "changed" ELSE "begun"
               /\ Ends => link = "good" /\ coord # "replica"
               /\ UNCHANGED <<link, flight, reload>>
            \/ /\ tx' = Cit!NoTable /\ flight' = Cit!NoTask /\ reload' = TRUE /\ UNCHANGED table
               /\ link' \in {"good", "broken"}
               /\ thread'.pc = "done" /\ thread'.result = "error"
  <1> DEFINE t == thread.task
             rows == IF tx = Cit!NoTable THEN table ELSE tx
             new == IF thread.known \/ (t.event # "before_demote" /\ rows[t.group] = Cit!NoRow)
                    THEN [rows EXCEPT ![t.group] = Cit!Row(t)] ELSE rows
             nothing == ~thread.known /\ t.event = "before_demote"
             refused == ~thread.known /\ ~nothing /\ rows[t.group] \notin {Cit!NoRow, Cit!Row(t)}
  <1>1. thread \in ThreadType /\ thread.pc = "update" /\ t \in TaskType /\ rows \in [Cit!Group -> RowType]
    BY DEF CitTypes, Works, AtWork, Cit!UpdateNode
  <1>2. t.group \in Cit!Group /\ Cit!Row(t) \in RowType /\ Cit!Row(t).host = t.host
        /\ Cit!Row(t).paused = t.paused
        /\ t.paused = (t.event = "before_demote")
    BY <1>1 DEF TaskType, RowType, Cit!Row
  <1>3. UNCHANGED <<cache, tasks, expired, notified, seen, coord, worker, posts>>
    BY DEF Cit!UpdateNode, Cit!Fails, Cit!workVars
  <1>4. \/ /\ nothing \/ (Cit!CanQuery /\ ~refused)
           /\ IF tx = Cit!NoTable THEN table' = new /\ UNCHANGED tx ELSE tx' = new /\ UNCHANGED table
           /\ thread' = [thread EXCEPT
                !.pc = IF t.event = "after_promote" THEN "commit" ELSE "done",
                !.result = IF t.event = "after_promote" THEN "changed" ELSE "begun"]
           /\ UNCHANGED <<link, reload, flight>>
        \/ /\ tx' = Cit!NoTable /\ flight' = Cit!NoTask /\ reload' = TRUE /\ UNCHANGED table
           /\ link' \in {"good", link}
           /\ thread' = [thread EXCEPT !.pc = "done", !.result = "error"]
    BY DEF Cit!UpdateNode, Cit!Fails
  <1> HIDE DEF new, nothing, refused, rows
  <1>5. CASE /\ nothing \/ (Cit!CanQuery /\ ~refused)
             /\ IF tx = Cit!NoTable THEN table' = new /\ UNCHANGED tx ELSE tx' = new /\ UNCHANGED table
             /\ thread' = [thread EXCEPT
                  !.pc = IF t.event = "after_promote" THEN "commit" ELSE "done",
                  !.result = IF t.event = "after_promote" THEN "changed" ELSE "begun"]
             /\ UNCHANGED <<link, reload, flight>>
    <2>1. new \in [Cit!Group -> RowType] /\ \A g \in Cit!Group : g # t.group => new[g] = rows[g]
      BY <1>1, <1>2 DEF new
    <2>2. ~t.paused => ~nothing BY <1>2 DEF nothing
    <2>3. ~t.paused => new[t.group] = Cit!Row(t)
      <3> SUFFICES ASSUME ~t.paused PROVE new[t.group] = Cit!Row(t) OBVIOUS
      <3>1. ~refused /\ ~nothing BY <1>5, <2>2
      <3>2. thread.known \/ rows[t.group] \in {Cit!NoRow, Cit!Row(t)} BY <3>1 DEF refused
      <3> QED BY <1>1, <1>2, <3>2 DEF new
    <2>4. new = rows \/ Cit!CanQuery
      <3>1. nothing => new = rows BY DEF nothing, new
      <3> QED BY <1>5, <3>1
    <2>5. thread' \in ThreadType /\ thread'.task = t /\ thread'.i = thread.i
          /\ thread'.pc = (IF Ends THEN "commit" ELSE "done") /\ thread'.result = IF Ends THEN "changed" ELSE "begun"
      BY <1>1, <1>5 DEF ThreadType, Ends
    <2>6. Ends => Cit!CanQuery BY <1>5, <2>2, <1>2 DEF Ends
    <2>7. new[t.group] = Cit!Row(t) => new[t.group].host = t.host BY <1>2
    <2>8. Cit!CanQuery => link = "good" /\ coord # "replica" BY DEF Cit!CanQuery, Cit!CanRead
    <2> QED BY <1>1, <1>3, <1>5, <2>1, <2>3, <2>4, <2>5, <2>6, <2>7, <2>8 DEF rows
  <1>6. CASE /\ tx' = Cit!NoTable /\ flight' = Cit!NoTask /\ reload' = TRUE /\ UNCHANGED table
             /\ link' \in {"good", link}
             /\ thread' = [thread EXCEPT !.pc = "done", !.result = "error"]
    <2>1. thread' \in ThreadType /\ thread'.task = t /\ thread'.i = thread.i /\ thread'.pc = "done"
          /\ thread'.result = "error"
      BY <1>1, <1>6 DEF ThreadType
    <2>2. link' \in {"good", "broken"} BY <1>6 DEF CitTypes
    <2> QED BY <1>1, <1>3, <1>6, <2>1, <2>2
  <1> QED BY <1>4, <1>5, <1>6

\* What remains of a task.
LEMMA Finishes ==
  ASSUME CitTypes, Works, Cit!Finish
  PROVE  /\ thread.pc = "done" /\ thread'.pc \in {"top", "next"}
         /\ UNCHANGED <<table, tx, link, reload, notified, seen, coord, worker, posts>>
         /\ coord = "leader" => cache' = Cit!Noted /\ flight' = IF thread.result = "begun" THEN thread.task ELSE Cit!NoTask
  BY DEF Cit!Finish, Works, AtWork, Cit!workVars, Cit!Idle

\* Each action keeps the invariant.
LEMMA CitGetCluster == ASSUME CitInv, Cit!GetCluster PROVE CitInv'
  <1>1. CitTypes'
    <2>1. DOMAIN seen' \subseteq Cit!Group /\ \A x \in DOMAIN seen' : seen'[x] \in HostType
      BY CitConstants DEF Cit!GetCluster, CitInv, CitTypes
    <2> QED BY <2>1 DEF Cit!GetCluster, CitInv, CitTypes
  <1>2. Works'
    BY DEF Cit!GetCluster, CitInv, Works, AtWork, Ends, Cit!InFlight
  <1>3. Transacts'
    BY DEF Cit!GetCluster, CitInv, Transacts, AtWork, Ends, Opening, Cit!InFlight
  <1>4. Effects'
    BY DEF Cit!GetCluster, CitInv, Effects, Cit!InFlight
  <1>5. Caches'
    BY DEF Cit!GetCluster, CitInv, Caches, Unnoted, Cit!InFlight
  <1> QED BY <1>1, <1>2, <1>3, <1>4, <1>5 DEF CitInv

LEMMA CitSyncMetaData == ASSUME CitInv, NEW g \in Cit!Group, Cit!SyncMetaData(g) PROVE CitInv'
  <1>1. CitTypes'
    <2>1. seen[g] \in HostType /\ tasks \in Lists BY DEF Cit!SyncMetaData, CitInv, CitTypes
    <2>2. Cit!Task(g, "after_promote", seen[g], FALSE) \in TaskType BY <2>1, TaskIs DEF Occasion
    <2>3. tasks' \in Lists BY <2>1, <2>2, AddedList DEF Cit!SyncMetaData, Cit!TakeOn
    <2>4. DOMAIN seen' \subseteq Cit!Group /\ \A x \in DOMAIN seen' : seen'[x] \in HostType
      BY DEF Cit!SyncMetaData, Cit!Restrict, CitInv, CitTypes
    <2>5. thread' \in ThreadType BY DEF Cit!SyncMetaData, Cit!Go, CitInv, CitTypes, ThreadType
    <2>6. notified' \in BOOLEAN BY DEF Cit!SyncMetaData, Cit!TakeOn, CitInv, CitTypes
    <2> QED BY <2>3, <2>4, <2>5, <2>6 DEF Cit!SyncMetaData, CitInv, CitTypes
  <1>2. Works'
    <2>1. seen[g] \in HostType /\ tasks \in Lists BY DEF Cit!SyncMetaData, CitInv, CitTypes
    <2>2. Cit!Task(g, "after_promote", seen[g], FALSE) \in TaskType BY <2>1, TaskIs DEF Occasion
    <2>3. tasks # <<>> => tasks' # <<>> BY <2>1, <2>2, AddedList DEF Cit!SyncMetaData, Cit!TakeOn
    <2> QED BY <2>3 DEF Cit!SyncMetaData, Cit!Go, CitInv, CitTypes, ThreadType, Works, AtWork, Ends,
        Cit!InFlight
  <1>3. Transacts'
    BY CitConstants DEF Cit!SyncMetaData, Cit!TakeOn, Cit!Go, CitInv, Transacts, AtWork, Ends, Opening,
        Cit!InFlight, ThreadType, CitTypes
  <1>4. Effects'
    BY CitConstants DEF Cit!SyncMetaData, Cit!TakeOn, Cit!Go, CitInv, Effects, Cit!InFlight, ThreadType,
        CitTypes
  <1>5. Caches'
    BY CitConstants DEF Cit!SyncMetaData, Cit!TakeOn, Cit!Go, CitInv, Caches, Unnoted, Cit!InFlight,
        ThreadType, CitTypes
  <1> QED BY <1>1, <1>2, <1>3, <1>4, <1>5 DEF CitInv

LEMMA CitOnDemote == ASSUME CitInv, Cit!OnDemote PROVE CitInv'
  <1>1. CitTypes'
    <2>1. <<>> \in Lists BY DEF Lists
    <2> QED BY <2>1, CitConstants DEF Cit!OnDemote, CitInv, CitTypes
  <1>2. Works'
    BY DEF Cit!OnDemote, Cit!Trouble, Cit!Syncing, CitInv, Works, AtWork, Ends, Cit!InFlight
  <1>3. Transacts'
    BY DEF Cit!OnDemote, Cit!Trouble, Cit!Syncing, CitInv, Transacts, AtWork, Ends, Opening, Cit!InFlight
  <1>4. Effects'
    BY DEF Cit!OnDemote, Cit!Trouble, Cit!Syncing, CitInv, Effects, Cit!InFlight
  <1>5. Caches'
    BY DEF Cit!OnDemote, Cit!Trouble, Cit!Syncing, CitInv, Caches, Unnoted, Cit!InFlight
  <1> QED BY <1>1, <1>2, <1>3, <1>4, <1>5 DEF CitInv

LEMMA CitStopCoordinator == ASSUME CitInv, Cit!StopCoordinator PROVE CitInv'
  <1>1. CitTypes'
    <2>1. DOMAIN seen' = {} BY DEF Cit!StopCoordinator, Cit!NoTable
    <2>2. table' \in [Cit!Group -> RowType]
      <3> SUFFICES ASSUME NEW g \in Cit!Group
                   PROVE  (IF g # 0 /\ worker[g].state # "running" THEN table[g]
                           ELSE [Cit!NoRow EXCEPT !.host = IF g = 0 THEN "b" ELSE worker[g].leader]) \in RowType
        BY DEF Cit!StopCoordinator
      <3>1. g # 0 => worker[g].leader \in HostType
        <4>1. g # 0 => g \in Cit!Worker
          BY ControlAssumption DEF ControlAssumption, Cit!CitusAssumption, Cit!Group, Cit!Worker
        <4> QED BY <4>1 DEF CitInv, CitTypes
      <3>2. table[g] \in RowType BY DEF CitInv, CitTypes
      <3>3. \A h \in HostType : [Cit!NoRow EXCEPT !.host = h] \in RowType BY DEF Cit!NoRow, RowType
      <3> QED BY <3>1, <3>2, <3>3, CitConstants
    <2> QED BY <2>1, <2>2 DEF Cit!StopCoordinator, CitInv, CitTypes
  <1>2. Works'
    BY DEF Cit!StopCoordinator, Cit!Trouble, Cit!Syncing, CitInv, Works, AtWork, Ends, Cit!InFlight
  <1>3. Transacts'
    BY DEF Cit!StopCoordinator, Cit!Trouble, Cit!Syncing, CitInv, Transacts, AtWork, Ends, Opening,
        Cit!InFlight
  <1>4. Effects'
    BY DEF Cit!StopCoordinator, Cit!Trouble, Cit!Syncing, CitInv, Effects, Cit!InFlight
  <1>5. Caches'
    BY DEF Cit!StopCoordinator, Cit!Trouble, Cit!Syncing, CitInv, Caches, Unnoted, Cit!InFlight
  <1> QED BY <1>1, <1>2, <1>3, <1>4, <1>5 DEF CitInv

LEMMA CitPromoteCoordinator == ASSUME CitInv, Cit!PromoteCoordinator PROVE CitInv'
  <1>1. CitTypes'
    BY DEF Cit!PromoteCoordinator, Cit!ThreadWaits, CitInv, CitTypes
  <1>2. Works'
    BY DEF Cit!PromoteCoordinator, Cit!ThreadWaits, CitInv, Works, AtWork, Ends, Cit!InFlight
  <1>3. Transacts'
    BY DEF Cit!PromoteCoordinator, Cit!ThreadWaits, CitInv, Transacts, AtWork, Ends, Opening, Cit!InFlight
  <1>4. Effects'
    BY DEF Cit!PromoteCoordinator, Cit!ThreadWaits, CitInv, Effects, Cit!InFlight
  <1>5. Caches'
    BY DEF Cit!PromoteCoordinator, Cit!ThreadWaits, CitInv, Caches, Unnoted, Cit!InFlight
  <1> QED BY <1>1, <1>2, <1>3, <1>4, <1>5 DEF CitInv

LEMMA CitRestartCoordinator == ASSUME CitInv, Cit!RestartCoordinator PROVE CitInv'
  <1>1. CitTypes'
    BY DEF Cit!RestartCoordinator, Cit!ThreadWaits, Cit!Trouble, CitInv, CitTypes
  <1>2. Works'
    BY DEF Cit!RestartCoordinator, Cit!ThreadWaits, Cit!Trouble, CitInv, Works, AtWork, Ends, Cit!InFlight
  <1>3. Transacts'
    BY DEF Cit!RestartCoordinator, Cit!ThreadWaits, Cit!Trouble, CitInv, Transacts, AtWork, Ends, Opening,
        Cit!InFlight
  <1>4. Effects'
    BY DEF Cit!RestartCoordinator, Cit!ThreadWaits, Cit!Trouble, CitInv, Effects, Cit!InFlight
  <1>5. Caches'
    BY DEF Cit!RestartCoordinator, Cit!ThreadWaits, Cit!Trouble, CitInv, Caches, Unnoted, Cit!InFlight
  <1> QED BY <1>1, <1>2, <1>3, <1>4, <1>5 DEF CitInv

LEMMA CitLoseConnection == ASSUME CitInv, Cit!LoseConnection PROVE CitInv'
  <1>1. CitTypes'
    BY DEF Cit!LoseConnection, Cit!Trouble, CitInv, CitTypes
  <1>2. Works'
    BY DEF Cit!LoseConnection, Cit!Trouble, CitInv, Works, AtWork, Ends, Cit!InFlight
  <1>3. Transacts'
    BY DEF Cit!LoseConnection, Cit!Trouble, CitInv, Transacts, AtWork, Ends, Opening, Cit!InFlight
  <1>4. Effects'
    BY DEF Cit!LoseConnection, Cit!Trouble, CitInv, Effects, Cit!InFlight
  <1>5. Caches'
    BY DEF Cit!LoseConnection, Cit!Trouble, CitInv, Caches, Unnoted, Cit!InFlight
  <1> QED BY <1>1, <1>2, <1>3, <1>4, <1>5 DEF CitInv

LEMMA CitBeforeDemote == ASSUME CitInv, NEW g \in Cit!Worker, Cit!BeforeDemote(g) PROVE CitInv'
  <1>1. CitTypes'
    <2>1. worker' \in [Cit!Worker -> [leader : HostType, state : {"running", "stopping", "vacant", "promoting"}]]
      BY CitConstants DEF Cit!BeforeDemote, Cit!Becomes, CitInv, CitTypes
    <2>2. posts' \subseteq [group : Cit!Worker, type : Occasion, leader : HostType]
      BY CitConstants DEF Cit!BeforeDemote, Cit!Post, Cit!Becomes, Occasion, CitInv, CitTypes
    <2> QED BY <2>1, <2>2 DEF Cit!BeforeDemote, Cit!handlerVars, CitInv, CitTypes
  <1>2. Works'
    BY DEF Cit!BeforeDemote, Cit!Event, Cit!Becomes, Cit!Post, Cit!handlerVars, CitInv, Works, AtWork, Ends,
        Cit!InFlight
  <1>3. Transacts'
    BY DEF Cit!BeforeDemote, Cit!Event, Cit!Becomes, Cit!Post, Cit!handlerVars, CitInv, Transacts, AtWork,
        Ends, Opening, Cit!InFlight
  <1>4. Effects'
    BY DEF Cit!BeforeDemote, Cit!Event, Cit!Becomes, Cit!Post, Cit!handlerVars, CitInv, Effects, Cit!InFlight
  <1>5. Caches'
    BY DEF Cit!BeforeDemote, Cit!Event, Cit!Becomes, Cit!Post, Cit!handlerVars, CitInv, Caches, Unnoted,
        Cit!InFlight
  <1> QED BY <1>1, <1>2, <1>3, <1>4, <1>5 DEF CitInv

LEMMA CitLoseLeader == ASSUME CitInv, NEW g \in Cit!Worker, Cit!LoseLeader(g) PROVE CitInv'
  <1>1. CitTypes'
    <2>1. worker' \in [Cit!Worker -> [leader : HostType, state : {"running", "stopping", "vacant", "promoting"}]]
      BY CitConstants DEF Cit!LoseLeader, Cit!Becomes, CitInv, CitTypes
    <2> QED BY <2>1 DEF Cit!LoseLeader, Cit!handlerVars, CitInv, CitTypes
  <1>2. Works'
    BY DEF Cit!LoseLeader, Cit!Event, Cit!Becomes, Cit!handlerVars, CitInv, Works, AtWork, Ends, Cit!InFlight
  <1>3. Transacts'
    BY DEF Cit!LoseLeader, Cit!Event, Cit!Becomes, Cit!handlerVars, CitInv, Transacts, AtWork, Ends, Opening,
        Cit!InFlight
  <1>4. Effects'
    BY DEF Cit!LoseLeader, Cit!Event, Cit!Becomes, Cit!handlerVars, CitInv, Effects, Cit!InFlight
  <1>5. Caches'
    BY DEF Cit!LoseLeader, Cit!Event, Cit!Becomes, Cit!handlerVars, CitInv, Caches, Unnoted, Cit!InFlight
  <1> QED BY <1>1, <1>2, <1>3, <1>4, <1>5 DEF CitInv

LEMMA CitBeforePromote == ASSUME CitInv, NEW g \in Cit!Worker, Cit!BeforePromote(g) PROVE CitInv'
  <1>1. CitTypes'
    <2>1. worker' \in [Cit!Worker -> [leader : HostType, state : {"running", "stopping", "vacant", "promoting"}]]
      BY CitConstants DEF Cit!BeforePromote, Cit!Becomes, CitInv, CitTypes
    <2>2. posts' \subseteq [group : Cit!Worker, type : Occasion, leader : HostType]
      BY CitConstants DEF Cit!BeforePromote, Cit!Post, Cit!Becomes, Occasion, CitInv, CitTypes
    <2> QED BY <2>1, <2>2 DEF Cit!BeforePromote, Cit!handlerVars, CitInv, CitTypes
  <1>2. Works'
    BY DEF Cit!BeforePromote, Cit!Becomes, Cit!Post, Cit!handlerVars, CitInv, Works, AtWork, Ends,
        Cit!InFlight
  <1>3. Transacts'
    BY DEF Cit!BeforePromote, Cit!Becomes, Cit!Post, Cit!handlerVars, CitInv, Transacts, AtWork, Ends,
        Opening, Cit!InFlight
  <1>4. Effects'
    BY DEF Cit!BeforePromote, Cit!Becomes, Cit!Post, Cit!handlerVars, CitInv, Effects, Cit!InFlight
  <1>5. Caches'
    BY DEF Cit!BeforePromote, Cit!Becomes, Cit!Post, Cit!handlerVars, CitInv, Caches, Unnoted, Cit!InFlight
  <1> QED BY <1>1, <1>2, <1>3, <1>4, <1>5 DEF CitInv

LEMMA CitAfterPromote == ASSUME CitInv, NEW g \in Cit!Worker, Cit!AfterPromote(g) PROVE CitInv'
  <1>1. CitTypes'
    <2>1. worker' \in [Cit!Worker -> [leader : HostType, state : {"running", "stopping", "vacant", "promoting"}]]
      BY CitConstants DEF Cit!AfterPromote, Cit!Becomes, CitInv, CitTypes
    <2>2. posts' \subseteq [group : Cit!Worker, type : Occasion, leader : HostType]
      BY CitConstants DEF Cit!AfterPromote, Cit!Post, Cit!Becomes, Occasion, CitInv, CitTypes
    <2> QED BY <2>1, <2>2 DEF Cit!AfterPromote, Cit!handlerVars, CitInv, CitTypes
  <1>2. Works'
    BY DEF Cit!AfterPromote, Cit!Becomes, Cit!Post, Cit!handlerVars, CitInv, Works, AtWork, Ends, Cit!InFlight
  <1>3. Transacts'
    BY DEF Cit!AfterPromote, Cit!Becomes, Cit!Post, Cit!handlerVars, CitInv, Transacts, AtWork, Ends,
        Opening, Cit!InFlight
  <1>4. Effects'
    BY DEF Cit!AfterPromote, Cit!Becomes, Cit!Post, Cit!handlerVars, CitInv, Effects, Cit!InFlight
  <1>5. Caches'
    BY DEF Cit!AfterPromote, Cit!Becomes, Cit!Post, Cit!handlerVars, CitInv, Caches, Unnoted, Cit!InFlight
  <1> QED BY <1>1, <1>2, <1>3, <1>4, <1>5 DEF CitInv

LEMMA CitHandleEvent == ASSUME CitInv, NEW p, Cit!HandleEvent(p) PROVE CitInv'
  <1>1. CitTypes'
    <2>1. p \in [group : Cit!Worker, type : Occasion, leader : HostType] /\ tasks \in Lists
      BY DEF Cit!HandleEvent, CitInv, CitTypes
    <2>2. Cit!Task(p.group, p.type, p.leader, TRUE) \in TaskType BY <2>1, CitConstants, TaskIs
    <2>3. tasks' \in Lists BY <2>1, <2>2, AddedList DEF Cit!HandleEvent, Cit!TakeOn
    <2>4. notified' \in BOOLEAN BY DEF Cit!HandleEvent, Cit!TakeOn, CitInv, CitTypes
    <2> QED BY <2>3, <2>4 DEF Cit!HandleEvent, CitInv, CitTypes
  <1>2. Works'
    <2>1. p \in [group : Cit!Worker, type : Occasion, leader : HostType] /\ tasks \in Lists
      BY DEF Cit!HandleEvent, CitInv, CitTypes
    <2>2. Cit!Task(p.group, p.type, p.leader, TRUE) \in TaskType BY <2>1, CitConstants, TaskIs
    <2>3. tasks # <<>> => tasks' # <<>> BY <2>1, <2>2, AddedList DEF Cit!HandleEvent, Cit!TakeOn
    <2> QED BY <2>3 DEF Cit!HandleEvent, CitInv, Works, AtWork, Ends, Cit!InFlight
  <1>3. Transacts'
    BY DEF Cit!HandleEvent, Cit!TakeOn, Cit!Heeded, CitInv, Transacts, AtWork, Ends, Opening, Cit!InFlight
  <1>4. Effects'
    BY DEF Cit!HandleEvent, Cit!TakeOn, Cit!Heeded, CitInv, Effects, Cit!InFlight
  <1>5. Caches'
    BY DEF Cit!HandleEvent, Cit!TakeOn, Cit!Heeded, CitInv, Caches, Unnoted, Cit!InFlight
  <1> QED BY <1>1, <1>2, <1>3, <1>4, <1>5 DEF CitInv

LEMMA CitDeadline == ASSUME CitInv, Cit!Deadline PROVE CitInv'
  <1>1. CitTypes'
    BY DEF Cit!Deadline, Cit!workVars, CitInv, CitTypes
  <1>2. Works'
    BY DEF Cit!Deadline, Cit!workVars, CitInv, Works, AtWork, Ends, Cit!InFlight
  <1>3. Transacts'
    BY DEF Cit!Deadline, Cit!workVars, CitInv, Transacts, AtWork, Ends, Opening, Cit!InFlight
  <1>4. Effects'
    BY DEF Cit!Deadline, Cit!workVars, CitInv, Effects, Cit!InFlight
  <1>5. Caches'
    BY DEF Cit!Deadline, Cit!workVars, CitInv, Caches, Unnoted, Cit!InFlight
  <1> QED BY <1>1, <1>2, <1>3, <1>4, <1>5 DEF CitInv

LEMMA CitRun == ASSUME CitInv, Cit!Run PROVE CitInv'
  <1>1. CitTypes'
    BY DEF Cit!Run, Cit!workVars, Cit!Go, CitInv, CitTypes, ThreadType
  <1>2. Works'
    BY CitConstants DEF Cit!Run, Cit!workVars, Cit!Go, CitInv, Works, AtWork, Ends, Cit!InFlight, ThreadType,
        CitTypes
  <1>3. Transacts'
    BY CitConstants DEF Cit!Run, Cit!workVars, Cit!Go, CitInv, Transacts, AtWork, Ends, Opening,
        Cit!InFlight, ThreadType, CitTypes
  <1>4. Effects'
    BY CitConstants DEF Cit!Run, Cit!workVars, Cit!Go, CitInv, Effects, Cit!InFlight, ThreadType, CitTypes
  <1>5. Caches'
    BY CitConstants DEF Cit!Run, Cit!workVars, Cit!Go, CitInv, Caches, Unnoted, Cit!InFlight, ThreadType,
        CitTypes
  <1> QED BY <1>1, <1>2, <1>3, <1>4, <1>5 DEF CitInv

LEMMA CitWake == ASSUME CitInv, Cit!Wake PROVE CitInv'
  <1>1. CitTypes'
    BY DEF Cit!Wake, Cit!workVars, Cit!Go, CitInv, CitTypes, ThreadType
  <1>2. Works'
    BY CitConstants DEF Cit!Wake, Cit!workVars, Cit!Go, CitInv, Works, AtWork, Ends, Cit!InFlight,
        ThreadType, CitTypes
  <1>3. Transacts'
    BY CitConstants DEF Cit!Wake, Cit!workVars, Cit!Go, CitInv, Transacts, AtWork, Ends, Opening,
        Cit!InFlight, ThreadType, CitTypes
  <1>4. Effects'
    BY CitConstants DEF Cit!Wake, Cit!workVars, Cit!Go, CitInv, Effects, Cit!InFlight, ThreadType, CitTypes
  <1>5. Caches'
    BY CitConstants DEF Cit!Wake, Cit!workVars, Cit!Go, CitInv, Caches, Unnoted, Cit!InFlight, ThreadType,
        CitTypes
  <1> QED BY <1>1, <1>2, <1>3, <1>4, <1>5 DEF CitInv

LEMMA CitRollback == ASSUME CitInv, Cit!Rollback PROVE CitInv'
  <1>1. CitTypes'
    BY CitConstants DEF Cit!Rollback, Cit!CanRead, Cit!CanQuery, Cit!Fails, Cit!Trouble, Cit!Go,
        Cit!workVars, CitInv, CitTypes, ThreadType
  <1>2. Works'
    BY CitConstants DEF Cit!Rollback, Cit!CanRead, Cit!CanQuery, Cit!Fails, Cit!Trouble, Cit!Go,
        Cit!workVars, CitInv, Works, AtWork, Ends, Cit!InFlight, ThreadType, CitTypes
  <1>3. Transacts'
    BY CitConstants DEF Cit!Rollback, Cit!CanRead, Cit!CanQuery, Cit!Fails, Cit!Trouble, Cit!Go,
        Cit!workVars, CitInv, Transacts, AtWork, Ends, Opening, Cit!InFlight, ThreadType, CitTypes
  <1>4. Effects'
    BY DEF Cit!Rollback, Cit!CanRead, Cit!CanQuery, Cit!Fails, Cit!Trouble, Cit!Go, Cit!workVars, CitInv,
        Effects, Cit!InFlight
  <1>5. Caches'
    BY CitConstants DEF Cit!Rollback, Cit!CanRead, Cit!CanQuery, Cit!Fails, Cit!Trouble, Cit!Go,
        Cit!workVars, CitInv, Caches, Unnoted, Cit!InFlight, ThreadType, CitTypes
  <1> QED BY <1>1, <1>2, <1>3, <1>4, <1>5 DEF CitInv

LEMMA CitStartLoad == ASSUME CitInv, Cit!StartLoad PROVE CitInv'
  <1>1. CitTypes'
    BY DEF Cit!StartLoad, Cit!Go, Cit!workVars, CitInv, CitTypes, ThreadType
  <1>2. Works'
    BY CitConstants DEF Cit!StartLoad, Cit!Go, Cit!workVars, CitInv, Works, AtWork, Ends, Cit!InFlight,
        ThreadType, CitTypes
  <1>3. Transacts'
    BY CitConstants DEF Cit!StartLoad, Cit!Go, Cit!workVars, CitInv, Transacts, AtWork, Ends, Opening,
        Cit!InFlight, ThreadType, CitTypes
  <1>4. Effects'
    BY CitConstants DEF Cit!StartLoad, Cit!Go, Cit!workVars, CitInv, Effects, Cit!InFlight, ThreadType,
        CitTypes
  <1>5. Caches'
    BY CitConstants DEF Cit!StartLoad, Cit!Go, Cit!workVars, CitInv, Caches, Unnoted, Cit!InFlight,
        ThreadType, CitTypes
  <1> QED BY <1>1, <1>2, <1>3, <1>4, <1>5 DEF CitInv

LEMMA CitLoadPgDistNode == ASSUME CitInv, Cit!LoadPgDistNode PROVE CitInv'
  <1>1. CitTypes'
    <2>1. cache' \in [Cit!Group -> HostType]
      <3>1. (IF tx = Cit!NoTable THEN table ELSE tx) \in [Cit!Group -> RowType] BY DEF CitInv, CitTypes
      <3> QED BY <3>1 DEF Cit!LoadPgDistNode, Cit!Fails, CitInv, CitTypes, RowType
    <2>2. thread' \in ThreadType BY DEF Cit!LoadPgDistNode, Cit!Fails, Cit!Go, CitInv, CitTypes, ThreadType
    <2> QED BY <2>1, <2>2 DEF Cit!LoadPgDistNode, Cit!Fails, Cit!workVars, CitInv, CitTypes
  <1>2. Works'
    BY CitConstants DEF Cit!LoadPgDistNode, Cit!CanRead, Cit!CanQuery, Cit!Fails, Cit!Trouble, Cit!Go,
        Cit!workVars, CitInv, Works, AtWork, Ends, Cit!InFlight, ThreadType, CitTypes
  <1>3. Transacts'
    BY CitConstants DEF Cit!LoadPgDistNode, Cit!CanRead, Cit!CanQuery, Cit!Fails, Cit!Trouble, Cit!Go,
        Cit!workVars, CitInv, Transacts, AtWork, Ends, Opening, Cit!InFlight, ThreadType, CitTypes
  <1>4. Effects'
    BY CitConstants DEF Cit!LoadPgDistNode, Cit!CanRead, Cit!CanQuery, Cit!Fails, Cit!Trouble, Cit!Go,
        Cit!workVars, CitInv, Effects, Cit!InFlight, ThreadType, CitTypes
  <1>5. Caches'
    <2>1. coord = "leader" => tx = Cit!NoTable
      BY DEF Cit!LoadPgDistNode, CitInv, Works, Transacts, Opening, AtWork
    <2> SUFFICES ASSUME coord' = "leader", ~reload' PROVE Caches' BY DEF Caches
    <2>2. coord = "leader" /\ cache' = [g \in Cit!Group |-> table[g].host] /\ Cit!Go("pick") /\ UNCHANGED table
      BY <2>1 DEF Cit!LoadPgDistNode, Cit!Fails, Cit!workVars
    <2>3. thread'.pc = "pick" BY <2>2 DEF Cit!Go, CitInv, CitTypes, ThreadType
    <2> QED BY <2>2, <2>3 DEF Caches
  <1> QED BY <1>1, <1>2, <1>3, <1>4, <1>5 DEF CitInv

LEMMA CitPickTask == ASSUME CitInv, Cit!PickTask PROVE CitInv'
  <1>1. CitTypes'
    <2>1. CitTypes BY DEF CitInv
    <2> QED BY <2>1, Picks, PickFrame, CitConstants DEF CitInv, CitTypes, ThreadType, AtWork, Ends, Opening,
        Cit!InFlight, Works
  <1>2. Works'
    <2>1. CitTypes BY DEF CitInv
    <2> QED BY <2>1, Picks, PickFrame, CitConstants DEF CitInv, CitTypes, ThreadType, Works, AtWork, Ends,
        Cit!InFlight, Opening
  <1>3. Transacts'
    <2>1. CitTypes BY DEF CitInv
    <2> QED BY <2>1, Picks, PickFrame, CitConstants DEF CitInv, CitTypes, ThreadType, Transacts, AtWork,
        Ends, Opening, Cit!InFlight, Works
  <1>4. Effects'
    <2>1. CitTypes BY DEF CitInv
    <2> QED BY <2>1, Picks, PickFrame, CitConstants DEF CitInv, CitTypes, ThreadType, Effects, Cit!InFlight,
        AtWork, Ends, Opening, Works
  <1>5. Caches'
    <2>1. CitTypes BY DEF CitInv
    <2> QED BY <2>1, Picks, PickFrame, CitConstants DEF CitInv, CitTypes, ThreadType, Caches, Unnoted,
        Cit!InFlight, AtWork, Ends, Opening, Works
  <1> QED BY <1>1, <1>2, <1>3, <1>4, <1>5 DEF CitInv

LEMMA CitBegin == ASSUME CitInv, Cit!Begin PROVE CitInv'
  <1>1. CitTypes'
    <2>1. CitTypes /\ thread \in ThreadType BY DEF CitInv, CitTypes
    <2>2. /\ \A p \in {"commit", "update"} : [thread EXCEPT !.pc = p] \in ThreadType
          /\ [thread EXCEPT !.pc = "done", !.result = "error"] \in ThreadType
      BY <2>1 DEF ThreadType
    <2>3. thread' \in ThreadType BY <2>2 DEF Cit!Begin, Cit!Go, Cit!Fails
    <2>4. tx' \in [Cit!Group -> RowType] \cup {Cit!NoTable}
      BY <2>1 DEF CitTypes, Cit!Begin, Cit!Fails
    <2>5. link' \in {"good", "broken"} /\ reload' \in BOOLEAN /\ flight' \in TaskType \cup {Cit!NoTask}
      BY <2>1 DEF CitTypes, Cit!Begin, Cit!Fails
    <2>6. UNCHANGED <<table, cache, tasks, expired, notified, seen, coord, worker, posts>>
      BY DEF Cit!Begin, Cit!Fails, Cit!workVars
    <2> QED BY <2>1, <2>3, <2>4, <2>5, <2>6 DEF CitTypes
  <1>2. Works'
    BY CitConstants DEF Cit!Begin, Cit!DoneInTransaction, Cit!Go, Cit!CanRead, Cit!CanQuery, Cit!Fails,
        Cit!Trouble, Cit!workVars, CitInv, Works, AtWork, Ends, Cit!InFlight, ThreadType, CitTypes
  <1>3. Transacts'
    BY CitConstants DEF Cit!Begin, Cit!DoneInTransaction, Cit!Go, Cit!CanRead, Cit!CanQuery, Cit!Fails,
        Cit!Trouble, Cit!workVars, CitInv, Transacts, AtWork, Ends, Opening, Cit!InFlight, ThreadType,
        CitTypes
  <1>4. Effects'
    <2> SUFFICES ASSUME coord' = "leader", ~reload', tx' # Cit!NoTable PROVE Effects' BY DEF Effects
    <2>1. thread.pc = "begin" /\ coord = "leader" /\ ~reload /\ UNCHANGED flight /\ thread \in ThreadType
      BY DEF Cit!Begin, Cit!Fails, Cit!workVars, CitInv, CitTypes
    <2>2. CASE Cit!DoneInTransaction /\ Cit!Go("commit") /\ UNCHANGED tx
      <3>1. Cit!InFlight /\ Cit!Row(flight) = Cit!Row(thread.task) /\ thread.task.event = "after_promote"
            /\ tx # Cit!NoTable
        BY <2>2 DEF Cit!DoneInTransaction
      <3>2. thread.task \in TaskType /\ flight \in TaskType /\ thread.task.group = flight.group
        BY <2>1, <3>1 DEF CitInv, CitTypes, Works, AtWork, Cit!InFlight
      <3>3. ~thread.task.paused /\ flight.host = thread.task.host /\ flight.paused = thread.task.paused
        BY <3>1, <3>2 DEF TaskType, Cit!Row
      <3>4. tx[flight.group] = Cit!Row(flight) BY <2>1, <3>1, <3>3 DEF CitInv, Effects
      <3>5. Cit!Row(flight).host = flight.host BY DEF Cit!Row
      <3>6. thread'.pc = "commit" /\ thread'.task = thread.task BY <2>1, <2>2 DEF Cit!Go, ThreadType
      <3> QED BY <2>2, <3>2, <3>3, <3>4, <3>5, <3>6 DEF Effects
    <2>3. CASE Cit!Go("update") /\ (UNCHANGED tx \/ ~Cit!InFlight)
      <3>1. thread'.pc = "update" BY <2>1, <2>3 DEF Cit!Go, ThreadType
      <3>2. Cit!InFlight' => Cit!InFlight /\ UNCHANGED tx BY <2>1, <2>3 DEF Cit!InFlight
      <3> QED BY <2>1, <3>1, <3>2 DEF Effects, CitInv
    <2> QED BY <2>2, <2>3 DEF Cit!Begin, Cit!Fails
  <1>5. Caches'
    BY CitConstants DEF Cit!Begin, Cit!DoneInTransaction, Cit!Go, Cit!CanRead, Cit!CanQuery, Cit!Fails,
        Cit!Trouble, Cit!workVars, CitInv, Caches, Unnoted, Cit!InFlight, ThreadType, CitTypes
  <1> QED BY <1>1, <1>2, <1>3, <1>4, <1>5 DEF CitInv

LEMMA CitUpdateNode == ASSUME CitInv, Cit!UpdateNode PROVE CitInv'
  <1>1. CitTypes'
    <2>1. CitTypes /\ Works BY DEF CitInv
    <2> QED BY <2>1, Updates, CitConstants DEF CitInv, CitTypes, ThreadType, AtWork, Ends, Opening,
        Cit!InFlight, Works, Transacts
  <1>2. Works'
    <2>1. CitTypes /\ Works BY DEF CitInv
    <2> QED BY <2>1, Updates, CitConstants DEF CitInv, CitTypes, ThreadType, Works, AtWork, Ends,
        Cit!InFlight, Opening, Transacts
  <1>3. Transacts'
    <2>0. coord' = "replica" => tx' = Cit!NoTable BY Updates DEF CitInv, Transacts
    <2> SUFFICES ASSUME coord' = "leader" PROVE Transacts' BY <2>0, Updates DEF CitInv, CitTypes, Transacts
    <2>1. thread.pc = "update" /\ coord = "leader" /\ thread'.task = thread.task /\ UNCHANGED cache
          /\ thread.task \in TaskType /\ (Cit!InFlight => thread.task.group = flight.group) /\ thread.task.group \in Cit!Group
      BY Updates DEF CitInv, Works, AtWork, TaskType
    <2> DEFINE fails == /\ tx' = Cit!NoTable /\ flight' = Cit!NoTask /\ reload' = TRUE /\ UNCHANGED table
                        /\ link' \in {"good", "broken"}
                        /\ thread'.pc = "done" /\ thread'.result = "error"
    <2>2. CASE fails
      BY <2>2 DEF Transacts, Cit!InFlight, Opening
    <2>3. CASE ~fails
      <3>1. PICK new \in [Cit!Group -> RowType] :
              LET rows == IF tx = Cit!NoTable THEN table ELSE tx
              IN  /\ \A g \in Cit!Group : g # thread.task.group => new[g] = rows[g]
                  /\ ~thread.task.paused => new[thread.task.group].host = thread.task.host
                                          /\ new[thread.task.group] = Cit!Row(thread.task)
                  /\ new = rows \/ (link = "good" /\ coord # "replica")
                  /\ IF tx = Cit!NoTable THEN table' = new /\ UNCHANGED tx ELSE tx' = new /\ UNCHANGED table
                  /\ thread'.pc = (IF Ends THEN "commit" ELSE "done")
                  /\ thread'.result = (IF Ends THEN "changed" ELSE "begun")
                  /\ Ends => link = "good"
                  /\ UNCHANGED <<link, flight, reload>>
        BY <2>1, <2>3, Updates DEF CitInv
      <3>2. tx = Cit!NoTable <=> tx' = Cit!NoTable BY <3>1, CitConstants
      <3>3. Ends' <=> Ends BY <2>1 DEF Ends
      <3>4. Ends => ~thread.task.paused BY <2>1 DEF Ends, TaskType
      <3>5. tx = Cit!NoTable /\ ~reload /\ (Cit!InFlight \/ ~Ends) => link = "broken"
        BY <2>1 DEF CitInv, Transacts, Opening
      <3>6. tx # Cit!NoTable => \A g \in Cit!Group : g # thread.task.group => tx[g] = table[g]
        BY <2>1 DEF CitInv, Transacts, AtWork
      <3>7. tx # Cit!NoTable => Cit!InFlight \/ ~Ends BY <2>1 DEF CitInv, Transacts, Opening
      <3>8. Cit!InFlight' <=> Cit!InFlight BY <3>1 DEF Cit!InFlight
      <3>9. tx' # Cit!NoTable => \A g \in Cit!Group : g # thread.task.group => tx'[g] = table'[g]
        BY <3>1, <3>2, <3>6
      <3> QED BY <2>1, <3>1, <3>2, <3>3, <3>5, <3>7, <3>8, <3>9 DEF Transacts, Opening, AtWork
    <2> QED BY <2>2, <2>3, Updates DEF CitInv
  <1>4. Effects'
    <2> SUFFICES ASSUME coord' = "leader" PROVE Effects' BY DEF Effects
    <2>1. thread.pc = "update" /\ coord = "leader" /\ thread'.task = thread.task /\ UNCHANGED cache
          /\ thread.task \in TaskType /\ (Cit!InFlight => thread.task.group = flight.group) /\ thread.task.group \in Cit!Group
      BY Updates DEF CitInv, Works, AtWork, TaskType
    <2> DEFINE fails == /\ tx' = Cit!NoTable /\ flight' = Cit!NoTask /\ reload' = TRUE /\ UNCHANGED table
                        /\ link' \in {"good", "broken"}
                        /\ thread'.pc = "done" /\ thread'.result = "error"
    <2>2. CASE fails
      BY <2>2 DEF Effects, Cit!InFlight, Opening
    <2>3. CASE ~fails
      <3>1. PICK new \in [Cit!Group -> RowType] :
              LET rows == IF tx = Cit!NoTable THEN table ELSE tx
              IN  /\ \A g \in Cit!Group : g # thread.task.group => new[g] = rows[g]
                  /\ ~thread.task.paused => new[thread.task.group].host = thread.task.host
                                          /\ new[thread.task.group] = Cit!Row(thread.task)
                  /\ new = rows \/ (link = "good" /\ coord # "replica")
                  /\ IF tx = Cit!NoTable THEN table' = new /\ UNCHANGED tx ELSE tx' = new /\ UNCHANGED table
                  /\ thread'.pc = (IF Ends THEN "commit" ELSE "done")
                  /\ thread'.result = (IF Ends THEN "changed" ELSE "begun")
                  /\ Ends => link = "good"
                  /\ UNCHANGED <<link, flight, reload>>
        BY <2>1, <2>3, Updates DEF CitInv
      <3>2. tx = Cit!NoTable <=> tx' = Cit!NoTable BY <3>1, CitConstants
      <3>3. Ends' <=> Ends BY <2>1 DEF Ends
      <3>4. Ends => ~thread.task.paused BY <2>1 DEF Ends, TaskType
      <3> QED BY <2>1, <3>1, <3>2, <3>4 DEF Effects
    <2> QED BY <2>2, <2>3, Updates DEF CitInv
  <1>5. Caches'
    <2> SUFFICES ASSUME coord' = "leader" PROVE Caches' BY DEF Caches
    <2>1. thread.pc = "update" /\ coord = "leader" /\ thread'.task = thread.task /\ UNCHANGED cache
          /\ thread.task \in TaskType /\ (Cit!InFlight => thread.task.group = flight.group) /\ thread.task.group \in Cit!Group
      BY Updates DEF CitInv, Works, AtWork, TaskType
    <2> DEFINE fails == /\ tx' = Cit!NoTable /\ flight' = Cit!NoTask /\ reload' = TRUE /\ UNCHANGED table
                        /\ link' \in {"good", "broken"}
                        /\ thread'.pc = "done" /\ thread'.result = "error"
    <2>2. CASE fails
      BY <2>2 DEF Caches, Cit!InFlight, Opening
    <2>3. CASE ~fails
      <3>1. PICK new \in [Cit!Group -> RowType] :
              LET rows == IF tx = Cit!NoTable THEN table ELSE tx
              IN  /\ \A g \in Cit!Group : g # thread.task.group => new[g] = rows[g]
                  /\ ~thread.task.paused => new[thread.task.group].host = thread.task.host
                                          /\ new[thread.task.group] = Cit!Row(thread.task)
                  /\ new = rows \/ (link = "good" /\ coord # "replica")
                  /\ IF tx = Cit!NoTable THEN table' = new /\ UNCHANGED tx ELSE tx' = new /\ UNCHANGED table
                  /\ thread'.pc = (IF Ends THEN "commit" ELSE "done")
                  /\ thread'.result = (IF Ends THEN "changed" ELSE "begun")
                  /\ Ends => link = "good"
                  /\ UNCHANGED <<link, flight, reload>>
        BY <2>1, <2>3, Updates DEF CitInv
      <3>2. tx = Cit!NoTable <=> tx' = Cit!NoTable BY <3>1, CitConstants
      <3>3. Ends' <=> Ends BY <2>1 DEF Ends
      <3>4. Ends => ~thread.task.paused BY <2>1 DEF Ends, TaskType
      <3> SUFFICES ASSUME ~reload PROVE Caches' BY <3>1 DEF Caches
      <3>5. tx = Cit!NoTable /\ (Cit!InFlight \/ ~Ends) => link = "broken"
        BY <2>1 DEF CitInv, Transacts, Opening
      <3>6. tx # Cit!NoTable => Cit!InFlight \/ ~Ends BY <2>1 DEF CitInv, Transacts, Opening
      <3>7. \A g \in Cit!Group : cache[g] \in {Cit!NoHost, table[g].host} BY <2>1 DEF CitInv, Caches, Unnoted
      <3>8. Cit!InFlight' <=> Cit!InFlight BY <3>1 DEF Cit!InFlight
      <3>9. ~(Ends /\ ~Cit!InFlight) => UNCHANGED table BY <2>1, <3>1, <3>5
      <3>10. Ends /\ ~Cit!InFlight => table' = new BY <3>1, <3>6
      <3>11. CASE Ends /\ ~Cit!InFlight
        <4>1. table'[thread.task.group].host = thread.task.host /\ thread'.pc = "commit"
              /\ \A g \in Cit!Group : g # thread.task.group => table'[g] = table[g]
          BY <3>1, <3>4, <3>6, <3>10, <3>11
        <4> QED BY <2>1, <3>7, <3>8, <3>11, <4>1 DEF Caches, Unnoted
      <3>12. CASE ~(Ends /\ ~Cit!InFlight)
        <4>1. ~(thread'.pc = "commit" /\ ~Cit!InFlight') /\ ~(thread'.pc = "done" /\ thread'.result = "changed")
          BY <3>1, <3>8, <3>12
        <4> QED BY <2>1, <3>7, <3>9, <3>12, <4>1 DEF Caches
      <3> QED BY <3>11, <3>12
    <2> QED BY <2>2, <2>3, Updates DEF CitInv
  <1> QED BY <1>1, <1>2, <1>3, <1>4, <1>5 DEF CitInv

LEMMA CitCommit == ASSUME CitInv, Cit!Commit PROVE CitInv'
  <1>1. CitTypes'
    <2>1. thread' \in ThreadType BY DEF Cit!Commit, Cit!Fails, CitInv, CitTypes, ThreadType
    <2>2. table' \in [Cit!Group -> RowType] /\ tx' \in [Cit!Group -> RowType] \cup {Cit!NoTable} BY DEF
        Cit!Commit, Cit!Fails, CitInv, CitTypes
    <2> QED BY <2>1, <2>2 DEF Cit!Commit, Cit!Fails, Cit!workVars, CitInv, CitTypes
  <1>2. Works'
    BY CitConstants DEF Cit!Commit, Cit!CanRead, Cit!CanQuery, Cit!Fails, Cit!Trouble, Cit!workVars, CitInv,
        Works, AtWork, Ends, Cit!InFlight, ThreadType, CitTypes
  <1>3. Transacts'
    BY CitConstants DEF Cit!Commit, Cit!CanRead, Cit!CanQuery, Cit!Fails, Cit!Trouble, Cit!workVars, CitInv,
        Transacts, AtWork, Ends, Opening, Cit!InFlight, ThreadType, CitTypes
  <1>4. Effects'
    BY CitConstants DEF Cit!Commit, Cit!CanRead, Cit!CanQuery, Cit!Fails, Cit!Trouble, Cit!workVars, CitInv,
        Effects, Cit!InFlight, ThreadType, CitTypes, Works, AtWork, Ends, Opening, Transacts, Caches,
        Unnoted, Cit!Row, Cit!NoRow, Cit!Idle, RowType, TaskType
  <1>5. Caches'
    <2> SUFFICES ASSUME coord' = "leader", ~reload' PROVE Caches' BY DEF Caches
    <2>1. /\ thread.pc = "commit" /\ coord = "leader" /\ ~reload /\ UNCHANGED <<cache, link>>
          /\ Cit!CanQuery \/ ~Cit!InFlight
          /\ IF Cit!InFlight /\ tx # Cit!NoTable THEN table' = tx /\ tx' = Cit!NoTable ELSE UNCHANGED <<table, tx>>
          /\ thread' = [thread EXCEPT !.pc = "done", !.result = "changed"]
      BY DEF Cit!Commit, Cit!Fails, Cit!workVars
    <2>2. thread'.pc = "done" /\ thread'.result = "changed" /\ thread'.task = thread.task
          /\ thread.task \in TaskType
          /\ thread.task.group \in Cit!Group
      BY <2>1 DEF CitInv, CitTypes, ThreadType, Works, AtWork, TaskType
    <2>3. \A g \in Cit!Group : cache[g] \in {Cit!NoHost, table[g].host} \/ g = thread.task.group
      BY <2>1 DEF CitInv, Caches, Unnoted
    <2>4. \A g \in Cit!Group : g # thread.task.group => table'[g] = table[g]
      BY <2>1 DEF CitInv, Transacts, AtWork
    <2>5. table'[thread.task.group].host = thread.task.host
      <3>1. CASE Cit!InFlight /\ tx # Cit!NoTable BY <2>1, <3>1 DEF CitInv, Effects
      <3>2. CASE ~Cit!InFlight BY <2>1, <3>2 DEF CitInv, Caches
      <3>3. CASE Cit!InFlight /\ tx = Cit!NoTable
        <4>1. link = "broken" BY <2>1, <3>3 DEF CitInv, Transacts
        <4> QED BY <2>1, <3>3, <4>1 DEF Cit!CanQuery, Cit!CanRead
      <3> QED BY <3>1, <3>2, <3>3
    <2> QED BY <2>1, <2>2, <2>3, <2>4, <2>5 DEF Caches, Unnoted
  <1> QED BY <1>1, <1>2, <1>3, <1>4, <1>5 DEF CitInv

LEMMA CitFinish == ASSUME CitInv, Cit!Finish PROVE CitInv'
  <1>1. CitTypes'
    <2>1. tasks \in Lists /\ thread.i \in Nat BY DEF CitInv, CitTypes, ThreadType
    <2>2. tasks' \in Lists
      <3>1. thread.i > 0 BY DEF Cit!Finish, CitInv, Works, AtWork
      <3>2. thread.i \in 1 .. Len(tasks) => Cit!RemoveAt(tasks, thread.i) \in Lists BY <2>1, RemovedList
      <3> QED BY <2>1, <3>1, <3>2 DEF Cit!Finish, Lists
    <2>3. thread' \in ThreadType
      <3>1. Cit!Idle \in ThreadType BY DEF Cit!Idle, ThreadType
      <3>2. [Cit!Idle EXCEPT !.pc = "next"] \in ThreadType BY <3>1 DEF ThreadType
      <3> QED BY <3>1, <3>2 DEF Cit!Finish
    <2>4. cache' \in [Cit!Group -> HostType] BY DEF Cit!Finish, Cit!Noted, CitInv, CitTypes, ThreadType,
        TaskType, Works, AtWork
    <2>5. flight' \in TaskType \cup {Cit!NoTask} BY DEF Cit!Finish, CitInv, CitTypes, ThreadType
    <2>6. expired' \in BOOLEAN BY DEF Cit!Finish, CitInv, CitTypes
    <2> QED BY <2>2, <2>3, <2>4, <2>5, <2>6 DEF Cit!Finish, Cit!workVars, CitInv, CitTypes
  <1>2. Works'
    <2>1. CitTypes /\ Works BY DEF CitInv
    <2> QED BY <2>1, Finishes, CitConstants DEF CitInv, CitTypes, ThreadType, Works, AtWork, Ends,
        Cit!InFlight, Opening, Cit!Noted, Transacts, Effects, Caches, Unnoted
  <1>3. Transacts'
    <2>1. CitTypes /\ Works BY DEF CitInv
    <2> QED BY <2>1, Finishes, CitConstants DEF CitInv, CitTypes, ThreadType, Transacts, AtWork, Ends,
        Opening, Cit!InFlight, Works, Cit!Noted, Transacts, Effects, Caches, Unnoted
  <1>4. Effects'
    <2>1. CitTypes /\ Works BY DEF CitInv
    <2> QED BY <2>1, Finishes, CitConstants DEF CitInv, CitTypes, ThreadType, Effects, Cit!InFlight, AtWork,
        Ends, Opening, Works, Cit!Noted, Transacts, Effects, Caches, Unnoted
  <1>5. Caches'
    <2>1. CitTypes /\ Works BY DEF CitInv
    <2> QED BY <2>1, Finishes, CitConstants DEF CitInv, CitTypes, ThreadType, Caches, Unnoted, Cit!InFlight,
        AtWork, Ends, Opening, Works, Cit!Noted, Transacts, Effects, Caches, Unnoted
  <1> QED BY <1>1, <1>2, <1>3, <1>4, <1>5 DEF CitInv

\* And so does every step.
LEMMA CitStutter == CitInv /\ UNCHANGED citVars => CitInv'
  BY DEF citVars, CitInv, CitTypes, Works, Transacts, Effects, Caches, AtWork, Ends, Opening, Unnoted,
      Cit!InFlight

LEMMA CitStep == ASSUME CitInv, Cit!Next PROVE CitInv'
  BY CitGetCluster, CitSyncMetaData, CitOnDemote, CitStopCoordinator, CitPromoteCoordinator,
      CitRestartCoordinator, CitLoseConnection, CitBeforeDemote, CitLoseLeader, CitBeforePromote,
      CitAfterPromote, CitHandleEvent, CitDeadline, CitRun, CitWake, CitRollback, CitStartLoad,
      CitLoadPgDistNode, CitPickTask, CitBegin, CitUpdateNode, CitCommit, CitFinish DEF Cit!Next

\* What the invariant is for.
LEMMA CitCache == ASSUME CitInv PROVE Cit!CacheTrue
  BY DEF CitInv, CitTypes, Works, Transacts, Caches, Cit!CacheTrue, Unnoted, Opening, AtWork

\* The invariant of the handler, in the system in which the parts are side by side.
LEMMA CitAlways == Spec => [](part = "citus" => CitInv)
  <1>1. Init => (part = "citus" => CitInv) BY CitBegins DEF Init
  <1>2. (part = "citus" => CitInv) /\ [Next]_allVars => (part = "citus" => CitInv)'
    <2> SUFFICES ASSUME part = "citus" => CitInv, [Next]_allVars, part' = "citus" PROVE CitInv' OBVIOUS
    <2>1. CASE UNCHANGED allVars
      <3>1. CitInv /\ UNCHANGED citVars BY <2>1 DEF allVars
      <3> QED BY <3>1, CitStutter
    <2>2. CASE Next
      <3>1. part = "citus" /\ Cit!Next BY <2>2 DEF Next
      <3> QED BY <3>1, CitStep
    <2> QED BY <2>1, <2>2
  <1> QED BY <1>1, <1>2, PTL DEF Spec

\* What the handler remembers of pg_dist_node is so, when it has nothing to do and no transaction
\* is open (CitusHandler.process_tasks, load_pg_dist_node).
THEOREM CitusCacheIsTrue == Spec => []CacheTrue
  <1>1. (part = "citus" => CitInv) => CacheTrue BY CitCache DEF CacheTrue
  <1> QED BY <1>1, CitAlways, PTL

-----------------------------------------------------------------------------
(* Health *)

\* What the variables of the health checks hold.
StatusType == [state : {"running", "stopped", "unknown", "none"}, sync : BOOLEAN, pause : BOOLEAN,
               role : {"replica", "standby_leader", "promoted", "master", "demoted", "none"}]
KnownType == [state : {"running", "stopped"},
              role : {"replica", "standby_leader", "promoted", "master", "demoted"}]
AnswerType == [ok : {"none", "yes", "no"}, sent : 0 .. MaxAnswer]

HeaTypes == Hea!TypeOK /\ asked \in StatusType /\ known \in KnownType

\* The key: whose it is, how long it lives, and how long it has been lost.
HeaKey ==
  /\ owner = "nobody" <=> hLeft = 0
  /\ owner = "me" => lost = 0

\* Who believes to be the leader has the key, or lost it while a request was on its way.
Believes ==
  expiry > 0 => IF owner = "me" THEN expiry <= hLeft + MaxAnswer ELSE expiry + lost <= MaxAnswer + 1

\* A write that succeeded and has not been answered yet: the key is as old as the request.
OnItsWay ==
  /\ hPc # "asking" => answer = Hea!NoAnswer
  /\ answer.ok = "yes" =>
       IF owner = "me" THEN hLeft + answer.sent = Ttl ELSE answer.sent = MaxAnswer /\ Ttl + lost <= MaxAnswer + 1

\* A node that deletes the key does not believe to have it, and begins no cycle.
GivesUp ==
  /\ Hea!Deleting => hPc \in {"run", "sleep"}
  /\ Hea!Deleting \/ hPc = "delete" => expiry = 0

\* How long the cycle has run is what the time of the next one says; what is believed, or cached, is
\* not older than the last answer.
HeaClock ==
  /\ IF hPc = "sleep" THEN next >= 0 ELSE next + since = 0
  /\ expiry + heard <= Ttl /\ valid + heard <= Ttl

\* What was read under the lock says what the settings say.
HeaAsked == asked # Hea!NoStatus => asked.pause = hPaused

\* All of it.
HeaInv == HeaTypes /\ HeaKey /\ Believes /\ OnItsWay /\ GivesUp /\ HeaClock /\ HeaAsked

\* What is assumed of the constants.
LEMMA HeaConstants ==
  Ttl \in Nat /\ Wait \in Nat /\ MaxAnswer \in Nat /\ 1 <= Wait /\ Wait <= Ttl /\ MaxAnswer <= Ttl
  BY ControlAssumption DEF ControlAssumption, Hea!HealthAssumption

\* The invariant holds at the beginning.
LEMMA HeaBegins == Hea!Init => HeaInv
  <1> SUFFICES ASSUME Hea!Init PROVE HeaInv
    OBVIOUS
  <1>1. HeaTypes
    <2>1. asked \in StatusType /\ known \in KnownType
      BY DEF Hea!Init, Hea!NoStatus, StatusType, KnownType
    <2>2. answer \in AnswerType
      BY HeaConstants DEF Hea!Init, Hea!NoAnswer, AnswerType
    <2>3. next \in -2 * Ttl .. Wait /\ hLeft \in 0 .. Ttl /\ since \in 0 .. 2 * Ttl
          /\ lost \in 0 .. MaxAnswer + 1
      BY HeaConstants DEF Hea!Init
    <2>4. expiry \in 0 .. Ttl /\ valid \in 0 .. Ttl /\ heard \in 0 .. Ttl
      BY HeaConstants DEF Hea!Init
    <2> QED BY <2>1, <2>2, <2>3, <2>4 DEF Hea!Init, HeaTypes, Hea!TypeOK, AnswerType, StatusType, KnownType
  <1>2. HeaKey /\ Believes /\ OnItsWay
    BY HeaConstants DEF Hea!Init, HeaKey, Believes, OnItsWay, Hea!NoAnswer
  <1>3. GivesUp /\ HeaClock /\ HeaAsked
    BY HeaConstants DEF Hea!Init, GivesUp, HeaClock, HeaAsked, Hea!Deleting
  <1> QED BY <1>1, <1>2, <1>3 DEF HeaInv

\* Each action keeps the invariant.
LEMMA HeaTick == ASSUME HeaInv, Hea!Tick PROVE HeaInv'
  <1>1. HeaKey' /\ GivesUp' /\ HeaAsked'
    BY DEF Hea!Tick, Hea!Elapse, Hea!Count, HeaInv, HeaKey, GivesUp, Hea!Deleting, HeaAsked
  <1>2. Believes'
    BY HeaConstants DEF Hea!Tick, Hea!Elapse, Hea!Count, HeaInv, Believes, HeaTypes, Hea!TypeOK, HeaKey,
        OnItsWay, GivesUp, HeaClock, HeaAsked, Hea!NoAnswer, Hea!NoStatus, StatusType, KnownType
  <1>3. HeaTypes'
    <2>1. hLeft \in Nat /\ hLeft <= Ttl /\ expiry \in Nat /\ expiry <= Ttl /\ valid \in Nat /\ valid <= Ttl
          /\ lost \in Nat /\ lost <= MaxAnswer + 1 /\ since \in Nat /\ since <= 2 * Ttl /\ heard \in Nat
          /\ heard <= Ttl
          /\ next \in Int /\ -2 * Ttl <= next /\ next <= Wait
      BY HeaConstants DEF HeaInv, HeaTypes, Hea!TypeOK
    <2>2. hLeft' \in 0 .. Ttl /\ expiry' \in 0 .. Ttl /\ valid' \in 0 .. Ttl
      BY <2>1, HeaConstants DEF Hea!Tick, Hea!Elapse
    <2>3. lost' \in 0 .. MaxAnswer + 1 /\ since' \in 0 .. 2 * Ttl /\ heard' \in 0 .. Ttl
      BY <2>1, HeaConstants DEF Hea!Tick, Hea!Count
    <2>4. next' \in -2 * Ttl .. Wait
      BY <2>1, HeaConstants DEF Hea!Tick
    <2>5. answer' \in AnswerType
      BY HeaConstants DEF Hea!Tick, HeaInv, HeaTypes, Hea!TypeOK, AnswerType
    <2> QED BY <2>2, <2>3, <2>4, <2>5 DEF Hea!Tick, HeaInv, HeaTypes, Hea!TypeOK, AnswerType
  <1>4. OnItsWay'
    <2>1. answer.ok = "yes" => hPc = "asking" /\ answer'.ok = "yes" /\ answer'.sent = answer.sent + 1 /\ answer.sent < MaxAnswer
      BY DEF Hea!Tick, HeaInv, OnItsWay, Hea!NoAnswer, HeaTypes, Hea!TypeOK
    <2>2. hPc # "asking" => answer' = Hea!NoAnswer /\ hPc' # "asking"
      BY DEF Hea!Tick, HeaInv, OnItsWay
    <2>3. answer'.ok = answer.ok /\ hPc' = hPc
      BY DEF Hea!Tick, HeaInv, HeaTypes, Hea!TypeOK
    <2>4. hLeft \in Nat /\ lost \in Nat /\ answer.sent \in Nat
      BY HeaConstants DEF HeaInv, HeaTypes, Hea!TypeOK
    <2>5. ASSUME answer.ok = "yes"
          PROVE IF owner' = "me" THEN hLeft' + answer'.sent = Ttl ELSE answer'.sent = MaxAnswer /\ Ttl + lost' <= MaxAnswer + 1
      BY <2>1, <2>4, <2>5, HeaConstants DEF Hea!Tick, Hea!Elapse, Hea!Count, HeaInv, OnItsWay, HeaKey
    <2> QED BY <2>1, <2>2, <2>3, <2>5 DEF OnItsWay
  <1>5. HeaClock'
    <2>1. next \in Int /\ since \in Nat /\ since <= 2 * Ttl /\ expiry \in Nat /\ valid \in Nat /\ heard \in Nat
          /\ expiry <= Ttl /\ valid <= Ttl /\ heard <= Ttl /\ -2 * Ttl <= next
      BY HeaConstants DEF HeaInv, HeaTypes, Hea!TypeOK
    <2>2. IF hPc = "sleep" THEN next >= 0 ELSE next + since = 0
      BY DEF HeaInv, HeaClock
    <2>3. hPc' = hPc /\ (hPc = "sleep" => next > 0) /\ next' = (IF next > -2 * Ttl THEN next - 1 ELSE next)
          /\ since' = (IF since = 2 * Ttl THEN since ELSE since + 1)
      BY DEF Hea!Tick, Hea!Count
    <2>4. IF hPc' = "sleep" THEN next' >= 0 ELSE next' + since' = 0
      BY <2>1, <2>2, <2>3, HeaConstants
    <2>5. expiry' + heard' <= Ttl /\ valid' + heard' <= Ttl
      <3>1. expiry + heard <= Ttl /\ valid + heard <= Ttl
        BY DEF HeaInv, HeaClock
      <3>2. /\ expiry' = (IF expiry = 0 THEN 0 ELSE expiry - 1) /\ valid' = (IF valid = 0 THEN 0 ELSE valid - 1)
            /\ heard' = (IF heard = Ttl THEN heard ELSE heard + 1)
        BY DEF Hea!Tick, Hea!Elapse, Hea!Count
      <3> QED BY <2>1, <3>1, <3>2, HeaConstants
    <2> QED BY <2>4, <2>5 DEF HeaClock
  <1> QED BY <1>1, <1>2, <1>3, <1>4, <1>5 DEF HeaInv

LEMMA HeaOtherNode == ASSUME HeaInv, Hea!OtherNode PROVE HeaInv'
  <1>1. Believes' /\ OnItsWay' /\ GivesUp' /\ HeaClock' /\ HeaAsked'
    BY DEF Hea!OtherNode, Hea!loop, HeaInv, Believes, OnItsWay, Hea!NoAnswer, GivesUp, Hea!Deleting,
        HeaClock, HeaAsked
  <1>2. HeaTypes' /\ HeaKey'
    BY HeaConstants DEF Hea!OtherNode, Hea!loop, HeaInv, HeaTypes, Hea!TypeOK, StatusType, KnownType, HeaKey
  <1> QED BY <1>1, <1>2 DEF HeaInv

LEMMA HeaWake == ASSUME HeaInv, Hea!Wake PROVE HeaInv'
  <1>1. HeaKey' /\ Believes' /\ OnItsWay' /\ GivesUp' /\ HeaClock' /\ HeaAsked'
    BY DEF Hea!Wake, Hea!Rest, Hea!Env, HeaInv, HeaKey, Believes, OnItsWay, Hea!NoAnswer, GivesUp,
        Hea!Deleting, HeaClock, HeaAsked
  <1>2. HeaTypes'
    BY HeaConstants DEF Hea!Wake, Hea!Rest, Hea!Env, HeaInv, HeaTypes, Hea!TypeOK, StatusType, KnownType
  <1> QED BY <1>1, <1>2 DEF HeaInv

LEMMA HeaLoad == ASSUME HeaInv, Hea!Load PROVE HeaInv'
  <1>1. HeaKey' /\ Believes' /\ OnItsWay' /\ GivesUp' /\ HeaAsked'
    BY DEF Hea!Load, Hea!SetIsLeader, Hea!Deleting, HeaInv, HeaKey, Believes, OnItsWay, Hea!NoAnswer,
        GivesUp, HeaAsked
  <1>2. HeaTypes' /\ HeaClock'
    BY HeaConstants DEF Hea!Load, Hea!SetIsLeader, Hea!Deleting, HeaInv, HeaTypes, Hea!TypeOK, StatusType,
        KnownType, HeaClock
  <1> QED BY <1>1, <1>2 DEF HeaInv

LEMMA HeaDcsError == ASSUME HeaInv, Hea!DcsError PROVE HeaInv'
  <1>1. HeaKey' /\ Believes' /\ OnItsWay' /\ GivesUp' /\ HeaAsked'
    BY DEF Hea!DcsError, Hea!DemoteOr, Hea!ScheduleNextRun, Hea!Env, Hea!Deleting, Hea!Wants, HeaInv, HeaKey,
        Believes, OnItsWay, Hea!NoAnswer, GivesUp, HeaAsked
  <1>2. HeaClock'
    BY HeaConstants DEF Hea!DcsError, Hea!DemoteOr, Hea!ScheduleNextRun, Hea!Env, Hea!Deleting, Hea!Wants,
        HeaInv, HeaClock, HeaTypes, Hea!TypeOK
  <1>3. HeaTypes'
    BY HeaConstants DEF Hea!DcsError, Hea!DemoteOr, Hea!ScheduleNextRun, Hea!Env, Hea!Deleting, Hea!Wants,
        HeaInv, HeaTypes, Hea!TypeOK, StatusType, KnownType, HeaKey, Believes, OnItsWay, GivesUp, HeaClock,
        HeaAsked, Hea!NoAnswer, Hea!NoStatus
  <1> QED BY <1>1, <1>2, <1>3 DEF HeaInv

LEMMA HeaWrite == ASSUME HeaInv, Hea!Write PROVE HeaInv'
  <1>1. GivesUp' /\ HeaClock' /\ HeaAsked'
    BY DEF Hea!Write, Hea!Wants, Hea!Env, HeaInv, GivesUp, Hea!Deleting, HeaClock, HeaAsked
  <1>2. HeaTypes' /\ HeaKey' /\ Believes' /\ OnItsWay'
    BY HeaConstants DEF Hea!Write, Hea!Wants, Hea!Env, HeaInv, HeaTypes, Hea!TypeOK, StatusType, KnownType,
        HeaKey, Believes, OnItsWay, Hea!NoAnswer
  <1> QED BY <1>1, <1>2 DEF HeaInv

LEMMA HeaAnswered == ASSUME HeaInv, Hea!Answered PROVE HeaInv'
  <1>1. HeaKey' /\ OnItsWay' /\ GivesUp' /\ HeaAsked'
    BY DEF Hea!Answered, Hea!SetIsLeader, Hea!DemoteOr, Hea!ScheduleNextRun, Hea!Env, HeaInv, HeaKey,
        OnItsWay, Hea!NoAnswer, GivesUp, Hea!Deleting, HeaAsked
  <1>2. HeaClock'
    BY HeaConstants DEF Hea!Answered, Hea!SetIsLeader, Hea!DemoteOr, Hea!ScheduleNextRun, Hea!Env, HeaInv,
        HeaClock, HeaTypes, Hea!TypeOK
  <1>3. HeaTypes' /\ Believes'
    BY HeaConstants DEF Hea!Answered, Hea!SetIsLeader, Hea!DemoteOr, Hea!ScheduleNextRun, Hea!Env, HeaInv,
        HeaTypes, Hea!TypeOK, StatusType, KnownType, Believes, HeaKey, OnItsWay, GivesUp, HeaClock, HeaAsked,
        Hea!NoAnswer, Hea!NoStatus
  <1> QED BY <1>1, <1>2, <1>3 DEF HeaInv

LEMMA HeaLeaderCycle == ASSUME HeaInv, Hea!LeaderCycle PROVE HeaInv'
  <1>1. HeaKey' /\ Believes' /\ OnItsWay' /\ GivesUp' /\ HeaAsked'
    BY DEF Hea!LeaderCycle, Hea!ScheduleNextRun, Hea!Rest, Hea!Env, HeaInv, HeaKey, Believes, OnItsWay,
        Hea!NoAnswer, GivesUp, Hea!Deleting, HeaAsked
  <1>2. HeaClock'
    BY HeaConstants DEF Hea!LeaderCycle, Hea!ScheduleNextRun, Hea!Rest, Hea!Env, HeaInv, HeaClock, HeaTypes,
        Hea!TypeOK
  <1>3. HeaTypes'
    BY HeaConstants DEF Hea!LeaderCycle, Hea!ScheduleNextRun, Hea!Rest, Hea!Env, HeaInv, HeaTypes,
        Hea!TypeOK, StatusType, KnownType, HeaKey, Believes, OnItsWay, GivesUp, HeaClock, HeaAsked,
        Hea!NoAnswer, Hea!NoStatus
  <1> QED BY <1>1, <1>2, <1>3 DEF HeaInv

LEMMA HeaLeaderDemotes == ASSUME HeaInv, Hea!LeaderDemotes PROVE HeaInv'
  <1>1. HeaKey' /\ Believes' /\ OnItsWay' /\ GivesUp' /\ HeaAsked'
    BY DEF Hea!LeaderDemotes, Hea!ScheduleNextRun, Hea!Rest, Hea!Env, HeaInv, HeaKey, Believes, OnItsWay,
        Hea!NoAnswer, GivesUp, Hea!Deleting, HeaAsked
  <1>2. HeaClock'
    BY HeaConstants DEF Hea!LeaderDemotes, Hea!ScheduleNextRun, Hea!Rest, Hea!Env, HeaInv, HeaClock,
        HeaTypes, Hea!TypeOK
  <1>3. HeaTypes'
    BY HeaConstants DEF Hea!LeaderDemotes, Hea!ScheduleNextRun, Hea!Rest, Hea!Env, HeaInv, HeaTypes,
        Hea!TypeOK, StatusType, KnownType, HeaKey, Believes, OnItsWay, GivesUp, HeaClock, HeaAsked,
        Hea!NoAnswer, Hea!NoStatus
  <1> QED BY <1>1, <1>2, <1>3 DEF HeaInv

LEMMA HeaGiveBack == ASSUME HeaInv, Hea!GiveBack PROVE HeaInv'
  <1>1. HeaKey' /\ Believes' /\ OnItsWay' /\ GivesUp' /\ HeaAsked'
    BY DEF Hea!GiveBack, Hea!SetIsLeader, Hea!Rest, Hea!Env, HeaInv, HeaKey, Believes, OnItsWay,
        Hea!NoAnswer, GivesUp, Hea!Deleting, HeaAsked
  <1>2. HeaTypes' /\ HeaClock'
    BY HeaConstants DEF Hea!GiveBack, Hea!SetIsLeader, Hea!Rest, Hea!Env, HeaInv, HeaTypes, Hea!TypeOK,
        StatusType, KnownType, HeaClock
  <1> QED BY <1>1, <1>2 DEF HeaInv

LEMMA HeaFollowerCycle == ASSUME HeaInv, Hea!FollowerCycle PROVE HeaInv'
  <1>1. HeaKey' /\ Believes' /\ OnItsWay' /\ GivesUp' /\ HeaAsked'
    BY DEF Hea!FollowerCycle, Hea!DemoteOr, Hea!ScheduleNextRun, Hea!Rest, Hea!Env, HeaInv, HeaKey, Believes,
        OnItsWay, Hea!NoAnswer, GivesUp, Hea!Deleting, HeaAsked
  <1>2. HeaClock'
    BY HeaConstants DEF Hea!FollowerCycle, Hea!DemoteOr, Hea!ScheduleNextRun, Hea!Rest, Hea!Env, HeaInv,
        HeaClock, HeaTypes, Hea!TypeOK
  <1>3. HeaTypes'
    BY HeaConstants DEF Hea!FollowerCycle, Hea!DemoteOr, Hea!ScheduleNextRun, Hea!Rest, Hea!Env, HeaInv,
        HeaTypes, Hea!TypeOK, StatusType, KnownType, HeaKey, Believes, OnItsWay, GivesUp, HeaClock, HeaAsked,
        Hea!NoAnswer, Hea!NoStatus
  <1> QED BY <1>1, <1>2, <1>3 DEF HeaInv

LEMMA HeaStop == ASSUME HeaInv, Hea!Stop PROVE HeaInv'
  <1>1. HeaKey' /\ Believes' /\ OnItsWay' /\ GivesUp' /\ HeaAsked'
    BY DEF Hea!Stop, Hea!Stopped, Hea!SetIsLeader, Hea!ScheduleNextRun, Hea!Rest, Hea!Env, HeaInv, HeaKey,
        Believes, OnItsWay, Hea!NoAnswer, GivesUp, Hea!Deleting, HeaAsked
  <1>2. HeaClock'
    BY HeaConstants DEF Hea!Stop, Hea!Stopped, Hea!SetIsLeader, Hea!ScheduleNextRun, Hea!Rest, Hea!Env,
        HeaInv, HeaClock, HeaTypes, Hea!TypeOK
  <1>3. HeaTypes'
    BY HeaConstants DEF Hea!Stop, Hea!Stopped, Hea!SetIsLeader, Hea!ScheduleNextRun, Hea!Rest, Hea!Env,
        HeaInv, HeaTypes, Hea!TypeOK, StatusType, KnownType, HeaKey, Believes, OnItsWay, GivesUp, HeaClock,
        HeaAsked, Hea!NoAnswer, Hea!NoStatus
  <1> QED BY <1>1, <1>2, <1>3 DEF HeaInv

LEMMA HeaTaskStops == ASSUME HeaInv, Hea!TaskStops PROVE HeaInv'
  <1>1. HeaKey' /\ Believes' /\ OnItsWay' /\ GivesUp' /\ HeaAsked'
    BY DEF Hea!TaskStops, Hea!Stopped, Hea!SetIsLeader, Hea!Rest, Hea!Env, HeaInv, HeaKey, Believes,
        OnItsWay, Hea!NoAnswer, GivesUp, Hea!Deleting, HeaAsked
  <1>2. HeaTypes' /\ HeaClock'
    BY HeaConstants DEF Hea!TaskStops, Hea!Stopped, Hea!SetIsLeader, Hea!Rest, Hea!Env, HeaInv, HeaTypes,
        Hea!TypeOK, StatusType, KnownType, HeaClock
  <1> QED BY <1>1, <1>2 DEF HeaInv

LEMMA HeaDeleteBegins == ASSUME HeaInv, Hea!DeleteBegins PROVE HeaInv'
  <1>1. HeaKey' /\ Believes' /\ OnItsWay' /\ GivesUp' /\ HeaAsked'
    BY DEF Hea!DeleteBegins, Hea!SetIsLeader, Hea!Cycling, Hea!Rest, Hea!Env, HeaInv, HeaKey, Believes,
        OnItsWay, Hea!NoAnswer, GivesUp, Hea!Deleting, HeaAsked
  <1>2. HeaTypes' /\ HeaClock'
    BY HeaConstants DEF Hea!DeleteBegins, Hea!SetIsLeader, Hea!Cycling, Hea!Rest, Hea!Env, HeaInv, HeaTypes,
        Hea!TypeOK, StatusType, KnownType, HeaClock
  <1> QED BY <1>1, <1>2 DEF HeaInv

LEMMA HeaDeleteLeader == ASSUME HeaInv, Hea!DeleteLeader PROVE HeaInv'
  <1>1. HeaKey' /\ GivesUp' /\ HeaAsked'
    BY DEF Hea!DeleteLeader, Hea!Deleting, Hea!ScheduleNextRun, Hea!Env, HeaInv, HeaKey, GivesUp, HeaAsked
  <1>2. HeaClock'
    BY HeaConstants DEF Hea!DeleteLeader, Hea!Deleting, Hea!ScheduleNextRun, Hea!Env, HeaInv, HeaClock,
        HeaTypes, Hea!TypeOK
  <1>3. HeaTypes' /\ Believes' /\ OnItsWay'
    BY HeaConstants DEF Hea!DeleteLeader, Hea!Deleting, Hea!ScheduleNextRun, Hea!Env, HeaInv, HeaTypes,
        Hea!TypeOK, StatusType, KnownType, Believes, OnItsWay, Hea!NoAnswer, HeaKey, GivesUp, HeaClock,
        HeaAsked, Hea!NoStatus
  <1> QED BY <1>1, <1>2, <1>3 DEF HeaInv

LEMMA HeaTaskEnds == ASSUME HeaInv, Hea!TaskEnds PROVE HeaInv'
  <1>1. HeaTypes' /\ HeaKey' /\ Believes' /\ OnItsWay' /\ GivesUp' /\ HeaClock' /\ HeaAsked'
    BY DEF Hea!TaskEnds, Hea!Cycling, Hea!Rest, Hea!Env, HeaInv, HeaTypes, Hea!TypeOK, StatusType, KnownType,
        HeaKey, Believes, OnItsWay, Hea!NoAnswer, GivesUp, Hea!Deleting, HeaClock, HeaAsked
  <1> QED BY <1>1 DEF HeaInv

LEMMA HeaPostgres == ASSUME HeaInv, Hea!Postgres PROVE HeaInv'
  <1>1. HeaTypes' /\ HeaKey' /\ Believes' /\ OnItsWay' /\ GivesUp' /\ HeaClock' /\ HeaAsked'
    BY DEF Hea!Postgres, Hea!Cycling, Hea!clock, Hea!loop, Hea!Env, HeaInv, HeaTypes, Hea!TypeOK, StatusType,
        KnownType, HeaKey, Believes, OnItsWay, Hea!NoAnswer, GivesUp, Hea!Deleting, HeaClock, HeaAsked
  <1> QED BY <1>1 DEF HeaInv

LEMMA HeaRequest == ASSUME HeaInv, Hea!Request PROVE HeaInv'
  <1>1. HeaTypes' /\ HeaKey' /\ Believes' /\ OnItsWay' /\ GivesUp' /\ HeaClock' /\ HeaAsked'
    BY DEF Hea!Request, Hea!Status, Hea!loop, Hea!clock, HeaInv, HeaTypes, Hea!TypeOK, StatusType, KnownType,
        HeaKey, Believes, OnItsWay, Hea!NoAnswer, GivesUp, Hea!Deleting, HeaClock, HeaAsked
  <1> QED BY <1>1 DEF HeaInv

LEMMA HeaRespond == ASSUME HeaInv, Hea!Respond PROVE HeaInv'
  <1>1. HeaKey' /\ Believes' /\ OnItsWay' /\ GivesUp' /\ HeaClock' /\ HeaAsked'
    BY DEF Hea!Respond, Hea!loop, Hea!clock, HeaInv, HeaKey, Believes, OnItsWay, Hea!NoAnswer, GivesUp,
        Hea!Deleting, HeaClock, HeaAsked
  <1>2. HeaTypes'
    BY HeaConstants DEF Hea!Respond, Hea!loop, Hea!clock, HeaInv, HeaTypes, Hea!TypeOK, StatusType,
        KnownType, HeaKey, Believes, OnItsWay, GivesUp, HeaClock, HeaAsked, Hea!NoAnswer, Hea!NoStatus
  <1> QED BY <1>1, <1>2 DEF HeaInv

\* And so does every step.
LEMMA HeaStutter == HeaInv /\ UNCHANGED heaVars => HeaInv'
  BY DEF heaVars, HeaInv, HeaTypes, Hea!TypeOK, HeaKey, Believes, OnItsWay, GivesUp, HeaClock, HeaAsked,
      Hea!Deleting

LEMMA HeaStep == ASSUME HeaInv, Hea!Next PROVE HeaInv'
  BY HeaTick, HeaOtherNode, HeaWake, HeaLoad, HeaDcsError, HeaWrite, HeaAnswered, HeaLeaderCycle,
      HeaLeaderDemotes, HeaGiveBack, HeaFollowerCycle, HeaStop, HeaTaskStops, HeaDeleteBegins,
      HeaDeleteLeader, HeaTaskEnds, HeaPostgres, HeaRequest, HeaRespond DEF Hea!Next

\* What the parts of the property need.
LEMMA HeaTells == ASSUME HeaInv PROVE Hea!AnswersTrue
  <1>1. Hea!OneWriter
    BY HeaConstants DEF HeaInv, HeaTypes, Hea!TypeOK, Believes, HeaAsked, Hea!OneWriter, Hea!Code,
        Hea!PrimaryCode, Hea!Trusted, Hea!IsLeader
  <1>2. Hea!PathsAgree
    BY DEF Hea!PathsAgree, Hea!Code, Hea!WriterCode, Hea!PrimaryCode, Hea!StandbyLeaderCode, Hea!LeaderCode,
        Hea!ReplicaCode, Hea!Trusted
  <1>3. ~hPaused => (Hea!Live <=> hPc = "sleep" \/ since < IF known.role = "master" /\ hPg # "down" THEN Ttl ELSE 2 * Ttl)
    BY HeaConstants DEF HeaInv, HeaTypes, Hea!TypeOK, HeaClock, Hea!Live
  <1>4. Hea!Ready => heard < Ttl
    BY HeaConstants DEF HeaInv, HeaTypes, Hea!TypeOK, HeaClock, Hea!Ready, Hea!IsLeader
  <1> QED BY <1>1, <1>2, <1>3, <1>4 DEF Hea!AnswersTrue, Hea!ProbesTrue

\* The invariant of the health checks, in the system in which the parts are side by side.
LEMMA HeaAlways == Spec => [](part = "health" => HeaInv)
  <1>1. Init => (part = "health" => HeaInv) BY HeaBegins DEF Init
  <1>2. (part = "health" => HeaInv) /\ [Next]_allVars => (part = "health" => HeaInv)'
    <2> SUFFICES ASSUME part = "health" => HeaInv, [Next]_allVars, part' = "health" PROVE HeaInv' OBVIOUS
    <2>1. CASE UNCHANGED allVars
      <3>1. HeaInv /\ UNCHANGED heaVars BY <2>1 DEF allVars
      <3> QED BY <3>1, HeaStutter
    <2>2. CASE Next
      <3>1. part = "health" /\ Hea!Next BY <2>2 DEF Next
      <3> QED BY <3>1, HeaStep
    <2> QED BY <2>1, <2>2
  <1> QED BY <1>1, <1>2, PTL DEF Spec

\* What load balancers and probes are told is so: at most one node answers as one that can be written
\* to, but for the time a lost answer takes, and the checks agree (RestApiHandler.do_GET).
THEOREM HealthAnswersAreTrue == Spec => [](part = "health" => Hea!AnswersTrue)
  <1>1. (part = "health" => HeaInv) => (part = "health" => Hea!AnswersTrue) BY HeaTells
  <1> QED BY <1>1, HeaAlways, PTL

-----------------------------------------------------------------------------
(* Callbacks *)

\* The command that is told last, when all that is under way has been done.
Said ==
  IF cCall # Cal!Idle THEN cCall.cmd ELSE IF slot # Cal!NoCmd THEN slot
  ELSE IF cThread.at = "taken" THEN cThread.cmd ELSE told

\* The types of what the loop and postgres keep.
Values ==
  /\ {odd, cStandby, cLock, cPaused, called, change} \subseteq BOOLEAN
  /\ cPg \in Cal!Starting \cup {"down", "recovery", "promoting", "primary"}
  /\ state \in {"stopped", "starting", "running"} /\ cRole \in Cal!Roles
  /\ pending \in {"none", "noop", "call"} /\ cPc \in {"idle", "starting", "roleChange"}

\* Those of what the executor keeps.  A command is on its way in one place at a time, and no process runs
\* that the thread does not wait for.
Executor ==
  /\ cCall \in [at : {"idle", "kill", "put"}, cmd : Cal!Command \cup {Cal!NoCmd}]
  /\ cThread \in [at : {"idle", "wait", "taken", "started"}, cmd : Cal!Command \cup {Cal!NoCmd}]
  /\ slot \in Cal!Command \cup {Cal!NoCmd} /\ told \in Cal!Command \cup {Cal!NoCmd}
  /\ script \in {"running", "killed", "ended"}
  /\ cCall.at = "idle" <=> cCall.cmd = Cal!NoCmd
  /\ cThread.at = "taken" => cThread.cmd # Cal!NoCmd
  /\ cThread.at = "wait" => slot = Cal!NoCmd
  /\ cThread.at # "started" => script = "ended"

\* Postgres is, or begins to be, a standby.
Standby == {"startRecovery", "recovery"}

\* Where the loop is, and what waits for the end of a start.
Steps == ~odd =>
  /\ cPc = "idle" => ~change
  /\ cPc = "roleChange" => change /\ cPg \in Standby \cup {"down"}
  /\ cPc = "starting" => state = "starting" /\ (pending = "noop" <=> change)
  /\ state = "starting" /\ pending = "noop" => cPg \in Standby \cup {"down"}
  /\ state = "stopped" => cPg = "down"

\* The role is that of the postgres that runs.
Roled == ~odd =>
  /\ cPg \in Standby => cRole \in {"replica", "standby_leader"}
  /\ cPg = "promoting" => called /\ ~cStandby /\ cRole \in {"promoted", "replica"} /\ state = "running" /\ cPc = "idle"
  /\ cPg = "startPrimary" \/ (cPg = "primary" /\ (~called \/ state = "starting")) => cRole = "master"

\* What was said of a postgres that runs, or will not be said when it does.
SaidTrue == ~odd =>
  (cPg # "down" /\ called /\ cPc = "idle" /\ (state = "running" \/ pending = "noop") =>
    ~Said.stop /\ Said.role = IF cPg \in Standby THEN cRole ELSE "master")

\* All of it.
CalInv == Values /\ Executor /\ Steps /\ Roled /\ SaidTrue

\* A command is none of the null ones, and says what it was made of.
LEMMA CalCommand ==
  /\ Cal!NoCmd \notin Cal!Command
  /\ \A stop \in BOOLEAN, r \in Cal!Roles :
       /\ Cal!Cmd(stop, r) \in Cal!Command /\ Cal!Cmd(stop, r) # Cal!NoCmd
       /\ Cal!Cmd(stop, r).stop = stop /\ Cal!Cmd(stop, r).role = IF r = "promoted" THEN "master" ELSE r
  <1>1. Cal!NoCmd \notin Cal!Command
    <2>1. Cal!NoCmd.role = "none" BY DEF Cal!NoCmd
    <2>2. \A c \in Cal!Command : c.role \in Cal!Roles BY DEF Cal!Command
    <2>3. "none" \notin Cal!Roles BY DEF Cal!Roles
    <2> QED BY <2>1, <2>2, <2>3
  <1>2. ASSUME NEW stop \in BOOLEAN, NEW r \in Cal!Roles
        PROVE Cal!Cmd(stop, r) \in Cal!Command /\ Cal!Cmd(stop, r).stop = stop
              /\ Cal!Cmd(stop, r).role = IF r = "promoted" THEN "master" ELSE r
    BY DEF Cal!Cmd, Cal!Command, Cal!Roles
  <1> QED BY <1>1, <1>2

\* What Postgresql and Ha do to the executor: they call nothing, or one command.
LEMMA CalCalls ==
  ASSUME Executor, Cal!Rest
  PROVE  /\ UNCHANGED cCall => Executor' /\ Said' = Said
         /\ \A stop \in BOOLEAN, r \in Cal!Roles :
              cCall' = [at |-> "kill", cmd |-> Cal!Cmd(stop, r)] =>
                Executor' /\ Said'.stop = stop /\ Said'.role = IF r = "promoted" THEN "master" ELSE r
  <1>1. UNCHANGED cCall => Executor' /\ Said' = Said  BY DEF Executor, Cal!Rest, Said, Cal!Idle
  <1>2. ASSUME NEW stop \in BOOLEAN, NEW r \in Cal!Roles, cCall' = [at |-> "kill", cmd |-> Cal!Cmd(stop, r)]
        PROVE  Executor' /\ Said'.stop = stop /\ Said'.role = IF r = "promoted" THEN "master" ELSE r
    <2>1. cCall'.at = "kill" /\ cCall'.cmd = Cal!Cmd(stop, r) /\ cCall' # Cal!Idle BY <1>2 DEF Cal!Idle
    <2>2. Executor' BY <1>2, <2>1, CalCommand DEF Executor, Cal!Rest
    <2>3. Said' = Cal!Cmd(stop, r) BY <2>1 DEF Said
    <2> QED BY <2>2, <2>3, CalCommand
  <1> QED BY <1>1, <1>2

\* The invariant holds at the beginning.
LEMMA CalBegins == Cal!Init => CalInv
  <1> SUFFICES ASSUME Cal!Init PROVE CalInv  OBVIOUS
  <1>1. Values BY DEF Cal!Init, Values, Cal!Roles, Cal!Starting
  <1>2. Executor BY CalCommand DEF Cal!Init, Executor, Cal!Idle
  <1>3. Steps /\ Roled /\ SaidTrue BY DEF Cal!Init, Steps, Roled, SaidTrue, Standby
  <1> QED BY <1>1, <1>2, <1>3 DEF CalInv

\* Each action keeps the invariant.
LEMMA CalKillProcess == ASSUME CalInv, Cal!KillProcess PROVE CalInv'
  <1>1. Values' /\ Executor' /\ Steps' /\ Roled'
    BY DEF Cal!KillProcess, Cal!envVars, Cal!pgVars, CalInv, Values, Cal!Roles, Cal!Starting, Executor,
        Steps, Standby, Roled
  <1>2. SaidTrue'
    BY CalCommand DEF Cal!KillProcess, Cal!envVars, Cal!pgVars, CalInv, SaidTrue, Standby, Values, Cal!Roles,
        Cal!Starting, Cal!Idle, Executor, Steps, Roled, Said
  <1> QED BY <1>1, <1>2 DEF CalInv

LEMMA CalPut == ASSUME CalInv, Cal!Put PROVE CalInv'
  <1>1. Values' /\ Steps' /\ Roled'
    BY DEF Cal!Put, Cal!envVars, Cal!pgVars, CalInv, Values, Cal!Roles, Cal!Starting, Steps, Standby, Roled
  <1>2. Executor'
    BY CalCommand DEF Cal!Put, Cal!envVars, Cal!pgVars, CalInv, Executor, Values, Cal!Roles, Cal!Starting,
        Cal!Idle
  <1>3. SaidTrue'
    BY CalCommand DEF Cal!Put, Cal!envVars, Cal!pgVars, CalInv, SaidTrue, Standby, Values, Cal!Roles,
        Cal!Starting, Cal!Idle, Executor, Steps, Roled, Said
  <1> QED BY <1>1, <1>2, <1>3 DEF CalInv

LEMMA CalTake == ASSUME CalInv, Cal!Take PROVE CalInv'
  <1>1. Values' /\ Executor' /\ Steps' /\ Roled'
    BY DEF Cal!Take, Cal!envVars, Cal!pgVars, CalInv, Values, Cal!Roles, Cal!Starting, Executor, Steps,
        Standby, Roled
  <1>2. SaidTrue'
    BY CalCommand DEF Cal!Take, Cal!envVars, Cal!pgVars, CalInv, SaidTrue, Standby, Values, Cal!Roles,
        Cal!Starting, Cal!Idle, Executor, Steps, Roled, Said
  <1> QED BY <1>1, <1>2 DEF CalInv

LEMMA CalStartProcess == ASSUME CalInv, Cal!StartProcess PROVE CalInv'
  <1>1. Values' /\ Steps' /\ Roled'
    BY DEF Cal!StartProcess, Cal!envVars, Cal!pgVars, CalInv, Values, Cal!Roles, Cal!Starting, Steps,
        Standby, Roled
  <1>2. Executor'
    BY CalCommand DEF Cal!StartProcess, Cal!envVars, Cal!pgVars, CalInv, Executor, Values, Cal!Roles,
        Cal!Starting, Cal!Idle
  <1>3. SaidTrue'
    BY CalCommand DEF Cal!StartProcess, Cal!envVars, Cal!pgVars, CalInv, SaidTrue, Standby, Values,
        Cal!Roles, Cal!Starting, Cal!Idle, Executor, Steps, Roled, Said
  <1> QED BY <1>1, <1>2, <1>3 DEF CalInv

LEMMA CalScriptEnds == ASSUME CalInv, Cal!ScriptEnds PROVE CalInv'
  <1>1. Values' /\ Executor' /\ Steps' /\ Roled'
    BY DEF Cal!ScriptEnds, Cal!envVars, Cal!pgVars, CalInv, Values, Cal!Roles, Cal!Starting, Executor, Steps,
        Standby, Roled
  <1>2. SaidTrue'
    BY CalCommand DEF Cal!ScriptEnds, Cal!envVars, Cal!pgVars, CalInv, SaidTrue, Standby, Values, Cal!Roles,
        Cal!Starting, Cal!Idle, Executor, Steps, Roled, Said
  <1> QED BY <1>1, <1>2 DEF CalInv

LEMMA CalKillChildren == ASSUME CalInv, Cal!KillChildren PROVE CalInv'
  <1>1. Values' /\ Steps' /\ Roled'
    BY DEF Cal!KillChildren, Cal!envVars, Cal!pgVars, CalInv, Values, Cal!Roles, Cal!Starting, Steps,
        Standby, Roled
  <1>2. Executor'
    BY CalCommand DEF Cal!KillChildren, Cal!envVars, Cal!pgVars, CalInv, Executor, Values, Cal!Roles,
        Cal!Starting, Cal!Idle
  <1>3. SaidTrue'
    BY CalCommand DEF Cal!KillChildren, Cal!envVars, Cal!pgVars, CalInv, SaidTrue, Standby, Values,
        Cal!Roles, Cal!Starting, Cal!Idle, Executor, Steps, Roled, Said
  <1> QED BY <1>1, <1>2, <1>3 DEF CalInv

LEMMA CalWaitForStartup == ASSUME CalInv, Cal!WaitForStartup PROVE CalInv'
  <1>1. Values' /\ Steps' /\ Roled'
    BY DEF Cal!WaitForStartup, Cal!StartupStateChanged, Cal!CallNowait, Cal!NoCall, Cal!Rest, Cal!At,
        Cal!envVars, Cal!pgVars, CalInv, Values, Cal!Roles, Cal!Starting, Steps, Standby, Roled
  <1>2. Executor'
    BY CalCalls DEF Cal!WaitForStartup, Cal!StartupStateChanged, Cal!CallNowait, Cal!NoCall, Cal!Rest,
        Cal!At, Cal!envVars, Cal!pgVars, CalInv, Executor, Values, Cal!Roles
  <1>3. SaidTrue'
    BY CalCalls DEF Cal!WaitForStartup, Cal!StartupStateChanged, Cal!CallNowait, Cal!NoCall, Cal!Rest,
        Cal!At, Cal!envVars, Cal!pgVars, CalInv, SaidTrue, Values, Cal!Roles, Steps, Roled, Standby,
        Cal!Starting
  <1> QED BY <1>1, <1>2, <1>3 DEF CalInv

LEMMA CalRoleChange == ASSUME CalInv, Cal!RoleChange PROVE CalInv'
  <1>1. Values' /\ Steps' /\ Roled'
    BY DEF Cal!RoleChange, Cal!CallNowait, Cal!Rest, Cal!At, Cal!envVars, Cal!pgVars, CalInv, Values,
        Cal!Roles, Cal!Starting, Steps, Standby, Roled
  <1>2. Executor'
    BY CalCalls DEF Cal!RoleChange, Cal!CallNowait, Cal!Rest, Cal!At, Cal!envVars, Cal!pgVars, CalInv,
        Executor, Values, Cal!Roles
  <1>3. SaidTrue'
    BY CalCalls DEF Cal!RoleChange, Cal!CallNowait, Cal!Rest, Cal!At, Cal!envVars, Cal!pgVars, CalInv,
        SaidTrue, Values, Cal!Roles, Steps, Roled, Standby, Cal!Starting
  <1> QED BY <1>1, <1>2, <1>3 DEF CalInv

LEMMA CalHandleStartingInstance == ASSUME CalInv, Cal!HandleStartingInstance PROVE CalInv'
  <1>1. Values' /\ Steps' /\ Roled'
    BY DEF Cal!HandleStartingInstance, Cal!StartupStateChanged, Cal!CallNowait, Cal!NoCall, Cal!Rest, Cal!At,
        Cal!envVars, Cal!pgVars, CalInv, Values, Cal!Roles, Cal!Starting, Steps, Standby, Roled
  <1>2. Executor'
    BY CalCalls DEF Cal!HandleStartingInstance, Cal!StartupStateChanged, Cal!CallNowait, Cal!NoCall,
        Cal!Rest, Cal!At, Cal!envVars, Cal!pgVars, CalInv, Executor, Values, Cal!Roles
  <1>3. SaidTrue'
    BY CalCalls DEF Cal!HandleStartingInstance, Cal!StartupStateChanged, Cal!CallNowait, Cal!NoCall,
        Cal!Rest, Cal!At, Cal!envVars, Cal!pgVars, CalInv, SaidTrue, Values, Cal!Roles, Steps, Roled,
        Standby, Cal!Starting
  <1> QED BY <1>1, <1>2, <1>3 DEF CalInv

LEMMA CalRecover == ASSUME CalInv, Cal!Recover PROVE CalInv'
  <1>1. Values' /\ Roled'
    BY DEF Cal!Recover, Cal!Start, Cal!Follow, Cal!FollowRole, Cal!ChangesRole, Cal!NoCall, Cal!Rest, Cal!At,
        Cal!envVars, Cal!pgVars, CalInv, Values, Cal!Roles, Cal!Starting, Roled, Standby
  <1>2. Steps'
    BY CalCommand DEF Cal!Recover, Cal!Start, Cal!Follow, Cal!FollowRole, Cal!ChangesRole, Cal!NoCall,
        Cal!Rest, Cal!At, Cal!envVars, Cal!pgVars, CalInv, Steps, Standby, Values, Cal!Roles, Cal!Starting,
        Cal!Idle, Executor
  <1>3. Executor'
    BY CalCalls DEF Cal!Recover, Cal!Start, Cal!Follow, Cal!FollowRole, Cal!ChangesRole, Cal!NoCall,
        Cal!Rest, Cal!At, Cal!envVars, Cal!pgVars, CalInv, Executor, Values, Cal!Roles
  <1>4. SaidTrue'
    BY CalCalls DEF Cal!Recover, Cal!Start, Cal!Follow, Cal!FollowRole, Cal!ChangesRole, Cal!NoCall,
        Cal!Rest, Cal!At, Cal!envVars, Cal!pgVars, CalInv, SaidTrue, Values, Cal!Roles, Steps, Roled,
        Standby, Cal!Starting
  <1> QED BY <1>1, <1>2, <1>3, <1>4 DEF CalInv

LEMMA CalPostRecover == ASSUME CalInv, Cal!PostRecover PROVE CalInv'
  <1>1. Values' /\ Steps' /\ Roled'
    BY DEF Cal!PostRecover, Cal!NoCall, Cal!Rest, Cal!At, Cal!envVars, Cal!pgVars, CalInv, Values, Cal!Roles,
        Cal!Starting, Steps, Standby, Roled
  <1>2. Executor'
    BY CalCalls DEF Cal!PostRecover, Cal!NoCall, Cal!Rest, Cal!At, Cal!envVars, Cal!pgVars, CalInv, Executor,
        Values, Cal!Roles
  <1>3. SaidTrue'
    BY CalCalls DEF Cal!PostRecover, Cal!NoCall, Cal!Rest, Cal!At, Cal!envVars, Cal!pgVars, CalInv, SaidTrue,
        Values, Cal!Roles, Steps, Roled, Standby, Cal!Starting
  <1> QED BY <1>1, <1>2, <1>3 DEF CalInv

LEMMA CalFollowLeader == ASSUME CalInv, Cal!FollowLeader PROVE CalInv'
  <1>1. Values'
    BY DEF Cal!FollowLeader, Cal!Follow, Cal!Reload, Cal!FollowRole, Cal!ChangesRole, Cal!Start,
        Cal!CallNowait, Cal!NoCall, Cal!Rest, Cal!At, Cal!envVars, Cal!pgVars, CalInv, Values, Cal!Roles,
        Cal!Starting
  <1>2. Executor'
    BY CalCalls DEF Cal!FollowLeader, Cal!Follow, Cal!Reload, Cal!FollowRole, Cal!ChangesRole, Cal!Start,
        Cal!CallNowait, Cal!NoCall, Cal!Rest, Cal!At, Cal!envVars, Cal!pgVars, CalInv, Executor, Values,
        Cal!Roles
  <1>3. Steps'
    <2> DEFINE r == Cal!FollowRole
    <2>1. r \in {"replica", "standby_leader"} /\ (r = "standby_leader" => cStandby) BY DEF Cal!FollowRole
    <2>2. Cal!At("idle") /\ cPg \in {"startRecovery", "recovery", "promoting"} /\ (~cLock \/ cStandby) BY DEF
        Cal!FollowLeader
    <2>3. CASE Cal!Follow(r)
      <3> HIDE DEF r
      <3> QED BY <2>1, <2>2, <2>3 DEF Cal!Follow, Cal!Start, Cal!ChangesRole, CalInv, Steps, Values,
          Cal!Roles, Cal!Starting, Standby, Cal!Rest, Cal!At, Cal!envVars, Cal!pgVars, Cal!NoCall, Roled
    <2>4. CASE Cal!Reload(r)
      <3> HIDE DEF r
      <3> QED BY <2>1, <2>2, <2>4 DEF Cal!Reload, Cal!ChangesRole, CalInv, Steps, Values, Cal!Roles,
          Cal!Starting, Standby, Cal!Rest, Cal!At, Cal!envVars, Cal!pgVars, Cal!NoCall, Roled
    <2>5. CASE r = "standby_leader" /\ cRole # "standby_leader" /\ cRole' = "standby_leader"
               /\ Cal!CallNowait(FALSE, "standby_leader") /\ UNCHANGED <<cPg, state, pending, cPc, change>>
               /\ Cal!Rest
      BY <2>1, <2>2, <2>5 DEF Cal!FollowRole, Cal!CallNowait, CalInv, Steps, Values, Cal!Roles, Cal!Starting,
          Standby, Cal!Rest, Cal!At, Cal!envVars, Cal!pgVars, Cal!NoCall, Roled
    <2> QED BY <2>3, <2>4, <2>5 DEF Cal!FollowLeader
  <1>4. Roled'
    <2> DEFINE r == Cal!FollowRole
    <2>1. r \in {"replica", "standby_leader"} /\ (r = "standby_leader" => cStandby) BY DEF Cal!FollowRole
    <2>2. Cal!At("idle") /\ cPg \in {"startRecovery", "recovery", "promoting"} /\ (~cLock \/ cStandby) BY DEF
        Cal!FollowLeader
    <2>3. CASE Cal!Follow(r)
      <3> HIDE DEF r
      <3> QED BY <2>1, <2>2, <2>3 DEF Cal!Follow, Cal!Start, Cal!ChangesRole, CalInv, Roled, Values,
          Cal!Roles, Cal!Starting, Standby, Cal!Rest, Cal!At, Cal!envVars, Cal!pgVars, Cal!NoCall, Steps
    <2>4. CASE Cal!Reload(r)
      <3> HIDE DEF r
      <3> QED BY <2>1, <2>2, <2>4 DEF Cal!Reload, Cal!ChangesRole, CalInv, Roled, Values, Cal!Roles,
          Cal!Starting, Standby, Cal!Rest, Cal!At, Cal!envVars, Cal!pgVars, Cal!NoCall, Steps
    <2>5. CASE r = "standby_leader" /\ cRole # "standby_leader" /\ cRole' = "standby_leader"
               /\ Cal!CallNowait(FALSE, "standby_leader") /\ UNCHANGED <<cPg, state, pending, cPc, change>>
               /\ Cal!Rest
      BY <2>1, <2>2, <2>5 DEF Cal!FollowRole, Cal!CallNowait, CalInv, Roled, Values, Cal!Roles, Cal!Starting,
          Standby, Cal!Rest, Cal!At, Cal!envVars, Cal!pgVars, Cal!NoCall, Steps
    <2> QED BY <2>3, <2>4, <2>5 DEF Cal!FollowLeader
  <1>5. SaidTrue'
    <2> DEFINE r == Cal!FollowRole
    <2>1. r \in {"replica", "standby_leader"} /\ (r = "standby_leader" => cStandby) BY DEF Cal!FollowRole
    <2>2. Cal!At("idle") /\ cPg \in {"startRecovery", "recovery", "promoting"} /\ (~cLock \/ cStandby) BY DEF
        Cal!FollowLeader
    <2>3. CASE Cal!Follow(r)
      <3> HIDE DEF r
      <3> QED BY <2>1, <2>2, <2>3, CalCalls DEF Cal!Follow, Cal!Start, Cal!ChangesRole, CalInv, SaidTrue,
          Values, Cal!Roles, Cal!Starting, Standby, Cal!Rest, Cal!At, Cal!envVars, Cal!pgVars, Cal!NoCall,
          Steps, Roled
    <2>4. CASE Cal!Reload(r)
      <3> HIDE DEF r
      <3> QED BY <2>1, <2>2, <2>4, CalCalls DEF Cal!Reload, Cal!ChangesRole, CalInv, SaidTrue, Values,
          Cal!Roles, Cal!Starting, Standby, Cal!Rest, Cal!At, Cal!envVars, Cal!pgVars, Cal!NoCall, Steps,
          Roled
    <2>5. CASE r = "standby_leader" /\ cRole # "standby_leader" /\ cRole' = "standby_leader"
               /\ Cal!CallNowait(FALSE, "standby_leader") /\ UNCHANGED <<cPg, state, pending, cPc, change>>
               /\ Cal!Rest
      BY <2>1, <2>2, <2>5, CalCalls DEF Cal!FollowRole, Cal!CallNowait, CalInv, SaidTrue, Values, Cal!Roles,
          Cal!Starting, Standby, Cal!Rest, Cal!At, Cal!envVars, Cal!pgVars, Cal!NoCall, Steps, Roled
    <2> QED BY <2>3, <2>4, <2>5 DEF Cal!FollowLeader
  <1> QED BY <1>1, <1>2, <1>3, <1>4, <1>5 DEF CalInv

LEMMA CalNoteRole == ASSUME CalInv, Cal!NoteRole PROVE CalInv'
  <1>1. Values' /\ Steps' /\ Roled'
    BY DEF Cal!NoteRole, Cal!NoCall, Cal!Rest, Cal!At, Cal!envVars, Cal!pgVars, CalInv, Values, Cal!Roles,
        Cal!Starting, Steps, Standby, Roled
  <1>2. Executor'
    BY CalCalls DEF Cal!NoteRole, Cal!NoCall, Cal!Rest, Cal!At, Cal!envVars, Cal!pgVars, CalInv, Executor,
        Values, Cal!Roles
  <1>3. SaidTrue'
    BY CalCalls DEF Cal!NoteRole, Cal!NoCall, Cal!Rest, Cal!At, Cal!envVars, Cal!pgVars, CalInv, SaidTrue,
        Values, Cal!Roles, Steps, Roled, Standby, Cal!Starting
  <1> QED BY <1>1, <1>2, <1>3 DEF CalInv

LEMMA CalPromote == ASSUME CalInv, Cal!Promote PROVE CalInv'
  <1>1. Values' /\ Steps' /\ Roled'
    BY DEF Cal!Promote, Cal!CallNowait, Cal!Rest, Cal!At, Cal!envVars, Cal!pgVars, CalInv, Values, Cal!Roles,
        Cal!Starting, Steps, Standby, Roled
  <1>2. Executor'
    BY CalCalls DEF Cal!Promote, Cal!CallNowait, Cal!Rest, Cal!At, Cal!envVars, Cal!pgVars, CalInv, Executor,
        Values, Cal!Roles
  <1>3. SaidTrue'
    BY CalCalls DEF Cal!Promote, Cal!CallNowait, Cal!Rest, Cal!At, Cal!envVars, Cal!pgVars, CalInv, SaidTrue,
        Values, Cal!Roles, Steps, Roled, Standby, Cal!Starting
  <1> QED BY <1>1, <1>2, <1>3 DEF CalInv

LEMMA CalDemote == ASSUME CalInv, Cal!Demote PROVE CalInv'
  <1>1. Values'
    BY DEF Cal!Demote, Cal!Stop, Cal!CallNowait, Cal!NoCall, Cal!Rest, Cal!At, Cal!envVars, Cal!pgVars,
        CalInv, Values, Cal!Roles, Cal!Starting
  <1>2. Steps'
    BY DEF Cal!Demote, Cal!Stop, Cal!CallNowait, Cal!NoCall, Cal!Rest, Cal!At, Cal!envVars, Cal!pgVars,
        CalInv, Steps, Standby
  <1>3. Roled'
    BY DEF Cal!Demote, Cal!Stop, Cal!CallNowait, Cal!NoCall, Cal!Rest, Cal!At, Cal!envVars, Cal!pgVars,
        CalInv, Roled, Standby
  <1>4. Executor'
    BY CalCalls DEF Cal!Demote, Cal!Stop, Cal!CallNowait, Cal!NoCall, Cal!Rest, Cal!At, Cal!envVars,
        Cal!pgVars, CalInv, Executor, Values, Cal!Roles
  <1>5. SaidTrue'
    BY CalCalls DEF Cal!Demote, Cal!Stop, Cal!CallNowait, Cal!NoCall, Cal!Rest, Cal!At, Cal!envVars,
        Cal!pgVars, CalInv, SaidTrue, Values, Cal!Roles, Steps, Roled, Standby, Cal!Starting
  <1> QED BY <1>1, <1>2, <1>3, <1>4, <1>5 DEF CalInv

LEMMA CalReinitialize == ASSUME CalInv, Cal!Reinitialize PROVE CalInv'
  <1>1. Values' /\ Steps' /\ Roled'
    BY DEF Cal!Reinitialize, Cal!Stop, Cal!CallNowait, Cal!NoCall, Cal!Rest, Cal!At, Cal!envVars, Cal!pgVars,
        CalInv, Values, Cal!Roles, Cal!Starting, Steps, Standby, Roled
  <1>2. Executor'
    BY CalCalls DEF Cal!Reinitialize, Cal!Stop, Cal!CallNowait, Cal!NoCall, Cal!Rest, Cal!At, Cal!envVars,
        Cal!pgVars, CalInv, Executor, Values, Cal!Roles
  <1>3. SaidTrue'
    BY CalCalls DEF Cal!Reinitialize, Cal!Stop, Cal!CallNowait, Cal!NoCall, Cal!Rest, Cal!At, Cal!envVars,
        Cal!pgVars, CalInv, SaidTrue, Values, Cal!Roles, Steps, Roled, Standby, Cal!Starting
  <1> QED BY <1>1, <1>2, <1>3 DEF CalInv

LEMMA CalRestart == ASSUME CalInv, Cal!Restart PROVE CalInv'
  <1>1. Values' /\ Steps' /\ Roled'
    BY DEF Cal!Restart, Cal!Start, Cal!NoCall, Cal!Rest, Cal!At, Cal!envVars, Cal!pgVars, CalInv, Values,
        Cal!Roles, Cal!Starting, Steps, Standby, Roled
  <1>2. Executor'
    BY CalCalls DEF Cal!Restart, Cal!Start, Cal!NoCall, Cal!Rest, Cal!At, Cal!envVars, Cal!pgVars, CalInv,
        Executor, Values, Cal!Roles
  <1>3. SaidTrue'
    BY CalCalls DEF Cal!Restart, Cal!Start, Cal!NoCall, Cal!Rest, Cal!At, Cal!envVars, Cal!pgVars, CalInv,
        SaidTrue, Values, Cal!Roles, Steps, Roled, Standby, Cal!Starting
  <1> QED BY <1>1, <1>2, <1>3 DEF CalInv

LEMMA CalFirstCall == ASSUME CalInv, Cal!FirstCall PROVE CalInv'
  <1>1. Values' /\ Steps' /\ Roled'
    BY DEF Cal!FirstCall, Cal!CallNowait, Cal!Rest, Cal!At, Cal!envVars, Cal!pgVars, CalInv, Values,
        Cal!Roles, Cal!Starting, Steps, Standby, Roled
  <1>2. Executor'
    BY CalCalls DEF Cal!FirstCall, Cal!CallNowait, Cal!Rest, Cal!At, Cal!envVars, Cal!pgVars, CalInv,
        Executor, Values, Cal!Roles
  <1>3. SaidTrue'
    BY CalCalls DEF Cal!FirstCall, Cal!CallNowait, Cal!Rest, Cal!At, Cal!envVars, Cal!pgVars, CalInv,
        SaidTrue, Values, Cal!Roles, Steps, Roled, Standby, Cal!Starting
  <1> QED BY <1>1, <1>2, <1>3 DEF CalInv

LEMMA CalPatroniRestarts == ASSUME CalInv, Cal!PatroniRestarts PROVE CalInv'
  <1>1. Values' /\ Steps' /\ Roled'
    BY DEF Cal!PatroniRestarts, Cal!CallNowait, Cal!envVars, Cal!pgVars, CalInv, Values, Cal!Roles,
        Cal!Starting, Steps, Standby, Roled
  <1>2. Executor'
    <2>1. cCall' = Cal!Idle \/ \E r \in Cal!Roles : cCall' = [at |-> "kill", cmd |-> Cal!Cmd(FALSE, r)]
      BY DEF Cal!PatroniRestarts, Cal!CallNowait, Cal!Roles
    <2>2. slot' = Cal!NoCmd /\ cThread' = Cal!Idle /\ script' = "ended" /\ told' = told BY DEF
        Cal!PatroniRestarts
    <2>3. Cal!Idle \in [at : {"idle", "kill", "put"}, cmd : Cal!Command \cup {Cal!NoCmd}]
          /\ Cal!Idle \in [at : {"idle", "wait", "taken", "started"}, cmd : Cal!Command \cup {Cal!NoCmd}]
          /\ Cal!Idle.at = "idle" /\ Cal!Idle.cmd = Cal!NoCmd
      BY DEF Cal!Idle
    <2>4. CASE cCall' = Cal!Idle BY <2>2, <2>3, <2>4 DEF CalInv, Executor
    <2>5. ASSUME NEW r \in Cal!Roles, cCall' = [at |-> "kill", cmd |-> Cal!Cmd(FALSE, r)] PROVE Executor'
      BY <2>2, <2>3, <2>5, CalCommand DEF CalInv, Executor
    <2> QED BY <2>1, <2>4, <2>5
  <1>3. SaidTrue'
    <2>1. ASSUME called' PROVE cPg \in {"recovery", "promoting", "primary"}
                                 /\ cRole' = (IF cPg = "primary" THEN "master" ELSE "replica")
                                 /\ cCall' = [at |-> "kill", cmd |-> Cal!Cmd(FALSE, cRole')]
      BY <2>1 DEF Cal!PatroniRestarts, Cal!CallNowait, Cal!Starting
    <2>2. cPg' = cPg /\ odd' = odd /\ (~odd => cPg # "promoting") BY DEF Cal!PatroniRestarts, Cal!envVars
    <2>3. ASSUME called' PROVE Said' = Cal!Cmd(FALSE, cRole')
      <3> DEFINE c == Cal!Cmd(FALSE, cRole')
      <3>0. cCall' = [at |-> "kill", cmd |-> c] BY <2>1, <2>3
      <3> HIDE DEF c
      <3>1. cCall'.at = "kill" /\ cCall'.cmd = c BY <3>0
      <3>2. cCall' # Cal!Idle BY <3>1 DEF Cal!Idle
      <3> QED BY <3>1, <3>2 DEF Said, c
    <2>4. "master" \in Cal!Roles /\ "replica" \in Cal!Roles BY DEF Cal!Roles
    <2>5. ASSUME called', ~odd' PROVE ~Said'.stop /\ Said'.role = IF cPg' \in Standby THEN cRole' ELSE "master"
      <3>1. cRole' \in {"master", "replica"} BY <2>1, <2>5
      <3>2. ~Cal!Cmd(FALSE, cRole').stop /\ Cal!Cmd(FALSE, cRole').role = cRole' BY <2>4, <3>1, CalCommand
      <3> QED BY <2>1, <2>2, <2>3, <2>5, <3>2 DEF Standby
    <2> QED BY <2>5 DEF SaidTrue
  <1> QED BY <1>1, <1>2, <1>3 DEF CalInv

LEMMA CalLockChanges == ASSUME CalInv, Cal!LockChanges PROVE CalInv'
  <1>1. Values' /\ Executor' /\ Steps' /\ Roled'
    BY DEF Cal!LockChanges, Cal!envVars, Cal!pgVars, CalInv, Values, Cal!Roles, Cal!Starting, Executor,
        Steps, Standby, Roled
  <1>2. SaidTrue'
    BY CalCommand DEF Cal!LockChanges, Cal!envVars, Cal!pgVars, CalInv, SaidTrue, Standby, Values, Cal!Roles,
        Cal!Starting, Cal!Idle, Executor, Steps, Roled, Said
  <1> QED BY <1>1, <1>2 DEF CalInv

LEMMA CalPauses == ASSUME CalInv, Cal!Pauses PROVE CalInv'
  <1>1. Values' /\ Executor' /\ Steps' /\ Roled'
    BY DEF Cal!Pauses, Cal!envVars, Cal!pgVars, CalInv, Values, Cal!Roles, Cal!Starting, Executor, Steps,
        Standby, Roled
  <1>2. SaidTrue'
    BY CalCommand DEF Cal!Pauses, Cal!envVars, Cal!pgVars, CalInv, SaidTrue, Standby, Values, Cal!Roles,
        Cal!Starting, Cal!Idle, Executor, Steps, Roled, Said
  <1> QED BY <1>1, <1>2 DEF CalInv

LEMMA CalPostgresMoves == ASSUME CalInv, Cal!PostgresMoves PROVE CalInv'
  <1>1. Values' /\ Executor' /\ Steps' /\ Roled'
    BY DEF Cal!PostgresMoves, Cal!envVars, Cal!pgVars, CalInv, Values, Cal!Roles, Cal!Starting, Executor,
        Steps, Standby, Roled
  <1>2. SaidTrue'
    BY CalCommand DEF Cal!PostgresMoves, Cal!envVars, Cal!pgVars, CalInv, SaidTrue, Standby, Values,
        Cal!Roles, Cal!Starting, Cal!Idle, Executor, Steps, Roled, Said
  <1> QED BY <1>1, <1>2 DEF CalInv

\* And so does every step.
LEMMA CalStutter == CalInv /\ UNCHANGED calVars => CalInv'
  BY DEF calVars, CalInv, Values, Executor, Steps, Roled, SaidTrue, Said, Cal!Idle

LEMMA CalStep == ASSUME CalInv, Cal!Next PROVE CalInv'
  BY CalKillProcess, CalPut, CalTake, CalStartProcess, CalScriptEnds, CalKillChildren, CalWaitForStartup,
      CalRoleChange, CalHandleStartingInstance, CalRecover, CalPostRecover, CalFollowLeader, CalNoteRole,
      CalPromote, CalDemote, CalReinitialize, CalRestart, CalFirstCall, CalPatroniRestarts, CalLockChanges,
      CalPauses, CalPostgresMoves DEF Cal!Next

\* What the invariant is for.
LEMMA CalTells == ASSUME CalInv PROVE Cal!LastTold
  BY DEF CalInv, Values, Executor, SaidTrue, Said, Standby, Cal!LastTold, Cal!At, Cal!Idle

\* The invariant of the callbacks, in the system in which the parts are side by side.
LEMMA CalAlways == Spec => [](part = "callbacks" => CalInv)
  <1>1. Init => (part = "callbacks" => CalInv) BY CalBegins DEF Init
  <1>2. (part = "callbacks" => CalInv) /\ [Next]_allVars => (part = "callbacks" => CalInv)'
    <2> SUFFICES ASSUME part = "callbacks" => CalInv, [Next]_allVars, part' = "callbacks" PROVE CalInv' OBVIOUS
    <2>1. CASE UNCHANGED allVars
      <3>1. CalInv /\ UNCHANGED calVars BY <2>1 DEF allVars
      <3> QED BY <3>1, CalStutter
    <2>2. CASE Next
      <3>1. part = "callbacks" /\ Cal!Next BY <2>2 DEF Next
      <3> QED BY <3>1, CalStep
    <2> QED BY <2>1, <2>2
  <1> QED BY <1>1, <1>2, PTL DEF Spec

\* What the callback scripts were told last is so, whatever may go wrong with them, as long as nobody else
\* changes what postgres is (CallbackExecutor, Postgresql.call_nowait).
THEOREM CallbacksAreTold == Spec => [](part = "callbacks" => Cal!LastTold)
  <1>1. (part = "callbacks" => CalInv) => (part = "callbacks" => Cal!LastTold) BY CalTells
  <1> QED BY <1>1, CalAlways, PTL

-----------------------------------------------------------------------------
(* Commands *)

\* What the variables of the commands hold.
ViewType == [leader : Node \cup {NoNode}, failover : Com!Request, paused : BOOLEAN]

DcsType == [leader : Node \cup {NoNode}, failover : Com!Request, paused : BOOLEAN, ver : Nat,
            member : [Node -> [pause : BOOLEAN, sched : BOOLEAN]]]

NodeType == [up : BOOLEAN, pc : {"idle", "loaded", "clean"}, view : ViewType,
             task : {"none", "demote", "stop", "create"}, by : Operator \cup {NoOperator}, sched : BOOLEAN]

Words == {"nothing", "error", "rejected", "scheduled", "moved", "failed", "unknown", "fell back", "flushed",
          "no pending switchover", "no switchover is scheduled", "applied", "not recognized",
          "no scheduled restart", "another restart is scheduled", "already in progress", "completed"}

OpType == [kind : Com!Kind,
           pc : {"begin", "post", "write", "poll", "delete", "remove", "patch", "wait", "drop", "plan",
                 "clone", "cloning", "done"},
           want : Com!Request, seen : ViewType, api : ViewType, m : Node \cup {NoNode}, todo : SUBSET Node,
           fresh : SUBSET Node, steady : BOOLEAN, forced : BOOLEAN, removed : Com!Request, told : Words]

ComTypes ==
  /\ dcs \in DcsType /\ node \in [Node -> NodeType] /\ op \in [Operator -> OpType]
  /\ due \subseteq Operator /\ faults \in 0 .. MaxFailures

\* What may be met: where switchovers are scheduled nobody else asks for one.
Meet == \A o, p \in Operator : op[o].kind = "schedule" => op[p].kind \in {"schedule", "flush"}

\* A request that was loaded: a key of the same version is the same.
Copied(f) ==
  /\ f.ver <= dcs.ver
  /\ f.ver = 0 => f = Com!NoFailover
  /\ f.ver = dcs.failover.ver => f = dcs.failover
  /\ f.timed => f.by \in Operator /\ op[f.by].kind = "schedule"

\* Who demotes itself, or has won the race, has the leader key.
Leads(n) ==
  /\ node[n].pc # "idle" => node[n].up
  /\ node[n].pc = "clean" => dcs.leader = n /\ node[n].task = "none"
  /\ node[n].task = "demote" => dcs.leader = n /\ node[n].up
  /\ node[n].by # NoOperator => node[n].task = "demote"

\* The leader carries out a request of o, or will: the key is there until it has done so.
Waits(n, o) ==
  op[o].kind \in {"switchover", "failover"} /\ (node[n].by = o \/ Com!HandsOver(n, o)) => dcs.failover # Com!NoFailover

\* Where a command is.
Step(o) ==
  /\ op[o].pc \in {"post", "write", "poll"} =>
       /\ op[o].kind \in {"switchover", "schedule", "failover"}
       /\ op[o].want.by = o /\ (op[o].want.timed <=> op[o].kind = "schedule")
  /\ op[o].pc = "poll" => op[o].kind # "schedule"
  /\ op[o].pc \in {"delete", "remove"} => op[o].kind = "flush" /\ op[o].seen.failover.timed
  /\ op[o].pc = "remove" => op[o].api.failover.timed
  /\ op[o].pc \in {"patch", "wait"} => op[o].kind \in {"pause", "resume"}
  /\ op[o].pc \in {"drop", "plan"} => op[o].kind \in {"restart", "unrestart"}
  /\ op[o].pc \notin {"begin", "done", "delete", "patch", "wait"} => op[o].m \in Node
  /\ op[o].pc = "begin" => op[o].fresh = {}
  /\ op[o].pc # "done" => op[o].told = "nothing"

\* Once the configuration has been changed nobody loads the old one; before, nobody has the new one.
Toggle(o) ==
  op[o].steady =>
    /\ op[o].pc = "begin" => \A n \in Node : node[n].pc # "idle" => node[n].view.paused = dcs.paused
    /\ op[o].pc = "patch" /\ dcs.paused # Com!Goal(o) =>
         \A n \in Node : node[n].pc # "idle" => node[n].view.paused # Com!Goal(o)
    /\ op[o].pc = "wait" \/ op[o].told = "applied" => dcs.paused = Com!Goal(o)
    /\ op[o].pc \in {"patch", "wait"} =>
         \A n \in op[o].fresh : dcs.member[n].pause = Com!Goal(o) =>
           dcs.paused = Com!Goal(o) /\ (node[n].pc # "idle" => node[n].view.paused = Com!Goal(o))
    /\ op[o].told = "applied" =>
         \A n \in op[o].fresh : node[n].pc # "idle" => node[n].view.paused = Com!Goal(o)

\* All that holds of an operator.
Order(o) ==
  /\ Copied(op[o].seen.failover) /\ Copied(op[o].api.failover)
  /\ Step(o) /\ Toggle(o) /\ Com!FlushTold(o) /\ Com!FailedTold(o)

\* All of it.
ComInv ==
  /\ ComTypes /\ Meet /\ Copied(dcs.failover)
  /\ \A n \in Node : Copied(node[n].view.failover) /\ Leads(n) /\ \A o \in Operator : Waits(n, o)
  /\ \A o \in Operator : Order(o)

\* What is assumed of the constants.
LEMMA ComConstants == NoNode \notin Node /\ NoOperator \notin Operator /\ MaxFailures \in Nat
  BY ControlAssumption DEF Com!CommandsAssumption

\* What the null records are.
LEMMA ComNulls ==
  /\ Com!NoFailover \in Com!Request /\ Com!NoFailover.ver = 0 /\ Com!NoFailover.by = NoOperator
  /\ ~Com!NoFailover.timed
  /\ Com!NoView \in ViewType /\ Com!NoView.failover = Com!NoFailover
  BY DEF Com!NoFailover, Com!Request, Com!NoView, ViewType

\* A command that begins.
LEMMA ComNew ==
  ASSUME NEW kind \in Com!Kind
  PROVE  /\ Com!NewOp(kind) \in OpType /\ Com!NewOp(kind).kind = kind /\ Com!NewOp(kind).pc = "begin"
         /\ Com!NewOp(kind).seen = Com!NoView /\ Com!NewOp(kind).api = Com!NoView /\ Com!NewOp(kind).fresh = {}
         /\ Com!NewOp(kind).steady /\ Com!NewOp(kind).told = "nothing"
         /\ Com!NewOp(kind).removed = Com!NoFailover
         /\ Com!NewOp(kind).want = Com!NoFailover
  <1>1. Com!NewOp(kind) \in OpType
    <2>1. ASSUME NEW s \in BOOLEAN, NEW f \in BOOLEAN, NEW T \in SUBSET Node, NEW told_ \in Words
          PROVE  [kind |-> kind, pc |-> "begin", want |-> Com!NoFailover, seen |-> Com!NoView, api |-> Com!NoView,
                  m |-> NoNode, todo |-> T, fresh |-> T, steady |-> s, forced |-> f,
                  removed |-> Com!NoFailover, told |-> told_] \in OpType
      BY ComNulls DEF OpType
    <2>2. {} \in SUBSET Node /\ TRUE \in BOOLEAN /\ FALSE \in BOOLEAN /\ "nothing" \in Words BY DEF Words
    <2> QED BY <2>1, <2>2 DEF Com!NewOp
  <1>2. /\ Com!NewOp(kind).kind = kind /\ Com!NewOp(kind).pc = "begin"
        /\ Com!NewOp(kind).seen = Com!NoView /\ Com!NewOp(kind).api = Com!NoView /\ Com!NewOp(kind).fresh = {}
        /\ Com!NewOp(kind).steady /\ Com!NewOp(kind).told = "nothing"
        /\ Com!NewOp(kind).removed = Com!NoFailover
        /\ Com!NewOp(kind).want = Com!NoFailover
    BY DEF Com!NewOp
  <1> QED BY <1>1, <1>2

\* What a load of the cluster gives.
LEMMA ComCluster == ASSUME ComTypes PROVE Com!Cluster \in ViewType /\ Com!Cluster.failover = dcs.failover /\ Com!Cluster.paused = dcs.paused /\ Com!Cluster.leader = dcs.leader
  BY DEF ComTypes, DcsType, ViewType, Com!Cluster

\* A command of o goes on.
LEMMA ComMoves ==
  ASSUME ComTypes, NEW o \in Operator, NEW c \in OpType, op' = [op EXCEPT ![o] = c]
  PROVE  op' \in [Operator -> OpType] /\ op'[o] = c /\ \A p \in Operator \ {o} : op'[p] = op[p]
  BY DEF ComTypes

\* It ends.
LEMMA ComEnds ==
  ASSUME ComTypes, NEW o \in Operator, NEW what \in Words, Com!Tells(o, what)
  PROVE  /\ op' \in [Operator -> OpType] /\ \A p \in Operator \ {o} : op'[p] = op[p]
         /\ op'[o].kind = op[o].kind /\ op'[o].pc = "done" /\ op'[o].told = what
         /\ op'[o].seen = Com!NoView /\ op'[o].api = Com!NoView /\ op'[o].removed = Com!NoFailover
         /\ op'[o].fresh = op[o].fresh /\ op'[o].steady = op[o].steady
  <1> DEFINE k == op[o].kind
             m == IF what = "completed" THEN op[o].m ELSE NoNode
             c == [Com!NewOp(k) EXCEPT !.pc = "done", !.told = what, !.m = m, !.fresh = op[o].fresh, !.steady = op[o].steady]
  <1>1. k \in Com!Kind /\ m \in Node \cup {NoNode} /\ op[o].fresh \in SUBSET Node /\ op[o].steady \in BOOLEAN
    BY DEF ComTypes, OpType
  <1>2. op' = [op EXCEPT ![o] = c] BY DEF Com!Tells, ComTypes
  <1> HIDE DEF k, m
  <1>0. Com!NewOp(k) \in OpType BY <1>1, ComNew
  <1>5. c \in OpType BY <1>0, <1>1 DEF OpType
  <1>3. /\ c \in OpType /\ c.kind = k /\ c.pc = "done" /\ c.told = what
        /\ c.seen = Com!NoView /\ c.api = Com!NoView /\ c.removed = Com!NoFailover
        /\ c.fresh = op[o].fresh /\ c.steady = op[o].steady
    BY <1>0, <1>1, <1>5, ComNew DEF OpType
  <1> HIDE DEF c
  <1>4. op' \in [Operator -> OpType] /\ op'[o] = c /\ \A p \in Operator \ {o} : op'[p] = op[p]
    BY <1>2, <1>3, ComMoves
  <1> QED BY <1>3, <1>4 DEF k

\* The loops of the nodes stay where they are, and no leader begins something else.
NodesStay ==
  \A n \in Node :
    /\ node'[n].up = node[n].up /\ node'[n].pc = node[n].pc /\ node'[n].view = node[n].view
    /\ \/ node'[n].task = node[n].task /\ node'[n].by = node[n].by
       \/ dcs.leader # n /\ node'[n].task # "demote" /\ node'[n].by = NoOperator

\* The key of the requests is as it was, is written by o, or a switchover that is scheduled is removed.
Kept == dcs'.failover = dcs.failover /\ dcs'.ver = dcs.ver
Wrote(o) ==
  /\ dcs'.ver = dcs.ver + 1 /\ dcs'.failover.ver = dcs.ver + 1 /\ dcs'.failover.by = o
  /\ dcs'.failover.timed => op[o].kind = "schedule"
Cut == dcs'.failover = Com!NoFailover /\ dcs'.ver = dcs.ver /\ dcs.failover.timed

\* What was loaded stays a copy.
LEMMA ComCopied ==
  ASSUME ComInv, NEW o \in Operator, Kept \/ Wrote(o) \/ Cut, \A p \in Operator : op'[p].kind = op[p].kind,
         NEW CONSTANT f, f.ver \in Nat, Copied(f)
  PROVE  Copied(f)'
  <1>1. dcs.ver \in Nat BY DEF ComInv, ComTypes, DcsType
  <1> QED BY <1>1, ComNulls DEF Copied, Kept, Wrote, Cut

\* What one operator does leaves what holds of the others and of the nodes.
LEMMA ComOps ==
  ASSUME ComInv, ComTypes', NEW o \in Operator, NodesStay,
         dcs'.leader = dcs.leader, dcs'.paused = dcs.paused, dcs'.member = dcs.member,
         Kept \/ Wrote(o) \/ Cut,
         \A p \in Operator \ {o} : op'[p] = op[p], op'[o].kind = op[o].kind,
         Order(o)'
  PROVE  ComInv'
  <1>1. \A p \in Operator : op'[p].kind = op[p].kind OBVIOUS
  <1>2. Meet' BY <1>1 DEF ComInv, Meet
  <1>3. dcs.ver \in Nat BY DEF ComInv, ComTypes, DcsType
  <1>4. ASSUME NEW CONSTANT f, f.ver \in Nat, Copied(f) PROVE Copied(f)'
    BY <1>1, <1>4, ComCopied
  <1>5. Copied(dcs.failover)'
    BY <1>1, <1>3, <1>4, ComNulls, ComConstants DEF ComInv, ComTypes, DcsType, Com!Request, Copied, Kept,
        Wrote, Cut
  <1>6. \A n \in Node : Copied(node[n].view.failover)' /\ Leads(n)'
    BY <1>4 DEF ComInv, ComTypes, NodeType, ViewType, Com!Request, NodesStay, Leads
  <1>7. ASSUME NEW n \in Node, NEW p \in Operator PROVE Waits(n, p)'
    BY <1>1, <1>3, ComNulls, ComConstants DEF ComInv, Copied, Waits, Com!HandsOver, NodesStay, Kept, Wrote,
        Cut, Meet
  <1>8. ASSUME NEW p \in Operator \ {o} PROVE Order(p)'
    <2>1. Copied(op[p].seen.failover)' /\ Copied(op[p].api.failover)'
      BY <1>4, <1>8 DEF ComInv, ComTypes, OpType, ViewType, Com!Request, Order
    <2>2. Step(p)' /\ Com!FlushTold(p)' BY <1>8 DEF ComInv, Order, Step, Com!FlushTold
    <2>3. Toggle(p)'
      <3>1. op'[p] = op[p] /\ op[p].fresh \subseteq Node BY <1>8 DEF ComInv, ComTypes, OpType
      <3>2. \A n \in Node : node'[n].pc = node[n].pc /\ node'[n].view = node[n].view BY DEF NodesStay
      <3>3. Toggle(p) BY <1>8 DEF ComInv, Order
      <3> QED BY <3>1, <3>2, <3>3 DEF Toggle, Com!Goal
    <2>4. Com!FailedTold(p)'
      BY <1>8, ComConstants, ComNulls DEF ComInv, Order, Com!FailedTold, Com!HandsOver, NodesStay, Kept,
          Wrote, Cut
    <2> QED BY <2>1, <2>2, <2>3, <2>4 DEF Order
  <1> QED BY <1>2, <1>5, <1>6, <1>7, <1>8 DEF ComInv

\* A command goes on.
LEMMA ComGoes ==
  ASSUME ComInv, NEW o \in Operator, NEW c \in OpType, op' = [op EXCEPT ![o] = c], NodesStay,
         node' \in [Node -> NodeType], dcs' \in DcsType, UNCHANGED due, faults' \in 0 .. MaxFailures,
         dcs'.leader = dcs.leader, dcs'.paused = dcs.paused, dcs'.member = dcs.member,
         Kept \/ Wrote(o) \/ Cut,
         c.kind = op[o].kind, c.pc \notin {"begin", "patch", "wait", "done"}, c.told = "nothing",
         Copied(c.seen.failover), Copied(c.api.failover), Step(o)'
  PROVE  ComInv'
  <1>1. op' \in [Operator -> OpType] /\ op'[o] = c /\ \A p \in Operator \ {o} : op'[p] = op[p]
    BY ComMoves DEF ComInv
  <1>2. ComTypes' BY <1>1 DEF ComInv, ComTypes
  <1>3. \A p \in Operator : op'[p].kind = op[p].kind BY <1>1
  <1>4. c.seen.failover.ver \in Nat /\ c.api.failover.ver \in Nat BY DEF OpType, ViewType, Com!Request
  <1>5. Copied(op[o].seen.failover)' /\ Copied(op[o].api.failover)'
    <2>1. Copied(c.seen.failover)' /\ Copied(c.api.failover)' BY <1>3, <1>4, ComCopied
    <2> QED BY <1>1, <2>1
  <1>6. Order(o)' BY <1>1, <1>5 DEF Order, Toggle, Com!FlushTold, Com!FailedTold
  <1> QED BY <1>1, <1>2, <1>6, ComOps

\* It ends: what is told is so.
LEMMA ComTold ==
  ASSUME ComInv, NEW o \in Operator, NEW what \in Words, Com!Tells(o, what), NodesStay,
         node' \in [Node -> NodeType], dcs' \in DcsType, UNCHANGED due, faults' \in 0 .. MaxFailures,
         dcs'.leader = dcs.leader, dcs'.paused = dcs.paused, dcs'.member = dcs.member,
         Kept \/ Wrote(o) \/ Cut,
         what = "flushed" => op[o].kind # "flush",
         what = "failed" => Kept /\ dcs.failover.by # o /\ \A n \in Node : node[n].by # o /\ ~Com!HandsOver(n, o),
         what = "applied" /\ op[o].steady =>
           /\ dcs.paused = Com!Goal(o)
           /\ \A n \in op[o].fresh : node[n].pc # "idle" => node[n].view.paused = Com!Goal(o)
  PROVE  ComInv'
  <1>1. /\ op' \in [Operator -> OpType] /\ \A p \in Operator \ {o} : op'[p] = op[p]
        /\ op'[o].kind = op[o].kind /\ op'[o].pc = "done" /\ op'[o].told = what
        /\ op'[o].seen = Com!NoView /\ op'[o].api = Com!NoView /\ op'[o].removed = Com!NoFailover
        /\ op'[o].fresh = op[o].fresh /\ op'[o].steady = op[o].steady
    BY ComEnds DEF ComInv
  <1>2. ComTypes' BY <1>1 DEF ComInv, ComTypes
  <1>3. Copied(Com!NoFailover)'
    <2>1. Copied(Com!NoFailover) BY ComNulls DEF ComInv, ComTypes, DcsType, Copied
    <2>2. \A p \in Operator : op'[p].kind = op[p].kind BY <1>1
    <2> QED BY <2>1, <2>2, ComNulls, ComCopied
  <1>4. Copied(op[o].seen.failover)' /\ Copied(op[o].api.failover)' BY <1>1, <1>3, ComNulls
  <1>5. Step(o)' BY <1>1 DEF Step
  <1>6. Toggle(o)'
    <2>1. op[o].fresh \subseteq Node BY DEF ComInv, ComTypes, OpType
    <2>2. \A n \in Node : node'[n].pc = node[n].pc /\ node'[n].view = node[n].view BY DEF NodesStay
    <2> QED BY <1>1, <2>1, <2>2 DEF Toggle, Com!Goal
  <1>7. Com!FlushTold(o)' BY <1>1 DEF Com!FlushTold
  <1>8. Com!FailedTold(o)' BY <1>1, ComConstants DEF Com!FailedTold, Com!HandsOver, NodesStay, Kept
  <1> QED BY <1>1, <1>2, <1>4, <1>5, <1>6, <1>7, <1>8, ComOps DEF Order

\* Nothing but the command of o changes.
LEMMA ComOnly ==
  ASSUME ComInv, UNCHANGED <<dcs, node>>
  PROVE  /\ NodesStay /\ node' \in [Node -> NodeType] /\ dcs' \in DcsType
         /\ dcs'.leader = dcs.leader /\ dcs'.paused = dcs.paused /\ dcs'.member = dcs.member /\ Kept
  BY DEF ComInv, ComTypes, NodesStay, Kept

\* What is known of a command.
LEMMA ComOp ==
  ASSUME ComInv, NEW o \in Operator
  PROVE  /\ op[o] \in OpType /\ Order(o) /\ Step(o)
         /\ Copied(op[o].seen.failover) /\ Copied(op[o].api.failover)
         /\ op[o].kind \in Com!Kind /\ op[o].want \in Com!Request /\ op[o].m \in Node \cup {NoNode}
         /\ op = [op EXCEPT ![o] = op[o]]
  BY DEF ComInv, ComTypes, OpType, Order

\* Each action keeps the invariant: those of the operators.
LEMMA ComBeginSwitchover == ASSUME ComInv, NEW o \in Operator, Com!BeginSwitchover(o) PROVE ComInv'
  <1> DEFINE timed == op[o].kind = "schedule"
             leader == IF op[o].kind = "failover" THEN NoNode ELSE dcs.leader
  <1>1. op[o].kind \in {"switchover", "schedule", "failover"} /\ op[o].pc = "begin"
        /\ UNCHANGED <<dcs, node, due, faults>>
    BY DEF Com!BeginSwitchover
  <1>2. CASE Com!Tells(o, "error") BY <1>1, <1>2, ComOnly, ComTold DEF Words, ComInv, ComTypes
  <1>3. ASSUME NEW c \in (Node \cup {NoNode}) \ {dcs.leader}, op[o].kind = "failover" => c # NoNode,
               ~(op[o].kind # "failover" /\ dcs.leader = NoNode),
               op' = [op EXCEPT ![o].pc = "post", ![o].m = IF dcs.leader # NoNode THEN dcs.leader ELSE c,
                        ![o].want = [by |-> o, leader |-> leader, candidate |-> c, timed |-> timed, ver |-> 0]]
        PROVE  ComInv'
    <2> DEFINE m == IF dcs.leader # NoNode THEN dcs.leader ELSE c
               w == [by |-> o, leader |-> leader, candidate |-> c, timed |-> timed, ver |-> 0]
               x == [op[o] EXCEPT !.pc = "post", !.m = m, !.want = w]
    <2>1. dcs.leader \in Node \cup {NoNode} BY DEF ComInv, ComTypes, DcsType
    <2>2. m \in Node BY <1>1, <1>3, <2>1
    <2>3. w \in Com!Request /\ w.by = o /\ (w.timed <=> timed) BY <2>1, <1>3 DEF Com!Request
    <2>4. op' = [op EXCEPT ![o] = x] BY <1>3, ComOp
    <2> HIDE DEF w, m
    <2>5. x \in OpType
      <3>1. op[o] \in OpType /\ m \in Node \cup {NoNode} /\ w \in Com!Request BY <2>2, <2>3, ComOp
      <3> QED BY <3>1 DEF OpType
    <2>6. x.kind = op[o].kind /\ x.pc = "post" /\ x.told = op[o].told /\ x.seen = op[o].seen
          /\ x.api = op[o].api
          /\ x.want = w /\ x.m = m
      BY ComOp DEF OpType
    <2> HIDE DEF x
    <2>7. op'[o] = x BY <2>4, <2>5, ComMoves DEF ComInv
    <2>8. Step(o)' BY <1>1, <2>2, <2>3, <2>6, <2>7, ComOp DEF Step
    <2>9. x.told = "nothing" BY <1>1, <2>6, ComOp DEF Step
    <2> QED BY <1>1, <2>4, <2>5, <2>6, <2>8, <2>9, ComOp, ComOnly, ComGoes DEF ComInv, ComTypes
  <1> QED BY <1>2, <1>3 DEF Com!BeginSwitchover

LEMMA ComBeginFlush == ASSUME ComInv, NEW o \in Operator, Com!BeginFlush(o) PROVE ComInv'
  <1>1. op[o].kind = "flush" /\ op[o].pc = "begin" /\ UNCHANGED <<dcs, node, due, faults>> BY DEF
      Com!BeginFlush
  <1>2. CASE Com!Tells(o, "no pending switchover") BY <1>1, <1>2, ComOnly, ComTold DEF Words, ComInv, ComTypes
  <1>3. CASE dcs.failover.timed /\ op' = [op EXCEPT ![o].pc = "delete", ![o].seen = Com!Cluster, ![o].todo = Node]
    <2> DEFINE x == [op[o] EXCEPT !.pc = "delete", !.seen = Com!Cluster, !.todo = Node]
    <2>1. Com!Cluster \in ViewType /\ Com!Cluster.failover = dcs.failover BY ComCluster DEF ComInv
    <2>2. op' = [op EXCEPT ![o] = x] BY <1>3, ComOp
    <2>3. x \in OpType BY <2>1, ComOp DEF OpType
    <2>4. x.kind = op[o].kind /\ x.pc = "delete" /\ x.told = op[o].told /\ x.seen = Com!Cluster
          /\ x.api = op[o].api
      BY ComOp DEF OpType
    <2> HIDE DEF x
    <2>5. op'[o] = x BY <2>2, <2>3, ComMoves DEF ComInv
    <2>6. x.told = "nothing" BY <1>1, <2>4, ComOp DEF Step
    <2>7. Step(o)' BY <1>1, <1>3, <2>1, <2>4, <2>5, <2>6 DEF Step
    <2>8. Copied(x.seen.failover) BY <2>1, <2>4 DEF ComInv
    <2> QED BY <1>1, <2>2, <2>3, <2>4, <2>6, <2>7, <2>8, ComOp, ComOnly, ComGoes DEF ComInv, ComTypes
  <1> QED BY <1>2, <1>3 DEF Com!BeginFlush

LEMMA ComBeginToggle == ASSUME ComInv, NEW o \in Operator, Com!BeginToggle(o) PROVE ComInv'
  <1>1. op[o].kind \in {"pause", "resume"} /\ op[o].pc = "begin" /\ UNCHANGED <<dcs, node, due, faults>> BY
      DEF Com!BeginToggle
  <1>2. CASE Com!Tells(o, "error") BY <1>1, <1>2, ComOnly, ComTold DEF Words, ComInv, ComTypes
  <1>3. CASE dcs.paused # Com!Goal(o) /\ op' = [op EXCEPT ![o].pc = "patch", ![o].seen = Com!Cluster, ![o].todo = Node]
    <2> DEFINE x == [op[o] EXCEPT !.pc = "patch", !.seen = Com!Cluster, !.todo = Node]
    <2>1. Com!Cluster \in ViewType /\ Com!Cluster.failover = dcs.failover BY ComCluster DEF ComInv
    <2>2. op' = [op EXCEPT ![o] = x] BY <1>3, ComOp
    <2>3. x \in OpType BY <2>1, ComOp DEF OpType
    <2>4. x.kind = op[o].kind /\ x.pc = "patch" /\ x.told = op[o].told /\ x.seen = Com!Cluster
          /\ x.api = op[o].api
          /\ x.fresh = op[o].fresh /\ x.steady = op[o].steady
      BY ComOp DEF OpType
    <2> HIDE DEF x
    <2>5. op' \in [Operator -> OpType] /\ op'[o] = x /\ \A p \in Operator \ {o} : op'[p] = op[p]
      BY <2>2, <2>3, ComMoves DEF ComInv
    <2>6. x.told = "nothing" /\ x.fresh = {} BY <1>1, <2>4, ComOp DEF Step
    <2>7. Step(o)' BY <1>1, <2>4, <2>5, <2>6 DEF Step
    <2>8. ComTypes' BY <1>1, <2>5 DEF ComInv, ComTypes
    <2>9. Copied(op[o].seen.failover)' /\ Copied(op[o].api.failover)'
      <3>1. Copied(Com!Cluster.failover) /\ Copied(op[o].api.failover) /\ \A p \in Operator : op'[p].kind = op[p].kind
        BY <2>1, <2>4, <2>5, ComOp DEF ComInv
      <3> QED BY <1>1, <2>1, <2>4, <2>5, <3>1 DEF Copied
    <2>10. Toggle(o)'
      <3>1. Toggle(o) BY ComOp DEF Order
      <3> QED BY <1>1, <1>3, <2>4, <2>5, <2>6, <3>1 DEF Toggle, Com!Goal
    <2>11. Order(o)' BY <2>4, <2>5, <2>6, <2>7, <2>9, <2>10 DEF Order, Com!FlushTold, Com!FailedTold
    <2> QED BY <1>1, <2>4, <2>5, <2>8, <2>11, ComOnly, ComOps
  <1> QED BY <1>2, <1>3 DEF Com!BeginToggle

LEMMA ComBeginRestart == ASSUME ComInv, NEW o \in Operator, Com!BeginRestart(o) PROVE ComInv'
  <1>1. op[o].kind \in {"restart", "unrestart"} /\ op[o].pc = "begin" /\ UNCHANGED <<dcs, node, due, faults>>
    BY DEF Com!BeginRestart
  <1>2. ASSUME NEW what \in {"error", "no scheduled restart"}, Com!Tells(o, what) PROVE ComInv'
    BY <1>1, <1>2, ComOnly, ComTold DEF Words, ComInv, ComTypes
  <1>3. ASSUME NEW m \in Node, NEW pc_ \in {"drop", "plan"}, op' = [op EXCEPT ![o].pc = pc_, ![o].m = m] PROVE ComInv'
    <2> DEFINE x == [op[o] EXCEPT !.pc = pc_, !.m = m]
    <2>2. op' = [op EXCEPT ![o] = x] BY <1>3, ComOp
    <2>3. x \in OpType BY ComOp DEF OpType
    <2>4. x.kind = op[o].kind /\ x.pc = pc_ /\ x.told = op[o].told /\ x.seen = op[o].seen
          /\ x.api = op[o].api /\ x.m = m
      BY ComOp DEF OpType
    <2> HIDE DEF x
    <2>5. op'[o] = x BY <2>2, <2>3, ComMoves DEF ComInv
    <2>6. x.told = "nothing" BY <1>1, <2>4, ComOp DEF Step
    <2>7. Step(o)' BY <1>1, <2>4, <2>5, <2>6 DEF Step
    <2> QED BY <1>1, <2>2, <2>3, <2>4, <2>6, <2>7, ComOp, ComOnly, ComGoes DEF ComInv, ComTypes
  <1> QED BY <1>2, <1>3 DEF Com!BeginRestart

LEMMA ComBeginReinit == ASSUME ComInv, NEW o \in Operator, Com!BeginReinit(o) PROVE ComInv'
  <1>1. op[o].kind = "reinit" /\ op[o].pc = "begin" /\ UNCHANGED <<dcs, node, due, faults>> BY DEF
      Com!BeginReinit
  <1>2. PICK m \in Node, f \in BOOLEAN : op' = [op EXCEPT ![o].pc = "clone", ![o].m = m, ![o].forced = f]
    BY DEF Com!BeginReinit
  <1> DEFINE x == [op[o] EXCEPT !.pc = "clone", !.m = m, !.forced = f]
  <1>3. op' = [op EXCEPT ![o] = x] BY <1>2, ComOp
  <1>4. x \in OpType BY ComOp DEF OpType
  <1>5. x.kind = op[o].kind /\ x.pc = "clone" /\ x.told = op[o].told /\ x.seen = op[o].seen
        /\ x.api = op[o].api /\ x.m = m
    BY ComOp DEF OpType
  <1> HIDE DEF x
  <1>6. op'[o] = x BY <1>3, <1>4, ComMoves DEF ComInv
  <1>7. x.told = "nothing" BY <1>1, <1>5, ComOp DEF Step
  <1>8. Step(o)' BY <1>1, <1>5, <1>6, <1>7 DEF Step
  <1> QED BY <1>1, <1>3, <1>4, <1>5, <1>7, <1>8, ComOp, ComOnly, ComGoes DEF ComInv, ComTypes

LEMMA ComPostSwitchover == ASSUME ComInv, NEW o \in Operator, Com!PostSwitchover(o) PROVE ComInv'
  <1>1. op[o].pc = "post" /\ UNCHANGED <<dcs, node, due, faults>> BY DEF Com!PostSwitchover
  <1>2. CASE Com!Tells(o, "rejected") BY <1>1, <1>2, ComOnly, ComTold DEF Words, ComInv, ComTypes
  <1>3. CASE op' = [op EXCEPT ![o].pc = "write", ![o].api = Com!Cluster]
    <2> DEFINE x == [op[o] EXCEPT !.pc = "write", !.api = Com!Cluster]
    <2>1. Com!Cluster \in ViewType /\ Com!Cluster.failover = dcs.failover BY ComCluster DEF ComInv
    <2>2. op' = [op EXCEPT ![o] = x] BY <1>3, ComOp
    <2>3. x \in OpType BY <2>1, ComOp DEF OpType
    <2>4. x.kind = op[o].kind /\ x.pc = "write" /\ x.told = op[o].told /\ x.seen = op[o].seen
          /\ x.api = Com!Cluster
          /\ x.m = op[o].m /\ x.want = op[o].want
      BY ComOp DEF OpType
    <2> HIDE DEF x
    <2>5. op'[o] = x BY <2>2, <2>3, ComMoves DEF ComInv
    <2>6. x.told = "nothing" BY <1>1, <2>4, ComOp DEF Step
    <2>7. Step(o)' BY <1>1, <2>4, <2>5, <2>6, ComOp DEF Step
    <2>8. Copied(x.api.failover) BY <2>1, <2>4 DEF ComInv
    <2> QED BY <1>1, <2>2, <2>3, <2>4, <2>6, <2>7, <2>8, ComOp, ComOnly, ComGoes DEF ComInv, ComTypes
  <1> QED BY <1>2, <1>3 DEF Com!PostSwitchover

\* What o wants is written.
LEMMA ComWrites ==
  ASSUME ComInv, NEW o \in Operator, op[o].pc \in {"post", "write", "poll"}, dcs' = Com!Written(op[o].want)
  PROVE  /\ dcs' \in DcsType /\ Wrote(o)
         /\ dcs'.leader = dcs.leader /\ dcs'.paused = dcs.paused /\ dcs'.member = dcs.member
  <1> DEFINE v == dcs.ver + 1
             f == [op[o].want EXCEPT !.ver = v]
  <1>1. dcs \in DcsType /\ v \in Nat BY DEF ComInv, ComTypes, DcsType
  <1>2. op[o].want \in Com!Request /\ op[o].want.by = o /\ (op[o].want.timed <=> op[o].kind = "schedule")
    BY ComOp DEF Step
  <1>3. f \in Com!Request /\ f.ver = v /\ f.by = o /\ f.timed = op[o].want.timed BY <1>1, <1>2 DEF Com!Request
  <1>4. dcs' = [dcs EXCEPT !.failover = f, !.ver = v] BY DEF Com!Written
  <1> HIDE DEF f
  <1>5. dcs' \in DcsType /\ dcs'.failover = f /\ dcs'.ver = v
        /\ dcs'.leader = dcs.leader /\ dcs'.paused = dcs.paused /\ dcs'.member = dcs.member
    BY <1>1, <1>3, <1>4 DEF DcsType
  <1> QED BY <1>2, <1>3, <1>5 DEF Wrote

LEMMA ComWriteFailover == ASSUME ComInv, NEW o \in Operator, Com!WriteFailover(o) PROVE ComInv'
  <1>1. op[o].pc = "write" /\ dcs' = Com!Written(op[o].want) /\ UNCHANGED <<node, due, faults>> BY DEF
      Com!WriteFailover
  <1>2. /\ dcs' \in DcsType /\ Wrote(o) /\ NodesStay /\ node' \in [Node -> NodeType]
        /\ dcs'.leader = dcs.leader /\ dcs'.paused = dcs.paused /\ dcs'.member = dcs.member
    BY <1>1, ComWrites DEF NodesStay, ComInv, ComTypes
  <1>3. CASE Com!Tells(o, "scheduled") BY <1>1, <1>2, <1>3, ComTold DEF Words, ComInv, ComTypes
  <1>4. CASE ~op[o].want.timed /\ op' = [op EXCEPT ![o].pc = "poll"]
    <2> DEFINE x == [op[o] EXCEPT !.pc = "poll"]
    <2>2. op' = [op EXCEPT ![o] = x] BY <1>4, ComOp
    <2>3. x \in OpType BY ComOp DEF OpType
    <2>4. x.kind = op[o].kind /\ x.pc = "poll" /\ x.told = op[o].told /\ x.seen = op[o].seen
          /\ x.api = op[o].api
          /\ x.m = op[o].m /\ x.want = op[o].want
      BY ComOp DEF OpType
    <2> HIDE DEF x
    <2>5. op'[o] = x BY <2>2, <2>3, ComMoves DEF ComInv
    <2>6. x.told = "nothing" BY <1>1, <2>4, ComOp DEF Step
    <2>7. Step(o)' BY <1>1, <1>4, <2>4, <2>5, <2>6, ComOp DEF Step
    <2> QED BY <1>1, <1>2, <2>2, <2>3, <2>4, <2>6, <2>7, ComOp, ComGoes DEF ComInv, ComTypes
  <1> QED BY <1>3, <1>4 DEF Com!WriteFailover

\* A request that is gone, and that nobody carries out, has failed.
LEMMA ComPollFailover == ASSUME ComInv, NEW o \in Operator, Com!PollFailover(o) PROVE ComInv'
  <1>1. op[o].pc = "poll" /\ UNCHANGED <<dcs, node, due, faults>> BY DEF Com!PollFailover
  <1>2. ASSUME NEW what \in {"moved", "unknown"}, Com!Tells(o, what) PROVE ComInv'
    BY <1>1, <1>2, ComOnly, ComTold DEF Words, ComInv, ComTypes
  <1>3. CASE dcs.failover = Com!NoFailover /\ Com!Tells(o, "failed")
    <2>1. op[o].kind \in {"switchover", "failover"} BY <1>1, ComOp DEF Step
    <2>2. \A n \in Node : node[n].by # o /\ ~Com!HandsOver(n, o) BY <1>3, <2>1 DEF ComInv, Waits
    <2>3. dcs.failover.by # o BY <1>3, ComNulls, ComConstants
    <2> QED BY <1>1, <1>3, <2>2, <2>3, ComOnly, ComTold DEF Words, ComInv, ComTypes
  <1> QED BY <1>2, <1>3 DEF Com!PollFailover

LEMMA ComFallBack == ASSUME ComInv, NEW o \in Operator, Com!FallBack(o) PROVE ComInv'
  <1>1. op[o].pc \in {"post", "write", "poll"} /\ dcs' = Com!Written(op[o].want) /\ Com!Tells(o, "fell back")
        /\ UNCHANGED <<node, due>>
    BY DEF Com!FallBack
  <1>2. faults' \in 0 .. MaxFailures
    <2>1. Com!Fault \/ UNCHANGED faults BY DEF Com!FallBack
    <2> QED BY <2>1, ComConstants DEF Com!Fault, ComInv, ComTypes
  <1>3. /\ dcs' \in DcsType /\ Wrote(o) /\ NodesStay /\ node' \in [Node -> NodeType]
        /\ dcs'.leader = dcs.leader /\ dcs'.paused = dcs.paused /\ dcs'.member = dcs.member
    BY <1>1, ComWrites DEF NodesStay, ComInv, ComTypes
  <1> QED BY <1>1, <1>2, <1>3, ComTold DEF Words

\* A scheduled switchover is removed, if the key has not changed.
LEMMA ComRemoves ==
  ASSUME ComInv, NEW f \in Com!Request, Copied(f), f.timed, dcs' = Com!Removed(f.ver)
  PROVE  /\ dcs' \in DcsType /\ (Kept \/ Cut)
         /\ dcs'.leader = dcs.leader /\ dcs'.paused = dcs.paused /\ dcs'.member = dcs.member
         /\ dcs.failover.ver = f.ver => Cut
  <1>1. dcs \in DcsType BY DEF ComInv, ComTypes
  <1>2. CASE dcs.failover.ver # f.ver
    <2>1. dcs' = dcs BY <1>2 DEF Com!Removed
    <2> QED BY <1>1, <1>2, <2>1 DEF Kept
  <1>3. CASE dcs.failover.ver = f.ver
    <2>1. dcs.failover.timed BY <1>3 DEF Copied
    <2>2. dcs' = [dcs EXCEPT !.failover = Com!NoFailover] BY <1>3 DEF Com!Removed
    <2>3. dcs' \in DcsType /\ dcs'.failover = Com!NoFailover /\ dcs'.ver = dcs.ver
          /\ dcs'.leader = dcs.leader /\ dcs'.paused = dcs.paused /\ dcs'.member = dcs.member
      BY <1>1, <2>2, ComNulls DEF DcsType
    <2> QED BY <1>3, <2>1, <2>3 DEF Cut
  <1> QED BY <1>2, <1>3

\* What was loaded are requests.
LEMMA ComLoaded ==
  ASSUME ComInv, NEW o \in Operator
  PROVE  op[o].seen.failover \in Com!Request /\ op[o].api.failover \in Com!Request /\ op[o].todo \subseteq Node /\ op[o].fresh \subseteq Node
  BY DEF ComInv, ComTypes, OpType, ViewType

\* The next member is asked.
LEMMA ComDropped ==
  ASSUME ComInv, NEW o \in Operator, NEW m, op[o].pc \in {"delete", "remove"}, Com!Dropped(o, m), UNCHANGED <<dcs, node, due, faults>>
  PROVE  ComInv'
  <1> DEFINE s == op[o].todo \ {m}
             x == [op[o] EXCEPT !.pc = "delete", !.todo = s, !.m = NoNode]
  <1>1. op' = [op EXCEPT ![o] = x] BY ComOp DEF Com!Dropped
  <1>2. s \in SUBSET Node BY ComLoaded
  <1> HIDE DEF s
  <1>3. x \in OpType BY <1>2, ComOp DEF OpType
  <1>4. x.kind = op[o].kind /\ x.pc = "delete" /\ x.told = op[o].told /\ x.seen = op[o].seen
        /\ x.api = op[o].api
    BY ComOp DEF OpType
  <1> HIDE DEF x
  <1>5. op'[o] = x BY <1>1, <1>3, ComMoves DEF ComInv
  <1>6. x.told = "nothing" BY <1>4, ComOp DEF Step
  <1>7. Step(o)' BY <1>4, <1>5, <1>6, ComOp DEF Step
  <1> QED BY <1>1, <1>3, <1>4, <1>6, <1>7, ComOp, ComOnly, ComGoes DEF ComInv, ComTypes

LEMMA ComDeleteSwitchover == ASSUME ComInv, NEW o \in Operator, Com!DeleteSwitchover(o) PROVE ComInv'
  <1>1. op[o].pc = "delete" /\ op[o].kind = "flush" /\ UNCHANGED <<dcs, node, due, faults>>
    BY ComOp DEF Com!DeleteSwitchover, Step
  <1>2. PICK m \in Com!Preferred(op[o].todo, op[o].seen.leader) :
          IF ~node[m].up THEN Com!Dropped(o, m)
          ELSE IF ~dcs.failover.timed THEN Com!Tells(o, "no switchover is scheduled")
          ELSE op' = [op EXCEPT ![o].pc = "remove", ![o].m = m, ![o].api = Com!Cluster]
    BY DEF Com!DeleteSwitchover
  <1>3. m \in Node BY ComLoaded DEF Com!Preferred
  <1>4. CASE Com!Dropped(o, m) BY <1>1, <1>4, ComDropped
  <1>5. CASE Com!Tells(o, "no switchover is scheduled") BY <1>1, <1>5, ComOnly, ComTold DEF Words, ComInv,
      ComTypes
  <1>6. CASE dcs.failover.timed /\ op' = [op EXCEPT ![o].pc = "remove", ![o].m = m, ![o].api = Com!Cluster]
    <2> DEFINE x == [op[o] EXCEPT !.pc = "remove", !.m = m, !.api = Com!Cluster]
    <2>1. Com!Cluster \in ViewType /\ Com!Cluster.failover = dcs.failover BY ComCluster DEF ComInv
    <2>2. op' = [op EXCEPT ![o] = x] BY <1>6, ComOp
    <2>3. x \in OpType BY <1>3, <2>1, ComOp DEF OpType
    <2>4. x.kind = op[o].kind /\ x.pc = "remove" /\ x.told = op[o].told /\ x.seen = op[o].seen
          /\ x.api = Com!Cluster /\ x.m = m
      BY ComOp DEF OpType
    <2> HIDE DEF x
    <2>5. op'[o] = x BY <2>2, <2>3, ComMoves DEF ComInv
    <2>6. x.told = "nothing" BY <1>1, <2>4, ComOp DEF Step
    <2>7. Step(o)' BY <1>1, <1>3, <1>6, <2>1, <2>4, <2>5, <2>6, ComOp DEF Step
    <2>8. Copied(x.api.failover) BY <2>1, <2>4 DEF ComInv
    <2> QED BY <1>1, <2>2, <2>3, <2>4, <2>6, <2>7, <2>8, ComOp, ComOnly, ComGoes DEF ComInv, ComTypes
  <1> QED BY <1>2, <1>4, <1>5, <1>6

\* What a flush removes is what it loaded.
LEMMA ComRemoveSwitchover == ASSUME ComInv, NEW o \in Operator, Com!RemoveSwitchover(o) PROVE ComInv'
  <1> DEFINE f == op[o].api.failover
  <1>1. op[o].pc = "remove" /\ UNCHANGED <<node, due, faults>> BY DEF Com!RemoveSwitchover
  <1>2. op[o].kind = "flush" /\ f.timed /\ Copied(f) /\ f \in Com!Request BY <1>1, ComOp, ComLoaded DEF Step
  <1>3. CASE Com!Dropped(o, op[o].m) /\ UNCHANGED dcs BY <1>1, <1>3, ComDropped
  <1>4. CASE Com!Dropped(o, op[o].m) /\ dcs' = Com!Removed(f.ver) /\ dcs.failover.ver # f.ver
    <2>1. dcs' = dcs BY <1>4 DEF Com!Removed
    <2> QED BY <1>1, <1>4, <2>1, ComDropped
  <1>5. CASE dcs' = Com!Removed(f.ver) /\ dcs.failover.ver = f.ver /\ Com!Flushed(o)
    <2> DEFINE x == [Com!NewOp("flush") EXCEPT !.pc = "done", !.told = "flushed", !.removed = dcs.failover]
    <2>1. /\ dcs' \in DcsType /\ Cut
          /\ dcs'.leader = dcs.leader /\ dcs'.paused = dcs.paused /\ dcs'.member = dcs.member
      <3> HIDE DEF f
      <3> QED BY <1>2, <1>5, ComRemoves
    <2>2. dcs.failover \in Com!Request BY DEF ComInv, ComTypes, DcsType
    <2>3. Com!NewOp("flush") \in OpType BY ComNew DEF Com!Kind
    <2>4. x \in OpType BY <2>2, <2>3 DEF OpType, Words
    <2>5. x.kind = "flush" /\ x.pc = "done" /\ x.told = "flushed" /\ x.seen = Com!NoView /\ x.api = Com!NoView
          /\ x.removed = dcs.failover
      BY <2>3, ComNew DEF OpType, Com!Kind
    <2>6. op' = [op EXCEPT ![o] = x] BY <1>5 DEF Com!Flushed
    <2> HIDE DEF x
    <2>7. op' \in [Operator -> OpType] /\ op'[o] = x /\ \A p \in Operator \ {o} : op'[p] = op[p]
      BY <2>4, <2>6, ComMoves DEF ComInv
    <2>8. ComTypes' BY <1>1, <2>1, <2>7 DEF ComInv, ComTypes
    <2>9. Copied(Com!NoFailover)' BY <2>1, ComNulls DEF ComInv, ComTypes, DcsType, Copied, Cut
    <2>10. Order(o)'
      BY <2>1, <2>5, <2>7, <2>9, ComNulls DEF Order, Step, Toggle, Com!FlushTold, Com!FailedTold, Cut
    <2>11. NodesStay BY <1>1 DEF NodesStay
    <2> QED BY <1>2, <2>1, <2>5, <2>7, <2>8, <2>10, <2>11, ComOps
  <1> QED BY <1>3, <1>4, <1>5 DEF Com!RemoveSwitchover

LEMMA ComFlushFallBack == ASSUME ComInv, NEW o \in Operator, Com!FlushFallBack(o) PROVE ComInv'
  <1> DEFINE f == op[o].seen.failover
  <1>1. op[o].pc = "delete" /\ dcs' = Com!Removed(f.ver) /\ Com!Tells(o, "fell back")
        /\ UNCHANGED <<node, due, faults>>
    BY DEF Com!FlushFallBack
  <1>2. f.timed /\ Copied(f) /\ f \in Com!Request BY <1>1, ComOp, ComLoaded DEF Step
  <1>3. /\ dcs' \in DcsType /\ (Kept \/ Cut)
        /\ dcs'.leader = dcs.leader /\ dcs'.paused = dcs.paused /\ dcs'.member = dcs.member
    BY <1>1, <1>2, ComRemoves
  <1>4. NodesStay /\ node' \in [Node -> NodeType] /\ faults' \in 0 .. MaxFailures /\ UNCHANGED due
    BY <1>1 DEF NodesStay, ComInv, ComTypes
  <1>5. "fell back" \in Words /\ Com!Tells(o, "fell back") BY <1>1 DEF Words
  <1> QED BY <1>3, <1>4, <1>5, ComTold

LEMMA ComPatchConfig == ASSUME ComInv, NEW o \in Operator, Com!PatchConfig(o) PROVE ComInv'
  <1>1. op[o].pc = "patch" /\ op[o].kind \in {"pause", "resume"} /\ UNCHANGED <<node, due>>
    BY ComOp DEF Com!PatchConfig, Step
  <1>2. CASE Com!Tells(o, "error") /\ UNCHANGED <<dcs, faults>>
    BY <1>1, <1>2, ComOnly, ComTold DEF Words, ComInv, ComTypes
  <1>3. ASSUME NEW m \in Com!Preferred(op[o].todo, op[o].seen.leader), NEW lost_ \in BOOLEAN,
               IF lost_ /\ node[m].up THEN Com!Fault ELSE UNCHANGED faults,
               dcs' = IF node[m].up THEN [dcs EXCEPT !.paused = Com!Goal(o)] ELSE dcs,
               op' = [p \in Operator |->
                        IF p # o THEN [op[p] EXCEPT !.steady = @ /\ dcs'.paused = dcs.paused]
                        ELSE IF lost_ \/ ~node[m].up THEN [op[p] EXCEPT !.todo = @ \ {m}]
                        ELSE [op[p] EXCEPT !.pc = "wait", !.todo = {}]]
        PROVE  ComInv'
    <2>1. dcs \in DcsType /\ Com!Goal(o) \in BOOLEAN BY DEF ComInv, ComTypes, Com!Goal
    <2>2. /\ dcs' \in DcsType /\ dcs'.leader = dcs.leader /\ dcs'.member = dcs.member /\ Kept
          /\ dcs'.paused = IF node[m].up THEN Com!Goal(o) ELSE dcs.paused
      <3>1. CASE node[m].up
        <4>1. dcs' = [dcs EXCEPT !.paused = Com!Goal(o)] BY <1>3, <3>1
        <4> QED BY <2>1, <3>1, <4>1 DEF DcsType, Kept
      <3>2. CASE ~node[m].up BY <1>3, <2>1, <3>2 DEF Kept
      <3> QED BY <3>1, <3>2
    <2>3. faults' \in 0 .. MaxFailures
      <3>1. Com!Fault \/ UNCHANGED faults BY <1>3
      <3> QED BY <3>1, ComConstants DEF Com!Fault, ComInv, ComTypes
    <2> DEFINE same == dcs'.paused = dcs.paused
    <2>4. ASSUME NEW p \in Operator \ {o}
          PROVE  op'[p] \in OpType /\ op'[p] = [op[p] EXCEPT !.steady = op[p].steady /\ same]
      <3>1. op[p] \in OpType /\ (op[p].steady /\ same) \in BOOLEAN BY ComOp DEF OpType
      <3>2. op'[p] = [op[p] EXCEPT !.steady = op[p].steady /\ same] BY <1>3, <2>4
      <3> HIDE DEF same
      <3> QED BY <3>1, <3>2 DEF OpType
    <2>5. ASSUME NEW p \in Operator \ {o}
          PROVE  /\ op'[p].kind = op[p].kind /\ op'[p].pc = op[p].pc /\ op'[p].told = op[p].told
                 /\ op'[p].seen = op[p].seen /\ op'[p].api = op[p].api /\ op'[p].want = op[p].want
                 /\ op'[p].m = op[p].m /\ op'[p].fresh = op[p].fresh /\ op'[p].removed = op[p].removed
                 /\ op'[p].steady => op[p].steady /\ same
      <3> DEFINE b == op[p].steady /\ same
                 x == [op[p] EXCEPT !.steady = b]
      <3>1. op[p] \in OpType /\ b \in BOOLEAN BY ComOp DEF OpType
      <3>2. op'[p] = x /\ (b => op[p].steady /\ same) BY <2>4
      <3> HIDE DEF b, same
      <3>3. /\ x.kind = op[p].kind /\ x.pc = op[p].pc /\ x.told = op[p].told
            /\ x.seen = op[p].seen /\ x.api = op[p].api /\ x.want = op[p].want
            /\ x.m = op[p].m /\ x.fresh = op[p].fresh /\ x.removed = op[p].removed /\ x.steady = b
        BY <3>1 DEF OpType
      <3> HIDE DEF x
      <3> QED BY <3>2, <3>3
    <2>6. /\ op'[o] \in OpType
          /\ op'[o].kind = op[o].kind /\ op'[o].told = op[o].told
          /\ op'[o].seen = op[o].seen /\ op'[o].api = op[o].api /\ op'[o].want = op[o].want
          /\ op'[o].m = op[o].m /\ op'[o].fresh = op[o].fresh /\ op'[o].removed = op[o].removed
          /\ op'[o].steady = op[o].steady
          /\ op'[o].pc = "patch" \/ (op'[o].pc = "wait" /\ node[m].up)
      <3> DEFINE rest == op[o].todo \ {m}
                 none == {}
                 x == [op[o] EXCEPT !.todo = rest]
                 y == [op[o] EXCEPT !.pc = "wait", !.todo = none]
      <3>1. op[o] \in OpType /\ rest \in SUBSET Node /\ none \in SUBSET Node BY ComLoaded, ComOp
      <3>2. op'[o] = x \/ (op'[o] = y /\ node[m].up) BY <1>3
      <3> HIDE DEF rest, none
      <3>3. /\ x \in OpType /\ x.kind = op[o].kind /\ x.told = op[o].told /\ x.seen = op[o].seen
            /\ x.api = op[o].api /\ x.want = op[o].want /\ x.m = op[o].m /\ x.fresh = op[o].fresh
            /\ x.removed = op[o].removed /\ x.steady = op[o].steady /\ x.pc = "patch"
        BY <1>1, <3>1 DEF OpType
      <3>4. /\ y \in OpType /\ y.kind = op[o].kind /\ y.told = op[o].told /\ y.seen = op[o].seen
            /\ y.api = op[o].api /\ y.want = op[o].want /\ y.m = op[o].m /\ y.fresh = op[o].fresh
            /\ y.removed = op[o].removed /\ y.steady = op[o].steady /\ y.pc = "wait"
        BY <3>1 DEF OpType
      <3> HIDE DEF x, y
      <3> QED BY <3>2, <3>3, <3>4
    <2>7. op' \in [Operator -> OpType] BY <1>3, <2>4, <2>6
    <2>8. ComTypes' BY <1>1, <2>2, <2>3, <2>7 DEF ComInv, ComTypes
    <2>9. \A p \in Operator : op'[p].kind = op[p].kind BY <2>5, <2>6
    <2>10. Meet' BY <2>9 DEF ComInv, Meet
    <2>11. ASSUME NEW CONSTANT f, Copied(f) PROVE Copied(f)'
      BY <2>2, <2>9, <2>11 DEF Copied, Kept
    <2>12. Copied(dcs.failover)' BY <2>2, <2>11 DEF ComInv, Kept
    <2>13. ASSUME NEW n \in Node PROVE Copied(node[n].view.failover)' /\ Leads(n)' /\ \A p \in Operator : Waits(n, p)'
      <3>1. Copied(node[n].view.failover)' BY <1>1, <2>11 DEF ComInv
      <3>2. Leads(n)' BY <1>1, <2>2 DEF ComInv, Leads
      <3>3. \A p \in Operator : Waits(n, p)' BY <1>1, <2>2, <2>9 DEF ComInv, Waits, Com!HandsOver, Kept
      <3> QED BY <3>1, <3>2, <3>3
    <2>14. ASSUME NEW p \in Operator \ {o} PROVE Order(p)'
      <3>1. Copied(op[p].seen.failover)' /\ Copied(op[p].api.failover)'
        <4>1. Copied(op[p].seen.failover) /\ Copied(op[p].api.failover) BY ComOp
        <4> QED BY <2>5, <2>11, <4>1
      <3>2. Step(p)' /\ Com!FlushTold(p)' BY <2>5, ComOp DEF Order, Step, Com!FlushTold
      <3>3. Com!FailedTold(p)' BY <1>1, <2>2, <2>5, ComOp DEF Order, Com!FailedTold, Com!HandsOver, Kept
      <3>4. Toggle(p)'
        <4>1. Toggle(p) /\ op[p].fresh \subseteq Node BY ComOp, ComLoaded DEF Order
        <4> QED BY <1>1, <2>2, <2>5, <4>1 DEF Toggle, Com!Goal
      <3> QED BY <3>1, <3>2, <3>3, <3>4 DEF Order
    <2>15. Order(o)'
      <3>1. Copied(op[o].seen.failover)' /\ Copied(op[o].api.failover)'
        <4>1. Copied(op[o].seen.failover) /\ Copied(op[o].api.failover) BY ComOp
        <4> QED BY <2>6, <2>11, <4>1
      <3>2. op[o].told = "nothing" BY <1>1, ComOp DEF Step
      <3>3. Step(o)' BY <1>1, <2>6, <3>2 DEF Step
      <3>4. Com!FailedTold(o)' /\ Com!FlushTold(o)' BY <2>6, <3>2 DEF Com!FailedTold, Com!FlushTold
      <3>5. Toggle(o)'
        <4>1. Toggle(o) /\ op[o].fresh \subseteq Node BY ComOp, ComLoaded DEF Order
        <4> QED BY <1>1, <2>2, <2>6, <3>2, <4>1 DEF Toggle, Com!Goal
      <3> QED BY <3>1, <3>3, <3>4, <3>5 DEF Order
    <2> QED BY <2>8, <2>10, <2>12, <2>13, <2>14, <2>15 DEF ComInv
  <1> QED BY <1>2, <1>3 DEF Com!PatchConfig

LEMMA ComWaitUntilApplied == ASSUME ComInv, NEW o \in Operator, Com!WaitUntilApplied(o) PROVE ComInv'
  <1> DEFINE behind == {m \in Node : dcs.member[m].pause # Com!Goal(o)}
  <1>1. op[o].pc = "wait" /\ UNCHANGED <<dcs, node, due, faults>> BY DEF Com!WaitUntilApplied
  <1>2. CASE Com!Tells(o, "not recognized") BY <1>1, <1>2, ComOnly, ComTold DEF Words, ComInv, ComTypes
  <1>3. CASE behind \cap op[o].fresh = {} /\ Com!Tells(o, "applied")
    <2>1. Toggle(o) /\ op[o].fresh \subseteq Node BY ComOp, ComLoaded DEF Order
    <2>2. op[o].steady => /\ dcs.paused = Com!Goal(o)
                          /\ \A n \in op[o].fresh : node[n].pc # "idle" => node[n].view.paused = Com!Goal(o)
      BY <1>1, <1>3, <2>1 DEF Toggle
    <2> QED BY <1>1, <1>3, <2>2, ComOnly, ComTold DEF Words, ComInv, ComTypes
  <1> QED BY <1>2, <1>3 DEF Com!WaitUntilApplied

\* What is planned in the memory of a node is not asked for here.
LEMMA ComPlans ==
  ASSUME ComInv, NEW m \in Node, NEW b \in BOOLEAN, node' = [node EXCEPT ![m].sched = b]
  PROVE  NodesStay /\ node' \in [Node -> NodeType]
  <1> DEFINE x == [node[m] EXCEPT !.sched = b]
  <1>1. node \in [Node -> NodeType] /\ node[m] \in NodeType BY DEF ComInv, ComTypes
  <1>2. x \in NodeType /\ x.up = node[m].up /\ x.pc = node[m].pc /\ x.view = node[m].view
        /\ x.task = node[m].task /\ x.by = node[m].by
    BY <1>1 DEF NodeType
  <1>3. node' = [node EXCEPT ![m] = x] BY <1>1
  <1> HIDE DEF x
  <1>4. node' \in [Node -> NodeType] /\ node'[m] = x /\ \A n \in Node \ {m} : node'[n] = node[n] BY <1>1,
      <1>2, <1>3
  <1> QED BY <1>2, <1>4 DEF NodesStay

LEMMA ComDropRestart == ASSUME ComInv, NEW o \in Operator, Com!DropRestart(o) PROVE ComInv'
  <1>1. op[o].pc = "drop" /\ op[o].kind \in {"restart", "unrestart"} /\ op[o].m \in Node
        /\ UNCHANGED <<dcs, due, faults>>
    BY ComOp DEF Com!DropRestart, Step
  <1>2. CASE Com!Tells(o, "error") /\ UNCHANGED node BY <1>1, <1>2, ComOnly, ComTold DEF Words, ComInv,
      ComTypes
  <1>3. CASE node[op[o].m].up /\ node' = [node EXCEPT ![op[o].m].sched = FALSE]
    <2>1. /\ NodesStay /\ node' \in [Node -> NodeType] /\ dcs' \in DcsType /\ faults' \in 0 .. MaxFailures
          /\ UNCHANGED due
          /\ dcs'.leader = dcs.leader /\ dcs'.paused = dcs.paused /\ dcs'.member = dcs.member /\ Kept
      BY <1>1, <1>3, ComPlans DEF ComInv, ComTypes, Kept
    <2>2. ASSUME NEW what \in {"flushed", "no scheduled restart"}, Com!Tells(o, what) PROVE ComInv'
      BY <1>1, <2>1, <2>2, ComTold DEF Words
    <2>3. CASE op' = [op EXCEPT ![o].pc = "plan"]
      <3> DEFINE x == [op[o] EXCEPT !.pc = "plan"]
      <3>1. op' = [op EXCEPT ![o] = x] BY <2>3, ComOp
      <3>2. x \in OpType BY ComOp DEF OpType
      <3>3. x.kind = op[o].kind /\ x.pc = "plan" /\ x.told = op[o].told /\ x.seen = op[o].seen
            /\ x.api = op[o].api
            /\ x.m = op[o].m
        BY ComOp DEF OpType
      <3> HIDE DEF x
      <3>4. op'[o] = x BY <3>1, <3>2, ComMoves DEF ComInv
      <3>5. x.told = "nothing" BY <1>1, <3>3, ComOp DEF Step
      <3>6. Step(o)' BY <1>1, <3>3, <3>4, <3>5 DEF Step
      <3> QED BY <2>1, <3>1, <3>2, <3>3, <3>5, <3>6, ComOp, ComGoes
    <2> QED BY <1>1, <2>2, <2>3, <1>3 DEF Com!DropRestart
  <1> QED BY <1>2, <1>3 DEF Com!DropRestart

LEMMA ComPlanRestart == ASSUME ComInv, NEW o \in Operator, Com!PlanRestart(o) PROVE ComInv'
  <1>1. op[o].pc = "plan" /\ op[o].kind \in {"restart", "unrestart"} /\ op[o].m \in Node
        /\ UNCHANGED <<dcs, due, faults>>
    BY ComOp DEF Com!PlanRestart, Step
  <1>2. CASE Com!Tells(o, "error") /\ UNCHANGED node BY <1>1, <1>2, ComOnly, ComTold DEF Words, ComInv,
      ComTypes
  <1>3. ASSUME node' = [node EXCEPT ![op[o].m].sched = TRUE],
               NEW what \in {"another restart is scheduled", "scheduled"}, Com!Tells(o, what)
        PROVE  ComInv'
    <2>1. /\ NodesStay /\ node' \in [Node -> NodeType] /\ dcs' \in DcsType /\ faults' \in 0 .. MaxFailures
          /\ UNCHANGED due
          /\ dcs'.leader = dcs.leader /\ dcs'.paused = dcs.paused /\ dcs'.member = dcs.member /\ Kept
      BY <1>1, <1>3, ComPlans DEF ComInv, ComTypes, Kept
    <2> QED BY <1>1, <1>3, <2>1, ComTold DEF Words
  <1> QED BY <1>2, <1>3 DEF Com!PlanRestart

\* A replica that is created anew is not the leader.
LEMMA ComPostReinitialize == ASSUME ComInv, NEW o \in Operator, Com!PostReinitialize(o) PROVE ComInv'
  <1> DEFINE m == op[o].m
  <1>1. op[o].pc = "clone" /\ m \in Node /\ UNCHANGED <<dcs, due, faults>> BY ComOp DEF Com!PostReinitialize,
      Step
  <1>2. ASSUME NEW what \in {"error", "already in progress"}, Com!Tells(o, what), UNCHANGED node PROVE ComInv'
    BY <1>1, <1>2, ComOnly, ComTold DEF Words, ComInv, ComTypes
  <1>3. CASE op' = [op EXCEPT ![o].forced = TRUE] /\ UNCHANGED node
    <2> DEFINE b == TRUE
               x == [op[o] EXCEPT !.forced = b]
    <2>1. op' = [op EXCEPT ![o] = x] /\ b \in BOOLEAN BY <1>3, ComOp
    <2> HIDE DEF b
    <2>2. x \in OpType BY <2>1, ComOp DEF OpType
    <2>3. x.kind = op[o].kind /\ x.pc = op[o].pc /\ x.told = op[o].told /\ x.seen = op[o].seen
          /\ x.api = op[o].api
          /\ x.m = op[o].m
      BY ComOp DEF OpType
    <2> HIDE DEF x
    <2>4. op'[o] = x BY <2>1, <2>2, ComMoves DEF ComInv
    <2>5. x.told = "nothing" BY <1>1, <2>3, ComOp DEF Step
    <2>6. Step(o)' BY <1>1, <2>3, <2>4, <2>5 DEF Step
    <2> QED BY <1>1, <1>3, <2>1, <2>2, <2>3, <2>5, <2>6, ComOp, ComOnly, ComGoes DEF ComInv, ComTypes
  <1>4. CASE /\ dcs.leader # m /\ node' = [node EXCEPT ![m].task = "stop", ![m].by = NoOperator]
             /\ op' = [op EXCEPT ![o].pc = "cloning"]
    <2> DEFINE x == [op[o] EXCEPT !.pc = "cloning"]
               y == [node[m] EXCEPT !.task = "stop", !.by = NoOperator]
    <2>1. op' = [op EXCEPT ![o] = x] BY <1>4, ComOp
    <2>2. x \in OpType BY ComOp DEF OpType
    <2>3. x.kind = op[o].kind /\ x.pc = "cloning" /\ x.told = op[o].told /\ x.seen = op[o].seen
          /\ x.api = op[o].api
          /\ x.m = op[o].m
      BY ComOp DEF OpType
    <2> HIDE DEF x
    <2>4. op'[o] = x BY <2>1, <2>2, ComMoves DEF ComInv
    <2>5. x.told = "nothing" BY <1>1, <2>3, ComOp DEF Step
    <2>6. Step(o)' BY <1>1, <2>3, <2>4, <2>5 DEF Step
    <2>7. node \in [Node -> NodeType] /\ node[m] \in NodeType BY <1>1 DEF ComInv, ComTypes
    <2>8. y \in NodeType /\ y.up = node[m].up /\ y.pc = node[m].pc /\ y.view = node[m].view
          /\ y.task = "stop" /\ y.by = NoOperator
      BY <2>7 DEF NodeType
    <2>9. node' = [node EXCEPT ![m] = y] BY <1>4, <2>7
    <2> HIDE DEF y, m
    <2>10. node' \in [Node -> NodeType] /\ node'[m] = y /\ \A n \in Node \ {m} : node'[n] = node[n]
      BY <1>1, <2>7, <2>8, <2>9
    <2>11. NodesStay BY <1>4, <2>8, <2>10 DEF NodesStay
    <2>12. dcs' \in DcsType /\ faults' \in 0 .. MaxFailures /\ UNCHANGED due /\ dcs' = dcs /\ Kept
      BY <1>1 DEF ComInv, ComTypes, Kept
    <2> QED BY <2>1, <2>2, <2>3, <2>5, <2>6, <2>10, <2>11, <2>12, ComOp, ComGoes
  <1> QED BY <1>1, <1>2, <1>3, <1>4 DEF Com!PostReinitialize

LEMMA ComWaitReinitialize == ASSUME ComInv, NEW o \in Operator, Com!WaitReinitialize(o) PROVE ComInv'
  <1>1. UNCHANGED <<dcs, node, due, faults>> BY DEF Com!WaitReinitialize
  <1>2. ASSUME NEW what \in {"error", "completed"}, Com!Tells(o, what) PROVE ComInv'
    BY <1>1, <1>2, ComOnly, ComTold DEF Words, ComInv, ComTypes
  <1> QED BY <1>2 DEF Com!WaitReinitialize

\* The leader carries out a request of o, or will.
Carries(n, o) == node[n].by = o \/ Com!HandsOver(n, o)

\* The key of the requests is cleared, or written again with the leader changed.
Cleared == dcs'.failover = Com!NoFailover /\ dcs'.ver = dcs.ver
Renewed ==
  /\ dcs'.ver = dcs.ver + 1 /\ dcs'.failover.ver = dcs.ver + 1
  /\ dcs'.failover.by = dcs.failover.by /\ dcs'.failover.timed = dcs.failover.timed

\* What the commands are told by a node that updates its key.
SameButFresh(p) ==
  /\ op'[p].kind = op[p].kind /\ op'[p].pc = op[p].pc /\ op'[p].told = op[p].told
  /\ op'[p].seen = op[p].seen /\ op'[p].api = op[p].api /\ op'[p].want = op[p].want
  /\ op'[p].m = op[p].m /\ op'[p].removed = op[p].removed /\ op'[p].steady = op[p].steady

Untouched == op' = op /\ dcs'.member = dcs.member
Touched(n) ==
  /\ node[n].pc # "idle" /\ node'[n].pc = "idle"
  /\ dcs'.member[n].pause = node[n].view.paused /\ \A m \in Node \ {n} : dcs'.member[m] = dcs.member[m]
  /\ \A p \in Operator :
       /\ SameButFresh(p)
       /\ op'[p].fresh = IF op[p].pc \in {"patch", "wait"} THEN op[p].fresh \cup {n} ELSE op[p].fresh

\* What one node does leaves what holds of the others and of the operators.
LEMMA ComNodes ==
  ASSUME ComInv, ComTypes', NEW n \in Node, \A m \in Node \ {n} : node'[m] = node[m],
         dcs'.paused = dcs.paused,
         Kept \/ (dcs.leader = n /\ (Cleared \/ Renewed)),
         dcs'.leader = dcs.leader \/ (dcs.leader \in {n, NoNode} /\ dcs'.leader \in {n, NoNode}),
         Leads(n)',
         node'[n].view.failover \in {node[n].view.failover, dcs.failover, Com!NoFailover},
         \A o \in Operator : Carries(n, o)' => Kept /\ (Carries(n, o) \/ dcs.failover.by = o),
         node'[n].pc # "idle" =>
           \/ node'[n].view.paused = dcs.paused
           \/ node[n].pc # "idle" /\ node'[n].view.paused = node[n].view.paused,
         Untouched \/ Touched(n)
  PROVE  ComInv'
  <1>1. ASSUME NEW p \in Operator PROVE SameButFresh(p) BY DEF Untouched, Touched, SameButFresh
  <1>2. dcs.ver \in Nat /\ dcs.failover \in Com!Request /\ dcs.leader \in Node \cup {NoNode} BY DEF ComInv,
      ComTypes, DcsType
  <1>3. \A p \in Operator : op'[p].kind = op[p].kind BY <1>1 DEF SameButFresh
  <1>4. Meet' BY <1>3 DEF ComInv, Meet
  <1>5. ASSUME NEW CONSTANT f, f.ver \in Nat, Copied(f) PROVE Copied(f)'
    BY <1>2, <1>3, <1>5, ComNulls DEF Copied, Kept, Cleared, Renewed
  <1>6. Copied(dcs.failover) /\ Copied(Com!NoFailover) /\ \A m \in Node : Copied(node[m].view.failover)
    BY <1>2, ComNulls DEF ComInv, Copied, Com!Request
  <1>7. \A m \in Node : node[m].view.failover.ver \in Nat /\ node[m].view.failover \in Com!Request
    BY DEF ComInv, ComTypes, NodeType, ViewType, Com!Request
  <1>8. Copied(dcs.failover)'
    <2>1. CASE Kept
      <3>1. Copied(dcs'.failover) BY <1>6, <2>1 DEF Kept
      <3>2. dcs'.failover.ver \in Nat BY <1>2, <2>1 DEF Kept, Com!Request
      <3> QED BY <1>3, <2>1, <3>1 DEF Copied, Kept
    <2>2. CASE Cleared BY <1>2, <2>2, ComNulls DEF Copied, Cleared
    <2>3. CASE Renewed BY <1>2, <1>3, <1>6, <2>3 DEF Copied, Renewed
    <2> QED BY <2>1, <2>2, <2>3
  <1>9. ASSUME NEW m \in Node PROVE Copied(node[m].view.failover)'
    <2>1. CASE m # n
      <3>1. node'[m] = node[m] BY <2>1
      <3> QED BY <1>3, <1>5, <1>6, <1>7, <3>1
    <2>2. CASE m = n
      <3>1. Copied(node'[n].view.failover) BY <1>6
      <3>2. node'[n].view.failover.ver \in Nat BY <1>2, <1>7, ComNulls DEF Com!Request
      <3> QED BY <1>5, <2>2, <3>1, <3>2
    <2> QED BY <2>1, <2>2
  <1>10. ASSUME NEW m \in Node PROVE Leads(m)'
    BY <1>2, ComConstants DEF ComInv, Leads
  <1>11. ASSUME NEW m \in Node, m # n, NEW p \in Operator, Carries(m, p)' PROVE Carries(m, p) /\ Kept
    <2>1. Leads(m) /\ node'[m] = node[m] BY <1>11 DEF ComInv
    <2> QED BY <1>11, <2>1, ComConstants DEF Carries, Com!HandsOver, Leads
  <1>12. ASSUME NEW m \in Node, NEW p \in Operator PROVE Waits(m, p)'
    <2>1. CASE ~Carries(m, p)' BY <2>1 DEF Waits, Carries
    <2>2. CASE Carries(m, p)'
      <3>1. Kept /\ (Carries(m, p) \/ dcs.failover.by = p) BY <1>11, <2>2
      <3>2. Waits(m, p) BY DEF ComInv
      <3> QED BY <1>3, <3>1, <3>2, ComNulls, ComConstants DEF Waits, Carries, Kept
    <2> QED BY <2>1, <2>2
  <1>13. ASSUME NEW p \in Operator PROVE Order(p)'
    <2>1. Order(p) /\ op[p].fresh \subseteq Node BY ComOp, ComLoaded
    <2>2. Copied(op[p].seen.failover)' /\ Copied(op[p].api.failover)'
      <3>1. op[p].seen.failover.ver \in Nat /\ op[p].api.failover.ver \in Nat BY ComLoaded DEF Com!Request
      <3>2. Copied(op[p].seen.failover) /\ Copied(op[p].api.failover) BY ComOp
      <3>3. op'[p].seen = op[p].seen /\ op'[p].api = op[p].api BY <1>1 DEF SameButFresh
      <3> QED BY <1>5, <3>1, <3>2, <3>3
    <2>3. Step(p)'
      <3>1. op[p].pc = "begin" => op'[p].fresh = op[p].fresh BY DEF Untouched, Touched
      <3> QED BY <1>1, <2>1, <3>1 DEF Order, Step, SameButFresh
    <2>4. Com!FlushTold(p)' BY <1>1, <2>1 DEF Order, Com!FlushTold, SameButFresh
    <2>5. Com!FailedTold(p)'
      <3>1. ASSUME op'[p].told = "failed" PROVE dcs.failover.by # p /\ \A m \in Node : ~Carries(m, p)
        BY <1>1, <2>1, <3>1 DEF Order, Com!FailedTold, SameButFresh, Carries
      <3>2. ASSUME op'[p].told = "failed" PROVE dcs'.failover.by # p
        BY <3>1, <3>2, ComNulls, ComConstants DEF Kept, Cleared, Renewed
      <3>3. ASSUME op'[p].told = "failed", NEW m \in Node PROVE ~Carries(m, p)'
        BY <1>11, <3>1, <3>3
      <3> QED BY <3>2, <3>3 DEF Com!FailedTold, Carries
    <2>6. Toggle(p)'
      <3>1. Toggle(p) BY <2>1 DEF Order
      <3>2. CASE Untouched BY <2>1, <3>1, <3>2 DEF Untouched, Toggle, Com!Goal
      <3>3. CASE Touched(n)
        <4>1. /\ op'[p].kind = op[p].kind /\ op'[p].pc = op[p].pc /\ op'[p].told = op[p].told
              /\ op'[p].steady = op[p].steady /\ op'[p].fresh \subseteq op[p].fresh \cup {n}
          BY <1>1, <3>3 DEF SameButFresh, Touched
        <4>2. \A m \in Node : node'[m].pc # "idle" => m # n /\ node'[m] = node[m] BY <3>3 DEF Touched
        <4>3. ASSUME op[p].steady, op[p].pc \in {"patch", "wait"}, NEW m \in op'[p].fresh, dcs'.member[m].pause = Com!Goal(p)
              PROVE  dcs.paused = Com!Goal(p) /\ (node'[m].pc # "idle" => node'[m].view.paused = Com!Goal(p))
          <5>1. CASE m = n
            <6>1. node[n].pc # "idle" /\ node[n].view.paused = Com!Goal(p) /\ node'[n].pc = "idle"
              BY <3>3, <4>3, <5>1 DEF Touched
            <6> QED BY <3>1, <4>3, <5>1, <6>1 DEF Toggle
          <5>2. CASE m # n
            <6>1. m \in op[p].fresh /\ m \in Node BY <2>1, <4>1, <4>3, <5>2
            <6>2. dcs.member[m].pause = Com!Goal(p) /\ node'[m] = node[m] BY <3>3, <4>3, <5>2, <6>1 DEF
                Touched
            <6> QED BY <3>1, <4>3, <6>1, <6>2 DEF Toggle
          <5> QED BY <5>1, <5>2
        <4>4. ASSUME op[p].steady, op[p].told = "applied", NEW m \in op'[p].fresh, node'[m].pc # "idle"
              PROVE  node'[m].view.paused = Com!Goal(p)
          <5>1. m \in op[p].fresh /\ m \in Node /\ node'[m] = node[m] BY <2>1, <4>1, <4>2, <4>4
          <5> QED BY <3>1, <4>4, <5>1 DEF Toggle
        <4>5. Com!Goal(p)' = Com!Goal(p) BY <4>1 DEF Com!Goal
        <4> QED BY <3>1, <4>1, <4>2, <4>3, <4>4, <4>5 DEF Toggle
      <3> QED BY <3>2, <3>3
    <2> QED BY <2>2, <2>3, <2>4, <2>5, <2>6 DEF Order
  <1> QED BY <1>4, <1>8, <1>9, <1>10, <1>12, <1>13 DEF ComInv

\* The records of a node.
LEMMA ComNode ==
  ASSUME ComInv, NEW n \in Node
  PROVE  /\ node \in [Node -> NodeType] /\ node[n] \in NodeType /\ Leads(n) /\ Copied(node[n].view.failover)
         /\ node[n].view \in ViewType /\ node[n].view.failover \in Com!Request
         /\ node[n].view.paused \in BOOLEAN
  BY DEF ComInv, ComTypes, NodeType, ViewType

\* A node becomes x.
LEMMA ComBecomes ==
  ASSUME ComInv, NEW n \in Node, NEW x \in NodeType, node' = [node EXCEPT ![n] = x]
  PROVE  node' \in [Node -> NodeType] /\ node'[n] = x /\ \A m \in Node \ {n} : node'[m] = node[m]
  BY ComNode

\* The record of a node that goes idle.
LEMMA ComIdle ==
  ASSUME ComInv, NEW n \in Node
  PROVE  /\ Com!Idle(n) \in NodeType /\ Com!Idle(n).pc = "idle" /\ Com!Idle(n).view = Com!NoView
         /\ Com!Idle(n).up = node[n].up /\ Com!Idle(n).task = node[n].task /\ Com!Idle(n).by = node[n].by
  BY ComNode, ComNulls DEF Com!Idle, NodeType

\* A node updates its key.
LEMMA ComTouches ==
  ASSUME ComInv, NEW n \in Node, NEW base \in DcsType, Com!TouchMember(n, base)
  PROVE  /\ dcs' \in DcsType /\ op' \in [Operator -> OpType] /\ due' = due /\ faults' = faults
         /\ dcs'.leader = base.leader /\ dcs'.failover = base.failover /\ dcs'.paused = base.paused
         /\ dcs'.ver = base.ver
         /\ dcs'.member[n].pause = node[n].view.paused /\ \A m \in Node \ {n} : dcs'.member[m] = base.member[m]
         /\ \A p \in Operator :
              /\ SameButFresh(p)
              /\ op'[p].fresh = IF op[p].pc \in {"patch", "wait"} THEN op[p].fresh \cup {n} ELSE op[p].fresh
  <1> DEFINE k == [pause |-> node[n].view.paused, sched |-> node[n].sched]
             mem == [base.member EXCEPT ![n] = k]
  <1>1. k \in [pause : BOOLEAN, sched : BOOLEAN] /\ k.pause = node[n].view.paused BY ComNode DEF NodeType
  <1> HIDE DEF k
  <1>2. base.member \in [Node -> [pause : BOOLEAN, sched : BOOLEAN]] BY DEF DcsType
  <1>3. dcs' = [base EXCEPT !.member = mem] BY DEF Com!TouchMember, k
  <1>4. mem \in [Node -> [pause : BOOLEAN, sched : BOOLEAN]] /\ mem[n] = k /\ \A m \in Node \ {n} : mem[m] = base.member[m]
    BY <1>1, <1>2
  <1> HIDE DEF mem
  <1>5. /\ dcs' \in DcsType /\ dcs'.member = mem
        /\ dcs'.leader = base.leader /\ dcs'.failover = base.failover /\ dcs'.paused = base.paused
        /\ dcs'.ver = base.ver
    BY <1>3, <1>4 DEF DcsType
  <1>6. ASSUME NEW p \in Operator
        PROVE  /\ op'[p] \in OpType /\ SameButFresh(p)
               /\ op'[p].fresh = IF op[p].pc \in {"patch", "wait"} THEN op[p].fresh \cup {n} ELSE op[p].fresh
    <2> DEFINE f == op[p].fresh \cup {n}
               x == [op[p] EXCEPT !.fresh = f]
    <2>1. op[p] \in OpType /\ f \in SUBSET Node BY ComOp, ComLoaded
    <2>2. op'[p] = IF op[p].pc \in {"patch", "wait"} THEN x ELSE op[p] BY DEF Com!TouchMember
    <2> HIDE DEF f
    <2>3. /\ x \in OpType /\ x.kind = op[p].kind /\ x.pc = op[p].pc /\ x.told = op[p].told
          /\ x.seen = op[p].seen /\ x.api = op[p].api /\ x.want = op[p].want
          /\ x.m = op[p].m /\ x.removed = op[p].removed /\ x.steady = op[p].steady /\ x.fresh = f
      BY <2>1 DEF OpType
    <2> HIDE DEF x
    <2> QED BY <2>1, <2>2, <2>3 DEF f, SameButFresh
  <1>7. op' \in [Operator -> OpType] BY <1>6 DEF Com!TouchMember
  <1> QED BY <1>1, <1>4, <1>5, <1>6, <1>7 DEF Com!TouchMember

\* Each action keeps the invariant: those of the nodes.
LEMMA ComLoad == ASSUME ComInv, NEW n \in Node, Com!Load(n) PROVE ComInv'
  <1> DEFINE v == IF dcs.leader \in {n, NoNode} THEN Com!Cluster ELSE [Com!Cluster EXCEPT !.failover = Com!NoFailover]
             x == [node[n] EXCEPT !.pc = "loaded", !.view = v]
  <1>1. node[n].up /\ node[n].pc = "idle" /\ UNCHANGED <<dcs, op, due, faults>> BY DEF Com!Load
  <1>2. v \in ViewType /\ v.failover \in {dcs.failover, Com!NoFailover} /\ v.paused = dcs.paused
        /\ (v.failover = Com!NoFailover \/ v.leader = dcs.leader)
    BY ComCluster, ComNulls DEF ComInv, ViewType
  <1>3. node' = [node EXCEPT ![n] = x] BY ComNode DEF Com!Load
  <1> HIDE DEF v
  <1>4. x \in NodeType /\ x.up = node[n].up /\ x.pc = "loaded" /\ x.view = v /\ x.task = node[n].task
        /\ x.by = node[n].by
    BY <1>2, ComNode DEF NodeType
  <1> HIDE DEF x
  <1>5. node' \in [Node -> NodeType] /\ node'[n] = x /\ \A m \in Node \ {n} : node'[m] = node[m]
    BY <1>3, <1>4, ComBecomes
  <1>6. ComTypes' BY <1>1, <1>5 DEF ComInv, ComTypes
  <1>7. Leads(n)' BY <1>1, <1>4, <1>5, ComNode DEF Leads
  <1>8. ASSUME NEW o \in Operator, Carries(n, o)' PROVE Carries(n, o) \/ dcs.failover.by = o
    BY <1>1, <1>2, <1>4, <1>5, <1>8, ComNulls, ComConstants DEF Carries, Com!HandsOver
  <1> QED BY <1>1, <1>2, <1>4, <1>5, <1>6, <1>7, <1>8, ComNodes DEF Kept, Untouched

\* A cycle ends: the node updates its key and is idle.
LEMMA ComGoesIdle ==
  ASSUME ComInv, NEW n \in Node, NEW base \in DcsType, NEW x \in NodeType, Com!TouchMember(n, base),
         node' = [node EXCEPT ![n] = x], node[n].pc # "idle", x.pc = "idle", x.view = Com!NoView, x.up = node[n].up,
         x.task = "demote" => base.leader = n, x.by # NoOperator => x.task = "demote",
         base.paused = dcs.paused, base.member = dcs.member, base.leader = dcs.leader \/ (dcs.leader = NoNode /\ base.leader = n),
         Kept \/ (dcs.leader = n /\ (Cleared \/ Renewed)),
         \A o \in Operator : x.by = o => Kept /\ Carries(n, o)
  PROVE  ComInv'
  <1>1. node' \in [Node -> NodeType] /\ node'[n] = x /\ \A m \in Node \ {n} : node'[m] = node[m] BY ComBecomes
  <1>2. /\ dcs' \in DcsType /\ op' \in [Operator -> OpType] /\ due' = due /\ faults' = faults
        /\ dcs'.leader = base.leader /\ dcs'.paused = base.paused
        /\ dcs'.member[n].pause = node[n].view.paused /\ \A m \in Node \ {n} : dcs'.member[m] = base.member[m]
        /\ \A p \in Operator :
             /\ SameButFresh(p)
             /\ op'[p].fresh = IF op[p].pc \in {"patch", "wait"} THEN op[p].fresh \cup {n} ELSE op[p].fresh
    BY ComTouches
  <1>3. ComTypes' BY <1>1, <1>2 DEF ComInv, ComTypes
  <1>4. Leads(n)' BY <1>1, <1>2, ComNode DEF Leads
  <1>5. \A o \in Operator : Carries(n, o)' => Kept /\ Carries(n, o) BY <1>1 DEF Carries, Com!HandsOver
  <1>6. node'[n].view.failover = Com!NoFailover BY <1>1, ComNulls
  <1>7. Touched(n) BY <1>1, <1>2 DEF Touched
  <1>8. node'[n].pc = "idle" /\ dcs'.paused = dcs.paused BY <1>1, <1>2
  <1>9. dcs'.leader = dcs.leader \/ (dcs.leader \in {n, NoNode} /\ dcs'.leader \in {n, NoNode}) BY <1>2
  <1> QED BY <1>1, <1>3, <1>4, <1>5, <1>6, <1>7, <1>8, <1>9, ComNodes

\* The key of the requests without one.
LEMMA ComClear ==
  ASSUME ComInv
  PROVE  /\ dcs \in DcsType /\ [dcs EXCEPT !.failover = Com!NoFailover] \in DcsType
         /\ [dcs EXCEPT !.failover = Com!NoFailover].failover = Com!NoFailover
         /\ [dcs EXCEPT !.failover = Com!NoFailover].ver = dcs.ver
         /\ [dcs EXCEPT !.failover = Com!NoFailover].leader = dcs.leader
         /\ [dcs EXCEPT !.failover = Com!NoFailover].paused = dcs.paused
         /\ [dcs EXCEPT !.failover = Com!NoFailover].member = dcs.member
  <1> DEFINE f == Com!NoFailover
  <1>1. f \in Com!Request BY ComNulls
  <1>2. dcs \in DcsType BY DEF ComInv, ComTypes
  <1> HIDE DEF f
  <1>3. /\ [dcs EXCEPT !.failover = f] \in DcsType /\ [dcs EXCEPT !.failover = f].failover = f
        /\ [dcs EXCEPT !.failover = f].ver = dcs.ver /\ [dcs EXCEPT !.failover = f].leader = dcs.leader
        /\ [dcs EXCEPT !.failover = f].paused = dcs.paused /\ [dcs EXCEPT !.failover = f].member = dcs.member
    BY <1>1, <1>2 DEF DcsType
  <1> QED BY <1>2, <1>3 DEF f

LEMMA ComHandover == ASSUME ComInv, NEW n \in Node, Com!Handover(n) PROVE ComInv'
  <1> DEFINE f == node[n].view.failover
  <1>1. node[n].pc = "loaded" /\ node[n].view.leader = n /\ dcs.leader = n /\ node[n].task = "none" BY DEF
      Com!Handover
  <1>2. Com!Idle(n) \in NodeType /\ Com!Idle(n).pc = "idle" /\ Com!Idle(n).view = Com!NoView
        /\ Com!Idle(n).up = node[n].up /\ Com!Idle(n).task = "none" /\ Com!Idle(n).by = NoOperator
    BY <1>1, ComIdle, ComNode DEF Leads
  <1>3. CASE node' = [node EXCEPT ![n] = [Com!Idle(n) EXCEPT !.task = "demote", !.by = f.by]] /\ Com!TouchMember(n, dcs)
    <2> DEFINE i == Com!Idle(n)
               x == [i EXCEPT !.task = "demote", !.by = f.by]
    <2>1. f.by \in Operator \cup {NoOperator} BY ComNode DEF Com!Request
    <2>2. node' = [node EXCEPT ![n] = x] BY <1>3
    <2> HIDE DEF i, f
    <2>3. x \in NodeType /\ x.pc = "idle" /\ x.view = Com!NoView /\ x.up = node[n].up /\ x.task = "demote"
          /\ x.by = f.by
      BY <1>2, <2>1 DEF NodeType, i
    <2> HIDE DEF x
    <2>4. Kept
      BY <1>3, ComTouches, ComClear DEF Kept
    <2>5. \A o \in Operator : x.by = o => Carries(n, o) BY <1>1, <2>3 DEF Carries, Com!HandsOver, f
    <2> QED BY <1>1, <1>3, <2>2, <2>3, <2>4, <2>5, ComGoesIdle, ComClear
  <1>4. CASE node' = [node EXCEPT ![n] = Com!Idle(n)] /\ Com!TouchMember(n, Com!Removed(f.ver))
    <2> DEFINE base == Com!Removed(f.ver)
    <2>1. /\ base \in DcsType /\ base.leader = n /\ base.paused = dcs.paused /\ base.member = dcs.member
          /\ base.ver = dcs.ver
          /\ base.failover \in {dcs.failover, Com!NoFailover}
      BY <1>1, ComClear DEF Com!Removed
    <2> HIDE DEF base
    <2>2. Com!TouchMember(n, base) BY <1>4 DEF base
    <2>3. dcs'.failover = base.failover /\ dcs'.ver = base.ver BY <2>1, <2>2, ComTouches
    <2>4. Kept \/ Cleared BY <2>1, <2>3 DEF Kept, Cleared
    <2> QED BY <1>1, <1>2, <1>4, <2>1, <2>2, <2>4, ComGoesIdle, ComConstants
  <1> QED BY <1>3, <1>4 DEF Com!Handover

\* The key of the leader is taken, released or expires.
LEMMA ComLeaderIs ==
  ASSUME ComInv, NEW l \in Node \cup {NoNode}
  PROVE  /\ [dcs EXCEPT !.leader = l] \in DcsType /\ [dcs EXCEPT !.leader = l].leader = l
         /\ [dcs EXCEPT !.leader = l].failover = dcs.failover /\ [dcs EXCEPT !.leader = l].ver = dcs.ver
         /\ [dcs EXCEPT !.leader = l].paused = dcs.paused /\ [dcs EXCEPT !.leader = l].member = dcs.member
  BY DEF ComInv, ComTypes, DcsType

LEMMA ComDemote == ASSUME ComInv, NEW n \in Node, Com!Demote(n) PROVE ComInv'
  <1> DEFINE x == [node[n] EXCEPT !.task = "none", !.by = NoOperator]
  <1>1. dcs.leader = n /\ node[n].up /\ node[n].task = "demote" BY ComNode DEF Com!Demote, Leads
  <1>2. dcs' = [dcs EXCEPT !.leader = NoNode] /\ UNCHANGED <<op, due, faults>> BY <1>1 DEF Com!Demote
  <1>3. /\ dcs' \in DcsType /\ dcs'.leader = NoNode /\ dcs'.paused = dcs.paused /\ dcs'.member = dcs.member
        /\ dcs'.failover = dcs.failover /\ dcs'.ver = dcs.ver
    BY <1>2, ComLeaderIs
  <1>4. node' = [node EXCEPT ![n] = x] BY ComNode DEF Com!Demote
  <1>5. x \in NodeType /\ x.up = node[n].up /\ x.pc = node[n].pc /\ x.view = node[n].view /\ x.task = "none"
        /\ x.by = NoOperator
    BY ComNode DEF NodeType
  <1> HIDE DEF x
  <1>6. node' \in [Node -> NodeType] /\ node'[n] = x /\ \A m \in Node \ {n} : node'[m] = node[m]
    BY <1>4, <1>5, ComBecomes
  <1>7. ComTypes' BY <1>2, <1>3, <1>6 DEF ComInv, ComTypes
  <1>8. node[n].pc # "clean" BY <1>1, ComNode DEF Leads
  <1>9. Leads(n)' BY <1>1, <1>5, <1>6, <1>8, ComNode DEF Leads
  <1>10. \A o \in Operator : ~Carries(n, o)' BY <1>3, <1>5, <1>6, ComConstants DEF Carries, Com!HandsOver
  <1>11. Kept /\ Untouched BY <1>2, <1>3 DEF Kept, Untouched
  <1>12. node'[n].pc # "idle" => node[n].pc # "idle" /\ node'[n].view.paused = node[n].view.paused BY <1>5,
      <1>6
  <1>13. node'[n].view.failover = node[n].view.failover BY <1>5, <1>6
  <1> QED BY <1>1, <1>3, <1>6, <1>7, <1>9, <1>10, <1>11, <1>12, <1>13, ComNodes

LEMMA ComRace == ASSUME ComInv, NEW n \in Node, Com!Race(n) PROVE ComInv'
  <1>1. node[n].pc = "loaded" /\ node[n].view.leader = NoNode /\ node[n].task = "none" /\ dcs.leader = NoNode
      BY DEF Com!Race
  <1> DEFINE base == [dcs EXCEPT !.leader = n]
  <1>2. /\ base \in DcsType /\ base.leader = n /\ base.paused = dcs.paused /\ base.member = dcs.member
        /\ base.failover = dcs.failover /\ base.ver = dcs.ver
    BY ComLeaderIs
  <1>3. CASE node' = [node EXCEPT ![n] = Com!Idle(n)] /\ Com!TouchMember(n, base)
    <2> HIDE DEF base
    <2>1. dcs'.failover = base.failover /\ dcs'.ver = base.ver BY <1>2, <1>3, ComTouches
    <2>2. Kept BY <1>2, <2>1 DEF Kept
    <2>3. Com!Idle(n) \in NodeType /\ Com!Idle(n).pc = "idle" /\ Com!Idle(n).view = Com!NoView
          /\ Com!Idle(n).up = node[n].up /\ Com!Idle(n).task = "none" /\ Com!Idle(n).by = NoOperator
      BY <1>1, ComIdle, ComNode DEF Leads
    <2> QED BY <1>1, <1>2, <1>3, <2>2, <2>3, ComGoesIdle, ComConstants
  <1>4. CASE node' = [node EXCEPT ![n].pc = "clean"] /\ dcs' = base /\ UNCHANGED <<op, due, faults>>
    <2> DEFINE x == [node[n] EXCEPT !.pc = "clean"]
    <2> HIDE DEF base
    <2>1. node' = [node EXCEPT ![n] = x] BY <1>4, ComNode
    <2>2. x \in NodeType /\ x.up = node[n].up /\ x.pc = "clean" /\ x.view = node[n].view
          /\ x.task = node[n].task /\ x.by = node[n].by
      BY ComNode DEF NodeType
    <2> HIDE DEF x
    <2>3. node' \in [Node -> NodeType] /\ node'[n] = x /\ \A m \in Node \ {n} : node'[m] = node[m]
      BY <2>1, <2>2, ComBecomes
    <2>4. ComTypes' BY <1>2, <1>4, <2>3 DEF ComInv, ComTypes
    <2>5. Leads(n)' BY <1>1, <1>2, <1>4, <2>2, <2>3, ComNode DEF Leads
    <2>6. \A o \in Operator : Carries(n, o)' => Carries(n, o) BY <1>1, <2>2, <2>3 DEF Carries, Com!HandsOver
    <2>7. Kept /\ Untouched BY <1>2, <1>4 DEF Kept, Untouched
    <2>8. node[n].pc # "idle" /\ node'[n].view = node[n].view BY <1>1, <2>2, <2>3
    <2> QED BY <1>1, <1>2, <1>4, <2>3, <2>4, <2>5, <2>6, <2>7, <2>8, ComNodes
  <1> QED BY <1>3, <1>4 DEF Com!Race

LEMMA ComClean == ASSUME ComInv, NEW n \in Node, Com!Clean(n) PROVE ComInv'
  <1> DEFINE f == node[n].view.failover
  <1>1. node[n].pc = "clean" /\ dcs.leader = n /\ node[n].task = "none"
        /\ node' = [node EXCEPT ![n] = Com!Idle(n)]
    BY ComNode DEF Com!Clean, Leads
  <1>2. Com!Idle(n) \in NodeType /\ Com!Idle(n).pc = "idle" /\ Com!Idle(n).view = Com!NoView
        /\ Com!Idle(n).up = node[n].up /\ Com!Idle(n).task = "none" /\ Com!Idle(n).by = NoOperator
    BY <1>1, ComIdle, ComNode DEF Leads
  <1>3. ASSUME NEW base \in DcsType, Com!TouchMember(n, base), base.leader = dcs.leader, base.paused = dcs.paused,
               base.member = dcs.member,
               \/ base.failover = dcs.failover /\ base.ver = dcs.ver
               \/ base.failover = Com!NoFailover /\ base.ver = dcs.ver
               \/ /\ base.ver = dcs.ver + 1 /\ base.failover.ver = dcs.ver + 1
                  /\ base.failover.by = dcs.failover.by /\ base.failover.timed = dcs.failover.timed
        PROVE  ComInv'
    <2>1. dcs'.failover = base.failover /\ dcs'.ver = base.ver BY <1>3, ComTouches
    <2>2. Kept \/ Cleared \/ Renewed BY <1>3, <2>1 DEF Kept, Cleared, Renewed
    <2> QED BY <1>1, <1>2, <1>3, <2>2, ComGoesIdle, ComConstants
  <1>4. CASE Com!TouchMember(n, dcs) BY <1>3, <1>4, ComClear
  <1>5. CASE Com!TouchMember(n, [dcs EXCEPT !.failover = Com!NoFailover])
    <2> DEFINE base == [dcs EXCEPT !.failover = Com!NoFailover]
    <2>1. /\ base \in DcsType /\ base.leader = dcs.leader /\ base.paused = dcs.paused
          /\ base.member = dcs.member
          /\ base.failover = Com!NoFailover /\ base.ver = dcs.ver
      BY ComClear
    <2>2. Com!TouchMember(n, base) BY <1>5
    <2> HIDE DEF base
    <2> QED BY <1>3, <2>1, <2>2
  <1>6. CASE dcs.failover.ver = f.ver /\ Com!TouchMember(n, Com!Written([f EXCEPT !.leader = NoNode]))
    <2> DEFINE r == [f EXCEPT !.leader = NoNode]
               g == [r EXCEPT !.ver = dcs.ver + 1]
               base == [dcs EXCEPT !.failover = g, !.ver = dcs.ver + 1]
    <2>1. f = dcs.failover /\ f \in Com!Request /\ dcs \in DcsType /\ dcs.ver + 1 \in Nat
      BY <1>6, ComNode, ComClear DEF Copied, DcsType
    <2>2. Com!TouchMember(n, base) BY <1>6, <2>1 DEF Com!Written, DcsType
    <2> HIDE DEF f
    <2>3. r \in Com!Request /\ r.by = f.by /\ r.timed = f.timed BY <2>1 DEF Com!Request
    <2> HIDE DEF r
    <2>4. g \in Com!Request /\ g.by = f.by /\ g.timed = f.timed /\ g.ver = dcs.ver + 1 BY <2>1, <2>3 DEF
        Com!Request
    <2> HIDE DEF g
    <2>5. /\ base \in DcsType /\ base.leader = dcs.leader /\ base.paused = dcs.paused
          /\ base.member = dcs.member
          /\ base.failover = g /\ base.ver = dcs.ver + 1
      BY <2>1, <2>4 DEF DcsType
    <2> HIDE DEF base
    <2> QED BY <1>3, <2>1, <2>2, <2>4, <2>5
  <1> QED BY <1>4, <1>5, <1>6 DEF Com!Clean

LEMMA ComNothing == ASSUME ComInv, NEW n \in Node, Com!Nothing(n) PROVE ComInv'
  <1>1. node[n].pc = "loaded" /\ node' = [node EXCEPT ![n] = Com!Idle(n)] /\ Com!TouchMember(n, dcs) BY DEF
      Com!Nothing
  <1>2. Kept BY <1>1, ComTouches, ComClear DEF Kept
  <1>3. Leads(n) BY ComNode
  <1>4. \A o \in Operator : Com!Idle(n).by = o => Carries(n, o) BY ComIdle DEF Carries
  <1> DEFINE x == Com!Idle(n)
  <1>5. /\ x \in NodeType /\ x.pc = "idle" /\ x.view = Com!NoView /\ x.up = node[n].up
        /\ (x.task = "demote" => dcs.leader = n) /\ (x.by # NoOperator => x.task = "demote")
    BY <1>3, ComIdle DEF Leads
  <1>6. node' = [node EXCEPT ![n] = x] /\ \A o \in Operator : x.by = o => Carries(n, o) BY <1>1, <1>4
  <1>7. dcs \in DcsType BY ComClear
  <1> HIDE DEF x
  <1> QED BY <1>1, <1>2, <1>5, <1>6, <1>7, ComGoesIdle

\* A node becomes x; nobody else changes, and the key of the leader only if it is, or gets, its own.
LEMMA ComAlone ==
  ASSUME ComInv, NEW n \in Node, NEW x \in NodeType, node' = [node EXCEPT ![n] = x], UNCHANGED <<dcs, op, due>>,
         faults' \in 0 .. MaxFailures, (x.pc = "idle" /\ x.view = Com!NoView) \/ (x.pc = node[n].pc /\ x.view = node[n].view),
         x.pc # "idle" => x.up, x.pc = "clean" => dcs.leader = n /\ x.task = "none",
         x.task = "demote" => dcs.leader = n /\ x.up, x.by # NoOperator => x.task = "demote" /\ x.by = node[n].by
  PROVE  ComInv'
  <1>1. node' \in [Node -> NodeType] /\ node'[n] = x /\ \A m \in Node \ {n} : node'[m] = node[m] BY ComBecomes
  <1>2. ComTypes' BY <1>1 DEF ComInv, ComTypes
  <1>3. Leads(n)' BY <1>1 DEF Leads
  <1>4. \A o \in Operator : Carries(n, o)' => Carries(n, o) BY <1>1, ComConstants DEF Carries, Com!HandsOver
  <1>5. Kept /\ Untouched BY DEF Kept, Untouched
  <1>6. node'[n].view.failover \in {node[n].view.failover, Com!NoFailover} BY <1>1, ComNulls
  <1>7. node'[n].pc # "idle" => node[n].pc # "idle" /\ node'[n].view.paused = node[n].view.paused BY <1>1
  <1> QED BY <1>1, <1>2, <1>3, <1>4, <1>5, <1>6, <1>7, ComNodes

LEMMA ComReinitialize == ASSUME ComInv, NEW n \in Node, Com!Reinitialize(n) PROVE ComInv'
  <1>1. PICK t \in {"none", "create"} : node' = [node EXCEPT ![n].task = t] /\ node[n].task \in {"stop", "create"}
    BY DEF Com!Reinitialize
  <1>2. UNCHANGED <<dcs, op, due, faults>> BY DEF Com!Reinitialize
  <1> DEFINE x == [node[n] EXCEPT !.task = t]
  <1>3. node' = [node EXCEPT ![n] = x] BY <1>1, ComNode
  <1>4. x \in NodeType /\ x.up = node[n].up /\ x.pc = node[n].pc /\ x.view = node[n].view /\ x.task = t
        /\ x.by = node[n].by
    BY ComNode DEF NodeType
  <1> HIDE DEF x
  <1>5. faults' \in 0 .. MaxFailures BY <1>2 DEF ComInv, ComTypes
  <1>6. node[n].by = NoOperator /\ node[n].pc # "clean" BY <1>1, ComNode DEF Leads
  <1>7. /\ x.pc # "idle" => x.up
        /\ x.pc # "clean" /\ x.task # "demote" /\ x.by = NoOperator /\ x.pc = node[n].pc
        /\ x.view = node[n].view
    BY <1>1, <1>4, <1>6, ComNode DEF Leads
  <1> QED BY <1>2, <1>3, <1>4, <1>5, <1>7, ComAlone

LEMMA ComRestartRuns == ASSUME ComInv, NEW n \in Node, Com!RestartRuns(n) PROVE ComInv'
  <1> DEFINE b == FALSE
             x == [node[n] EXCEPT !.sched = b]
  <1>1. node' = [node EXCEPT ![n] = x] /\ b \in BOOLEAN /\ UNCHANGED <<dcs, op, due, faults>> BY ComNode DEF
      Com!RestartRuns
  <1> HIDE DEF b
  <1>2. x \in NodeType /\ x.up = node[n].up /\ x.pc = node[n].pc /\ x.view = node[n].view
        /\ x.task = node[n].task /\ x.by = node[n].by
    BY <1>1, ComNode DEF NodeType
  <1> HIDE DEF x
  <1>3. faults' \in 0 .. MaxFailures BY <1>1 DEF ComInv, ComTypes
  <1> QED BY <1>1, <1>2, <1>3, ComNode, ComAlone DEF Leads

LEMMA ComCrash == ASSUME ComInv, NEW n \in Node, Com!Crash(n) PROVE ComInv'
  <1> DEFINE b == FALSE
             x == [up |-> b, pc |-> "idle", view |-> Com!NoView, task |-> "none", by |-> NoOperator, sched |-> b]
  <1>1. node' = [node EXCEPT ![n] = x] /\ b \in BOOLEAN /\ UNCHANGED <<dcs, op, due>> BY DEF Com!Crash
  <1> HIDE DEF b
  <1>2. x \in NodeType /\ x.pc = "idle" /\ x.view = Com!NoView /\ x.task = "none" /\ x.by = NoOperator
    BY <1>1, ComNulls DEF NodeType
  <1> HIDE DEF x
  <1>3. faults \in 0 .. MaxFailures /\ faults < MaxFailures /\ faults' = faults + 1 BY DEF Com!Crash,
      Com!Fault, ComInv, ComTypes
  <1>4. faults' \in 0 .. MaxFailures BY <1>3, ComConstants
  <1> QED BY <1>1, <1>2, <1>4, ComAlone

LEMMA ComReturn == ASSUME ComInv, NEW n \in Node, Com!Return(n) PROVE ComInv'
  <1> DEFINE b == TRUE
             x == [node[n] EXCEPT !.up = b]
  <1>1. node' = [node EXCEPT ![n] = x] /\ b \in BOOLEAN /\ UNCHANGED <<dcs, op, due, faults>> BY ComNode DEF
      Com!Return
  <1>2. ~node[n].up BY DEF Com!Return
  <1>3. x \in NodeType /\ x.up /\ x.pc = node[n].pc /\ x.view = node[n].view /\ x.task = node[n].task
        /\ x.by = node[n].by
    <2> HIDE DEF b
    <2>1. x \in NodeType /\ x.up = b /\ x.pc = node[n].pc /\ x.view = node[n].view /\ x.task = node[n].task
          /\ x.by = node[n].by
      BY <1>1, ComNode DEF NodeType
    <2> QED BY <2>1 DEF b
  <1> HIDE DEF x
  <1>4. faults' \in 0 .. MaxFailures BY <1>1 DEF ComInv, ComTypes
  <1> QED BY <1>1, <1>2, <1>3, <1>4, ComNode, ComAlone DEF Leads

LEMMA ComTimePasses == ASSUME ComInv, Com!TimePasses PROVE ComInv'
  <1>1. due' = due \cup {dcs.failover.by} /\ UNCHANGED <<dcs, node, op, faults>> /\ dcs.failover.timed BY DEF
      Com!TimePasses
  <1>2. dcs.failover.by \in Operator BY <1>1 DEF ComInv, Copied
  <1>3. ComTypes' BY <1>1, <1>2 DEF ComInv, ComTypes
  <1> QED BY <1>1, <1>3 DEF ComInv, Meet, Copied, Leads, Waits, Com!HandsOver, Order, Step, Toggle,
      Com!FlushTold, Com!FailedTold, Com!Goal

LEMMA ComExpire == ASSUME ComInv, Com!Expire PROVE ComInv'
  <1>1. dcs' = [dcs EXCEPT !.leader = NoNode] /\ UNCHANGED <<node, op, due, faults>> /\ dcs.leader # NoNode
        /\ ~node[dcs.leader].up
    BY DEF Com!Expire
  <1>2. PICK n \in Node : dcs.leader = n BY <1>1 DEF ComInv, ComTypes, DcsType
  <1>3. /\ dcs' \in DcsType /\ dcs'.leader = NoNode /\ dcs'.paused = dcs.paused /\ dcs'.member = dcs.member
        /\ dcs'.failover = dcs.failover /\ dcs'.ver = dcs.ver
    BY <1>1, ComLeaderIs
  <1>4. ComTypes' BY <1>1, <1>3 DEF ComInv, ComTypes
  <1>5. node[n].pc = "idle" /\ node[n].task # "demote" BY <1>1, <1>2, ComNode DEF Leads
  <1>6. Leads(n)' BY <1>1, <1>5, ComNode DEF Leads
  <1>7. \A o \in Operator : Carries(n, o)' => Carries(n, o) BY <1>1, <1>5 DEF Carries, Com!HandsOver
  <1>8. Kept /\ Untouched BY <1>1, <1>3 DEF Kept, Untouched
  <1> QED BY <1>1, <1>2, <1>3, <1>4, <1>5, <1>6, <1>7, <1>8, ComNodes

\* The invariant holds at the beginning: only some commands meet.
LEMMA ComBegins == Com!Init => ComInv
  <1> SUFFICES ASSUME Com!Init PROVE ComInv OBVIOUS
  <1>1. PICK l \in Node, p \in BOOLEAN :
          dcs = [leader |-> l, failover |-> Com!NoFailover, paused |-> p, ver |-> 0,
                 member |-> [n \in Node |-> [pause |-> p, sched |-> FALSE]]]
    BY DEF Com!Init
  <1>2. PICK down \in SUBSET (Node \ {dcs.leader}) :
          node = [n \in Node |-> [up |-> n \notin down, pc |-> "idle", view |-> Com!NoView, task |-> "none",
                                  by |-> NoOperator, sched |-> FALSE]]
    BY DEF Com!Init
  <1>3. PICK s \in {{"switchover"}, {"failover", "pause"}, {"schedule", "flush"}, {"failover", "flush"},
                    {"pause", "resume"}, {"restart"}, {"restart", "unrestart"}, {"reinit"}, {"restart", "reinit"}} :
          op \in {f \in [Operator -> {Com!NewOp(k) : k \in s}] : {f[o].kind : o \in Operator} = s}
    BY DEF Com!Init
  <1>4. due = {} /\ faults = 0 BY DEF Com!Init
  <1>5. dcs \in DcsType /\ dcs.failover = Com!NoFailover /\ dcs.ver = 0
    <2> DEFINE b == FALSE
               mem == [n \in Node |-> [pause |-> p, sched |-> b]]
    <2>1. b \in BOOLEAN /\ dcs = [leader |-> l, failover |-> Com!NoFailover, paused |-> p, ver |-> 0, member
        |-> mem] BY <1>1
    <2> HIDE DEF b
    <2>2. mem \in [Node -> [pause : BOOLEAN, sched : BOOLEAN]] BY <2>1
    <2> HIDE DEF mem
    <2> QED BY <2>1, <2>2, ComNulls DEF DcsType
  <1>6. ASSUME NEW n \in Node
        PROVE  node[n] \in NodeType /\ node[n].pc = "idle" /\ node[n].view = Com!NoView /\ node[n].task = "none"
               /\ node[n].by = NoOperator
    <2> DEFINE b == FALSE
               c == n \notin down
               x == [up |-> c, pc |-> "idle", view |-> Com!NoView, task |-> "none", by |-> NoOperator, sched |-> b]
    <2>1. node[n] = x /\ b \in BOOLEAN /\ c \in BOOLEAN BY <1>2
    <2> HIDE DEF b, c
    <2>2. x \in NodeType /\ x.pc = "idle" /\ x.view = Com!NoView /\ x.task = "none" /\ x.by = NoOperator
      BY <2>1, ComNulls DEF NodeType
    <2> QED BY <2>1, <2>2
  <1>7. node \in [Node -> NodeType] BY <1>2, <1>6
  <1>8. ASSUME NEW o \in Operator PROVE \E k \in s : k \in Com!Kind /\ op[o] = Com!NewOp(k)
    <2>1. \A k \in s : k \in Com!Kind BY DEF Com!Kind
    <2>2. op[o] \in {Com!NewOp(k) : k \in s} BY <1>3
    <2> QED BY <2>1, <2>2
  <1>9. ASSUME NEW o \in Operator
        PROVE  /\ op[o] \in OpType /\ op[o].kind \in s /\ op[o].pc = "begin"
               /\ op[o].seen = Com!NoView /\ op[o].api = Com!NoView /\ op[o].fresh = {}
               /\ op[o].told = "nothing"
    <2>1. PICK k \in s : k \in Com!Kind /\ op[o] = Com!NewOp(k) BY <1>8
    <2> QED BY <2>1, ComNew
  <1>10. op \in [Operator -> OpType] BY <1>3, <1>9
  <1>11. ComTypes
    <2>1. due \subseteq Operator BY <1>4
    <2>2. faults \in 0 .. MaxFailures BY <1>4, ComConstants
    <2> QED BY <1>5, <1>7, <1>10, <2>1, <2>2 DEF ComTypes
  <1>12. Meet
    <2> SUFFICES ASSUME NEW o \in Operator, NEW q \in Operator, op[o].kind = "schedule"
                 PROVE  op[q].kind \in {"schedule", "flush"}
      BY DEF Meet
    <2>1. "schedule" \in s /\ op[q].kind \in s BY <1>9
    <2>2. s = {"schedule", "flush"} BY <2>1
    <2> QED BY <2>1, <2>2
  <1>13. Copied(Com!NoFailover) BY <1>5, ComNulls DEF Copied
  <1>14. ASSUME NEW n \in Node PROVE Copied(node[n].view.failover) /\ Leads(n) /\ \A o \in Operator : Waits(n, o)
    BY <1>6, <1>13, ComNulls, ComConstants DEF Leads, Waits, Com!HandsOver
  <1>15. ASSUME NEW o \in Operator PROVE Order(o)
    <2>1. Copied(op[o].seen.failover) /\ Copied(op[o].api.failover) BY <1>9, <1>13, ComNulls
    <2>2. Step(o) /\ Com!FlushTold(o) /\ Com!FailedTold(o) BY <1>9 DEF Step, Com!FlushTold, Com!FailedTold
    <2>3. Toggle(o) BY <1>6, <1>9 DEF Toggle
    <2> QED BY <2>1, <2>2, <2>3 DEF Order
  <1> QED BY <1>5, <1>11, <1>12, <1>13, <1>14, <1>15 DEF ComInv

\* And so does every step.
LEMMA ComStutter == ASSUME ComInv, UNCHANGED comVars PROVE ComInv'
  BY DEF comVars, ComInv, ComTypes, Meet, Copied, Leads, Waits, Com!HandsOver, Order, Step, Toggle,
      Com!FlushTold, Com!FailedTold, Com!Goal

LEMMA ComStep == ASSUME ComInv, Com!Next PROVE ComInv'
  BY ComLoad, ComHandover, ComDemote, ComRace, ComClean, ComNothing, ComReinitialize, ComRestartRuns,
      ComCrash, ComReturn, ComTimePasses, ComExpire, ComBeginSwitchover, ComBeginFlush, ComBeginToggle,
      ComBeginRestart, ComBeginReinit, ComPostSwitchover, ComWriteFailover, ComPollFailover, ComFallBack,
      ComDeleteSwitchover, ComRemoveSwitchover, ComFlushFallBack, ComPatchConfig, ComWaitUntilApplied,
      ComDropRestart, ComPlanRestart, ComPostReinitialize, ComWaitReinitialize
     DEF Com!Next

\* What the invariant is for.
LEMMA ComTells == ASSUME ComInv PROVE Com!AnswersTrue
  <1>1. ASSUME NEW o \in Operator PROVE Com!PauseTold(o)
    <2>1. Toggle(o) /\ op[o].fresh \subseteq Node BY DEF ComInv, ComTypes, OpType, Order
    <2> QED BY <2>1 DEF Toggle, Com!PauseTold
  <1> QED BY <1>1 DEF ComInv, Order, Com!AnswersTrue

\* The invariant of the commands, in the system in which the parts are side by side.
LEMMA ComAlways == Spec => [](part = "commands" => ComInv)
  <1>1. Init => (part = "commands" => ComInv) BY ComBegins DEF Init
  <1>2. (part = "commands" => ComInv) /\ [Next]_allVars => (part = "commands" => ComInv)'
    <2> SUFFICES ASSUME part = "commands" => ComInv, [Next]_allVars, part' = "commands" PROVE ComInv' OBVIOUS
    <2>1. CASE UNCHANGED allVars
      <3>1. ComInv /\ UNCHANGED comVars BY <2>1 DEF allVars
      <3> QED BY <3>1, ComStutter
    <2>2. CASE Next
      <3>1. part = "commands" /\ Com!Next BY <2>2 DEF Next
      <3> QED BY <3>1, ComStep
    <2> QED BY <2>1, <2>2
  <1> QED BY <1>1, <1>2, PTL DEF Spec

\* What operators are told is so, whatever others do at the same time (patronictl, the REST API).
THEOREM OperatorsAreTold == Spec => [](part = "commands" => Com!AnswersTrue)
  <1>1. (part = "commands" => ComInv) => (part = "commands" => Com!AnswersTrue) BY ComTells
  <1> QED BY <1>1, ComAlways, PTL

\* What a node tells others is so: to operators, to load balancers and probes, and to callback scripts.
THEOREM WhatIsToldIsTrue == Spec => []ToldTrue
  <1>1. /\ part = "commands" => Com!AnswersTrue
        /\ part = "health" => Hea!AnswersTrue
        /\ part = "callbacks" => Cal!LastTold
        => ToldTrue
    BY DEF ToldTrue
  <1> QED BY <1>1, OperatorsAreTold, HealthAnswersAreTrue, CallbacksAreTold, PTL

-----------------------------------------------------------------------------
(* Follow *)

\* What the variables of the standby hold.
Slot == {"own", "other", "none"}
\* Who may be the leader.
Member == Peer \cup {Me, NoPeer}
KeysType == [leader : Member, members : SUBSET Peer, standby : BOOLEAN, paused : BOOLEAN, up : SUBSET (Peer \cup {Remote})]
FilesType == [conf : Fol!Settings, auto : [host : Fol!Host \cup {"unset"}, slot : {"unset"}], pass : [host : Fol!Host, password : 0 .. 2]]
ServerType == [state : {"down", "starting", "running"}, run : Fol!Settings, recv : Fol!Settings, hup : BOOLEAN]
CurrentType == [host : Fol!Host, slot : Slot, password : 0 .. 2, any : BOOLEAN]
MemoryType == [known : SUBSET Fol!File, current : CurrentType, wanted : Fol!Settings, called : BOOLEAN]
TurnType == [pc : {"idle", "follow", "query", "compare", "restart", "start"}, leader : Member, members : SUBSET Peer,
             recv : Fol!Settings, snap : SUBSET Fol!File, last : {"none", "kept", "nothing", "changed"}, calm : BOOLEAN]

\* The types of all.
FolTypes ==
  /\ keys \in KeysType /\ files \in FilesType /\ postgres \in ServerType /\ memory \in MemoryType
  /\ turn \in TurnType
  /\ secret \in [database : 1 .. 2, local : 1 .. 2] /\ changes \in 0 .. MaxChanges
  /\ tags \in {[from |-> NoPeer, nostream |-> FALSE], [from |-> CHOOSE p \in Peer : TRUE, nostream |-> FALSE],
               [from |-> NoPeer, nostream |-> TRUE]}

\* A cycle that looks at postgres; one that nothing has disturbed.
Cycling == turn.pc \in {"follow", "query", "compare"}
Quiet == Cycling /\ turn.calm

\* Postgres runs what is in its files, but for a SIGHUP on its way; in a cycle there is none.
InForce ==
  /\ postgres.state # "down" /\ ~postgres.hup => postgres.run = Fol!Effective(files)
  /\ Cycling => ~postgres.hup
  /\ turn.pc = "start" => postgres.state = "down"

\* What was read at the beginning of a cycle is so until something happens; the slot of the WAL receiver is so
\* all the time.
Fresh ==
  /\ Cycling /\ turn.recv # Fol!NoReceiver => turn.recv.slot = files.conf.slot
  /\ Quiet => /\ turn.leader = keys.leader /\ turn.members = keys.members
              /\ postgres.state = "running" => turn.recv = postgres.recv
              /\ postgres.recv \in {Fol!NoReceiver, postgres.run}
  /\ turn.pc = "query" /\ turn.calm => turn.snap = Fol!File

\* As long as the times of the files are those that are remembered, so is what is in them.
Remembers ==
  turn.pc # "start" /\ {"conf", "auto"} \subseteq memory.known =>
    /\ memory.current.any /\ memory.current.host = Fol!Effective(files).host
    /\ memory.current.slot = files.conf.slot
    /\ "pass" \in memory.known /\ memory.current.password # 0 =>
         files.pass = [host |-> memory.current.host, password |-> memory.current.password]

\* And before anything is compared they have been looked at.
Compares ==
  turn.pc = "compare" /\ turn.calm /\ postgres.state = "running" =>
    /\ {"conf", "auto"} \subseteq memory.known
    /\ "pass" \in memory.known \/ memory.current.password = 0

\* All of it.
FolInv == FolTypes /\ InForce /\ Fresh /\ Remembers /\ Compares /\ Fol!FollowsWanted

\* What is assumed of the constants.
LEMMA FolConstants == MaxChanges \in Nat
  BY ControlAssumption DEF Fol!FollowAssumption

\* The null records.
LEMMA FolNulls ==
  /\ Fol!NoReceiver \in Fol!Settings /\ Fol!NoReceiver.host = NoPeer
  /\ Fol!NoPass \in [host : Fol!Host, password : 0 .. 2]
  /\ Fol!NoEdit \in [host : Fol!Host \cup {"unset"}, slot : {"unset"}] /\ Fol!NoEdit.host = "unset" /\ Fol!NoEdit.slot = "unset"
  BY DEF Fol!NoReceiver, Fol!NoPass, Fol!NoEdit, Fol!Settings, Fol!Host

\* A node between two cycles.
LEMMA FolResting ==
  /\ Fol!Resting \in TurnType /\ Fol!Resting.pc = "idle" /\ Fol!Resting.last = "none"
  /\ Fol!Resting.recv = Fol!NoReceiver
  /\ Fol!Resting.leader = NoPeer /\ Fol!Resting.members = {} /\ Fol!Resting.snap = {}
  <1> DEFINE b == FALSE
             e == {}
             x == [pc |-> "idle", leader |-> NoPeer, members |-> e, recv |-> Fol!NoReceiver, snap |-> e,
                   last |-> "none", calm |-> b]
  <1>1. b \in BOOLEAN /\ e \in SUBSET Peer /\ e \in SUBSET Fol!File OBVIOUS
  <1>2. Fol!Resting = x BY DEF Fol!Resting
  <1> HIDE DEF b
  <1>3. x \in TurnType
    <2> HIDE DEF e
    <2> QED BY <1>1, FolNulls DEF TurnType, Member
  <1>4. x.pc = "idle" /\ x.last = "none" /\ x.recv = Fol!NoReceiver /\ x.leader = NoPeer /\ x.members = e
        /\ x.snap = e
    OBVIOUS
  <1> QED BY <1>2, <1>3, <1>4

\* A cycle that is over.
LEMMA FolDone ==
  ASSUME FolTypes, NEW what \in {"none", "kept", "nothing", "changed"}, Fol!Done(what)
  PROVE  turn' \in TurnType /\ turn'.pc = "idle" /\ turn'.last = what /\ turn'.calm = turn.calm
  <1> DEFINE c == turn.calm
  <1>1. c \in BOOLEAN BY DEF FolTypes, TurnType
  <1>2. turn' = [Fol!Resting EXCEPT !.last = what, !.calm = c] BY DEF Fol!Done
  <1> HIDE DEF c
  <1>3. turn' \in TurnType /\ turn'.pc = "idle" /\ turn'.last = what /\ turn'.calm = c
    BY <1>1, <1>2, FolResting DEF TurnType
  <1> QED BY <1>3 DEF c

\* What is asked for is a setting.
LEMMA FolAsks ==
  ASSUME FolTypes, NEW l \in Member, NEW M \in SUBSET Peer PROVE Fol!ConnInfo(l, M) \in Fol!Host
  BY DEF Fol!ConnInfo, Fol!Host

\* What the cycle asks for.
LEMMA FolWanted ==
  ASSUME FolTypes
  PROVE  Fol!Wanted \in Fol!Settings /\ (Fol!Wanted.host # NoPeer => Fol!Wanted.slot = "own") /\ Fol!Wanted.host = Fol!ConnInfo(turn.leader, turn.members)
  <1>1. Fol!ConnInfo(turn.leader, turn.members) \in Fol!Host BY FolAsks DEF FolTypes, TurnType
  <1> QED BY <1>1 DEF Fol!Wanted, Fol!Settings

\* What is in the files.
LEMMA FolEffective ==
  ASSUME NEW f \in FilesType
  PROVE  /\ Fol!Effective(f) \in Fol!Settings /\ Fol!Effective(f).slot = f.conf.slot
         /\ (f.auto = Fol!NoEdit => Fol!Effective(f) = f.conf)
  BY FolNulls DEF FilesType, Fol!Settings, Fol!Effective

\* The files are written.
LEMMA FolWrites ==
  ASSUME FolTypes, NEW m \in MemoryType, NEW w \in Fol!Settings, Fol!WriteConf(m, w)
  PROVE  /\ files' \in FilesType /\ Fol!Effective(files') = w
         /\ memory' \in MemoryType /\ "conf" \notin memory'.known
  <1> DEFINE pass == IF w.host = NoPeer THEN files.pass ELSE [host |-> w.host, password |-> secret.local]
             times == (m.known \ ({"conf"} \cup (IF files.auto = Fol!NoEdit THEN {} ELSE {"auto"})))
                      \cup (IF w.host = NoPeer THEN {} ELSE {"pass"})
  <1>1. files' = [conf |-> w, auto |-> Fol!NoEdit, pass |-> pass] /\ memory' = [m EXCEPT !.known = times]
    BY DEF Fol!WriteConf
  <1>2. pass \in [host : Fol!Host, password : 0 .. 2] BY DEF FolTypes, FilesType, Fol!Settings
  <1>3. times \in SUBSET Fol!File /\ "conf" \notin times BY DEF MemoryType, Fol!File
  <1> HIDE DEF pass, times
  <1>4. files' \in FilesType /\ files'.conf = w /\ files'.auto = Fol!NoEdit BY <1>1, <1>2, FolNulls DEF
      FilesType
  <1>5. memory' \in MemoryType /\ memory'.known = times BY <1>1, <1>3 DEF MemoryType
  <1> QED BY <1>3, <1>4, <1>5, FolEffective

\* What is believed to be in force from now on.
LEMMA FolAsked ==
  ASSUME FolTypes, NEW w \in Fol!Settings
  PROVE  Fol!Asked(w) \in MemoryType /\ Fol!Asked(w).wanted = w /\ Fol!Asked(w).known = memory.known
  <1> DEFINE t == TRUE
             p == IF w.host = NoPeer THEN 0 ELSE secret.local
             c == [host |-> w.host, slot |-> w.slot, any |-> t, password |-> p]
  <1>1. t \in BOOLEAN /\ p \in 0 .. 2 /\ Fol!Asked(w) = [memory EXCEPT !.wanted = w, !.current = c]
    BY DEF FolTypes, Fol!Asked
  <1> HIDE DEF t, p
  <1>2. c \in CurrentType BY <1>1 DEF CurrentType, Fol!Settings, Slot
  <1> HIDE DEF c
  <1> QED BY <1>1, <1>2 DEF FolTypes, MemoryType

\* Nothing but what is in the cycle changes, and it goes on.
LEMMA FolTurns ==
  ASSUME FolTypes, NEW t \in TurnType, turn' = t, UNCHANGED <<keys, tags, files, postgres, secret, memory, changes>>
  PROVE  FolTypes'
  BY DEF FolTypes

\* Each action keeps the invariant: those of a cycle.
LEMMA FolLoad == ASSUME FolInv, Fol!Load PROVE FolInv'
  <1> DEFINE b == TRUE
             r == IF postgres.state = "starting" THEN Fol!NoReceiver ELSE postgres.recv
             x == [turn EXCEPT !.pc = "follow", !.leader = keys.leader, !.members = keys.members,
                               !.recv = r, !.last = "none", !.calm = b]
  <1>1. turn' = x /\ b \in BOOLEAN /\ UNCHANGED <<keys, tags, files, postgres, secret, memory, changes>> BY
      DEF Fol!Load
  <1>2. postgres.state \in {"running", "starting"} /\ ~postgres.hup
        /\ postgres.recv \in {Fol!NoReceiver, postgres.run}
    BY DEF Fol!Load, Fol!Settled
  <1>3. turn \in TurnType /\ keys \in KeysType /\ r \in Fol!Settings /\ files \in FilesType
    BY FolNulls DEF FolInv, FolTypes, ServerType
  <1> HIDE DEF b, r
  <1>4. x \in TurnType /\ x.pc = "follow" /\ x.leader = keys.leader /\ x.members = keys.members /\ x.recv = r
    BY <1>1, <1>3 DEF TurnType, KeysType
  <1> HIDE DEF x
  <1>5. FolTypes' BY <1>1, <1>4, FolTurns DEF FolInv
  <1>6. InForce' BY <1>1, <1>2, <1>4 DEF FolInv, InForce
  <1>7. Fresh' BY <1>1, <1>2, <1>3, <1>4, FolEffective DEF FolInv, InForce, Fresh, Cycling, Quiet, r
  <1>8. Remembers' BY <1>1, <1>4 DEF FolInv, Remembers, Fol!Load
  <1>9. Compares' /\ Fol!FollowsWanted' BY <1>1, <1>4 DEF Compares, Fol!FollowsWanted, Fol!AtRest
  <1> QED BY <1>5, <1>6, <1>7, <1>8, <1>9 DEF FolInv

LEMMA FolFollowStops == ASSUME FolInv, Fol!FollowStops PROVE FolInv'
  <1>1. Fol!Done("kept") /\ UNCHANGED <<keys, tags, files, postgres, secret, memory, changes>>
        /\ turn.pc = "follow"
    BY DEF Fol!FollowStops
  <1>2. turn' \in TurnType /\ turn'.pc = "idle" /\ turn'.last = "kept" BY <1>1, FolDone DEF FolInv
  <1>3. FolTypes' BY <1>1, <1>2 DEF FolInv, FolTypes
  <1> QED BY <1>1, <1>2, <1>3 DEF FolInv, InForce, Fresh, Cycling, Quiet, Remembers, Compares,
      Fol!FollowsWanted, Fol!AtRest

LEMMA FolCheckRecoveryConf == ASSUME FolInv, Fol!CheckRecoveryConf PROVE FolInv'
  <1>1. turn.pc = "follow" /\ UNCHANGED <<keys, tags, files, postgres, secret, memory, changes>>
        /\ turn \in TurnType
    BY DEF Fol!CheckRecoveryConf, FolInv, FolTypes
  <1>2. CASE (postgres.state = "starting" \/ Fol!Unchanged) /\ turn' = [turn EXCEPT !.pc = "compare"]
    <2> DEFINE x == [turn EXCEPT !.pc = "compare"]
    <2>1. turn' = x BY <1>2
    <2>2. x \in TurnType /\ x.pc = "compare" /\ x.leader = turn.leader /\ x.members = turn.members
          /\ x.recv = turn.recv
          /\ x.calm = turn.calm
      BY <1>1 DEF TurnType
    <2> HIDE DEF x
    <2>3. FolTypes' BY <1>1, <2>1, <2>2, FolTurns DEF FolInv
    <2>4. InForce' BY <1>1, <2>1, <2>2 DEF FolInv, InForce, Cycling
    <2>5. Fresh' BY <1>1, <2>1, <2>2 DEF FolInv, Fresh, Cycling, Quiet
    <2>6. Remembers' BY <1>1, <2>1, <2>2 DEF FolInv, Remembers
    <2>7. Compares' BY <1>1, <1>2, <2>1, <2>2 DEF Compares, Fol!Unchanged, Fol!File
    <2>8. Fol!FollowsWanted' BY <2>1, <2>2 DEF Fol!FollowsWanted, Fol!AtRest
    <2> QED BY <2>3, <2>4, <2>5, <2>6, <2>7, <2>8 DEF FolInv
  <1>3. CASE turn' = [turn EXCEPT !.pc = "query", !.snap = Fol!File]
    <2> DEFINE x == [turn EXCEPT !.pc = "query", !.snap = Fol!File]
    <2>1. turn' = x BY <1>3
    <2>2. x \in TurnType /\ x.pc = "query" /\ x.leader = turn.leader /\ x.members = turn.members
          /\ x.recv = turn.recv
          /\ x.calm = turn.calm /\ x.snap = Fol!File
      BY <1>1 DEF TurnType
    <2> HIDE DEF x
    <2>3. FolTypes' BY <1>1, <2>1, <2>2, FolTurns DEF FolInv
    <2>4. InForce' BY <1>1, <2>1, <2>2 DEF FolInv, InForce, Cycling
    <2>5. Fresh' BY <1>1, <2>1, <2>2 DEF FolInv, Fresh, Cycling, Quiet
    <2>6. Remembers' BY <1>1, <2>1, <2>2 DEF FolInv, Remembers
    <2>7. Compares' /\ Fol!FollowsWanted' BY <2>1, <2>2 DEF Compares, Fol!FollowsWanted, Fol!AtRest
    <2> QED BY <2>3, <2>4, <2>5, <2>6, <2>7 DEF FolInv
  <1> QED BY <1>2, <1>3 DEF Fol!CheckRecoveryConf

LEMMA FolReadRecoveryParams == ASSUME FolInv, Fol!ReadRecoveryParams PROVE FolInv'
  <1> DEFINE b == TRUE
             e == {}
             k == Fol!Remembered
             c == [host |-> postgres.run.host, slot |-> postgres.run.slot, password |-> 0, any |-> b]
             m == [memory EXCEPT !.known = k, !.current = c]
             x == [turn EXCEPT !.pc = "compare", !.snap = e]
  <1>1. /\ turn.pc = "query" /\ postgres.state = "running"
        /\ UNCHANGED <<keys, tags, files, postgres, secret, changes>>
        /\ turn \in TurnType /\ memory \in MemoryType /\ postgres.run \in Fol!Settings /\ files \in FilesType
        /\ turn' = x /\ memory' = m /\ e \subseteq Fol!File /\ b \in BOOLEAN /\ b
    BY DEF Fol!ReadRecoveryParams, FolInv, FolTypes, ServerType
  <1>2. k \subseteq Fol!File /\ (turn.snap = Fol!File => {"conf", "auto"} \subseteq k) BY <1>1 DEF
      Fol!Remembered, TurnType, MemoryType, Fol!File
  <1> HIDE DEF b, e, k
  <1>3. c \in CurrentType /\ c.any = b /\ c.host = postgres.run.host /\ c.slot = postgres.run.slot
        /\ c.password = 0
    BY <1>1 DEF CurrentType, Fol!Settings, Slot
  <1> HIDE DEF c
  <1>4. m \in MemoryType /\ m.known = k /\ m.current = c BY <1>1, <1>2, <1>3 DEF MemoryType
  <1>5. x \in TurnType /\ x.pc = "compare" /\ x.leader = turn.leader /\ x.members = turn.members
        /\ x.recv = turn.recv
        /\ x.calm = turn.calm
    BY <1>1 DEF TurnType
  <1> HIDE DEF m, x
  <1>6. postgres.run = Fol!Effective(files) /\ postgres.run.slot = files.conf.slot
    BY <1>1, FolEffective DEF FolInv, InForce, Cycling
  <1>7. FolTypes' BY <1>1, <1>4, <1>5 DEF FolInv, FolTypes
  <1>8. InForce' BY <1>1, <1>5 DEF FolInv, InForce, Cycling
  <1>9. Fresh' BY <1>1, <1>5 DEF FolInv, Fresh, Cycling, Quiet
  <1>10. Remembers' BY <1>1, <1>3, <1>4, <1>6 DEF Remembers
  <1>11. Compares' BY <1>1, <1>2, <1>3, <1>4, <1>5 DEF FolInv, Fresh, Compares
  <1>12. Fol!FollowsWanted' BY <1>1, <1>5 DEF Fol!FollowsWanted, Fol!AtRest
  <1> QED BY <1>7, <1>8, <1>9, <1>10, <1>11, <1>12 DEF FolInv

LEMMA FolReadFails == ASSUME FolInv, Fol!ReadFails PROVE FolInv'
  <1> DEFINE e == {}
             p == IF memory.known = Fol!File \ {"start"} THEN "compare" ELSE "restart"
             x == [turn EXCEPT !.pc = p, !.snap = e]
  <1>1. /\ turn.pc = "query" /\ UNCHANGED <<keys, tags, files, postgres, secret, memory>>
        /\ turn \in TurnType /\ turn' = x /\ e \subseteq Fol!File
        /\ changes' \in {changes, changes + 1} /\ (changes' = changes + 1 => changes < MaxChanges)
    BY DEF Fol!ReadFails, FolInv, FolTypes
  <1> HIDE DEF e
  <1>2. p \in {"compare", "restart"} /\ (p = "compare" => {"conf", "auto", "pass"} \subseteq memory.known) BY
      DEF Fol!File
  <1> HIDE DEF p
  <1>3. x \in TurnType /\ x.pc = p /\ x.leader = turn.leader /\ x.members = turn.members /\ x.recv = turn.recv
        /\ x.calm = turn.calm
    BY <1>1, <1>2 DEF TurnType
  <1> HIDE DEF x
  <1>4. changes' \in 0 .. MaxChanges BY <1>1, FolConstants DEF FolInv, FolTypes
  <1>5. FolTypes' BY <1>1, <1>3, <1>4 DEF FolInv, FolTypes
  <1>6. InForce' BY <1>1, <1>2, <1>3 DEF FolInv, InForce, Cycling
  <1>7. Fresh' BY <1>1, <1>2, <1>3 DEF FolInv, Fresh, Cycling, Quiet
  <1>8. Remembers' BY <1>1, <1>2, <1>3 DEF FolInv, Remembers
  <1>9. Compares' BY <1>1, <1>2, <1>3 DEF Compares
  <1>10. Fol!FollowsWanted' BY <1>1, <1>2, <1>3 DEF Fol!FollowsWanted, Fol!AtRest
  <1> QED BY <1>5, <1>6, <1>7, <1>8, <1>9, <1>10 DEF FolInv

\* What a cycle has compared is what postgres runs.
LEMMA FolCompares ==
  ASSUME FolInv, turn.pc = "compare", ~Fol!Mismatch, turn.calm, postgres.state = "running"
  PROVE  /\ postgres.run.host = Fol!Asks /\ (Fol!Asks # NoPeer => postgres.run.slot = "own")
         /\ Fol!Asks # NoPeer /\ postgres.recv = Fol!NoReceiver => files.pass = [host |-> Fol!Asks, password |-> secret.local]
  <1>1. /\ {"conf", "auto"} \subseteq memory.known /\ memory.current.any
        /\ memory.current.host = Fol!Effective(files).host /\ memory.current.slot = files.conf.slot
        /\ "pass" \in memory.known \/ memory.current.password = 0
        /\ "pass" \in memory.known /\ memory.current.password # 0 =>
             files.pass = [host |-> memory.current.host, password |-> memory.current.password]
    BY DEF FolInv, Compares, Remembers
  <1>2. /\ files \in FilesType /\ memory \in MemoryType /\ memory.current \in CurrentType
        /\ postgres.run \in Fol!Settings /\ turn.recv \in Fol!Settings
    BY DEF FolInv, FolTypes, MemoryType, ServerType, TurnType
  <1>3. postgres.run = Fol!Effective(files) /\ postgres.run.slot = files.conf.slot
    BY <1>2, FolEffective DEF FolInv, InForce, Cycling
  <1>4. /\ turn.leader = keys.leader /\ turn.members = keys.members /\ turn.recv = postgres.recv
        /\ postgres.recv \in {Fol!NoReceiver, postgres.run}
    BY DEF FolInv, Fresh, Quiet, Cycling
  <1>5. Fol!Wanted.host = Fol!Asks /\ (Fol!Asks # NoPeer => Fol!Wanted.slot = "own") BY <1>4, FolWanted DEF
      FolInv, Fol!Asks
  <1>6. Fol!Current.any /\ Fol!Current.host = memory.current.host
        /\ Fol!Current.password = memory.current.password
        /\ Fol!Current.slot = postgres.run.slot
    <2>1. CASE Fol!Streaming
      <3> DEFINE s == turn.recv.slot
      <3>1. Fol!Current = [memory.current EXCEPT !.slot = s] BY <1>1, <2>1 DEF Fol!Current
      <3>2. s = postgres.run.slot /\ s \in Slot BY <1>2, <1>4, <2>1 DEF Fol!Streaming, Fol!Settings, Slot
      <3> HIDE DEF s
      <3> QED BY <1>1, <1>2, <3>1, <3>2 DEF CurrentType
    <2>2. CASE ~Fol!Streaming BY <1>1, <1>3, <2>2 DEF Fol!Current
    <2> QED BY <2>1, <2>2
  <1>7. Fol!ConnInfoGood /\ (Fol!Wanted.host # NoPeer => Fol!Current.slot = Fol!Wanted.slot) BY <1>6 DEF
      Fol!Mismatch
  <1>8. CASE Fol!Streaming
    <2>1. postgres.recv = postgres.run /\ postgres.recv # Fol!NoReceiver /\ turn.recv = postgres.run BY <1>4,
        <1>8 DEF Fol!Streaming
    <2>2. postgres.run.host = Fol!Wanted.host BY <1>1, <1>3, <1>6, <1>7, <1>8, <2>1 DEF Fol!ConnInfoGood
    <2> QED BY <1>5, <1>6, <1>7, <2>1, <2>2
  <1>9. CASE ~Fol!Streaming
    <2>1. Fol!Current.host = Fol!Wanted.host /\ postgres.run.host = Fol!Wanted.host BY <1>1, <1>3, <1>6,
        <1>7, <1>9 DEF Fol!ConnInfoGood
    <2>2. Fol!Wanted.host # NoPeer => files.pass = [host |-> Fol!Wanted.host, password |-> secret.local]
      BY <1>1, <1>6, <1>7, <1>9, <2>1 DEF Fol!ConnInfoGood, Fol!PassfileGood
    <2> QED BY <1>5, <1>6, <1>7, <2>1, <2>2
  <1> QED BY <1>8, <1>9

\* What is remembered after a cycle that had nothing to do.
LEMMA FolVerified ==
  ASSUME FolInv, turn.pc = "compare", ~Fol!Mismatch
  PROVE  /\ Fol!Verified \in MemoryType
         /\ {"conf", "auto"} \subseteq Fol!Verified.known =>
              /\ Fol!Verified.current.any /\ Fol!Verified.current.host = Fol!Effective(files).host
              /\ Fol!Verified.current.slot = files.conf.slot
              /\ "pass" \in Fol!Verified.known /\ Fol!Verified.current.password # 0 =>
                   files.pass = [host |-> Fol!Verified.current.host, password |-> Fol!Verified.current.password]
  <1> DEFINE looked == ~Fol!Streaming /\ Fol!Wanted.host # NoPeer /\ Fol!Current.host # NoPeer /\ Fol!Current.password = 0 /\ Fol!PassfileGood
             c == IF looked THEN [Fol!Current EXCEPT !.password = secret.local] ELSE Fol!Current
             k == IF looked THEN memory.known \cup {"pass"} ELSE memory.known
  <1>1. /\ memory \in MemoryType /\ memory.current \in CurrentType /\ memory.known \subseteq Fol!File
        /\ turn.recv \in Fol!Settings /\ secret.local \in 0 .. 2
    BY DEF FolInv, FolTypes, MemoryType, TurnType
  <1>2. Fol!Current \in CurrentType /\ Fol!Current.any = memory.current.any
        /\ Fol!Current.host = memory.current.host
        /\ Fol!Current.password = memory.current.password
        /\ (Fol!Current.slot = memory.current.slot \/ Fol!Current.slot = files.conf.slot)
    <2>1. CASE Fol!Streaming /\ memory.current.any
      <3> DEFINE s == turn.recv.slot
      <3>1. Fol!Current = [memory.current EXCEPT !.slot = s] BY <2>1 DEF Fol!Current
      <3>2. s = files.conf.slot /\ s \in Slot BY <1>1, <2>1 DEF FolInv, Fresh, Cycling, Fol!Streaming,
          Fol!Settings, Slot
      <3> HIDE DEF s
      <3> QED BY <1>1, <3>1, <3>2 DEF CurrentType
    <2>2. CASE ~(Fol!Streaming /\ memory.current.any) BY <1>1, <2>2 DEF Fol!Current
    <2> QED BY <2>1, <2>2
  <1>3. /\ c \in CurrentType /\ c.any = memory.current.any /\ c.host = memory.current.host
        /\ c.slot = Fol!Current.slot
        /\ c.password = IF looked THEN secret.local ELSE memory.current.password
    <2>1. CASE looked
      <3> DEFINE p == secret.local
      <3>1. c = [Fol!Current EXCEPT !.password = p] BY <2>1
      <3> HIDE DEF looked, c
      <3> QED BY <1>1, <1>2, <2>1, <3>1 DEF CurrentType
    <2>2. CASE ~looked BY <1>2, <2>2
    <2> QED BY <2>1, <2>2
  <1>4. k \subseteq Fol!File /\ ({"conf", "auto"} \subseteq k => {"conf", "auto"} \subseteq memory.known) BY
      <1>1 DEF Fol!File
  <1>5. Fol!Verified = [memory EXCEPT !.current = c, !.known = k] BY DEF Fol!Verified
  <1>6. ASSUME looked, memory.current.any
        PROVE  files.pass = [host |-> memory.current.host, password |-> secret.local]
    BY <1>2, <1>6 DEF Fol!Mismatch, Fol!ConnInfoGood, Fol!PassfileGood
  <1>7. ~looked => k = memory.known OBVIOUS
  <1> HIDE DEF c, k
  <1>8. Fol!Verified \in MemoryType /\ Fol!Verified.current = c /\ Fol!Verified.known = k BY <1>1, <1>3,
      <1>4, <1>5 DEF MemoryType
  <1> HIDE DEF looked
  <1>9. ASSUME {"conf", "auto"} \subseteq k
        PROVE  /\ memory.current.any /\ memory.current.host = Fol!Effective(files).host /\ memory.current.slot = files.conf.slot
               /\ "pass" \in memory.known /\ memory.current.password # 0 =>
                    files.pass = [host |-> memory.current.host, password |-> memory.current.password]
    BY <1>4, <1>9 DEF FolInv, Remembers
  <1>10. ASSUME {"conf", "auto"} \subseteq k, "pass" \in k, c.password # 0
         PROVE  files.pass = [host |-> c.host, password |-> c.password]
    <2>1. CASE looked BY <1>3, <1>6, <1>9, <1>10, <2>1
    <2>2. CASE ~looked BY <1>3, <1>7, <1>9, <1>10, <2>2
    <2> QED BY <2>1, <2>2
  <1> QED BY <1>2, <1>3, <1>8, <1>9, <1>10

LEMMA FolNothingToDo == ASSUME FolInv, Fol!NothingToDo PROVE FolInv'
  <1>1. turn.pc = "compare" /\ ~Fol!Mismatch /\ memory' = Fol!Verified /\ Fol!Done("nothing")
        /\ UNCHANGED <<keys, tags, files, postgres, secret, changes>>
    BY DEF Fol!NothingToDo
  <1>2. turn' \in TurnType /\ turn'.pc = "idle" /\ turn'.calm = turn.calm BY <1>1, FolDone DEF FolInv
  <1>3. FolTypes' BY <1>1, <1>2, FolVerified DEF FolInv, FolTypes
  <1>4. InForce' /\ Fresh' /\ Compares' BY <1>1, <1>2 DEF FolInv, InForce, Fresh, Cycling, Quiet, Compares
  <1>5. Remembers' BY <1>1, FolVerified DEF Remembers
  <1>6. Fol!FollowsWanted' BY <1>1, <1>2, FolCompares DEF Fol!FollowsWanted, Fol!AtRest, Fol!Asks,
      Fol!ConnInfo, Fol!NodeToFollow
  <1> QED BY <1>3, <1>4, <1>5, <1>6 DEF FolInv

LEMMA FolReloadFollow == ASSUME FolInv, Fol!ReloadFollow PROVE FolInv'
  <1> DEFINE a == Fol!Asked(Fol!Wanted)
             b == a.called \/ postgres.state = "running"
             m == [a EXCEPT !.called = b]
             t == TRUE
             p == [postgres EXCEPT !.hup = t]
  <1>1. /\ turn.pc = "compare" /\ Fol!WriteConf(m, Fol!Wanted) /\ postgres' = p /\ t \in BOOLEAN /\ t
        /\ Fol!Done("changed") /\ UNCHANGED <<keys, tags, secret, changes>> /\ b \in BOOLEAN
    BY DEF Fol!ReloadFollow
  <1>2. a \in MemoryType /\ Fol!Wanted \in Fol!Settings BY FolAsked, FolWanted DEF FolInv
  <1> HIDE DEF a, b
  <1>3. m \in MemoryType BY <1>1, <1>2 DEF MemoryType
  <1> HIDE DEF m, t
  <1>4. files' \in FilesType /\ memory' \in MemoryType /\ "conf" \notin memory'.known BY <1>1, <1>2, <1>3,
      FolWrites DEF FolInv
  <1>5. p \in ServerType /\ p.hup = t BY <1>1 DEF FolInv, FolTypes, ServerType
  <1> HIDE DEF p
  <1>6. turn' \in TurnType /\ turn'.pc = "idle" /\ turn'.last = "changed" BY <1>1, FolDone DEF FolInv
  <1>7. FolTypes' BY <1>1, <1>4, <1>5, <1>6 DEF FolInv, FolTypes
  <1>8. InForce' /\ Fresh' /\ Compares' /\ Remembers' /\ Fol!FollowsWanted'
    BY <1>1, <1>4, <1>5, <1>6 DEF InForce, Fresh, Cycling, Quiet, Compares, Remembers, Fol!FollowsWanted,
        Fol!AtRest
  <1> QED BY <1>7, <1>8 DEF FolInv

LEMMA FolRestartFollow == ASSUME FolInv, Fol!RestartFollow PROVE FolInv'
  <1> DEFINE b == FALSE
             e == {}
             p == [postgres EXCEPT !.state = "down", !.recv = Fol!NoReceiver, !.hup = b]
             x == [turn EXCEPT !.pc = "start", !.snap = e]
  <1>1. /\ turn.pc = "restart" /\ memory' = Fol!Asked(Fol!Wanted) /\ turn' = x /\ postgres' = p
        /\ UNCHANGED <<keys, tags, files, secret, changes>> /\ b \in BOOLEAN /\ e \in SUBSET Fol!File
        /\ turn \in TurnType /\ postgres \in ServerType
    BY DEF Fol!RestartFollow, FolInv, FolTypes
  <1> HIDE DEF b, e
  <1>2. p \in ServerType /\ p.state = "down" BY <1>1, FolNulls DEF ServerType
  <1>3. x \in TurnType /\ x.pc = "start" BY <1>1 DEF TurnType
  <1> HIDE DEF p, x
  <1>4. memory' \in MemoryType BY <1>1, FolAsked, FolWanted DEF FolInv
  <1>5. FolTypes' BY <1>1, <1>2, <1>3, <1>4 DEF FolInv, FolTypes
  <1>6. InForce' /\ Fresh' /\ Compares' /\ Remembers' /\ Fol!FollowsWanted'
    BY <1>1, <1>2, <1>3 DEF InForce, Fresh, Cycling, Quiet, Compares, Remembers, Fol!FollowsWanted, Fol!AtRest
  <1> QED BY <1>5, <1>6 DEF FolInv

\* Postgres has been started.
LEMMA FolStarted ==
  ASSUME NEW run \in Fol!Settings, Fol!Started(run)
  PROVE  postgres' \in ServerType /\ postgres'.run = run /\ postgres'.state # "down" /\ ~postgres'.hup
  <1> DEFINE b == FALSE
  <1>1. b \in BOOLEAN /\ ~b /\ \E s \in {"running", "starting"} : postgres' = [state |-> s, run |-> run, recv |-> Fol!NoReceiver, hup |-> b]
    BY DEF Fol!Started
  <1> HIDE DEF b
  <1> QED BY <1>1, FolNulls DEF ServerType

LEMMA FolStart == ASSUME FolInv, Fol!Start PROVE FolInv'
  <1> DEFINE t == TRUE
             k == memory.known \ {"start"}
             m == [memory EXCEPT !.known = k, !.called = t]
             w == memory.wanted
  <1>1. /\ turn.pc = "start" /\ Fol!WriteConf(m, w) /\ Fol!Started(w) /\ Fol!Done("changed")
        /\ UNCHANGED <<keys, tags, secret, changes>>
        /\ memory \in MemoryType /\ w \in Fol!Settings /\ k \in SUBSET Fol!File /\ t \in BOOLEAN
    BY DEF Fol!Start, FolInv, FolTypes, MemoryType
  <1> HIDE DEF k, t
  <1>2. m \in MemoryType BY <1>1 DEF MemoryType
  <1> HIDE DEF m, w
  <1>3. files' \in FilesType /\ Fol!Effective(files') = w /\ memory' \in MemoryType
        /\ "conf" \notin memory'.known
    BY <1>1, <1>2, FolWrites DEF FolInv
  <1>4. postgres' \in ServerType /\ postgres'.run = w BY <1>1, FolStarted
  <1>5. turn' \in TurnType /\ turn'.pc = "idle" /\ turn'.last = "changed" BY <1>1, FolDone DEF FolInv
  <1>6. FolTypes' BY <1>1, <1>3, <1>4, <1>5 DEF FolInv, FolTypes
  <1>7. InForce' /\ Fresh' /\ Compares' /\ Remembers' /\ Fol!FollowsWanted'
    BY <1>3, <1>4, <1>5 DEF InForce, Fresh, Cycling, Quiet, Compares, Remembers, Fol!FollowsWanted, Fol!AtRest
  <1> QED BY <1>6, <1>7 DEF FolInv

LEMMA FolRecover == ASSUME FolInv, Fol!Recover PROVE FolInv'
  <1> DEFINE b == TRUE
             x == [turn EXCEPT !.pc = "restart", !.leader = keys.leader, !.members = keys.members, !.last = "none", !.calm = b]
  <1>1. turn' = x /\ UNCHANGED <<keys, tags, files, postgres, secret, memory, changes>> /\ b \in BOOLEAN
        /\ turn \in TurnType /\ keys \in KeysType /\ turn.pc = "idle"
    BY DEF Fol!Recover, FolInv, FolTypes
  <1> HIDE DEF b
  <1>2. x \in TurnType /\ x.pc = "restart" BY <1>1 DEF TurnType, KeysType
  <1> HIDE DEF x
  <1>3. FolTypes' BY <1>1, <1>2, FolTurns DEF FolInv
  <1>4. InForce' /\ Fresh' /\ Compares' /\ Remembers' /\ Fol!FollowsWanted'
    BY <1>1, <1>2 DEF FolInv, InForce, Fresh, Cycling, Quiet, Compares, Remembers, Fol!FollowsWanted,
        Fol!AtRest
  <1> QED BY <1>3, <1>4 DEF FolInv

\* Something happens around the node: the cycle that is under way is not the last word.
LEMMA FolDisturbs ==
  ASSUME FolTypes, Fol!Disturbed
  PROVE  turn' \in TurnType /\ ~turn'.calm /\ turn'.pc = turn.pc /\ turn'.recv = turn.recv
  <1> DEFINE b == FALSE
             x == [turn EXCEPT !.calm = b]
  <1>1. turn' = x /\ b \in BOOLEAN /\ turn \in TurnType /\ ~b BY DEF Fol!Disturbed, FolTypes
  <1> HIDE DEF b
  <1>2. x \in TurnType /\ x.calm = b /\ x.pc = turn.pc /\ x.recv = turn.recv BY <1>1 DEF TurnType
  <1> QED BY <1>1, <1>2

\* The bound.
LEMMA FolChanges ==
  ASSUME FolTypes, changes < MaxChanges, changes' = changes + 1 PROVE changes' \in 0 .. MaxChanges
  BY FolConstants DEF FolTypes

\* It keeps the invariant if what postgres runs is in its files, or it is down.
LEMMA FolAround ==
  ASSUME FolInv, FolTypes', ~turn'.calm, turn'.pc = turn.pc, turn'.recv = turn.recv,
         postgres'.state # "down" /\ ~postgres'.hup => postgres'.run = Fol!Effective(files'),
         postgres'.hup => postgres.hup \/ turn.pc = "idle",
         turn.pc = "start" => postgres'.state = "down",
         files'.conf = files.conf \/ turn.pc = "idle",
         {"conf", "auto"} \subseteq memory'.known =>
           /\ {"conf", "auto"} \subseteq memory.known /\ memory'.current = memory.current
           /\ files'.conf = files.conf /\ files'.auto = files.auto
           /\ "pass" \in memory'.known => "pass" \in memory.known /\ files'.pass = files.pass
  PROVE  FolInv'
  <1>1. InForce' BY DEF FolInv, InForce, Cycling
  <1>2. Fresh' BY DEF FolInv, Fresh, Cycling, Quiet
  <1>3. Remembers'
    <2> SUFFICES ASSUME turn'.pc # "start", {"conf", "auto"} \subseteq memory'.known
                 PROVE  /\ memory'.current.any /\ memory'.current.host = Fol!Effective(files').host
                        /\ memory'.current.slot = files'.conf.slot
                        /\ "pass" \in memory'.known /\ memory'.current.password # 0 =>
                             files'.pass = [host |-> memory'.current.host, password |-> memory'.current.password]
      BY DEF Remembers
    <2>1. Fol!Effective(files').host = Fol!Effective(files).host BY DEF Fol!Effective
    <2> QED BY <2>1 DEF FolInv, Remembers
  <1>4. Compares' /\ Fol!FollowsWanted' BY DEF Compares, Fol!FollowsWanted, Fol!AtRest
  <1> QED BY <1>1, <1>2, <1>3, <1>4 DEF FolInv

\* Each action keeps the invariant: what happens around the cycle.
LEMMA FolReloadConfig == ASSUME FolInv, Fol!ReloadConfig PROVE FolInv'
  <1> DEFINE t == TRUE
             p == [postgres EXCEPT !.hup = t]
             w == memory.wanted
  <1>1. /\ turn.pc = "idle" /\ Fol!WriteConf(memory, w) /\ postgres' = p /\ t \in BOOLEAN /\ t
        /\ postgres.state = "running"
        /\ changes < MaxChanges /\ changes' = changes + 1 /\ Fol!Disturbed /\ UNCHANGED <<keys, tags, secret>>
        /\ memory \in MemoryType /\ w \in Fol!Settings /\ postgres \in ServerType
    BY DEF Fol!ReloadConfig, Fol!Change, FolInv, FolTypes, MemoryType
  <1> HIDE DEF t, w
  <1>2. files' \in FilesType /\ memory' \in MemoryType /\ "conf" \notin memory'.known BY <1>1, FolWrites DEF
      FolInv
  <1>3. p \in ServerType /\ p.hup = t /\ p.state = "running" BY <1>1 DEF ServerType
  <1> HIDE DEF p
  <1>4. turn' \in TurnType /\ ~turn'.calm /\ turn'.pc = turn.pc /\ turn'.recv = turn.recv BY <1>1,
      FolDisturbs DEF FolInv
  <1>5. FolTypes' BY <1>1, <1>2, <1>3, <1>4, FolChanges DEF FolInv, FolTypes
  <1> QED BY <1>1, <1>2, <1>3, <1>4, <1>5, FolAround

LEMMA FolRestartPatroni == ASSUME FolInv, Fol!RestartPatroni PROVE FolInv'
  <1> DEFINE b == FALSE
             e == {}
             w == postgres.run
             c == [host |-> NoPeer, slot |-> "none", password |-> 0, any |-> b]
             m == [known |-> e, current |-> c, wanted |-> w, called |-> b]
  <1>1. /\ turn.pc = "idle" /\ turn' = Fol!Resting /\ UNCHANGED <<keys, tags, files, postgres, secret>>
        /\ changes < MaxChanges /\ changes' = changes + 1 /\ w \in Fol!Settings /\ b \in BOOLEAN
        /\ e \in SUBSET Fol!File
    BY DEF Fol!RestartPatroni, FolInv, FolTypes, ServerType
  <1>2. memory' = m BY DEF Fol!RestartPatroni, Fol!Forgotten
  <1> HIDE DEF w, b
  <1>3. c \in CurrentType BY <1>1 DEF CurrentType, Fol!Host, Slot
  <1> HIDE DEF c
  <1>4. m.known = {} OBVIOUS
  <1>5. m \in MemoryType
    <2> HIDE DEF e
    <2> QED BY <1>1, <1>3 DEF MemoryType
  <1> HIDE DEF m
  <1>6. FolTypes' BY <1>1, <1>2, <1>5, FolChanges, FolResting DEF FolInv, FolTypes
  <1>7. InForce' /\ Fresh' /\ Compares' /\ Remembers' /\ Fol!FollowsWanted'
    BY <1>1, <1>2, <1>4, FolResting DEF FolInv, InForce, Fresh, Cycling, Quiet, Compares, Remembers,
        Fol!FollowsWanted, Fol!AtRest
  <1> QED BY <1>6, <1>7 DEF FolInv

\* Of postgres only what it does changes.
LEMMA FolServer ==
  ASSUME FolInv, NEW p \in ServerType, postgres' = p, Fol!Disturbed, UNCHANGED <<keys, tags, files, secret, memory>>,
         changes' \in 0 .. MaxChanges,
         p.state # "down" /\ ~p.hup => p.run = Fol!Effective(files), p.hup => postgres.hup,
         turn.pc = "start" => p.state = "down"
  PROVE  FolInv'
  <1>1. turn' \in TurnType /\ ~turn'.calm /\ turn'.pc = turn.pc /\ turn'.recv = turn.recv BY FolDisturbs DEF
      FolInv
  <1>2. FolTypes' BY <1>1 DEF FolInv, FolTypes
  <1> QED BY <1>1, <1>2, FolAround

LEMMA FolStartupEnds == ASSUME FolInv, Fol!StartupEnds PROVE FolInv'
  <1> DEFINE p == [postgres EXCEPT !.state = "running"]
  <1>1. /\ postgres' = p /\ postgres.state = "starting" /\ Fol!Disturbed
        /\ UNCHANGED <<keys, tags, files, secret, memory, changes>>
        /\ postgres \in ServerType /\ changes \in 0 .. MaxChanges
    BY DEF Fol!StartupEnds, FolInv, FolTypes
  <1>2. p \in ServerType /\ p.hup = postgres.hup /\ p.run = postgres.run /\ p.state = "running" BY <1>1 DEF
      ServerType
  <1> HIDE DEF p
  <1>3. turn.pc # "start" /\ (~p.hup => p.run = Fol!Effective(files)) BY <1>1, <1>2 DEF FolInv, InForce
  <1> QED BY <1>1, <1>2, <1>3, FolServer

LEMMA FolReload == ASSUME FolInv, Fol!Reload PROVE FolInv'
  <1> DEFINE b == FALSE
             r == Fol!Effective(files)
             p == [postgres EXCEPT !.hup = b, !.run = r]
  <1>1. /\ postgres' = p /\ Fol!Disturbed /\ UNCHANGED <<keys, tags, files, secret, memory, changes>>
        /\ b \in BOOLEAN /\ ~b
        /\ postgres \in ServerType /\ files \in FilesType /\ changes \in 0 .. MaxChanges
    BY DEF Fol!Reload, FolInv, FolTypes
  <1>2. r \in Fol!Settings BY <1>1, FolEffective
  <1>3. turn.pc = "start" => postgres.state = "down" BY DEF FolInv, InForce
  <1> HIDE DEF b, r
  <1>4. p \in ServerType /\ p.hup = b /\ p.run = r /\ p.state = postgres.state BY <1>1, <1>2 DEF ServerType
  <1> HIDE DEF p
  <1> QED BY <1>1, <1>3, <1>4, FolServer DEF r

LEMMA FolReceiverEnds == ASSUME FolInv, Fol!ReceiverEnds PROVE FolInv'
  <1> DEFINE p == [postgres EXCEPT !.recv = Fol!NoReceiver]
  <1>1. /\ postgres' = p /\ Fol!Disturbed /\ UNCHANGED <<keys, tags, files, secret, memory, changes>>
        /\ postgres \in ServerType /\ changes \in 0 .. MaxChanges
    BY DEF Fol!ReceiverEnds, FolInv, FolTypes
  <1>2. p \in ServerType /\ p.hup = postgres.hup /\ p.run = postgres.run /\ p.state = postgres.state
    BY <1>1, FolNulls DEF ServerType
  <1> HIDE DEF p
  <1>3. (turn.pc = "start" => p.state = "down") /\ (p.state # "down" /\ ~p.hup => p.run = Fol!Effective(files))
    BY <1>1, <1>2 DEF FolInv, InForce
  <1> QED BY <1>1, <1>2, <1>3, FolServer

LEMMA FolReceiverStarts == ASSUME FolInv, Fol!ReceiverStarts PROVE FolInv'
  <1> DEFINE r == postgres.run
             p == [postgres EXCEPT !.recv = r]
  <1>1. /\ postgres' = p /\ Fol!Disturbed /\ UNCHANGED <<keys, tags, files, secret, memory, changes>>
        /\ postgres \in ServerType /\ r \in Fol!Settings /\ changes \in 0 .. MaxChanges
    BY DEF Fol!ReceiverStarts, FolInv, FolTypes, ServerType
  <1>2. p \in ServerType /\ p.hup = postgres.hup /\ p.run = postgres.run /\ p.state = postgres.state
    BY <1>1 DEF ServerType
  <1> HIDE DEF p
  <1>3. (turn.pc = "start" => p.state = "down") /\ (p.state # "down" /\ ~p.hup => p.run = Fol!Effective(files))
    BY <1>1, <1>2 DEF FolInv, InForce
  <1> QED BY <1>1, <1>2, <1>3, FolServer

LEMMA FolPostgresCrashes == ASSUME FolInv, Fol!PostgresCrashes PROVE FolInv'
  <1> DEFINE b == FALSE
             p == [postgres EXCEPT !.state = "down", !.recv = Fol!NoReceiver, !.hup = b]
  <1>1. /\ postgres' = p /\ Fol!Disturbed /\ UNCHANGED <<keys, tags, files, secret, memory>>
        /\ b \in BOOLEAN /\ ~b
        /\ changes < MaxChanges /\ changes' = changes + 1 /\ postgres \in ServerType
    BY DEF Fol!PostgresCrashes, FolInv, FolTypes
  <1> HIDE DEF b
  <1>2. p \in ServerType /\ p.hup = b /\ p.state = "down" BY <1>1, FolNulls DEF ServerType
  <1> HIDE DEF p
  <1> QED BY <1>1, <1>2, FolChanges, FolServer DEF FolInv

LEMMA FolClusterChanges == ASSUME FolInv, Fol!ClusterChanges PROVE FolInv'
  <1>1. /\ Fol!Disturbed /\ UNCHANGED <<tags, files, postgres, secret, memory>> /\ changes < MaxChanges
        /\ changes' = changes + 1
    BY DEF Fol!ClusterChanges, Fol!Change
  <1>2. keys \in KeysType BY DEF FolInv, FolTypes
  <1>3. keys' \in KeysType
    <2>1. ASSUME NEW l \in Member, keys' = [keys EXCEPT !.leader = l] PROVE keys' \in KeysType BY <1>2, <2>1
        DEF KeysType
    <2>2. ASSUME NEW M \in SUBSET Peer, keys' = [keys EXCEPT !.members = M] PROVE keys' \in KeysType BY <1>2,
        <2>2 DEF KeysType
    <2>3. ASSUME NEW b \in BOOLEAN, keys' = [keys EXCEPT !.paused = b] PROVE keys' \in KeysType BY <1>2, <2>3
        DEF KeysType
    <2>4. ASSUME NEW U \in SUBSET (Peer \cup {Remote}), keys' = [keys EXCEPT !.up = U] PROVE keys' \in KeysType
      BY <1>2, <2>4 DEF KeysType
    <2>5. CASE \E l \in Peer \cup {NoPeer} \cup (IF keys.standby THEN {Me} ELSE {}) : keys' = [keys EXCEPT !.leader = l]
      BY <2>1, <2>5 DEF Member
    <2>6. ASSUME NEW n \in Peer, keys' = [keys EXCEPT !.members = IF n \in @ THEN @ \ {n} ELSE @ \cup {n}]
          PROVE  keys' \in KeysType
      <3> DEFINE M == IF n \in keys.members THEN keys.members \ {n} ELSE keys.members \cup {n}
      <3>1. M \in SUBSET Peer /\ keys' = [keys EXCEPT !.members = M] BY <1>2, <2>6 DEF KeysType
      <3> HIDE DEF M
      <3> QED BY <2>2, <3>1
    <2>7. ASSUME keys' = [keys EXCEPT !.paused = ~@] PROVE keys' \in KeysType
      <3> DEFINE b == ~keys.paused
      <3>1. b \in BOOLEAN /\ keys' = [keys EXCEPT !.paused = b] BY <1>2, <2>7 DEF KeysType
      <3> HIDE DEF b
      <3> QED BY <2>3, <3>1
    <2>8. ASSUME NEW n \in keys.up, keys' = [keys EXCEPT !.up = @ \ {n}] PROVE keys' \in KeysType
      <3> DEFINE U == keys.up \ {n}
      <3>1. U \in SUBSET (Peer \cup {Remote}) /\ keys' = [keys EXCEPT !.up = U] BY <1>2, <2>8 DEF KeysType
      <3> HIDE DEF U
      <3> QED BY <2>4, <3>1
    <2> QED BY <2>5, <2>6, <2>7, <2>8 DEF Fol!ClusterChanges
  <1>4. turn' \in TurnType /\ ~turn'.calm /\ turn'.pc = turn.pc /\ turn'.recv = turn.recv BY <1>1,
      FolDisturbs DEF FolInv
  <1>5. FolTypes' BY <1>1, <1>3, <1>4, FolChanges DEF FolInv, FolTypes
  <1>6. (postgres.state # "down" /\ ~postgres.hup => postgres.run = Fol!Effective(files)) /\ (turn.pc = "start" => postgres.state = "down")
    BY DEF FolInv, InForce
  <1> QED BY <1>1, <1>4, <1>5, <1>6, FolAround

LEMMA FolPasswordChanges == ASSUME FolInv, Fol!PasswordChanges PROVE FolInv'
  <1>1. /\ Fol!Disturbed /\ UNCHANGED <<keys, tags, files, postgres, memory>> /\ changes < MaxChanges
        /\ changes' = changes + 1
    BY DEF Fol!PasswordChanges, Fol!Change
  <1>2. secret' \in [database : 1 .. 2, local : 1 .. 2] BY DEF Fol!PasswordChanges, FolInv, FolTypes
  <1>3. turn' \in TurnType /\ ~turn'.calm /\ turn'.pc = turn.pc /\ turn'.recv = turn.recv BY <1>1,
      FolDisturbs DEF FolInv
  <1>4. FolTypes' BY <1>1, <1>2, <1>3, FolChanges DEF FolInv, FolTypes
  <1>5. (postgres.state # "down" /\ ~postgres.hup => postgres.run = Fol!Effective(files)) /\ (turn.pc = "start" => postgres.state = "down")
    BY DEF FolInv, InForce
  <1> QED BY <1>1, <1>3, <1>4, <1>5, FolAround

\* Files have been written by somebody else.
LEMMA FolTouches ==
  ASSUME FolTypes, NEW fs \in SUBSET Fol!File, Fol!Touched(fs)
  PROVE  /\ memory' \in MemoryType /\ memory'.known = memory.known \ fs /\ memory'.current = memory.current
         /\ turn' \in TurnType /\ ~turn'.calm /\ turn'.pc = turn.pc /\ turn'.recv = turn.recv
  <1> DEFINE k == memory.known \ fs
             s == turn.snap \ fs
             b == FALSE
             m == [memory EXCEPT !.known = k]
             x == [turn EXCEPT !.snap = s, !.calm = b]
  <1>1. memory' = m /\ turn' = x /\ memory \in MemoryType /\ turn \in TurnType /\ b \in BOOLEAN /\ ~b
    BY DEF Fol!Touched, FolTypes
  <1>2. k \in SUBSET Fol!File /\ s \in SUBSET Fol!File BY <1>1 DEF MemoryType, TurnType
  <1> HIDE DEF b, s
  <1>3. x \in TurnType /\ x.calm = b /\ x.pc = turn.pc /\ x.recv = turn.recv BY <1>1, <1>2 DEF TurnType
  <1> HIDE DEF k, x
  <1>4. m \in MemoryType /\ m.known = k /\ m.current = memory.current BY <1>1, <1>2 DEF MemoryType
  <1> QED BY <1>1, <1>3, <1>4 DEF k

LEMMA FolPostgresRestarted == ASSUME FolInv, Fol!PostgresRestarted PROVE FolInv'
  <1>1. /\ postgres.state = "running" /\ Fol!Started(Fol!Effective(files)) /\ Fol!Touched({"start"})
        /\ UNCHANGED <<keys, tags, files, secret>>
        /\ changes < MaxChanges /\ changes' = changes + 1 /\ files \in FilesType
        /\ {"start"} \in SUBSET Fol!File
    BY DEF Fol!PostgresRestarted, FolInv, FolTypes, Fol!File
  <1>2. postgres' \in ServerType /\ postgres'.run = Fol!Effective(files) /\ ~postgres'.hup BY <1>1,
      FolEffective, FolStarted
  <1>3. /\ memory' \in MemoryType /\ memory'.known = memory.known \ {"start"}
        /\ memory'.current = memory.current
        /\ turn' \in TurnType /\ ~turn'.calm /\ turn'.pc = turn.pc /\ turn'.recv = turn.recv
    BY <1>1, FolTouches DEF FolInv
  <1>4. FolTypes' BY <1>1, <1>2, <1>3, FolChanges DEF FolInv, FolTypes
  <1>5. turn.pc # "start" BY <1>1 DEF FolInv, InForce
  <1> QED BY <1>1, <1>2, <1>3, <1>4, <1>5, FolAround

LEMMA FolAlterSystem == ASSUME FolInv, Fol!AlterSystem PROVE FolInv'
  <1>1. /\ changes < MaxChanges /\ changes' = changes + 1 /\ postgres.state = "running" /\ Fol!Touched({"auto"})
        /\ UNCHANGED <<keys, tags, secret>> /\ files \in FilesType /\ postgres \in ServerType
        /\ {"auto"} \in SUBSET Fol!File
    BY DEF Fol!AlterSystem, FolInv, FolTypes, Fol!File
  <1>2. PICK h \in Fol!Host : /\ files' = [files EXCEPT !.auto.host = h]
                          /\ postgres' = [postgres EXCEPT !.run = Fol!Effective(files'), !.hup = FALSE]
    BY DEF Fol!AlterSystem
  <1>3. files' \in FilesType /\ files'.conf = files.conf
    <2> DEFINE a == [files.auto EXCEPT !.host = h]
    <2>1. a \in [host : Fol!Host \cup {"unset"}, slot : {"unset"}] BY <1>1 DEF FilesType
    <2>2. files' = [files EXCEPT !.auto = a] BY <1>1, <1>2 DEF FilesType
    <2> HIDE DEF a
    <2> QED BY <1>1, <2>1, <2>2 DEF FilesType
  <1>4. postgres' \in ServerType /\ postgres'.run = Fol!Effective(files') /\ ~postgres'.hup
    <2> DEFINE b == FALSE
               r == Fol!Effective(files')
    <2>1. b \in BOOLEAN /\ ~b /\ r \in Fol!Settings BY <1>3, FolEffective
    <2>2. postgres' = [postgres EXCEPT !.run = r, !.hup = b] BY <1>2
    <2> HIDE DEF b, r
    <2>3. postgres' \in ServerType /\ postgres'.run = r /\ postgres'.hup = b BY <1>1, <2>1, <2>2 DEF
        ServerType
    <2> QED BY <2>1, <2>3 DEF r
  <1>5. /\ memory' \in MemoryType /\ memory'.known = memory.known \ {"auto"}
        /\ turn' \in TurnType /\ ~turn'.calm /\ turn'.pc = turn.pc /\ turn'.recv = turn.recv
    BY <1>1, FolTouches DEF FolInv
  <1>6. FolTypes' BY <1>1, <1>3, <1>4, <1>5, FolChanges DEF FolInv, FolTypes
  <1>7. turn.pc # "start" BY <1>1 DEF FolInv, InForce
  <1> QED BY <1>1, <1>3, <1>4, <1>5, <1>6, <1>7, FolAround

LEMMA FolDamagePassfile == ASSUME FolInv, Fol!DamagePassfile PROVE FolInv'
  <1>1. /\ changes < MaxChanges /\ changes' = changes + 1 /\ Fol!Touched({"pass"})
        /\ UNCHANGED <<keys, tags, postgres, secret>>
        /\ files' = [files EXCEPT !.pass = Fol!NoPass] /\ files \in FilesType /\ {"pass"} \in SUBSET Fol!File
    BY DEF Fol!DamagePassfile, FolInv, FolTypes, Fol!File
  <1>2. files' \in FilesType /\ files'.conf = files.conf /\ files'.auto = files.auto
        /\ Fol!Effective(files') = Fol!Effective(files)
    BY <1>1, FolNulls DEF FilesType, Fol!Effective
  <1>3. /\ memory' \in MemoryType /\ memory'.known = memory.known \ {"pass"} /\ memory'.current = memory.current
        /\ turn' \in TurnType /\ ~turn'.calm /\ turn'.pc = turn.pc /\ turn'.recv = turn.recv
    BY <1>1, FolTouches DEF FolInv
  <1>4. FolTypes' BY <1>1, <1>2, <1>3, FolChanges DEF FolInv, FolTypes
  <1>5. (postgres.state # "down" /\ ~postgres.hup => postgres.run = Fol!Effective(files)) /\ (turn.pc = "start" => postgres.state = "down")
    BY DEF FolInv, InForce
  <1> QED BY <1>1, <1>2, <1>3, <1>4, <1>5, FolAround

\* The invariant holds at the beginning.
LEMMA FolBegins == Fol!Init => FolInv
  <1> SUFFICES ASSUME Fol!Init PROVE FolInv OBVIOUS
  <1>1. PICK s \in BOOLEAN, l \in Peer :
          /\ keys = [leader |-> l, members |-> Peer, standby |-> s, paused |-> FALSE, up |-> Peer \cup {Remote}]
          /\ files = [conf |-> [host |-> l, slot |-> "own"], auto |-> Fol!NoEdit, pass |-> [host |-> l, password |-> 1]]
          /\ postgres = [state |-> "running", run |-> [host |-> l, slot |-> "own"], recv |-> Fol!NoReceiver, hup |-> FALSE]
          /\ memory = [Fol!Forgotten EXCEPT !.wanted = [host |-> l, slot |-> "own"]]
    BY DEF Fol!Init
  <1>2. secret = [database |-> 1, local |-> 1] /\ turn = Fol!Resting /\ changes = 0 /\ tags \in
          {[from |-> NoPeer, nostream |-> FALSE], [from |-> CHOOSE p \in Peer : TRUE, nostream |-> FALSE],
           [from |-> NoPeer, nostream |-> TRUE]}
    BY DEF Fol!Init
  <1> DEFINE b == FALSE
             e == {}
             w == [host |-> l, slot |-> "own"]
             c == [host |-> NoPeer, slot |-> "none", password |-> 0, any |-> b]
             M == Peer
             U == Peer \cup {Remote}
  <1>3. b \in BOOLEAN /\ ~b /\ e \in SUBSET Fol!File /\ w \in Fol!Settings /\ M \in SUBSET Peer
        /\ U \in SUBSET (Peer \cup {Remote})
    BY DEF Fol!Settings, Fol!Host
  <1>4. keys = [leader |-> l, members |-> M, standby |-> s, paused |-> b, up |-> U]
        /\ files = [conf |-> w, auto |-> Fol!NoEdit, pass |-> [host |-> l, password |-> 1]]
        /\ postgres = [state |-> "running", run |-> w, recv |-> Fol!NoReceiver, hup |-> b]
    BY <1>1
  <1>5. memory = [known |-> e, current |-> c, wanted |-> w, called |-> b] BY <1>1 DEF Fol!Forgotten
  <1>6. memory.known = {} BY <1>5
  <1> HIDE DEF b, e, M, U
  <1>7. c \in CurrentType BY <1>3 DEF CurrentType, Fol!Host, Slot
  <1> HIDE DEF c
  <1>8. l \in Fol!Host BY DEF Fol!Host
  <1> HIDE DEF w
  <1>9. keys \in KeysType BY <1>3, <1>4 DEF KeysType, Member
  <1>10. files \in FilesType /\ files.conf = w /\ files.auto = Fol!NoEdit BY <1>3, <1>4, <1>8, FolNulls DEF
      FilesType
  <1>11. postgres \in ServerType /\ postgres.run = w /\ postgres.state = "running" BY <1>3, <1>4, FolNulls
      DEF ServerType
  <1>12. memory \in MemoryType BY <1>3, <1>5, <1>7 DEF MemoryType
  <1>13. FolTypes BY <1>2, <1>9, <1>10, <1>11, <1>12, FolResting, FolConstants DEF FolTypes
  <1>14. InForce /\ Fresh /\ Remembers /\ Compares /\ Fol!FollowsWanted
    BY <1>2, <1>6, <1>10, <1>11, FolEffective, FolResting
       DEF InForce, Fresh, Cycling, Quiet, Remembers, Compares, Fol!FollowsWanted, Fol!AtRest
  <1> QED BY <1>13, <1>14 DEF FolInv

\* And so does every step.
LEMMA FolStutter == ASSUME FolInv, UNCHANGED folVars PROVE FolInv'
  BY DEF folVars, FolInv, FolTypes, InForce, Fresh, Cycling, Quiet, Remembers, Compares, Fol!FollowsWanted,
      Fol!AtRest, Fol!Asks, Fol!ConnInfo, Fol!NodeToFollow, Fol!Effective, Fol!Settled

LEMMA FolStep == ASSUME FolInv, Fol!Next PROVE FolInv'
  BY FolLoad, FolFollowStops, FolCheckRecoveryConf, FolReadRecoveryParams, FolReadFails, FolNothingToDo,
      FolReloadFollow, FolRestartFollow, FolStart, FolRecover, FolReloadConfig, FolRestartPatroni,
      FolStartupEnds, FolReload, FolReceiverEnds, FolReceiverStarts, FolClusterChanges, FolPasswordChanges,
      FolPostgresCrashes, FolPostgresRestarted, FolAlterSystem, FolDamagePassfile
     DEF Fol!Next

\* The types are those of the model.
LEMMA FolTypeOK == ASSUME FolInv PROVE Fol!TypeOK
  BY DEF FolInv, FolTypes, Fol!TypeOK, KeysType, FilesType, ServerType, MemoryType, TurnType, Member

\* The invariant of a standby, in the system in which the parts are side by side.
LEMMA FolAlways == Spec => [](part = "follow" => FolInv)
  <1>1. Init => (part = "follow" => FolInv) BY FolBegins DEF Init
  <1>2. (part = "follow" => FolInv) /\ [Next]_allVars => (part = "follow" => FolInv)'
    <2> SUFFICES ASSUME part = "follow" => FolInv, [Next]_allVars, part' = "follow" PROVE FolInv' OBVIOUS
    <2>1. CASE UNCHANGED allVars
      <3>1. FolInv /\ UNCHANGED folVars BY <2>1 DEF allVars
      <3> QED BY <3>1, FolStutter
    <2>2. CASE Next
      <3>1. part = "follow" /\ Fol!Next BY <2>2 DEF Next
      <3> QED BY <3>1, FolStep
    <2> QED BY <2>1, <2>2
  <1> QED BY <1>1, <1>2, PTL DEF Spec

\* A standby that is left alone replicates from the node it should, or is able to as soon as that one
\* accepts connections, although postgres is looked at only when the time of a file has changed
\* (ConfigHandler.check_recovery_conf, _read_recovery_params, _check_primary_conninfo).
THEOREM StandbyFollowsWanted == Spec => []FollowsWanted
  <1>1. (part = "follow" => FolInv) => FollowsWanted BY DEF FolInv, FollowsWanted
  <1> QED BY <1>1, FolAlways, PTL

-----------------------------------------------------------------------------
(* Requests *)

\* The largest number of a set of numbers that are not above b.
LEMMA Largest ==
  ASSUME NEW b \in Nat, NEW S \in SUBSET (0 .. b), S # {}
  PROVE  \E m \in S : \A k \in S : k <= m
  <1> DEFINE T == {b - x : x \in S}
  <1>1. T \in SUBSET Nat OBVIOUS
  <1>2. PICK n \in T : TRUE OBVIOUS
  <1>3. Cit!Min(T) \in T /\ \A y \in T : Cit!Min(T) <= y BY <1>1, <1>2, Smallest
  <1>4. PICK m \in S : Cit!Min(T) = b - m BY <1>3
  <1>5. \A k \in S : b - m <= b - k BY <1>3, <1>4
  <1> QED BY <1>5

\* What the variables of a request hold.
BudgetType == [nodes : Nat, each : Nat, tries : Nat]
CallType ==
  [kind : {"none", "get", "got", "update", "updated", "status", "done", "over"},
   phase : {"none", "send", "loadFirst", "refreshFirst", "refreshLast", "load", "decide"},
   machines : SUBSET Server, todo : SUBSET Server, failed : BOOLEAN,
   budget : BudgetType, stop : Nat, delay : Nat]
ClientType == [base : Server, cache : SUBSET Server, stale : BOOLEAN]

\* The client is at work only for one of its requests.
AtRequest(c) == c \in CallType /\ (c.phase # "none" => c.kind \in {"get", "update", "status"})

\* All of it, and the rule for the settings.
ReqInv ==
  /\ cfg \in [loop : Nat, retry : Nat, ttl : Nat] /\ cfg.loop + 2 * cfg.retry <= cfg.ttl
  /\ cond \in [Server -> {"up", "refuses", "silent"}] /\ elected \in BOOLEAN
  /\ client \in ClientType /\ AtRequest(call)
  /\ age \in Nat /\ cycle \in Nat

\* What is assumed of the constants.
LEMMA ReqConstants ==
  /\ IsFiniteSet(Server) /\ Second \in Nat /\ Second > 0 /\ Configured \subseteq Nat \X Nat \X Nat
  /\ \A S \in SUBSET Server : Req!Cardinality(S) \in Nat
  <1>1. IsFiniteSet(Server) /\ Second \in Nat \ {0} /\ Configured \subseteq Nat \X Nat \X Nat
    BY ControlAssumption DEF ControlAssumption, Req!RequestsAssumption, Req!IsFiniteSet, IsFiniteSet
  <1>2. ASSUME NEW S \in SUBSET Server PROVE Req!Cardinality(S) \in Nat
    <2>1. Cardinality(S) \in Nat BY <1>1, FS_Subset, FS_CardinalityType
    <2> QED BY <2>1 DEF Req!Cardinality, Cardinality
  <1> QED BY <1>1, <1>2

\* Config._validate_and_adjust_timeouts() keeps the rule, whatever is configured.
LEMMA AdjustedIs ==
  ASSUME NEW l \in Nat, NEW r \in Nat, NEW t \in Nat
  PROVE  LET c == Req!Adjusted(l, r, t)
         IN c \in [loop : Nat, retry : Nat, ttl : Nat] /\ c.loop >= 1 /\ c.loop + 2 * c.retry <= c.ttl
  <1> DEFINE loop == Req!MaxOf(l, 1)
             retry == Req!MaxOf(r, 3)
             ttl == Req!MaxOf(t, 20)
             half == (ttl - 1) \div 2
  <1>1. loop \in Nat /\ loop >= 1 /\ retry \in Nat /\ retry >= 3 /\ ttl \in Nat /\ ttl >= 20 BY DEF Req!MaxOf
  <1>2. Req!Adjusted(l, r, t) = IF 1 + 2 * retry > ttl THEN [loop |-> 1, retry |-> half, ttl |-> ttl]
                                ELSE [loop |-> Req!MinOf(loop, ttl - 2 * retry), retry |-> retry, ttl |-> ttl]
    BY DEF Req!Adjusted
  <1> HIDE DEF loop, retry, ttl
  <1>3. half \in Nat /\ 1 + 2 * half <= ttl BY <1>1
  <1> HIDE DEF half
  <1>4. CASE 1 + 2 * retry > ttl BY <1>1, <1>2, <1>3, <1>4
  <1>5. CASE ~(1 + 2 * retry > ttl)
    <2>1. Req!MinOf(loop, ttl - 2 * retry) \in Nat /\ Req!MinOf(loop, ttl - 2 * retry) >= 1
          /\ Req!MinOf(loop, ttl - 2 * retry) <= ttl - 2 * retry
      BY <1>1, <1>5 DEF Req!MinOf
    <2> HIDE DEF Req!MinOf
    <2> QED BY <1>1, <1>2, <1>5, <2>1
  <1> QED BY <1>4, <1>5

\* A number that is divided.
LEMMA DividedIs ==
  ASSUME NEW a \in Nat, NEW n \in Nat, n > 0
  PROVE  a \div n \in Nat /\ n * (a \div n) <= a
  OBVIOUS

\* A product.
LEMMA TimesIs ==
  ASSUME NEW n \in Nat, NEW c \in Nat, NEW p \in Nat, c <= p PROVE n * c \in Nat /\ n * c <= n * p
  <1>1. PICK d \in Nat : p = c + d BY SMT
  <1>2. n * d \in Nat /\ n * c \in Nat OBVIOUS
  <1>3. n * p = n * c + n * d BY <1>1
  <1> QED BY <1>2, <1>3

\* EtcdClient._calculate_timeouts() spends no more than it is given, and gives no attempt less than a second.
THEOREM BudgetIsKept ==
  ASSUME NEW nodes \in Nat, NEW timeout \in Int
  PROVE  LET b == Req!Timeouts(nodes, timeout)
         IN /\ b \in BudgetType /\ b.nodes \in 0 .. nodes
            /\ b.nodes # 0 => /\ b.each >= Second /\ b.tries \in 1 .. 4
                              /\ b.nodes * (b.tries * b.each) <= timeout
  <1> DEFINE fit == {n \in 1 .. nodes : timeout \div n >= Second}
             n == CHOOSE m \in fit : \A k \in fit : k <= m
             most == IF n < nodes THEN 1 ELSE 4 - Req!MinOf(nodes, 3)
             part1 == timeout \div n
             tries == CHOOSE k \in 1 .. most : /\ k = 1 \/ part1 \div k >= Second
                                               /\ k < most => part1 \div (k + 1) < Second
             none == [nodes |-> 0, each |-> 0, tries |-> 0]
             some == [nodes |-> n, each |-> part1 \div tries, tries |-> tries]
  <1>1. Req!Timeouts(nodes, timeout) = IF timeout <= 0 \/ fit = {} THEN none ELSE some
    BY DEF Req!Timeouts
  <1>2. CASE timeout <= 0 \/ fit = {}
    BY <1>1, <1>2 DEF BudgetType
  <1>3. CASE timeout > 0 /\ fit # {}
    <2>1. fit \in SUBSET (0 .. nodes) OBVIOUS
    <2>2. n \in fit
      <3>1. \E m \in fit : \A k \in fit : k <= m
        <4> HIDE DEF fit
        <4> QED BY <1>3, <2>1, Largest
      <3> HIDE DEF fit
      <3> QED BY <3>1
    <2>3. n \in 1 .. nodes /\ part1 >= Second BY <2>2
    <2> HIDE DEF n, fit
    <2>4. part1 \in Nat /\ n * part1 <= timeout BY <1>3, <2>3, DividedIs
    <2> HIDE DEF part1
    <2>5. most \in 1 .. 4 BY <2>3 DEF Req!MinOf
    <2> HIDE DEF most
    <2>6. tries \in 1 .. most /\ (tries = 1 \/ part1 \div tries >= Second)
      <3> DEFINE can == {k \in 1 .. most : k = 1 \/ part1 \div k >= Second}
      <3>1. can \in SUBSET (0 .. most) /\ 1 \in can /\ most \in Nat BY <2>5
      <3>2. PICK k \in can : \A j \in can : j <= k
        <4> HIDE DEF can
        <4> QED BY <3>1, Largest
      <3>3. k < most => part1 \div (k + 1) < Second
        <4> SUFFICES ASSUME k < most PROVE part1 \div (k + 1) < Second OBVIOUS
        <4>1. k + 1 \in 1 .. most /\ ~(k + 1 <= k) BY <2>5, <3>2
        <4>2. k + 1 \notin can BY <3>2, <4>1
        <4>3. part1 \div (k + 1) \in Nat BY <2>4, <4>1, DividedIs
        <4> QED BY <4>1, <4>2, <4>3, ReqConstants
      <3>4. \E i \in 1 .. most : /\ i = 1 \/ part1 \div i >= Second
                                 /\ i < most => part1 \div (i + 1) < Second
        BY <3>2, <3>3
      <3> QED BY <3>4
    <2> HIDE DEF tries
    <2>7. tries \in Nat /\ tries > 0 /\ tries \in 1 .. 4 BY <2>5, <2>6
    <2> DEFINE each == part1 \div tries
    <2>8. each \in Nat /\ tries * each <= part1 BY <2>4, <2>7, DividedIs
    <2>9. each >= Second
      <3>1. CASE tries = 1
        <4>1. part1 \div 1 = part1 BY <2>4
        <4> QED BY <2>3, <3>1, <4>1 DEF part1
      <3> QED BY <2>6, <3>1
    <2>10. Req!Timeouts(nodes, timeout) = [nodes |-> n, each |-> each, tries |-> tries] BY <1>1, <1>3
    <2> HIDE DEF each
    <2>11. n * (tries * each) <= n * part1
      <3>1. tries * each \in Nat BY <2>7, <2>8, TimesIs
      <3>2. \A c \in Nat : c <= part1 => n * c <= n * part1 BY <2>3, <2>4, TimesIs
      <3> QED BY <2>8, <3>1, <3>2
    <2>12. n * (tries * each) <= timeout
      <3>1. n * (tries * each) \in Nat /\ n * part1 \in Nat BY <2>3, <2>4, <2>7, <2>8
      <3> QED BY <2>4, <2>11, <3>1
    <2> QED BY <2>3, <2>7, <2>8, <2>9, <2>10, <2>12 DEF BudgetType
  <1> QED BY <1>2, <1>3


\* A round of machines,
LEMMA ReqSent ==
  ASSUME NEW c \in CallType, c.kind \in {"get", "update", "status"}, NEW m \in SUBSET Server, cfg.retry \in Nat
  PROVE  AtRequest(Req!Sent(c, m))
  <1>1. Req!ReadTimeout \in Int /\ Req!Cardinality(m) \in Nat BY ReqConstants, TimesIs DEF Req!ReadTimeout
  <1> DEFINE b == Req!Timeouts(Req!Cardinality(m), Req!ReadTimeout)
  <1>2. b \in BudgetType BY <1>1, BudgetIsKept
  <1>3. Req!Sent(c, m) = [c EXCEPT !.phase = "send", !.machines = m, !.todo = m, !.failed = FALSE, !.budget = b]
    BY DEF Req!Sent
  <1> HIDE DEF b
  <1>4. Req!Sent(c, m) \in CallType /\ Req!Sent(c, m).kind = c.kind BY <1>2, <1>3 DEF CallType
  <1> QED BY <1>4 DEF AtRequest

\* One for the list of machines,
LEMMA ReqListing ==
  ASSUME NEW c \in CallType, c.kind \in {"get", "update", "status"}, NEW m \in SUBSET Server, cfg.retry \in Nat,
         NEW p \in {"loadFirst", "refreshFirst", "refreshLast", "load"}
  PROVE  AtRequest(Req!Listing(c, p, m))
  <1>1. Req!ReadTimeout \in Int /\ Req!Cardinality(m) \in Nat BY ReqConstants, TimesIs DEF Req!ReadTimeout
  <1> DEFINE b == Req!Timeouts(Req!Cardinality(m), Req!ReadTimeout)
  <1>2. b \in BudgetType BY <1>1, BudgetIsKept
  <1>3. Req!Listing(c, p, m) = [c EXCEPT !.phase = p, !.todo = m, !.budget = b]
    BY DEF Req!Listing
  <1> HIDE DEF b
  <1>4. Req!Listing(c, p, m) \in CallType /\ Req!Listing(c, p, m).kind = c.kind BY <1>2, <1>3 DEF CallType
  <1> QED BY <1>4 DEF AtRequest

\* api_execute(), with the one or the other,
LEMMA ReqExecuted ==
  ASSUME NEW c \in CallType, c.kind \in {"get", "update", "status"}, client \in ClientType, cfg.retry \in Nat
  PROVE  AtRequest(Req!Executed(c))
  <1>1. client.cache \in SUBSET Server /\ Server \cup client.cache \in SUBSET Server BY DEF ClientType
  <1> QED BY <1>1, ReqSent, ReqListing DEF Req!Executed

\* no request,
LEMMA ReqIdle == Req!Idle \in CallType BY DEF Req!Idle, CallType, BudgetType

\* what a call returns,
LEMMA ReqReturned ==
  ASSUME NEW c \in CallType, c.kind \in {"get", "update", "status"}, NEW works \in BOOLEAN
  PROVE  AtRequest(Req!Returned(c, works))
  <1>1. PICK k \in {"done", "over", "got", "updated"} : Req!Returned(c, works) = [Req!Idle EXCEPT !.kind = k]
    BY DEF Req!Returned
  <1>2. [Req!Idle EXCEPT !.kind = k] \in CallType /\ [Req!Idle EXCEPT !.kind = k].phase = "none"
    BY DEF Req!Idle, CallType, BudgetType
  <1> QED BY <1>1, <1>2 DEF AtRequest

\* and what follows upon the list of machines.
LEMMA ReqListed ==
  ASSUME NEW c \in CallType, c.kind \in {"get", "update", "status"}, client \in ClientType, cfg.retry \in Nat,
         c.phase \in {"load", "loadFirst", "refreshFirst", "refreshLast"}, NEW works \in BOOLEAN
  PROVE  AtRequest(Req!Listed(c, works))
  <1>1. client.cache \in SUBSET Server BY DEF ClientType
  <1>2. CASE c.phase = "refreshLast" BY <1>2, ReqReturned DEF Req!Listed
  <1>3. CASE c.phase = "refreshFirst" BY <1>1, <1>3, ReqSent DEF Req!Listed
  <1>4. CASE c.phase = "loadFirst" BY <1>4, ReqReturned, ReqSent DEF Req!Listed
  <1>5. CASE c.phase = "load"
    <2> DEFINE d == [c EXCEPT !.phase = "decide",
                              !.machines = IF works /\ client.cache # Server THEN Server ELSE @]
    <2>1. Req!Listed(c, works) = d BY <1>5 DEF Req!Listed
    <2>2. d \in CallType /\ d.kind = c.kind BY DEF CallType
    <2> QED BY <2>1, <2>2 DEF AtRequest
  <1> QED BY <1>2, <1>3, <1>4, <1>5

\* The time that passes.
LEMMA ReqCost ==
  ASSUME NEW kind \in {"refuses", "silent"}, NEW b \in BudgetType PROVE Req!Cost(kind, b) \in Nat
  <1>1. b.each \in Nat /\ b.tries \in Nat /\ b.each \div 2 \in Nat BY DividedIs DEF BudgetType
  <1> DEFINE time == Req!MinOf(Req!MaxOf(Second, b.each \div 2), b.each)
  <1>2. time \in Nat BY <1>1, ReqConstants DEF Req!MinOf, Req!MaxOf
  <1>3. Req!Cost(kind, b) = IF kind = "refuses" THEN 0 ELSE b.tries * time BY DEF Req!Cost
  <1> HIDE DEF time
  <1> QED BY <1>1, <1>2, <1>3, TimesIs

\* No machine takes longer than what is meant for it.
LEMMA ReqCostFits ==
  ASSUME NEW kind \in {"refuses", "silent"}, NEW b \in BudgetType, b.each >= Second
  PROVE  Req!Cost(kind, b) <= b.tries * b.each
  <1>1. b.each \in Nat /\ b.tries \in Nat /\ b.each \div 2 \in Nat /\ b.each \div 2 <= b.each
    BY DividedIs DEF BudgetType
  <1> DEFINE time == Req!MinOf(Req!MaxOf(Second, b.each \div 2), b.each)
  <1>2. time \in Nat /\ time <= b.each BY <1>1, ReqConstants DEF Req!MinOf, Req!MaxOf
  <1>3. Req!Cost(kind, b) = IF kind = "refuses" THEN 0 ELSE b.tries * time BY DEF Req!Cost
  <1> HIDE DEF time
  <1>4. b.tries * b.each \in Nat BY <1>1, TimesIs
  <1> QED BY <1>1, <1>2, <1>3, <1>4, TimesIs

\* The clocks.
LEMMA ReqPasses ==
  ASSUME ReqInv, NEW d \in Nat, Req!Passes(d) PROVE age' \in Nat /\ cycle' \in Nat
  BY DEF ReqInv, Req!Passes

\* Each action keeps the invariant.
LEMMA ReqFailure == ASSUME ReqInv, Req!Failure PROVE ReqInv'
  <1>1. cond' \in [Server -> {"up", "refuses", "silent"}] /\ elected' \in BOOLEAN
    BY DEF ReqInv, Req!Failure
  <1> QED BY <1>1 DEF ReqInv, Req!Failure, AtRequest

LEMMA ReqGetCluster == ASSUME ReqInv, Req!GetCluster PROVE ReqInv'
  <1>1. Second \div 10 \in Nat /\ age + Req!ReadTimeout \in Nat
    BY ReqConstants, DividedIs, TimesIs DEF ReqInv, Req!ReadTimeout
  <1> DEFINE c == [Req!Idle EXCEPT !.kind = "get", !.stop = age + Req!ReadTimeout, !.delay = Second \div 10]
  <1>2. c \in CallType /\ c.kind = "get" BY <1>1 DEF Req!Idle, CallType, BudgetType
  <1>3. call' = Req!Executed(c) \/ call' = Req!Listing(c, "refreshFirst", client.cache)
    BY DEF Req!GetCluster
  <1> HIDE DEF c
  <1>4. client.cache \in SUBSET Server BY DEF ReqInv, ClientType
  <1>5. AtRequest(call') BY <1>2, <1>3, <1>4, ReqExecuted, ReqListing DEF ReqInv
  <1> QED BY <1>5 DEF ReqInv, Req!GetCluster

LEMMA ReqUpdateLeader == ASSUME ReqInv, Req!UpdateLeader PROVE ReqInv'
  <1>1. Second \div 10 \in Nat /\ age + Req!ReadTimeout \in Nat
    BY ReqConstants, DividedIs, TimesIs DEF ReqInv, Req!ReadTimeout
  <1> DEFINE c == [Req!Idle EXCEPT !.kind = "update", !.stop = age + Req!ReadTimeout, !.delay = Second \div 10]
  <1>2. c \in CallType /\ c.kind = "update" BY <1>1 DEF Req!Idle, CallType, BudgetType
  <1>3. call' = Req!Executed(c) BY DEF Req!UpdateLeader
  <1> HIDE DEF c
  <1>4. AtRequest(call') BY <1>2, <1>3, ReqExecuted DEF ReqInv
  <1> QED BY <1>4 DEF ReqInv, Req!UpdateLeader

LEMMA ReqWriteStatus == ASSUME ReqInv, Req!WriteStatus PROVE ReqInv'
  <1> DEFINE c == [Req!Idle EXCEPT !.kind = "status"]
  <1>1. c \in CallType /\ c.kind = "status" BY DEF Req!Idle, CallType, BudgetType
  <1>2. call' = Req!Executed(c) BY DEF Req!WriteStatus
  <1> HIDE DEF c
  <1>3. AtRequest(call') BY <1>1, <1>2, ReqExecuted DEF ReqInv
  <1> QED BY <1>3 DEF ReqInv, Req!WriteStatus

LEMMA ReqSend == ASSUME ReqInv, Req!Send PROVE ReqInv'
  <1>0. call \in CallType /\ call.kind \in {"get", "update", "status"} /\ client \in ClientType
        /\ cfg.retry \in Nat /\ client.cache \in SUBSET Server /\ call.todo \in SUBSET Server
        /\ client.base \in Server /\ call.budget \in BudgetType
    BY DEF ReqInv, AtRequest, Req!Send, ClientType, CallType
  <1>1. PICK s \in Req!First : Req!Answered(s) \/ Req!Leaderless(s) \/ Req!Failed(s) BY DEF Req!Send
  <1>2. s \in Server BY <1>0, <1>1 DEF Req!First
  <1>3. SUFFICES client' \in ClientType /\ AtRequest(call') /\ age' \in Nat /\ cycle' \in Nat
    BY DEF Req!Send, ReqInv
  <1>4. CASE Req!Answered(s)
    <2>1. client' \in ClientType BY <1>0, <1>2, <1>4 DEF Req!Answered, ClientType
    <2>2. AtRequest(call') BY <1>0, <1>4, ReqListing, ReqReturned DEF Req!Answered
    <2> QED BY <1>4, <2>1, <2>2 DEF Req!Answered, ReqInv
  <1>5. CASE Req!Leaderless(s)
    <2>1. client' \in ClientType BY <1>0, <1>5 DEF Req!Leaderless
    <2>2. CASE call' = Req!Returned(call, FALSE) /\ UNCHANGED <<age, cycle>>
      BY <1>0, <2>1, <2>2, ReqReturned DEF ReqInv
    <2>3. CASE ~(call' = Req!Returned(call, FALSE) /\ UNCHANGED <<age, cycle>>)
      <3>1. PICK jitter \in {0, (8 * Second) \div 10} :
              /\ call' = Req!Executed([call EXCEPT !.delay = Req!MinOf(2 * @, Second)])
              /\ Req!Passes(call.delay + jitter)
        BY <1>5, <2>3 DEF Req!Leaderless
      <3>2. jitter \in Nat BY ReqConstants, DividedIs
      <3>3. call.delay \in Nat BY <1>0 DEF CallType
      <3>4. age' \in Nat /\ cycle' \in Nat BY <3>1, <3>2, <3>3, ReqPasses
      <3> DEFINE c == [call EXCEPT !.delay = Req!MinOf(2 * @, Second)]
      <3>5. Req!MinOf(2 * call.delay, Second) \in Nat BY <3>3, ReqConstants DEF Req!MinOf
      <3>6. c \in CallType /\ c.kind = call.kind
        <4> DEFINE delay == Req!MinOf(2 * call.delay, Second)
        <4>1. c = [call EXCEPT !.delay = delay] OBVIOUS
        <4>2. delay \in Nat BY <3>5
        <4> HIDE DEF delay, c
        <4> QED BY <1>0, <4>1, <4>2 DEF CallType
      <3>7. call' = Req!Executed(c) BY <3>1
      <3> HIDE DEF c
      <3> QED BY <1>0, <2>1, <3>4, <3>6, <3>7, ReqExecuted
    <2> QED BY <2>2, <2>3
  <1>6. CASE Req!Failed(s)
    <2>1. cond[s] \in {"refuses", "silent"} BY <1>2, <1>6 DEF Req!Failed, ReqInv
    <2>2. age' \in Nat /\ cycle' \in Nat
      <3>1. Req!Cost(cond[s], call.budget) \in Nat BY <1>0, <2>1, ReqCost
      <3> QED BY <1>6, <3>1, ReqPasses DEF Req!Failed
    <2> DEFINE rest == call.todo \ {s}
               c == [call EXCEPT !.todo = rest, !.failed = TRUE]
    <2>3. c \in CallType /\ c.kind = call.kind BY <1>0 DEF CallType
    <2>4. \/ /\ call' = Req!Returned(call, FALSE)
             /\ \E b \in IF rest = {} THEN {client.base} ELSE rest : client' = [client EXCEPT !.base = b]
          \/ /\ call' = Req!Listing(call, "load", Server \cup client.cache)
             /\ client' = [client EXCEPT !.stale = TRUE]
          \/ call' = c /\ UNCHANGED client
      BY <1>6 DEF Req!Failed
    <2>5. client' \in ClientType BY <1>0, <2>4 DEF ClientType
    <2>6. Server \cup client.cache \in SUBSET Server BY <1>0
    <2> HIDE DEF c, rest
    <2>7. AtRequest(call')
      <3>1. AtRequest(c) BY <1>0, <2>3 DEF AtRequest
      <3> QED BY <1>0, <2>4, <2>6, <3>1, ReqReturned, ReqListing
    <2> QED BY <2>2, <2>5, <2>7
  <1> QED BY <1>1, <1>4, <1>5, <1>6

LEMMA ReqAskForMachines == ASSUME ReqInv, Req!AskForMachines PROVE ReqInv'
  <1>0. call \in CallType /\ call.kind \in {"get", "update", "status"} /\ client \in ClientType
        /\ cfg.retry \in Nat /\ call.todo \in SUBSET Server /\ call.budget \in BudgetType
    BY DEF ReqInv, AtRequest, Req!AskForMachines, ClientType, CallType
  <1> DEFINE fewer(s) == [call EXCEPT !.todo = @ \ {s}]
  <1>1. PICK s \in call.todo :
          \/ /\ client' = [client EXCEPT !.cache = Server, !.stale = FALSE]
             /\ call' = Req!Listed(call, TRUE) /\ UNCHANGED <<age, cycle>>
          \/ /\ cond[s] # "up" /\ Req!Passes(Req!Cost(cond[s], call.budget))
             /\ call' = IF call.todo = {s} THEN Req!Listed(call, FALSE) ELSE fewer(s)
             /\ client' = IF call.todo = {s} /\ call.phase = "loadFirst"
                          THEN [client EXCEPT !.stale = TRUE] ELSE client
    BY DEF Req!AskForMachines
  <1>2. client' \in ClientType BY <1>0, <1>1 DEF ClientType
  <1>3. fewer(s) \in CallType /\ fewer(s).kind = call.kind BY <1>0 DEF CallType
  <1>4. AtRequest(fewer(s)) BY <1>0, <1>3 DEF AtRequest
  <1> HIDE DEF fewer
  <1>5. AtRequest(Req!Listed(call, TRUE)) /\ AtRequest(Req!Listed(call, FALSE))
    BY <1>0, ReqListed DEF Req!AskForMachines
  <1>6. AtRequest(call') BY <1>1, <1>4, <1>5
  <1>7. age' \in Nat /\ cycle' \in Nat
    <2>1. CASE UNCHANGED <<age, cycle>> BY <2>1 DEF ReqInv
    <2>2. CASE cond[s] # "up" /\ Req!Passes(Req!Cost(cond[s], call.budget))
      <3>1. cond[s] \in {"refuses", "silent"} BY <1>0, <2>2 DEF ReqInv
      <3>2. Req!Cost(cond[s], call.budget) \in Nat BY <1>0, <3>1, ReqCost
      <3> QED BY <2>2, <3>2, ReqPasses
    <2> QED BY <1>1, <2>1, <2>2
  <1> QED BY <1>2, <1>6, <1>7 DEF ReqInv, Req!AskForMachines

LEMMA ReqDecide == ASSUME ReqInv, Req!Decide PROVE ReqInv'
  <1>0. call \in CallType /\ call.kind \in {"get", "update", "status"} /\ client \in ClientType
        /\ call.machines \in SUBSET Server /\ call.delay \in Nat /\ call.stop \in Nat /\ age \in Nat
    BY DEF ReqInv, AtRequest, Req!Decide, ClientType, CallType
  <1> DEFINE unspent(nap) == Req!Timeouts(Req!Cardinality(call.machines), Req!Remaining(nap))
             again(m, b) == [call EXCEPT !.phase = "send", !.machines = m, !.todo = m, !.failed = FALSE,
                                         !.budget = b, !.delay = Req!MinOf(2 * @, Second)]
  <1>1. PICK jitter \in {0, (8 * Second) \div 10} :
          \/ /\ call' = Req!Returned(call, FALSE) /\ client' = [client EXCEPT !.stale = TRUE]
             /\ UNCHANGED <<age, cycle>>
          \/ /\ \E m \in SUBSET call.machines : call' = again(m, unspent(call.delay + jitter))
             /\ Req!Passes(call.delay + jitter) /\ UNCHANGED client
    BY DEF Req!Decide
  <1>2. jitter \in Nat BY ReqConstants, DividedIs
  <1>3. unspent(call.delay + jitter) \in BudgetType
    <2>1. Req!Remaining(call.delay + jitter) \in Int BY <1>0, <1>2 DEF Req!Remaining
    <2> QED BY <1>0, <2>1, ReqConstants, BudgetIsKept
  <1> HIDE DEF unspent
  <1>4. ASSUME NEW m \in SUBSET call.machines, NEW b \in BudgetType PROVE AtRequest(again(m, b))
    <2> DEFINE delay == Req!MinOf(2 * call.delay, Second)
    <2>1. delay \in Nat BY <1>0, ReqConstants DEF Req!MinOf
    <2>2. again(m, b) = [call EXCEPT !.phase = "send", !.machines = m, !.todo = m, !.failed = FALSE,
                                     !.budget = b, !.delay = delay]
      OBVIOUS
    <2> HIDE DEF delay, again
    <2>3. again(m, b) \in CallType /\ again(m, b).kind = call.kind BY <1>0, <2>1, <2>2 DEF CallType
    <2> QED BY <1>0, <2>3 DEF AtRequest
  <1> HIDE DEF again
  <1>5. AtRequest(call') BY <1>0, <1>1, <1>3, <1>4, ReqReturned
  <1>6. client' \in ClientType BY <1>0, <1>1 DEF ClientType
  <1>7. age' \in Nat /\ cycle' \in Nat
    <2>1. call.delay + jitter \in Nat BY <1>0, <1>2
    <2> QED BY <1>1, <2>1, ReqPasses DEF ReqInv
  <1> QED BY <1>5, <1>6, <1>7 DEF ReqInv, Req!Decide

LEMMA ReqScheduleNextRun == ASSUME ReqInv, Req!ScheduleNextRun PROVE ReqInv'
  <1>1. cfg.loop * Second \in Nat BY ReqConstants, TimesIs DEF ReqInv
  <1>2. Req!MaxOf(0, cfg.loop * Second - cycle) \in Nat BY <1>1 DEF ReqInv, Req!MaxOf
  <1>3. age' \in Nat BY <1>2 DEF ReqInv, Req!ScheduleNextRun
  <1>4. AtRequest(Req!Idle) BY ReqIdle DEF AtRequest, Req!Idle
  <1> QED BY <1>3, <1>4 DEF ReqInv, Req!ScheduleNextRun

\* The invariant holds at the beginning.
LEMMA ReqBegins == Req!Init => ReqInv
  <1> SUFFICES ASSUME Req!Init PROVE ReqInv OBVIOUS
  <1>1. PICK c \in Configured : cfg = Req!Adjusted(c[1], c[2], c[3]) BY DEF Req!Init
  <1>2. c[1] \in Nat /\ c[2] \in Nat /\ c[3] \in Nat BY ReqConstants
  <1>3. cfg \in [loop : Nat, retry : Nat, ttl : Nat] /\ cfg.loop + 2 * cfg.retry <= cfg.ttl
    BY <1>1, <1>2, AdjustedIs
  <1>4. client \in ClientType BY DEF Req!Init, ClientType
  <1>5. AtRequest(call) BY ReqIdle DEF Req!Init, AtRequest, Req!Idle
  <1> QED BY <1>3, <1>4, <1>5 DEF ReqInv, Req!Init

\* And so does every step.
LEMMA ReqStutter == ASSUME ReqInv, UNCHANGED reqVars PROVE ReqInv'
  BY DEF reqVars, ReqInv, AtRequest

LEMMA ReqStep == ASSUME ReqInv, Req!Next PROVE ReqInv'
  BY ReqFailure, ReqGetCluster, ReqUpdateLeader, ReqWriteStatus, ReqSend, ReqAskForMachines, ReqDecide,
      ReqScheduleNextRun DEF Req!Next

\* Another round has the time that is left.
Fits ==
  /\ age + Req!Cardinality(call.todo) * (call.budget.tries * call.budget.each) <= call.stop
  /\ \A kind \in {"refuses", "silent"} : Req!Cost(kind, call.budget) <= call.budget.tries * call.budget.each

\* Retry, EtcdClient._do_http_request().
LEMMA ReqDecideFits == ASSUME ReqInv, Req!Decide, call'.phase = "send" PROVE Fits'
  <1>0. call \in CallType /\ call.kind \in {"get", "update", "status"}
        /\ call.machines \in SUBSET Server /\ call.delay \in Nat /\ call.stop \in Nat /\ age \in Nat
    BY DEF ReqInv, AtRequest, Req!Decide, CallType
  <1> DEFINE unspent(nap) == Req!Timeouts(Req!Cardinality(call.machines), Req!Remaining(nap))
             again(m, b) == [call EXCEPT !.phase = "send", !.machines = m, !.todo = m, !.failed = FALSE,
                                         !.budget = b, !.delay = Req!MinOf(2 * @, Second)]
  <1>1. Req!Returned(call, FALSE).phase = "none" BY <1>0 DEF Req!Returned, Req!Idle
  <1>2. PICK jitter \in {0, (8 * Second) \div 10}, m \in SUBSET call.machines :
          /\ unspent(call.delay + jitter).nodes # 0
          /\ Req!Cardinality(m) = unspent(call.delay + jitter).nodes
          /\ call' = again(m, unspent(call.delay + jitter)) /\ Req!Passes(call.delay + jitter)
    BY <1>1 DEF Req!Decide
  <1>3. jitter \in Nat BY ReqConstants, DividedIs
  <1> DEFINE nap == call.delay + jitter
             b == unspent(nap)
  <1>4. nap \in Nat /\ Req!Remaining(nap) \in Int /\ Req!Remaining(nap) = call.stop - nap - age
    BY <1>0, <1>3 DEF Req!Remaining
  <1>5. b \in BudgetType /\ b.each >= Second /\ b.nodes * (b.tries * b.each) <= Req!Remaining(nap)
    BY <1>0, <1>2, <1>4, ReqConstants, BudgetIsKept
  <1>6. age' = age + nap /\ call' = again(m, b) /\ Req!Cardinality(m) = b.nodes BY <1>2 DEF Req!Passes
  <1> HIDE DEF b, nap
  <1>7. call'.todo = m /\ call'.budget = b /\ call'.stop = call.stop BY <1>0, <1>6 DEF CallType
  <1>8. b.nodes * (b.tries * b.each) \in Nat BY <1>5, TimesIs DEF BudgetType
  <1>9. \A kind \in {"refuses", "silent"} : Req!Cost(kind, b) <= b.tries * b.each BY <1>5, ReqCostFits
  <1>10. age' + b.nodes * (b.tries * b.each) <= call'.stop BY <1>0, <1>4, <1>5, <1>6, <1>7, <1>8
  <1> QED BY <1>6, <1>7, <1>9, <1>10 DEF Fits

\* The types are those of the model.
LEMMA ReqTypeOK == ASSUME ReqInv PROVE Req!TypeOK
  BY DEF ReqInv, AtRequest, ClientType, CallType, Req!TypeOK

\* The invariant of the requests, in the system in which the parts are side by side.
LEMMA ReqAlways == Spec => [](part = "requests" => ReqInv)
  <1>1. Init => (part = "requests" => ReqInv) BY ReqBegins DEF Init
  <1>2. (part = "requests" => ReqInv) /\ [Next]_allVars => (part = "requests" => ReqInv)'
    <2> SUFFICES ASSUME part = "requests" => ReqInv, [Next]_allVars, part' = "requests" PROVE ReqInv' OBVIOUS
    <2>1. CASE UNCHANGED allVars
      <3>1. ReqInv /\ UNCHANGED reqVars BY <2>1 DEF allVars
      <3> QED BY <3>1, ReqStutter
    <2>2. CASE Next
      <3>1. part = "requests" /\ Req!Next BY <2>2 DEF Next
      <3> QED BY <3>1, ReqStep
    <2> QED BY <2>1, <2>2
  <1> QED BY <1>1, <1>2, PTL DEF Spec

\* The settings in force keep the rule loop_wait + 2 * retry_timeout <= ttl, whatever was configured
\* (Config._validate_and_adjust_timeouts).
THEOREM RuleIsKept == Spec => [](part = "requests" => cfg.loop + 2 * cfg.retry <= cfg.ttl)
  <1>1. (part = "requests" => ReqInv) => (part = "requests" => cfg.loop + 2 * cfg.retry <= cfg.ttl)
    BY DEF ReqInv
  <1> QED BY <1>1, ReqAlways, PTL

\* A request that is tried again has asked all machines of that round, whether they answer or not,
\* before its retry_timeout is over (EtcdClient._calculate_timeouts, api_execute).
THEOREM RetriesFit == Spec => [][part = "requests" /\ Req!Decide /\ call'.phase = "send" => Fits']_reqVars
  <1> DEFINE Again == part = "requests" /\ Req!Decide /\ call'.phase = "send" => Fits'
  <1>1. (part = "requests" => ReqInv) /\ [Next]_allVars => [Again]_reqVars
    BY ReqDecideFits
  <1> QED BY <1>1, ReqAlways, PTL DEF Spec

-----------------------------------------------------------------------------
(* The types *)

\* The part that moves is one of them.
LEMMA PartAlways == Spec => [](part \in Part)
  <1>1. Init => part \in Part BY DEF Init
  <1>2. part \in Part /\ [Next]_allVars => (part \in Part)' BY DEF Next, allVars
  <1> QED BY <1>1, <1>2, PTL DEF Spec

\* Every variable of the part that moves has its type: those of each part follow from its invariant.
THEOREM ControlType == Spec => []TypeOK
  <1>1. ComInv => Com!TypeOK
    <2> SUFFICES ASSUME ComInv PROVE Com!TypeOK OBVIOUS
    <2>1. ComTypes BY DEF ComInv
    <2>2. /\ dcs.leader \in Node \cup {NoNode} /\ dcs.failover \in Com!Request /\ dcs.paused \in BOOLEAN
          /\ dcs.member \in [Node -> [pause : BOOLEAN, sched : BOOLEAN]]
      BY <2>1 DEF ComTypes, DcsType
    <2>3. ASSUME NEW n \in Node
          PROVE  /\ node[n].pc \in {"idle", "loaded", "clean"}
                 /\ node[n].task \in {"none", "demote", "stop", "create"}
                 /\ {node[n].up, node[n].sched} \subseteq BOOLEAN
      BY <2>1 DEF ComTypes, NodeType
    <2>4. ASSUME NEW o \in Operator
          PROVE  op[o].want \in Com!Request /\ op[o].todo \subseteq Node /\ op[o].fresh \subseteq Node
      BY <2>1 DEF ComTypes, OpType
    <2> QED BY <2>1, <2>2, <2>3, <2>4 DEF ComTypes, Com!TypeOK
  <1>2. CitInv => Cit!TypeOK
    BY DEF CitInv, CitTypes, RowType, HostType, Lists, Cit!TypeOK
  <1>3. CalInv => Cal!TypeOK
    BY DEF CalInv, Values, Executor, Cal!TypeOK
  <1>4. HeaInv => Hea!TypeOK
    BY DEF HeaInv, HeaTypes, Hea!TypeOK
  <1>5. part \in Part
        /\ (part = "watchdog" => Wat!TypeOK) /\ (part = "requests" => ReqInv)
        /\ (part = "commands" => ComInv) /\ (part = "citus" => CitInv)
        /\ (part = "follow" => FolInv) /\ (part = "callbacks" => CalInv) /\ (part = "health" => HeaInv)
          => TypeOK
    <2>1. part \in Part =>
            part \in {"watchdog", "requests", "commands", "citus", "follow", "callbacks", "health"}
      BY ControlAssumption DEF ControlAssumption
    <2> QED BY <1>1, <1>2, <1>3, <1>4, <2>1, FolTypeOK, ReqTypeOK DEF TypeOK
  <1> QED BY <1>5, PartAlways, WatTypeAlways, ReqAlways, ComAlways, CitAlways, FolAlways, CalAlways,
      HeaAlways, PTL

=============================================================================
