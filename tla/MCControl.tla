------------------------------- MODULE MCControl -------------------------------
(***************************************************************************)
(* Model-checking instance of parts that are beside the HA loop and share  *)
(* no state with each other: one state space for each, side by side.  In a *)
(* behaviour the one that is chosen at the beginning moves, the others     *)
(* stay as they are.                                                       *)
(***************************************************************************)
EXTENDS Naturals

CONSTANTS
  Part,                                                      \* the parts to be checked
  Device, NoDevice, Settable, Preset, Closable, FiresAfter,  \* Watchdog
  LoopWait, Stumbles, MaxReloads, MaxMishaps,
  Server, Second, Configured,                                \* Requests
  Node, NoNode, Operator, NoOperator, MaxFailures,           \* Commands
  MaxGroup, MaxEvents,                                       \* Citus
  Peer, Me, NoPeer, Remote, MaxChanges,                      \* Follow
  Ttl, Wait, MaxAnswer                                       \* Health

VARIABLES
  part,
  wd, role, lock, paused, aborted, left,
  cfg, cond, elected, client, call, age, cycle,
  dcs, node, op, due, faults,
  table, tx, link, cache, reload, tasks, flight, expired, thread, notified, seen, coord,
  worker, posts, fate,
  keys, tags, files, postgres, secret, memory, turn, changes,
  odd, cStandby, cLock, cPaused, cPg, state, cRole, called, pending, cPc, change, cCall, slot, cThread,
  script, told,
  hStandby, hPaused, owner, hLeft, lost, hPc, bg, answer, view, next, since, expiry, valid, heard, hPg,
  known, sync, asked

Wat == INSTANCE Watchdog WITH Modes <- {"off", "automatic", "required"}, Timeouts <- FiresAfter

Req == INSTANCE Requests WITH Host <- Server, Kinds <- {"refuses", "silent"}

\* A value of Configured: settings that keep the rule with time to spare, the last ones only after they
\* were adjusted.
TimeToSpare == {<<5, 10, 30>>, <<1, 10, 30>>, <<3, 5, 10>>}

\* Commands that may meet.
Com == INSTANCE Commands WITH
  Scripts <- {{"switchover"}, {"failover", "pause"}, {"schedule", "flush"}, {"failover", "flush"},
              {"pause", "resume"}, {"restart"}, {"restart", "unrestart"}, {"reinit"}, {"restart", "reinit"}}

Cit == INSTANCE Citus WITH MaxMishaps <- 1, RestartsInFlight <- FALSE

\* PostgreSQL 13 or later.
Fol == INSTANCE Follow WITH
  Node <- Peer, NoNode <- NoPeer, Restarts <- FALSE, Edits <- {"host"}, Careless <- {},
  Tags <- {[from |-> NoPeer, nostream |-> FALSE], [from |-> CHOOSE p \in Peer : TRUE, nostream |-> FALSE],
           [from |-> NoPeer, nostream |-> TRUE]}

Cal == INSTANCE Callbacks WITH
  Odd <- BOOLEAN, standby <- cStandby, lock <- cLock, paused <- cPaused, pg <- cPg, role <- cRole,
  pc <- cPc, call <- cCall, thread <- cThread

Hea == INSTANCE Health WITH
  standby <- hStandby, paused <- hPaused, left <- hLeft, pc <- hPc, pg <- hPg

ASSUME ControlAssumption ==
  /\ Part \subseteq {"watchdog", "requests", "commands", "citus", "follow", "callbacks", "health"}
  /\ Wat!WatchdogAssumption /\ Req!RequestsAssumption /\ Com!CommandsAssumption
  /\ Cit!CitusAssumption /\ Fol!FollowAssumption
  /\ Cal!CallbacksAssumption /\ Hea!HealthAssumption

watVars == <<wd, role, lock, paused, aborted, left>>
reqVars == <<cfg, cond, elected, client, call, age, cycle>>
comVars == <<dcs, node, op, due, faults>>
citVars == <<table, tx, link, cache, reload, tasks, flight, expired, thread, notified, seen,
             coord, worker, posts, fate>>
folVars == <<keys, tags, files, postgres, secret, memory, turn, changes>>
calVars == <<odd, cStandby, cLock, cPaused, cPg, state, cRole, called, pending, cPc, change, cCall, slot,
             cThread, script, told>>
heaVars == <<hStandby, hPaused, owner, hLeft, lost, hPc, bg, answer, view, next, since, expiry, valid, heard,
             hPg, known, sync, asked>>

\* Where the parts that do not move begin does not matter, nor who of the nodes is the leader in
\* Commands, nor who of the operators gives which of the commands.
Init ==
  /\ part \in Part
  /\ Wat!Init /\ (part # "watchdog" => wd.config = CHOOSE c \in Wat!Config : TRUE)
  /\ Req!Init
  /\ Com!Init /\ (part # "commands" => ~dcs.paused /\ \A o \in Operator : op[o].kind = "switchover")
  /\ dcs.leader = CHOOSE n \in Node : TRUE
  /\ op[CHOOSE o \in Operator : TRUE].kind = CHOOSE kind \in {op[o].kind : o \in Operator} : TRUE
  /\ Cit!Init
  /\ Fol!Init /\ (part # "follow" => tags.nostream /\ ~keys.standby)
  /\ Cal!Init /\ (odd => ~cStandby) /\ (part # "callbacks" => ~odd /\ ~cStandby /\ cRole = "replica")
  /\ Hea!Init /\ (part # "health" => ~hStandby /\ ~hPaused /\ owner = "nobody" /\ hPg = "replica")

Next ==
  \/ part = "watchdog" /\ UNCHANGED <<part, reqVars, comVars, citVars, folVars, calVars, heaVars>>
     /\ Wat!Next
  \/ part = "requests" /\ UNCHANGED <<part, watVars, comVars, citVars, folVars, calVars, heaVars>>
     /\ Req!Next
  \/ part = "commands" /\ UNCHANGED <<part, watVars, reqVars, citVars, folVars, calVars, heaVars>>
     /\ Com!Next
  \/ part = "citus" /\ UNCHANGED <<part, watVars, reqVars, comVars, folVars, calVars, heaVars>>
     /\ Cit!Next
  \/ part = "follow" /\ UNCHANGED <<part, watVars, reqVars, comVars, citVars, calVars, heaVars>>
     /\ Fol!Next
  \/ part = "callbacks" /\ UNCHANGED <<part, watVars, reqVars, comVars, citVars, folVars, heaVars>>
     /\ Cal!Next
  \/ part = "health" /\ UNCHANGED <<part, watVars, reqVars, comVars, citVars, folVars, calVars>>
     /\ Hea!Next

allVars == <<part, watVars, reqVars, comVars, citVars, folVars, calVars, heaVars>>

Spec == Init /\ [][Next]_allVars

-----------------------------------------------------------------------------

\* The others need not be looked at.  Nor in Health what nothing reads any more: the view of a cycle that
\* has gone on to write the key, /sync of a cluster that is out of date or a standby one, and in a paused
\* cluster how long ago the key was lost and a cycle began.
Moving == CASE part = "watchdog" -> watVars
            [] part = "requests" -> reqVars
            [] part = "commands" -> comVars
            [] part = "citus" -> citVars
            [] part = "follow" -> folVars
            [] part = "callbacks" -> calVars
            [] part = "health" ->
                 <<hStandby, hPaused, owner, hLeft, hPc, bg, answer, next, expiry, valid, heard, hPg, known, asked,
                   IF hPc = "loaded" THEN view ELSE "nobody", sync /\ valid > 0 /\ ~hStandby,
                   IF hPaused THEN <<0, 0>> ELSE <<lost, since>> >>
View == <<part, Moving>>

\* Every variable has its type.
TypeOK ==
  CASE part = "watchdog" -> Wat!TypeOK
    [] part = "requests" -> Req!TypeOK
    [] part = "commands" -> Com!TypeOK
    [] part = "citus" -> Cit!TypeOK
    [] part = "follow" -> Fol!TypeOK
    [] part = "callbacks" -> Cal!TypeOK
    [] part = "health" -> Hea!TypeOK

\* Watchdog: a machine is not reset for nothing.
OnlyLeaderIsReset == part = "watchdog" => Wat!OnlyLeaderIsReset

\* Watchdog: in required mode a primary has a watchdog that fires in time.
RequiredIsChecked == Wat!RequiredIsChecked

\* Requests: a leader that is cut off demotes itself before its key expires.
DemotesInTime == part = "requests" => Req!DemotesInTime

\* What a node tells others is so: to operators (Commands), to load balancers and probes (Health),
\* and to the callback scripts (Callbacks).
ToldTrue ==
  /\ part = "commands" => Com!AnswersTrue
  /\ part = "health" => Hea!AnswersTrue
  /\ part = "callbacks" => Cal!LastTold

\* Citus: what the handler remembers of pg_dist_node is so.
CacheTrue == part = "citus" => Cit!CacheTrue

\* Follow: a standby that is left alone replicates from the node it should.
FollowsWanted == part = "follow" => Fol!FollowsWanted
===============================================================================
