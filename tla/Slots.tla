-------------------------------- MODULE Slots --------------------------------
(***************************************************************************)
(* A permanent logical replication slot on the primary and on one standby: *)
(* slots.py of both, what /status says of the slot, the physical slot that *)
(* the standby streams through and the feedback it sends by it, the thread *)
(* that advances the slot of the standby, and the task that copies it.     *)
(*                                                                         *)
(* A position stands for an LSN and for the catalog_xmin that belongs to   *)
(* it.  Rows of the catalogs older than the horizon of a node are removed  *)
(* there, and a slot behind the horizon cannot be decoded.                 *)
(***************************************************************************)
EXTENDS Naturals

CONSTANTS
  MaxPos,      \* bound: positions
  MaxChanges,  \* bound: changes of the configuration
  MaxTroubles  \* bound: lost connections, crashes, failed queries, expired keys

SlotsAssumption == MaxPos \in Nat \ {0} /\ {MaxChanges, MaxTroubles} \subseteq Nat

VARIABLES
  kvs,     \* /config: the plugin of the slot, 0 if there is none, and pause;
           \* /status: the position of the slot, 0 if it is not there; the key of the member
  wal,     \* where the primary writes
  prim,    \* the primary: the slot, the physical slot of the standby, the horizon
  stby,    \* the standby: whether it runs and streams, feedback, the slot, the horizon
  ph,      \* SlotsHandler of the primary: its view of kvs, the slots it knows
  sh,      \* SlotsHandler of the standby
  adv,     \* SlotsAdvanceThread
  copying, \* the task copy_logical_slots
  kept,    \* history: the feedback has been there since the primary was asked what it needs,
           \* about a slot that the standby knew whenever it asked
  budget

slotVars == <<kvs, wal, prim, stby, ph, sh, adv, copying, kept, budget>>

Missing == [plugin |-> 0, pos |-> 0]
Slot == [plugin : 0 .. 2, pos : 0 .. MaxPos]
NoXmin == 0
Checked == MaxPos + 1      \* not in _logical_slots_processing_queue
Unknown == 0               \* in the queue, with None

Init ==
  /\ kvs = [plugin |-> 1, pause |-> FALSE, lsn |-> 0, member |-> TRUE]
  /\ wal = 1
  /\ prim = [slot |-> [plugin |-> 1, pos |-> 1], phys |-> TRUE, xmin |-> NoXmin, horizon |-> 1]
  /\ stby = [up |-> TRUE, streams |-> TRUE, feedback |-> TRUE, slot |-> Missing, horizon |-> 1]
  /\ ph = [step |-> "load", plugin |-> 1, pause |-> FALSE, member |-> TRUE,
           slot |-> Missing, phys |-> FALSE, load |-> TRUE]
  /\ sh = [step |-> "load", plugin |-> 1, pause |-> FALSE, lsn |-> 0,
           slot |-> Missing, load |-> TRUE, force |-> TRUE, queue |-> Checked]
  /\ adv = [lsn |-> 0, failed |-> FALSE, copy |-> FALSE]
  /\ copying = [step |-> "idle", plugin |-> 0, slot |-> Missing]
  /\ kept = FALSE
  /\ budget = [changes |-> MaxChanges, troubles |-> MaxTroubles]

Trouble == budget.troubles > 0 /\ budget' = [budget EXCEPT !.troubles = @ - 1]
Lowest(S) == CHOOSE x \in S : \A y \in S : x <= y

-----------------------------------------------------------------------------
(* The surroundings *)

\* The slot is added, removed, or changed, or the cluster is paused or resumed.
ChangeConfig ==
  /\ budget.changes > 0
  /\ budget' = [budget EXCEPT !.changes = @ - 1]
  /\ \/ \E x \in (0 .. 2) \ {kvs.plugin} : kvs' = [kvs EXCEPT !.plugin = x]
     \/ kvs' = [kvs EXCEPT !.pause = ~@]
  /\ UNCHANGED <<wal, prim, stby, ph, sh, adv, copying, kept>>

Write ==
  /\ wal < MaxPos
  /\ wal' = wal + 1
  /\ UNCHANGED <<kvs, prim, stby, ph, sh, adv, copying, kept, budget>>

\* The consumer confirms on the primary what it has got.
Consume ==
  /\ prim.slot.plugin # 0 /\ prim.slot.pos < wal
  /\ prim' = [prim EXCEPT !.slot.pos = wal]
  /\ UNCHANGED <<kvs, wal, stby, ph, sh, adv, copying, kept, budget>>

\* Dead rows are removed as far as the slots allow.
Vacuum ==
  LET held == ({prim.xmin} \ {NoXmin}) \cup {x \in {prim.slot.pos} : prim.slot.plugin # 0}
      limit == Lowest({wal} \cup held)
  IN  /\ limit > prim.horizon
      /\ prim' = [prim EXCEPT !.horizon = limit]
      /\ UNCHANGED <<kvs, wal, stby, ph, sh, adv, copying, kept, budget>>

Replay ==
  /\ stby.streams /\ stby.horizon < prim.horizon
  /\ stby' = [stby EXCEPT !.horizon = prim.horizon]
  /\ UNCHANGED <<kvs, wal, prim, ph, sh, adv, copying, kept, budget>>

\* hot_standby_feedback: what the slot of the standby needs.
Feedback ==
  /\ stby.streams
  /\ LET x == IF stby.feedback /\ stby.slot.plugin # 0 THEN stby.slot.pos ELSE NoXmin
     IN  /\ x # prim.xmin
         /\ prim' = [prim EXCEPT !.xmin = x]
         /\ kept' = (kept /\ x # NoXmin)
  /\ UNCHANGED <<kvs, wal, stby, ph, sh, adv, copying, budget>>

Disconnect ==
  /\ stby.streams /\ Trouble
  /\ stby' = [stby EXCEPT !.streams = FALSE]
  /\ UNCHANGED <<kvs, wal, prim, ph, sh, adv, copying, kept>>

Connect ==
  /\ stby.up /\ ~stby.streams /\ prim.phys
  /\ stby' = [stby EXCEPT !.streams = TRUE]
  /\ UNCHANGED <<kvs, wal, prim, ph, sh, adv, copying, kept, budget>>

MemberExpires ==
  /\ kvs.member /\ Trouble
  /\ kvs' = [kvs EXCEPT !.member = FALSE]
  /\ UNCHANGED <<wal, prim, stby, ph, sh, adv, copying, kept>>

\* Somebody drops the slot on the primary.
DropByHand ==
  /\ prim.slot.plugin # 0 /\ Trouble
  /\ prim' = [prim EXCEPT !.slot = Missing]
  /\ UNCHANGED <<kvs, wal, stby, ph, sh, adv, copying, kept>>

Crash ==
  /\ stby.up /\ copying.step = "idle" /\ Trouble
  /\ stby' = [stby EXCEPT !.up = FALSE, !.streams = FALSE]
  /\ UNCHANGED <<kvs, wal, prim, ph, sh, adv, copying, kept>>

\* Postgres is started; is_running() notices, and schedule() is called.
Recover ==
  /\ ~stby.up /\ copying.step = "idle"
  /\ stby' = [stby EXCEPT !.up = TRUE]
  /\ sh' = [sh EXCEPT !.load = TRUE, !.force = TRUE, !.step = "load"]
  /\ UNCHANGED <<kvs, wal, prim, ph, adv, copying, kept, budget>>

-----------------------------------------------------------------------------
(* The primary *)

\* process_permanent_slots(): a slot that is not as remembered is looked up again.
Remembered(slot, real) == slot.plugin = 0 \/ slot.plugin = real.plugin

\* What the configuration wants, with the position that /status has for it.
PermanentSlot == [plugin |-> kvs.plugin, lsn |-> kvs.lsn]

\* The primary keeps a physical slot for each member that streams from it.
MemberSlot == kvs.member

\* filter_permanent_slots(): of the slots of the primary, only a permanent one is published.
Published(known, real) ==
  IF ph.plugin # 0 /\ known.plugin # 0 /\ known.plugin = real.plugin THEN real.pos ELSE 0

\* drop_replication_slot(): an active slot stays.
DropSlot(slot, active) == IF active THEN slot ELSE Missing

LoadOnPrimary ==
  /\ ph.step = "load"
  /\ ph' = [ph EXCEPT !.step = "lock", !.plugin = PermanentSlot.plugin, !.pause = kvs.pause,
                      !.member = MemberSlot, !.load = ph.load \/ (ph.pause /\ ~kvs.pause)]
  /\ UNCHANGED <<kvs, wal, prim, stby, sh, adv, copying, kept, budget>>

\* update_lock() writes the positions of the permanent slots that are known.
UpdateStatus ==
  /\ ph.step = "lock"
  /\ kvs' = [kvs EXCEPT !.lsn = Published(ph.slot, prim.slot)]
  /\ ph' = [ph EXCEPT !.step = "sync", !.load = @ \/ ~Remembered(ph.slot, prim.slot)]
  /\ UNCHANGED <<wal, prim, stby, sh, adv, copying, kept, budget>>

\* load_replication_slots().
KnownSlot(h, real) == IF h.load THEN real ELSE h.slot

\* _drop_incorrect_slots(): unknown slots unless paused, and those that are to be different.
Incorrect(known, h) ==
  known.plugin # 0 /\ IF h.plugin = 0 THEN ~h.pause ELSE known.plugin # h.plugin

\* sync_replication_slots() of the primary: slots are dropped and created.  An active one
\* stays, the next load finds it.
SyncOnPrimary ==
  LET known == KnownSlot(ph, prim.slot)
      knowsPhys == IF ph.load THEN prim.phys ELSE ph.phys
      drop == Incorrect(known, ph)
      dropPhys == knowsPhys /\ ~ph.member /\ ~ph.pause
      phys == (prim.phys /\ ~(dropPhys /\ ~stby.streams)) \/ (ph.member /\ ~knowsPhys)
  IN  /\ ph.step = "sync"
      /\ \E active \in {FALSE} \cup {a \in {TRUE} : drop} :
           LET slot == IF drop THEN DropSlot(prim.slot, active) ELSE prim.slot
               create == ph.plugin # 0 /\ (known.plugin = 0 \/ (drop /\ ~active)) /\ slot.plugin = 0
           IN  /\ prim' = [prim EXCEPT !.slot = IF create THEN [plugin |-> ph.plugin, pos |-> wal] ELSE slot,
                                       !.phys = phys,
                                       !.xmin = IF phys /\ prim.phys THEN @ ELSE NoXmin]
               /\ ph' = [ph EXCEPT !.step = "load",
                                   !.slot = IF ph.plugin = 0 THEN Missing
                                            ELSE [plugin |-> ph.plugin, pos |-> known.pos],
                                   !.phys = ph.member,
                                   !.load = active \/ create \/ (dropPhys /\ stby.streams)
                                              \/ (ph.member /\ ~knowsPhys) \/ (ph.plugin # 0 /\ known.plugin = 0)]
               /\ kept' = (kept /\ (phys => prim.phys) /\ phys)
               /\ UNCHANGED <<kvs, wal, stby, sh, adv, copying, budget>>

-----------------------------------------------------------------------------
(* The standby *)

\* The beginning of a cycle: the cluster, hot_standby_feedback, process_permanent_slots().
LoadOnStandby ==
  /\ sh.step = "load" /\ stby.up
  /\ stby' = [stby EXCEPT !.feedback = kvs.plugin # 0]
  /\ kvs' = [kvs EXCEPT !.member = TRUE]
  /\ LET resumed == sh.pause /\ ~kvs.pause
         same == sh.slot.plugin # 0 /\ sh.slot.plugin = stby.slot.plugin
     IN  sh' = [sh EXCEPT !.plugin = PermanentSlot.plugin, !.lsn = PermanentSlot.lsn, !.pause = kvs.pause,
                          !.slot.pos = IF same THEN stby.slot.pos ELSE @,
                          !.load = @ \/ resumed \/ ~Remembered(sh.slot, stby.slot),
                          !.force = @ \/ resumed,
                          !.step = IF copying.step = "idle" THEN "drop" ELSE "load"]
  /\ UNCHANGED <<wal, prim, ph, adv, copying, kept, budget>>

\* sync_replication_slots(), with load_replication_slots() and _drop_incorrect_slots().
DropOnStandby ==
  LET known == KnownSlot(sh, stby.slot)
      drop == Incorrect(known, sh)
  IN  /\ sh.step = "drop" /\ stby.up
      /\ stby' = [stby EXCEPT !.slot = IF drop THEN Missing ELSE @]
      /\ sh' = [sh EXCEPT !.slot = IF drop THEN Missing ELSE known,
                          !.queue = CASE ~(sh.load /\ sh.force) -> @
                                      [] known.plugin # 0 -> Unknown
                                      [] OTHER -> Checked,
                          !.force = @ /\ ~sh.load,
                          !.load = FALSE,
                          !.step = "check"]
      /\ UNCHANGED <<kvs, wal, prim, ph, adv, copying, kept, budget>>

\* Faulty: what the primary needed is not asked for.
FeedbackArrived(remembered, xmin, own) == xmin <= own

\* _ready_logical_slots(): the feedback has overtaken what the primary needed when it came.
SafeAfterFailover(remembered, xmin, own) == remembered <= xmin /\ xmin <= own

\* check_logical_slots_readiness().
CheckReadiness ==
  /\ sh.step = "check" /\ stby.up
  /\ \/ /\ sh.queue = Checked
        /\ sh' = [sh EXCEPT !.step = "ensure"]
        /\ UNCHANGED <<kept, budget>>
     \/ \* the query fails, or the physical slot or its xmin is missing
        /\ sh.queue # Checked
        /\ \/ prim.xmin # NoXmin /\ Trouble
           \/ prim.xmin = NoXmin /\ UNCHANGED budget
        /\ sh' = [sh EXCEPT !.step = "ensure"]
        /\ UNCHANGED kept
     \/ LET remembered == IF sh.queue = Unknown THEN prim.slot.pos ELSE sh.queue
            ready == sh.slot.plugin = 0 \/ SafeAfterFailover(remembered, prim.xmin, sh.slot.pos)
        IN  /\ sh.queue # Checked /\ prim.xmin # NoXmin
            /\ remembered # Unknown \/ sh.slot.plugin = 0
            /\ sh' = [sh EXCEPT !.queue = IF ready THEN Checked ELSE remembered, !.step = "ensure"]
            /\ kept' = (sh.slot.plugin # 0 /\ (kept \/ sh.queue = Unknown))
            /\ UNCHANGED budget
     \/ \* there is no value to compare: an exception, and the rest is left out
        /\ sh.queue = Unknown /\ prim.xmin # NoXmin /\ prim.slot.plugin = 0 /\ sh.slot.plugin # 0
        /\ sh' = [sh EXCEPT !.load = TRUE, !.step = "load"]
        /\ UNCHANGED <<kept, budget>>
  /\ UNCHANGED <<kvs, wal, prim, stby, ph, adv, copying>>

\* _ensure_logical_slots_replica() and schedule(); the cache becomes what is wanted.
EnsureOnStandby ==
  LET mine == sh.slot.plugin # 0 /\ sh.slot.plugin = sh.plugin
      create == sh.plugin # 0 /\ sh.slot.plugin = 0 /\ sh.lsn # 0
      copy == create \/ (adv.copy /\ sh.plugin # 0)
  IN  /\ sh.step = "ensure" /\ stby.up
      /\ adv' = [lsn |-> IF mine /\ sh.slot.pos < sh.lsn THEN sh.lsn ELSE adv.lsn,
                 failed |-> FALSE, copy |-> FALSE]
      /\ sh' = [sh EXCEPT !.slot = IF mine THEN @ ELSE
                                   IF sh.plugin = 0 \/ create THEN Missing
                                   ELSE [plugin |-> sh.plugin, pos |-> 0],
                          !.load = @ \/ adv.failed,
                          !.step = "load"]
      /\ copying' = IF copy /\ copying.step = "idle"
                    THEN [step |-> "read", plugin |-> sh.plugin, slot |-> Missing] ELSE copying
      /\ UNCHANGED <<kvs, wal, prim, stby, ph, kept, budget>>

\* sync_slot(): the WAL may be gone, then the slot is copied again.
Advance ==
  /\ adv.lsn # 0 /\ stby.up
  /\ \/ /\ stby.slot.plugin # 0
        /\ stby' = [stby EXCEPT !.slot.pos = IF @ < adv.lsn THEN adv.lsn ELSE @]
        /\ adv' = [adv EXCEPT !.lsn = 0]
        /\ UNCHANGED budget
     \/ /\ stby.slot.plugin = 0
        /\ adv' = [adv EXCEPT !.lsn = 0, !.failed = TRUE]
        /\ UNCHANGED <<stby, budget>>
     \/ /\ Trouble
        /\ \E gone \in BOOLEAN : adv' = [lsn |-> 0, failed |-> TRUE, copy |-> gone]
        /\ UNCHANGED stby
  /\ UNCHANGED <<kvs, wal, prim, ph, sh, copying, kept>>

-----------------------------------------------------------------------------
(* copy_logical_slots() *)

CopyRead ==
  /\ copying.step = "read"
  /\ copying' = IF prim.slot.plugin # 0 /\ prim.slot.plugin = copying.plugin
                THEN [copying EXCEPT !.step = "stop", !.slot = prim.slot]
                ELSE [copying EXCEPT !.step = "idle"]
  /\ UNCHANGED <<kvs, wal, prim, stby, ph, sh, adv, kept, budget>>

CopyStop ==
  /\ copying.step = "stop"
  /\ stby' = [stby EXCEPT !.up = FALSE, !.streams = FALSE]
  /\ copying' = [copying EXCEPT !.step = "write"]
  /\ UNCHANGED <<kvs, wal, prim, ph, sh, adv, kept, budget>>

\* The slot has to be checked before it is used.
CopyWrite ==
  /\ copying.step = "write"
  /\ stby' = [stby EXCEPT !.slot = copying.slot]
  /\ sh' = [sh EXCEPT !.queue = Unknown]
  /\ copying' = [copying EXCEPT !.step = "start", !.slot = Missing]
  /\ UNCHANGED <<kvs, wal, prim, ph, adv, kept, budget>>

CopyStart ==
  /\ copying.step = "start"
  /\ stby' = [stby EXCEPT !.up = TRUE]
  /\ sh' = [sh EXCEPT !.load = TRUE, !.force = TRUE, !.step = "load"]
  /\ copying' = [copying EXCEPT !.step = "idle", !.plugin = 0]
  /\ UNCHANGED <<kvs, wal, prim, ph, adv, kept, budget>>

-----------------------------------------------------------------------------

Next ==
  \/ ChangeConfig \/ Write \/ Consume \/ Vacuum \/ Replay \/ Feedback
  \/ Disconnect \/ Connect \/ MemberExpires \/ DropByHand \/ Crash \/ Recover
  \/ LoadOnPrimary \/ UpdateStatus \/ SyncOnPrimary
  \/ LoadOnStandby \/ DropOnStandby \/ CheckReadiness \/ EnsureOnStandby \/ Advance
  \/ CopyRead \/ CopyStop \/ CopyWrite \/ CopyStart

Spec == Init /\ [][Next]_slotVars

-----------------------------------------------------------------------------
(* Properties *)

\* Every variable has its type.
TypeOK ==
  /\ kvs \in [plugin : 0 .. 2, pause : BOOLEAN, lsn : 0 .. MaxPos, member : BOOLEAN]
  /\ {prim.slot, stby.slot, ph.slot, sh.slot, copying.slot} \subseteq Slot
  /\ prim.horizon \in 1 .. wal /\ stby.horizon \in 1 .. prim.horizon
  /\ sh.queue \in 0 .. Checked /\ prim.xmin \in 0 .. MaxPos /\ (prim.xmin # NoXmin => prim.phys)
  /\ copying.step \in {"idle", "read", "stop", "write", "start"}

Ready == stby.slot.plugin # 0 /\ sh.queue = Checked /\ ~sh.force

\* "Logical slot is safe to be used after a failover": when the standby thinks so the rows
\* its slot needs are there, unless its feedback was lost since the primary was asked, or Patroni
\* forgot the slot meanwhile (removed from the configuration in pause); and its slot is never ahead
\* of what was consumed on the primary.
SlotSurvivesFailover ==
  /\ Ready /\ kept => stby.horizon <= stby.slot.pos
  /\ stby.slot.plugin # 0 /\ stby.slot.plugin = prim.slot.plugin => stby.slot.pos <= prim.slot.pos

\* The same without the condition.
ReadyIsSafe == Ready => stby.horizon <= stby.slot.pos
=============================================================================
