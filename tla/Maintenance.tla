---------------------------- MODULE Maintenance ----------------------------
(***************************************************************************)
(* What maintains the key pool while it is used: clean-ups, quota refreshes*)
(* and administrators, interleaved at every await, with restarts.          *)
(***************************************************************************)
EXTENDS KeyCleanup, QuotaRefresh

\* What a behaviour starts from and mixes: a database, the clean-ups and the
\* refreshes that take part, the limits of their semaphores, and how many
\* administrators' calls and restarts.
CONSTANT Loads

ASSUME MaintenanceAssumption ==
  Loads \subseteq [start : InitialDatabases, cleaners : SUBSET Cleaners,
                  calls : SUBSET Calls, slots : SUBSET Concurrency,
                  admin : Nat, restarts : Nat]

VARIABLE load    \* one of the loads; it never changes

vars == <<poolVars, cleanups, calls, tasks, load>>

MaintenanceInit ==
  /\ load \in Loads
  /\ PoolInit /\ db = load.start
  /\ CleanupInit /\ RefreshInit

MaintenanceTypeOK == PoolTypeOK /\ CleanupTypeOK /\ RefreshTypeOK

AdminStep ==
  /\ AdminNext
  /\ adminOps' <= load.admin
  /\ UNCHANGED <<cleanups, calls, tasks, load>>

BootStep ==
  /\ BootKey \/ BootDone
  /\ UNCHANGED <<cleanups, calls, tasks, load>>

CleanupActs ==
  /\ \E c \in load.cleaners : CleanupMoves(c)
  /\ UNCHANGED <<now, adding, phase, nextEnv, adminOps, restarts, calls, tasks, load>>

RefreshStarts ==
  /\ \E c \in load.calls, force \in BOOLEAN, slots \in load.slots :
       StartRefresh(c, force, slots)
  /\ UNCHANGED <<now, adding, phase, nextEnv, adminOps, restarts, cleanups, load>>

RefreshMoves ==
  /\ RefreshProgress
  /\ UNCHANGED <<now, adding, phase, nextEnv, adminOps, restarts, cleanups, load>>

\* The locks, the calls and the tasks live in the process.
MaintenanceRestart ==
  /\ Restart
  /\ restarts' <= load.restarts
  /\ cleanups' = [c \in Cleaners |-> NoCleanup]
  /\ calls' = [c \in Calls |-> NoCall]
  /\ tasks' = {}
  /\ UNCHANGED load

MaintenanceNext ==
  \/ AdminStep
  \/ BootStep
  \/ CleanupActs
  \/ RefreshStarts
  \/ RefreshMoves
  \/ MaintenanceRestart

MaintenanceSpec == MaintenanceInit /\ [][MaintenanceNext]_vars

(* Every call of the management API ends, with an answer or the exception  *)
(* of its timeout, and a task that can go on does.                         *)
FairMaintenanceSpec == MaintenanceSpec /\ WF_vars(RefreshMoves)

=============================================================================
