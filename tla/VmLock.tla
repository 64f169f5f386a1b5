------------------------------- MODULE VmLock -------------------------------
(***************************************************************************)
(* What the shared CORE-VM lock promises, seen from the VM: at any time at *)
(* most one user owns a VM, ownership passes from one user to the next     *)
(* only through "free", and whatever happens to the CORE session that is   *)
(* live on a VM is done by the user who owns that VM at that moment.       *)
(*                                                                         *)
(* AsyncRun implements this specification; the clean-up threads of         *)
(* VulnBatch work on the VM without owning it.                             *)
(***************************************************************************)

CONSTANTS
  Users,      \* everybody who may own a VM: web-UI jobs and evaluation runs
  Targets,    \* VM identities (the lock keys)
  NoOne       \* "free" / "no session"

VARIABLES
  owner,      \* owner[v]: who owns VM v
  live        \* live[v]: whose CORE session is live on VM v

lockVars == <<owner, live>>

LockInit ==
  /\ owner = [v \in Targets |-> NoOne]
  /\ live = [v \in Targets |-> NoOne]

\* A free VM is taken.
Take(u, v) ==
  /\ owner[v] = NoOne
  /\ owner' = [owner EXCEPT ![v] = u]
  /\ UNCHANGED live

\* The owner kills whatever session is there, or brings its own session up.
Use(v) ==
  /\ owner[v] # NoOne
  /\ \E s \in {NoOne, owner[v]} : live' = [live EXCEPT ![v] = s]
  /\ UNCHANGED owner

\* Some VMs become free together: one user lets go of its VM, or a process
\* that held several of them dies.
Free(vs) ==
  /\ owner' = [v \in Targets |-> IF v \in vs THEN NoOne ELSE owner[v]]
  /\ UNCHANGED live

LockNext ==
  \/ \E u \in Users, v \in Targets : Take(u, v)
  \/ \E v \in Targets : Use(v)
  \/ \E vs \in SUBSET Targets : Free(vs)

LockSpec == LockInit /\ [][LockNext]_lockVars
=============================================================================
