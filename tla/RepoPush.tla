----------------------------- MODULE RepoPush -----------------------------
(***************************************************************************)
(* The repository is pushed to the CORE VM before it is needed there: the  *)
(* whole of it by a run and by the "push" button, some paths of it when a   *)
(* flow is resolved or a generator is tested.  A push compares the hash it  *)
(* left on the VM, tries rsync, then an SFTP delta against the manifest it  *)
(* left there, then a snapshot that replaces the repository.  The "push"    *)
(* button's pushes are tracked: they have a progress entry, can be          *)
(* cancelled, and extract the snapshot in a second thread.  Nothing stops   *)
(* two pushes, or a push and an edit of the local tree, from overlapping.   *)
(***************************************************************************)
EXTENDS Naturals

CONSTANTS
  Pushes,    \* pushes that may be under way at once
  Tracked,   \* those with a progress id
  Partial,   \* those of some paths only
  Files,     \* files of the repository
  Included,  \* the paths a partial push includes
  Packs,     \* files of installed generator packs
  MaxEdits,  \* bound: how often the local tree is edited
  Absent,    \* the version of a file that does not exist
  None       \* no hash, no archive

\* Partial pushes are never tracked.
ASSUME PushesAndFiles ==
  /\ Tracked \subseteq Pushes
  /\ Partial \subseteq Pushes \ Tracked
  /\ Included \subseteq Files
  /\ Packs \subseteq Included
ASSUME MaxEditsIsNat == MaxEdits \in Nat
ASSUME AbsentIsNoVersion == Absent \notin Nat

VARIABLES
  tree,      \* tree[f]: version of f in the local repository
  edits,     \* number of edits so far
  repo,      \* repo[f]: version of f on the VM
  manifest,  \* manifest[f]: version the VM's manifest records; all Absent: no manifest
  hash,      \* the VM's .coretg_repo_hash: a fingerprint, or None
  at,        \* at[p]: where the thread of push p is
  fell,      \* fell[p]: rsync has failed, the delta is the last resort
  todo,      \* todo[p]: files p has still to copy
  stale,     \* stale[p]: files p is going to delete on the VM
  archive,   \* archive[p]: content of p's snapshot, or None
  sweep,     \* sweep[p]: a "find ... rm -rf" started by p on the VM is clearing it
  tar,       \* tar[p]: what a tar started by p on the VM has still to extract
  fin,       \* fin[p]: where the finalizing thread of p is
  digest,    \* digest[p]: the fingerprint the finalizer will record
  ctx,       \* ctx[p]: p has a cancel context
  status,    \* status[p]: what p's progress entry says, if p is tracked; "over" is
             \* "complete" or "error", and before the first push of p
  requested, \* requested[p]: cancel_requested of p's progress entry
  canceller, \* canceller[p]: where a cancel request for p is
  early,     \* history: p was cancelled before its finalizer began
  calm,      \* history: nothing has interfered with the push under way
  trusted    \* history: nothing has interfered since the VM was last cleared

local == <<tree, edits>>
remote == <<repo, manifest, hash>>
plan == <<fell, todo, stale>>
final == <<fin, digest, ctx>>
entry == <<status, requested>>
history == <<early, calm, trusted>>
pushVars == <<local, remote, at, plan, archive, sweep, tar, final, entry, canceller, history>>

Paths(p) == IF p \in Partial THEN Included ELSE Files

Versions == 0 .. MaxEdits
Contents == [Files -> Versions \cup {Absent}]
Prints == UNION {[S -> Versions] : S \in SUBSET Files}
Nothing == [f \in Files |-> Absent]

ASSUME NoneIsNoPrint == None \notin Prints

Statuses == {"working", "cancelled", "over"}
Stages == {"idle", "connect", "compare", "mirror", "plan", "copy", "tidied",
           "pack", "schedule", "clear", "extract"}
Phases == {"none", "check", "open", "clear", "cleared", "tar", "remove", "lost"}

RepoTypeOK ==
  /\ tree \in Contents /\ edits \in 0 .. MaxEdits
  /\ repo \in Contents /\ manifest \in Contents /\ hash \in Prints \cup {None}
  /\ at \in [Pushes -> Stages]
  /\ fell \in [Pushes -> BOOLEAN]
  /\ todo \in [Pushes -> SUBSET Files]
  /\ stale \in [Pushes -> SUBSET Files]
  /\ archive \in [Pushes -> Prints \cup {None}]
  /\ sweep \in [Pushes -> BOOLEAN]
  /\ tar \in [Pushes -> Prints]
  /\ fin \in [Pushes -> Phases]
  /\ digest \in [Pushes -> Prints \cup {None}]
  /\ ctx \in [Pushes -> BOOLEAN]
  /\ status \in [Pushes -> Statuses]
  /\ requested \in [Pushes -> BOOLEAN]
  /\ canceller \in [Pushes -> {"none", "mark", "kill"}]
  /\ early \in [Pushes -> BOOLEAN] /\ calm \in BOOLEAN /\ trusted \in BOOLEAN

Present(P) == {f \in P : tree[f] # Absent}

\* _compute_repo_fingerprint: the files that exist, with size and mtime.
Fingerprint(P) == [f \in Present(P) |-> tree[f]]

Differs(p) == hash # None /\ hash # Fingerprint(Paths(p))
Remaining(p) == DOMAIN tar[p]
Active(p) == at[p] # "idle" \/ fin[p] \notin {"none", "lost"}
Writing(p) == Active(p) \/ sweep[p] \/ Remaining(p) # {}

\* Faulty variant of Cancelled, see below: only the status is looked at.
CancelledByStatus(p) == status[p] = "cancelled"
Cancelled(p) == requested[p] \/ status[p] = "cancelled"

Move(p, from, to) == at[p] = from /\ at' = [at EXCEPT ![p] = to]
Step(p, from, to) == fin[p] = from /\ fin' = [fin EXCEPT ![p] = to]

\* _update_repo_push_progress: nothing without a progress id.
Tell(p, s) == status' = IF p \in Tracked THEN [status EXCEPT ![p] = s] ELSE status

RepoInit ==
  /\ tree = [f \in Files |-> 0] /\ edits = 0
  /\ repo = Nothing /\ manifest = Nothing /\ hash = None
  /\ at = [p \in Pushes |-> "idle"]
  /\ fell = [p \in Pushes |-> FALSE]
  /\ todo = [p \in Pushes |-> {}]
  /\ stale = [p \in Pushes |-> {}]
  /\ archive = [p \in Pushes |-> None]
  /\ sweep = [p \in Pushes |-> FALSE]
  /\ tar = [p \in Pushes |-> <<>>]
  /\ fin = [p \in Pushes |-> "none"]
  /\ digest = [p \in Pushes |-> None]
  /\ ctx = [p \in Pushes |-> FALSE]
  /\ status = [p \in Pushes |-> "over"]
  /\ requested = [p \in Pushes |-> FALSE]
  /\ canceller = [p \in Pushes |-> "none"]
  /\ early = [p \in Pushes |-> FALSE]
  /\ calm = FALSE /\ trusted = TRUE

\* Something changes what the pushes under way rely on.
Interfere ==
  IF \E q \in Pushes : Writing(q) THEN calm' = FALSE /\ trusted' = FALSE
                                  ELSE UNCHANGED <<calm, trusted>>

\* The finalizing thread ends: the context is popped.
End(p, phase, s) ==
  /\ fin' = [fin EXCEPT ![p] = phase]
  /\ digest' = [digest EXCEPT ![p] = None]
  /\ ctx' = [ctx EXCEPT ![p] = FALSE]
  /\ archive' = [archive EXCEPT ![p] = None]
  /\ Tell(p, s)

-----------------------------------------------------------------------------
(* Faulty variants of the definitions below, each with a bug the code could have; *)
(* they take no part in RepoSpec.  PROJECT.json names the property each breaks.   *)

\* A whole push is content with what a partial one recorded.
SkipAnyRecord(p) ==
  /\ hash # None /\ hash \in {Fingerprint(Files), Fingerprint(Included)}
  /\ Move(p, "compare", "idle")
  /\ Tell(p, "over")
  /\ UNCHANGED <<local, remote, plan, archive, sweep, tar, final, requested, canceller, history>>

\* rsync is told to protect the files that begin with .coretg.
MirrorKeepsRecords(p) ==
  /\ Differs(p) /\ Move(p, "compare", "mirror")
  /\ LET wanted == Present(Paths(p)) IN
     /\ repo' = [f \in Files |-> IF f \in wanted THEN repo[f] ELSE Absent]
     /\ todo' = [todo EXCEPT ![p] = {f \in wanted : repo[f] # tree[f]}]
  /\ Tell(p, "working")
  /\ UNCHANGED <<local, manifest, hash, fell, stale, archive, sweep, tar, final, requested, canceller, history>>

\* The tar is started without looking for the cancellation that may have removed
\* its archive.
FinTarBlind(p) ==
  /\ ~sweep[p] /\ Step(p, "cleared", "tar")
  /\ tar' = [tar EXCEPT ![p] = archive[p]]
  /\ Tell(p, "working")
  /\ UNCHANGED <<local, remote, at, plan, archive, sweep, digest, ctx, requested, canceller, history>>

\* A finalizing thread that cannot be started is not told.
ScheduleSilently(p) ==
  /\ Move(p, "schedule", "idle")
  /\ \/ /\ Step(p, "none", "check")
        /\ digest' = [digest EXCEPT ![p] = Fingerprint(Paths(p))]
        /\ UNCHANGED archive
     \/ /\ archive' = [archive EXCEPT ![p] = None]
        /\ UNCHANGED <<fin, digest>>
  /\ Tell(p, "working")
  /\ UNCHANGED <<local, remote, plan, sweep, tar, ctx, requested, canceller, history>>

-----------------------------------------------------------------------------
(* The push. *)

\* A request, a run or a flow asks for a push.  A place of Pushes is used again
\* when nothing of the earlier push is left.
Submit(p) ==
  /\ ~Writing(p) /\ canceller[p] = "none"
  /\ Move(p, "idle", "connect")
  /\ Tell(p, "working")
  /\ requested' = [requested EXCEPT ![p] = FALSE]
  /\ fin' = [fin EXCEPT ![p] = "none"]
  /\ early' = [early EXCEPT ![p] = FALSE]
  /\ IF \E q \in Pushes : Writing(q) THEN Interfere ELSE calm' = TRUE /\ UNCHANGED trusted
  /\ UNCHANGED <<local, remote, plan, archive, sweep, tar, digest, ctx, canceller>>

\* Connected; installed packs that are gone here are removed there.
Connect(p) ==
  /\ Move(p, "connect", "compare")
  /\ repo' = [f \in Files |-> IF f \in Packs /\ tree[f] = Absent THEN Absent ELSE repo[f]]
  /\ Tell(p, "working")
  /\ UNCHANGED <<local, manifest, hash, plan, archive, sweep, tar, final, requested, canceller, history>>

\* The thread starts, connects, packs, uploads or extracts in vain.  What runs on
\* the VM may outlive the connection.
Fail(p) ==
  /\ at[p] \in {"connect", "pack", "extract"}
  /\ at' = [at EXCEPT ![p] = "idle"]
  /\ archive' = [archive EXCEPT ![p] = None]
  /\ \E t \in {tar[p], <<>>} : tar' = [tar EXCEPT ![p] = t]
  /\ Tell(p, "over")
  /\ UNCHANGED <<local, remote, plan, sweep, final, requested, canceller, history>>

\* "Repository unchanged; upload skipped."
Skip(p) ==
  /\ hash # None /\ hash = Fingerprint(Paths(p))
  /\ Move(p, "compare", "idle")
  /\ Tell(p, "over")
  /\ UNCHANGED <<local, remote, plan, archive, sweep, tar, final, requested, canceller, history>>

\* The hash is missing or cannot be read, or no other method is configured: a snapshot.
ChooseSnapshot(p) ==
  /\ Move(p, "compare", "pack")
  /\ Tell(p, "working")
  /\ UNCHANGED <<local, remote, plan, archive, sweep, tar, final, requested, canceller, history>>

\* With a password, the SFTP delta; without rsync, the delta instead of it.
ChooseDelta(p) ==
  /\ Differs(p) /\ Move(p, "compare", "plan")
  /\ \E b \in BOOLEAN : fell' = [fell EXCEPT ![p] = b]
  /\ Tell(p, "working")
  /\ UNCHANGED <<local, remote, todo, stale, archive, sweep, tar, final, requested, canceller, history>>

\* rsync --delete: what is not pushed goes first, the two records with it.
Mirror(p) ==
  /\ Differs(p) /\ Move(p, "compare", "mirror")
  /\ LET wanted == Present(Paths(p)) IN
     /\ repo' = [f \in Files |-> IF f \in wanted THEN repo[f] ELSE Absent]
     /\ todo' = [todo EXCEPT ![p] = {f \in wanted : repo[f] # tree[f]}]
  /\ manifest' = Nothing /\ hash' = None
  /\ Tell(p, "working")
  /\ UNCHANGED <<local, fell, stale, archive, sweep, tar, final, requested, canceller, history>>

RsyncFails(p) ==
  /\ Move(p, "mirror", "plan")
  /\ fell' = [fell EXCEPT ![p] = TRUE]
  /\ todo' = [todo EXCEPT ![p] = {}]
  /\ UNCHANGED <<local, remote, stale, archive, sweep, tar, final, entry, canceller, history>>

Copy(p, f) ==
  /\ at[p] \in {"mirror", "copy"} /\ f \in todo[p]
  /\ repo' = [repo EXCEPT ![f] = IF tree[f] = Absent THEN @ ELSE tree[f]]
  /\ todo' = [todo EXCEPT ![p] = @ \ {f}]
  /\ Tell(p, "working")
  /\ UNCHANGED <<local, manifest, hash, at, fell, stale, archive, sweep, tar, final, requested,
                 canceller, history>>

\* The SFTP delta compares with the manifest; if there is none or it cannot be read,
\* with one that is made of the files on the VM; or else with nothing.
Plan(p) ==
  /\ Move(p, "plan", "copy")
  /\ \E m \in {manifest, repo, Nothing} :
       LET wanted == Present(Paths(p)) IN
       /\ manifest' = IF m = Nothing THEN manifest ELSE m
       /\ todo' = [todo EXCEPT ![p] =
            {f \in wanted : m = Nothing \/ p \in Partial \/ m[f] # tree[f]}]
       /\ stale' = [stale EXCEPT ![p] =
            {f \in Files \ wanted : (IF m = Nothing THEN repo ELSE m)[f] # Absent}]
  /\ Tell(p, "working")
  /\ UNCHANGED <<local, repo, hash, fell, archive, sweep, tar, final, requested, canceller, history>>

\* The delta may have copied a file that the records on the VM say is not there.
\* They stay as they are if it fails.
Unrecorded(p) ==
  \E f \in Present(Paths(p)) :
    \/ hash # None /\ f \notin DOMAIN hash
    \/ manifest # Nothing /\ manifest[f] = Absent

\* The delta fails: a snapshot, unless rsync has failed before.
DeltaFails(p) ==
  /\ at[p] \in {"plan", "copy"}
  /\ trusted' = (trusted /\ ~(at[p] = "copy" /\ Unrecorded(p)))
  /\ at' = [at EXCEPT ![p] = IF fell[p] THEN "idle" ELSE "pack"]
  /\ fell' = [fell EXCEPT ![p] = FALSE]
  /\ todo' = [todo EXCEPT ![p] = {}]
  /\ stale' = [stale EXCEPT ![p] = {}]
  /\ Tell(p, IF fell[p] THEN "over" ELSE "working")
  /\ UNCHANGED <<local, remote, archive, sweep, tar, final, requested, canceller, early, calm>>

\* Stale files are deleted and the manifest is written, both as well as may be.
Tidy(p) ==
  /\ todo[p] = {} /\ Move(p, "copy", "tidied")
  /\ LET new == [f \in Files |-> IF f \in Paths(p) THEN tree[f] ELSE Absent] IN
     \E gone \in SUBSET stale[p], m \in {manifest, new} :
       /\ repo' = [f \in Files |-> IF f \in gone THEN Absent ELSE repo[f]]
       /\ manifest' = m
       /\ trusted' = (trusted /\ gone = stale[p] /\ m = new)
  /\ stale' = [stale EXCEPT ![p] = {}]
  /\ Tell(p, "working")
  /\ UNCHANGED <<local, hash, fell, todo, archive, sweep, tar, final, requested, canceller, early, calm>>

\* All is copied or extracted.  The hash is written as well as may be, and the push
\* is complete.
RecordHash(p) ==
  /\ at[p] \in {"mirror", "tidied", "extract"}
  /\ todo[p] = {} /\ ~sweep[p] /\ Remaining(p) = {}
  /\ at' = [at EXCEPT ![p] = "idle"]
  /\ \E h \in {hash, Fingerprint(Paths(p))} :
       /\ hash' = h
       /\ trusted' = (trusted /\ (h = Fingerprint(Paths(p)) \/ h = None))
  /\ archive' = [archive EXCEPT ![p] = None]
  /\ fell' = [fell EXCEPT ![p] = FALSE]
  /\ Tell(p, "over")
  /\ UNCHANGED <<local, repo, manifest, todo, stale, sweep, tar, final, requested, canceller, early, calm>>

\* The snapshot is packed and uploaded.
Pack(p) ==
  /\ Move(p, "pack", IF p \in Tracked THEN "schedule" ELSE "clear")
  /\ archive' = [archive EXCEPT ![p] = Fingerprint(Paths(p))]
  /\ Tell(p, "working")
  /\ UNCHANGED <<local, remote, plan, sweep, tar, final, requested, canceller, history>>

\* A script clears the repository on the VM and then extracts the archive.
Clear(p) ==
  /\ Move(p, "clear", "extract")
  /\ sweep' = [sweep EXCEPT ![p] = TRUE]
  /\ tar' = [tar EXCEPT ![p] = archive[p]]
  /\ Tell(p, "working")
  /\ UNCHANGED <<local, remote, plan, archive, final, requested, canceller, history>>

\* The clearing, "find ... -exec rm -rf -- {} + 2>/dev/null || true", removes files
\* and records one after the other, whether anybody waits for it or not.
Sweep(p) ==
  /\ sweep[p]
  /\ \E gone \in SUBSET Files :
       repo' = [f \in Files |-> IF f \in gone THEN Absent ELSE repo[f]]
  /\ manifest' \in {manifest, Nothing} /\ hash' \in {hash, None}
  /\ UNCHANGED <<local, at, plan, archive, sweep, tar, final, entry, canceller, history>>

\* It ends, is killed or gives up, all the same to who waits for it, and leaves
\* what it could not remove.
Bare == repo = Nothing /\ manifest = Nothing /\ hash = None

SweepEnds(p) ==
  /\ sweep[p]
  /\ sweep' = [sweep EXCEPT ![p] = FALSE]
  /\ trusted' = (Bare /\ (trusted \/ calm))
  /\ UNCHANGED <<local, remote, at, plan, archive, tar, final, entry, canceller, early, calm>>

\* A tar on the VM makes progress, whether anybody waits for it or not.
Extract(p, f) ==
  /\ ~sweep[p] /\ f \in Remaining(p)
  /\ repo' = [repo EXCEPT ![f] = tar[p][f]]
  /\ tar' = [tar EXCEPT ![p] = [g \in Remaining(p) \ {f} |-> tar[p][g]]]
  /\ UNCHANGED <<local, manifest, hash, at, plan, archive, sweep, final, entry, canceller, history>>

-----------------------------------------------------------------------------
(* The finalizing thread of a tracked push.  Archives that are left behind on   *)
(* the VM are forgotten: no later push looks at them.                           *)

\* The hash is computed, after the upload, and the thread started, or not.
Schedule(p) ==
  /\ Move(p, "schedule", "idle")
  /\ \/ /\ Step(p, "none", "check")
        /\ digest' = [digest EXCEPT ![p] = Fingerprint(Paths(p))]
        /\ Tell(p, "working")
        /\ UNCHANGED archive
     \/ /\ archive' = [archive EXCEPT ![p] = None]
        /\ Tell(p, "over")
        /\ UNCHANGED <<fin, digest>>
  /\ UNCHANGED <<local, remote, plan, sweep, tar, ctx, requested, canceller, history>>

FinCheck(p) ==
  /\ ~Cancelled(p) /\ Step(p, "check", "open")
  /\ Tell(p, "working")
  /\ UNCHANGED <<local, remote, at, plan, archive, sweep, tar, digest, ctx, requested, canceller, history>>

\* The context is set.  From here on a command is started first and the
\* cancellation is looked for while it runs: the first one is a mkdir.
FinOpen(p) ==
  /\ ~Cancelled(p) /\ Step(p, "open", "clear")
  /\ ctx' = [ctx EXCEPT ![p] = TRUE]
  /\ UNCHANGED <<local, remote, at, plan, archive, sweep, tar, digest, entry, canceller, history>>

FinClear(p) ==
  /\ Step(p, "clear", "cleared")
  /\ sweep' = [sweep EXCEPT ![p] = TRUE]
  /\ UNCHANGED <<local, remote, at, plan, archive, tar, digest, ctx, entry, canceller, history>>

\* The clearing is over and the tar is started; it has opened the archive when a cancel request removes it.
FinTar(p) ==
  /\ ~Cancelled(p) /\ ~sweep[p] /\ Step(p, "cleared", "tar")
  /\ tar' = [tar EXCEPT ![p] = archive[p]]
  /\ Tell(p, "working")
  /\ UNCHANGED <<local, remote, at, plan, archive, sweep, digest, ctx, requested, canceller, history>>

FinRemove(p) ==
  /\ ~Cancelled(p) /\ Remaining(p) = {} /\ Step(p, "tar", "remove")
  /\ archive' = [archive EXCEPT ![p] = None]
  /\ Tell(p, "working")
  /\ UNCHANGED <<local, remote, at, plan, sweep, tar, digest, ctx, requested, canceller, history>>

\* While the hash is written nobody looks for a cancellation: "complete" covers it.
FinComplete(p) ==
  /\ fin[p] = "remove"
  /\ \E h \in {hash, digest[p]} :
       /\ hash' = h
       /\ trusted' = (trusted /\ (h = digest[p] \/ h = None))
  /\ End(p, "none", "over")
  /\ UNCHANGED <<local, repo, manifest, at, plan, sweep, tar, requested, canceller, early, calm>>

\* The thread sees the cancellation, before its first command or while one runs;
\* what runs on the VM goes on.
FinCancelled(p) ==
  /\ Cancelled(p)
  /\ fin[p] \in {"check", "open", "cleared", "tar", "remove"}
  /\ End(p, "none", "cancelled")
  /\ UNCHANGED <<local, remote, at, plan, sweep, tar, requested, canceller, history>>

\* A command fails, or the connection; what runs on the VM ends or goes on.
MayFail(p) ==
  /\ fin[p] \in {"open", "clear", "cleared", "tar", "remove"}
  /\ \E t \in {tar[p], <<>>} : tar' = [tar EXCEPT ![p] = t]
  /\ UNCHANGED <<local, remote, at, plan, sweep, requested, canceller, history>>

FinFails(p) == MayFail(p) /\ End(p, "none", IF Cancelled(p) THEN "cancelled" ELSE "over")

\* A time-out of the connection, a TimeoutError that is no cancellation, is raised
\* again: the thread is gone and the entry says what it said.
FinTimesOut(p) == MayFail(p) /\ End(p, "lost", status[p])

-----------------------------------------------------------------------------
(* The cancel request, and the editor of the local tree. *)

\* A push that is over is not cancelled.
CancelSeen(p) ==
  /\ canceller[p] = "none" /\ status[p] = "working"
  /\ canceller' = [canceller EXCEPT ![p] = "mark"]
  /\ UNCHANGED <<local, remote, at, plan, archive, sweep, tar, final, entry, history>>

CancelMark(p) ==
  /\ canceller[p] = "mark"
  /\ canceller' = [canceller EXCEPT ![p] = "kill"]
  /\ requested' = [requested EXCEPT ![p] = TRUE]
  /\ Tell(p, "cancelled")
  /\ early' = [early EXCEPT ![p] = at[p] # "idle" \/ fin[p] = "check"]
  /\ UNCHANGED <<local, remote, at, plan, archive, sweep, tar, final, calm, trusted>>

\* With a context, the tar is killed if its pidfile is there, and the archive removed.
CancelKill(p) ==
  /\ canceller[p] = "kill"
  /\ canceller' = [canceller EXCEPT ![p] = "none"]
  /\ \/ ~ctx[p] /\ UNCHANGED <<archive, tar>>
     \/ /\ ctx[p]
        /\ archive' = [archive EXCEPT ![p] = None]
        /\ \E t \in {tar[p], <<>>} : tar' = [tar EXCEPT ![p] = t]
  /\ UNCHANGED <<local, remote, at, plan, sweep, final, entry, history>>

\* A file of the local tree is written or removed; some file that partial pushes
\* leave out always exists, so that a partial fingerprint is never a whole one.
Edit(f) ==
  /\ edits < MaxEdits
  /\ edits' = edits + 1
  /\ \E v \in {edits + 1} \cup (IF f \in Included THEN {Absent} \ {tree[f]} ELSE {}) :
       tree' = [tree EXCEPT ![f] = v]
  /\ Interfere
  /\ UNCHANGED <<remote, at, plan, archive, sweep, tar, final, entry, canceller, early>>

PushStep(p) ==
  \/ Connect(p) \/ Fail(p) \/ Skip(p) \/ ChooseSnapshot(p) \/ ChooseDelta(p) \/ Mirror(p)
  \/ RsyncFails(p) \/ Plan(p) \/ DeltaFails(p) \/ Tidy(p) \/ RecordHash(p) \/ Pack(p)
  \/ Clear(p) \/ Schedule(p)
  \/ \E f \in Files : Copy(p, f)

FinStep(p) ==
  \/ FinCheck(p) \/ FinOpen(p) \/ FinClear(p) \/ FinTar(p) \/ FinRemove(p) \/ FinComplete(p)
  \/ FinCancelled(p) \/ FinFails(p) \/ FinTimesOut(p)

\* What runs on the VM.
RemoteStep(p) == Sweep(p) \/ SweepEnds(p) \/ \E f \in Files : Extract(p, f)

RepoNext ==
  \/ \E p \in Pushes : Submit(p) \/ PushStep(p) \/ RemoteStep(p)
  \/ \E p \in Tracked : FinStep(p) \/ CancelSeen(p) \/ CancelMark(p) \/ CancelKill(p)
  \/ \E f \in Files : Edit(f)

RepoSpec == RepoInit /\ [][RepoNext]_pushVars

-----------------------------------------------------------------------------
(* Properties. *)

Idle == \A p \in Pushes : ~Active(p) /\ ~sweep[p]

\* The hash and the manifest on the VM never make a push leave out a file that it
\* would have to copy or delete.
RecordsMatch ==
  /\ \A P \in {Files, Included} : hash = Fingerprint(P) => \A f \in P : repo[f] = tree[f]
  /\ manifest # Nothing => \A f \in Files : manifest[f] = tree[f] => repo[f] = tree[f]

\* Whatever pushes, whole or partial, follow each other, whichever methods they
\* use and wherever they fail or are cancelled, they leave records that the next
\* push can rely on, as long as pushes, what they left running on the VM and edits
\* do not overlap, no best-effort write, removal or clearing falls short and no
\* delta fails that may have copied a file the records do not know; and an
\* undisturbed clearing that leaves nothing makes good what one of these has spoilt.
RecordsUsable == Idle /\ trusted => RecordsMatch

Completes(p) == Skip(p) \/ RecordHash(p) \/ FinComplete(p)

\* Under the same conditions "complete" is said only when the VM has what the local
\* tree has in the paths of the push, whenever a cancellation comes.
CompleteIsDelivered ==
  [][\A p \in Pushes : trusted /\ trusted' /\ Completes(p) =>
       \A f \in Paths(p) : repo'[f] = tree[f]]_pushVars

\* A push that is cancelled before its finalizer begins is remembered as
\* cancelled although its thread goes on writing other statuses: the repository
\* on the VM is not cleared.
CancelRemembered == \A p \in Tracked : early[p] => fin[p] \in {"none", "check"}

\* The entry a browser polls agrees with the threads, whatever fails and whenever
\* the push is cancelled: it does not say "under way" when nobody is at work any
\* more, unless a connection timed out in the finalizing thread, nor "complete" or
\* "error" while somebody is.
EntryTrue ==
  \A p \in Tracked :
    /\ status[p] = "working" => Active(p) \/ fin[p] = "lost"
    /\ status[p] = "over" => ~Active(p)
=============================================================================
