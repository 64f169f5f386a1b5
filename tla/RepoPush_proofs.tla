--------------------------- MODULE RepoPush_proofs ---------------------------
(***************************************************************************)
(* Theorems about RepoPush for any number of pushes, files and edits.      *)
(***************************************************************************)
EXTENDS RepoPush, TLAPS

\* The versions that exist so far.  An edit makes a new one, so what was recorded
\* of a file before it was edited never holds again by accident.
Known == 0 .. edits
KnownContents == [Files -> Known \cup {Absent}]
KnownPrints == UNION {[S -> Known] : S \in SUBSET Files}

TypeInv ==
  /\ edits \in 0 .. MaxEdits
  /\ tree \in KnownContents
  /\ repo \in KnownContents /\ manifest \in KnownContents
  /\ hash \in KnownPrints \cup {None}
  /\ at \in [Pushes -> Stages]
  /\ fell \in [Pushes -> BOOLEAN]
  /\ todo \in [Pushes -> SUBSET Files]
  /\ stale \in [Pushes -> SUBSET Files]
  /\ archive \in [Pushes -> KnownPrints \cup {None}]
  /\ sweep \in [Pushes -> BOOLEAN]
  /\ tar \in [Pushes -> KnownPrints]
  /\ fin \in [Pushes -> Phases]
  /\ digest \in [Pushes -> KnownPrints \cup {None}]
  /\ ctx \in [Pushes -> BOOLEAN]
  /\ status \in [Pushes -> Statuses]
  /\ requested \in [Pushes -> BOOLEAN]
  /\ canceller \in [Pushes -> {"none", "mark", "kill"}]
  /\ early \in [Pushes -> BOOLEAN] /\ calm \in BOOLEAN /\ trusted \in BOOLEAN
  /\ \A f \in Files \ Included : tree[f] # Absent

\* Where the threads of p are, and what they hold there.
Control(p) ==
  /\ at[p] # "idle" => fin[p] = "none"
  /\ fin[p] # "none" => p \in Tracked
  /\ at[p] = "schedule" => p \in Tracked
  /\ at[p] = "clear" => p \notin Tracked
  /\ at[p] \in {"schedule", "clear"} => archive[p] # None
  /\ fin[p] \in {"check", "open", "clear", "cleared"} => archive[p] # None \/ requested[p]
  /\ archive[p] # None => at[p] \in {"schedule", "clear", "extract"} \/ fin[p] \notin {"none", "lost"}
  /\ at[p] \notin {"mirror", "copy"} => todo[p] = {}
  /\ at[p] # "copy" => stale[p] = {}
  /\ at[p] \notin {"idle", "extract"} => ~sweep[p] /\ Remaining(p) = {}
  /\ fin[p] \notin {"none", "lost", "tar"} => Remaining(p) = {}
  /\ fin[p] \notin {"none", "lost", "cleared"} => ~sweep[p]
  /\ sweep[p] /\ at[p] = "extract" => archive[p] # None /\ tar[p] = archive[p]
  /\ ctx[p] => fin[p] \in {"clear", "cleared", "tar", "remove"}
  /\ canceller[p] = "kill" => requested[p]
  /\ early[p] => requested[p] /\ fin[p] \in {"none", "check"}

ControlInv == \A p \in Pushes : Control(p)

-----------------------------------------------------------------------------
(* Types. *)

LEMMA EmptyPrint == <<>> \in KnownPrints /\ DOMAIN <<>> = {}
<1>1. <<>> \in [{} -> Known]
  OBVIOUS
<1> QED BY <1>1 DEF KnownPrints

LEMMA PrintShape ==
  ASSUME NEW x \in KnownPrints
  PROVE  /\ DOMAIN x \in SUBSET Files
         /\ x \in [DOMAIN x -> Known]
         /\ \A f \in DOMAIN x : x[f] \in Known
BY DEF KnownPrints

LEMMA PrintRest ==
  ASSUME NEW x \in KnownPrints, NEW S \in SUBSET DOMAIN x
  PROVE  [g \in S |-> x[g]] \in KnownPrints
<1>1. DOMAIN x \in SUBSET Files /\ \A f \in DOMAIN x : x[f] \in Known
  BY PrintShape
<1>2. [g \in S |-> x[g]] \in [S -> Known] /\ S \in SUBSET Files
  BY <1>1
<1> QED BY <1>2 DEF KnownPrints

LEMMA PathsAreFiles == \A p \in Pushes : Paths(p) \in SUBSET Files
BY PushesAndFiles DEF Paths

LEMMA FingerprintIsPrint ==
  ASSUME TypeInv, NEW P \in SUBSET Files
  PROVE  /\ Fingerprint(P) \in KnownPrints
         /\ DOMAIN Fingerprint(P) = {f \in P : tree[f] # Absent}
         /\ \A f \in DOMAIN Fingerprint(P) : Fingerprint(P)[f] = tree[f]
<1>1. Fingerprint(P) \in [Present(P) -> Known]
  BY DEF TypeInv, KnownContents, Fingerprint, Present
<1> QED BY <1>1 DEF Fingerprint, Present, KnownPrints

LEMMA FingerprintIsNotNone ==
  ASSUME TypeInv, NEW P \in SUBSET Files
  PROVE  Fingerprint(P) # None
<1>1. Fingerprint(P) \in [Present(P) -> Known] /\ Present(P) \in SUBSET Files
  BY DEF TypeInv, KnownContents, Fingerprint, Present
<1>2. Known \subseteq Versions
  BY MaxEditsIsNat DEF TypeInv, Known, Versions
<1>3. Fingerprint(P) \in Prints
  BY <1>1, <1>2 DEF Prints
<1> QED BY <1>3, NoneIsNoPrint

LEMMA NothingIsKnown == Nothing \in KnownContents
BY DEF Nothing, KnownContents

LEMMA TypeInit == RepoInit => TypeInv
<1> SUFFICES ASSUME RepoInit PROVE TypeInv
  OBVIOUS
<1>1. edits = 0 /\ 0 \in Known
  BY MaxEditsIsNat DEF RepoInit, Known
<1>2. tree \in KnownContents /\ \A f \in Files : tree[f] # Absent
  BY <1>1, AbsentIsNoVersion DEF RepoInit, KnownContents
<1>3. tar \in [Pushes -> KnownPrints]
  BY EmptyPrint DEF RepoInit
<1>4. todo \in [Pushes -> SUBSET Files] /\ stale \in [Pushes -> SUBSET Files]
  BY DEF RepoInit
<1>5. at \in [Pushes -> Stages] /\ fin \in [Pushes -> Phases] /\ status \in [Pushes -> Statuses]
  BY DEF RepoInit, Stages, Phases, Statuses
<1>6. /\ archive \in [Pushes -> KnownPrints \cup {None}]
      /\ digest \in [Pushes -> KnownPrints \cup {None}]
  BY DEF RepoInit
<1>7. /\ fell \in [Pushes -> BOOLEAN] /\ sweep \in [Pushes -> BOOLEAN] /\ ctx \in [Pushes -> BOOLEAN]
      /\ requested \in [Pushes -> BOOLEAN] /\ early \in [Pushes -> BOOLEAN]
      /\ canceller \in [Pushes -> {"none", "mark", "kill"}]
  BY DEF RepoInit
<1>8. /\ repo \in KnownContents /\ manifest \in KnownContents /\ hash = None
      /\ calm \in BOOLEAN /\ trusted \in BOOLEAN
  BY NothingIsKnown, Zenon DEF RepoInit
<1>9. edits \in 0 .. MaxEdits
  BY <1>1, MaxEditsIsNat
<1> QED BY <1>1, <1>2, <1>3, <1>4, <1>5, <1>6, <1>7, <1>8, <1>9 DEF TypeInv

\* What a step leaves in each variable, as long as the local tree is not edited.
Typed ==
  /\ edits' = edits /\ tree' = tree
  /\ repo' \in KnownContents /\ manifest' \in KnownContents
  /\ hash' \in KnownPrints \cup {None}
  /\ at' \in [Pushes -> Stages] /\ fell' \in [Pushes -> BOOLEAN]
  /\ todo' \in [Pushes -> SUBSET Files] /\ stale' \in [Pushes -> SUBSET Files]
  /\ archive' \in [Pushes -> KnownPrints \cup {None}]
  /\ sweep' \in [Pushes -> BOOLEAN]
  /\ tar' \in [Pushes -> KnownPrints]
  /\ fin' \in [Pushes -> Phases]
  /\ digest' \in [Pushes -> KnownPrints \cup {None}]
  /\ ctx' \in [Pushes -> BOOLEAN]
  /\ status' \in [Pushes -> Statuses] /\ requested' \in [Pushes -> BOOLEAN]
  /\ canceller' \in [Pushes -> {"none", "mark", "kill"}]
  /\ early' \in [Pushes -> BOOLEAN] /\ calm' \in BOOLEAN /\ trusted' \in BOOLEAN

LEMMA TypedIsTyped == TypeInv /\ Typed => TypeInv'
<1> SUFFICES ASSUME TypeInv, Typed PROVE TypeInv'
  OBVIOUS
<1>1. KnownContents' = KnownContents /\ KnownPrints' = KnownPrints
  BY DEF Typed, KnownContents, KnownPrints, Known
<1> QED BY <1>1 DEF TypeInv, Typed

LEMMA TellTypes ==
  ASSUME TypeInv, NEW p \in Pushes, NEW s \in Statuses, Tell(p, s)
  PROVE  status' \in [Pushes -> Statuses]
BY DEF Tell, TypeInv

LEMMA MoveTypes ==
  ASSUME TypeInv, NEW p \in Pushes, NEW a, NEW b \in Stages, Move(p, a, b)
  PROVE  at' \in [Pushes -> Stages]
BY DEF Move, TypeInv

LEMMA StepTypes ==
  ASSUME TypeInv, NEW p \in Pushes, NEW a, NEW b \in Phases, Step(p, a, b)
  PROVE  fin' \in [Pushes -> Phases]
BY DEF Step, TypeInv

LEMMA TypeStep ==
  ASSUME TypeInv, ControlInv, RepoNext
  PROVE  TypeInv'
<1>1. ASSUME NEW p \in Pushes, Submit(p) PROVE Typed
  BY <1>1 DEF TypeInv, Typed, local, remote, plan, final, entry, history, Stages, Phases, Statuses, Move, Step, Tell, Submit, Interfere
<1>2. ASSUME NEW p \in Pushes, Connect(p) PROVE Typed
  BY <1>2 DEF TypeInv, Typed, local, remote, plan, final, entry, history, Stages, Phases, Statuses, Move, Step, Tell, Connect, KnownContents
<1>3. ASSUME NEW p \in Pushes, Fail(p) PROVE Typed
  BY <1>3, EmptyPrint DEF TypeInv, Typed, local, remote, plan, final, entry, history, Stages, Phases, Statuses, Move, Step, Tell, Fail
<1>4. ASSUME NEW p \in Pushes, Skip(p) PROVE Typed
  BY <1>4 DEF TypeInv, Typed, local, remote, plan, final, entry, history, Stages, Phases, Statuses, Move, Step, Tell, Skip
<1>5. ASSUME NEW p \in Pushes, ChooseSnapshot(p) PROVE Typed
  BY <1>5 DEF TypeInv, Typed, local, remote, plan, final, entry, history, Stages, Phases, Statuses, Move, Step, Tell, ChooseSnapshot
<1>6. ASSUME NEW p \in Pushes, ChooseDelta(p) PROVE Typed
  BY <1>6 DEF TypeInv, Typed, local, remote, plan, final, entry, history, Stages, Phases, Statuses, Move, Step, Tell, ChooseDelta
<1>7. ASSUME NEW p \in Pushes, Mirror(p) PROVE Typed
  BY <1>7, NothingIsKnown, PathsAreFiles DEF TypeInv, Typed, local, remote, plan, final, entry, history, Stages, Phases, Statuses, Move, Step, Tell, Mirror, Nothing, Present, KnownContents
<1>8. ASSUME NEW p \in Pushes, RsyncFails(p) PROVE Typed
  BY <1>8 DEF TypeInv, Typed, local, remote, plan, final, entry, history, Stages, Phases, Statuses, Move, Step, Tell, RsyncFails
<1>9. ASSUME NEW p \in Pushes, Plan(p) PROVE Typed
  BY <1>9, NothingIsKnown, PathsAreFiles DEF TypeInv, Typed, local, remote, plan, final, entry, history, Stages, Phases, Statuses, Move, Step, Tell, Plan, Present
<1>10. ASSUME NEW p \in Pushes, DeltaFails(p) PROVE Typed
  BY <1>10 DEF TypeInv, Typed, local, remote, plan, final, entry, history, Stages, Phases, Statuses, Move, Step, Tell, DeltaFails
<1>11. ASSUME NEW p \in Pushes, Tidy(p) PROVE Typed
  BY <1>11, PathsAreFiles DEF TypeInv, Typed, local, remote, plan, final, entry, history, Stages, Phases, Statuses, Move, Step, Tell, Tidy, KnownContents
<1>12. ASSUME NEW p \in Pushes, RecordHash(p) PROVE Typed
  <2>1. Fingerprint(Paths(p)) \in KnownPrints
    BY FingerprintIsPrint, PathsAreFiles
  <2>2. hash' \in KnownPrints \cup {None} /\ trusted' \in BOOLEAN
    BY <1>12, <2>1 DEF RecordHash, TypeInv
  <2> QED BY <1>12, <2>2 DEF TypeInv, Typed, local, remote, plan, final, entry, history, Stages, Phases, Statuses, Move, Step, Tell, RecordHash
<1>13. ASSUME NEW p \in Pushes, Pack(p) PROVE Typed
  BY <1>13, FingerprintIsPrint, PathsAreFiles DEF TypeInv, Typed, local, remote, plan, final, entry, history, Stages, Phases, Statuses, Move, Step, Tell, Pack
<1>14. ASSUME NEW p \in Pushes, Clear(p) PROVE Typed
  BY <1>14, NothingIsKnown DEF TypeInv, Typed, local, remote, plan, final, entry, history, Stages, Phases, Statuses, Move, Step, Tell, ControlInv, Control, Cancelled, Clear
<1>15. ASSUME NEW p \in Pushes, Schedule(p) PROVE Typed
  <2>1. Fingerprint(Paths(p)) \in KnownPrints
    BY FingerprintIsPrint, PathsAreFiles
  <2>2. /\ fin' \in [Pushes -> Phases] /\ status' \in [Pushes -> Statuses]
        /\ digest' \in [Pushes -> KnownPrints \cup {None}]
        /\ archive' \in [Pushes -> KnownPrints \cup {None}]
    BY <1>15, <2>1 DEF Schedule, TypeInv, Tell, Step, Phases, Statuses
  <2> QED BY <1>15, <2>2 DEF TypeInv, Typed, local, remote, plan, final, entry, history, Stages, Phases, Statuses, Move, Step, Tell, Schedule
<1>16. ASSUME NEW p \in Tracked, FinCheck(p) PROVE Typed
  BY <1>16, PushesAndFiles DEF TypeInv, Typed, local, remote, plan, final, entry, history, Stages, Phases, Statuses, Move, Step, Tell, FinCheck
<1>17. ASSUME NEW p \in Tracked, FinOpen(p) PROVE Typed
  BY <1>17, PushesAndFiles DEF TypeInv, Typed, local, remote, plan, final, entry, history, Stages, Phases, Statuses, Move, Step, Tell, FinOpen
<1>18. ASSUME NEW p \in Tracked, FinClear(p) PROVE Typed
  BY <1>18, NothingIsKnown, PushesAndFiles DEF TypeInv, Typed, local, remote, plan, final, entry, history, Stages, Phases, Statuses, Move, Step, Tell, FinClear
<1>19. ASSUME NEW p \in Tracked, FinTar(p) PROVE Typed
  BY <1>19, PushesAndFiles DEF TypeInv, Typed, local, remote, plan, final, entry, history, Stages, Phases, Statuses, Move, Step, Tell, ControlInv, Control, Cancelled, FinTar
<1>20. ASSUME NEW p \in Tracked, FinRemove(p) PROVE Typed
  BY <1>20, PushesAndFiles DEF TypeInv, Typed, local, remote, plan, final, entry, history, Stages, Phases, Statuses, Move, Step, Tell, FinRemove
<1>21. ASSUME NEW p \in Tracked, FinComplete(p) PROVE Typed
  BY <1>21, PushesAndFiles DEF TypeInv, Typed, local, remote, plan, final, entry, history, Stages, Phases, Statuses, Move, Step, Tell, FinComplete, End
<1>22. ASSUME NEW p \in Tracked, FinCancelled(p) PROVE Typed
  BY <1>22, PushesAndFiles DEF TypeInv, Typed, local, remote, plan, final, entry, history, Stages, Phases, Statuses, Move, Step, Tell, FinCancelled, End
<1>23. ASSUME NEW p \in Tracked, FinFails(p) PROVE Typed
  BY <1>23, EmptyPrint, PushesAndFiles DEF TypeInv, Typed, local, remote, plan, final, entry, history, Stages, Phases, Statuses, Move, Step, Tell, FinFails, MayFail, End
<1>24. ASSUME NEW p \in Tracked, CancelSeen(p) PROVE Typed
  BY <1>24, PushesAndFiles DEF TypeInv, Typed, local, remote, plan, final, entry, history, Stages, Phases, Statuses, Move, Step, Tell, CancelSeen
<1>25. ASSUME NEW p \in Tracked, CancelMark(p) PROVE Typed
  BY <1>25, PushesAndFiles DEF TypeInv, Typed, local, remote, plan, final, entry, history, Stages, Phases, Statuses, Move, Step, Tell, CancelMark
<1>26. ASSUME NEW p \in Tracked, CancelKill(p) PROVE Typed
  BY <1>26, EmptyPrint, PushesAndFiles DEF TypeInv, Typed, local, remote, plan, final, entry, history, Stages, Phases, Statuses, Move, Step, Tell, CancelKill
<1>27. ASSUME NEW p \in Pushes, NEW f \in Files, Copy(p, f) PROVE Typed
  BY <1>27 DEF TypeInv, Typed, local, remote, plan, final, entry, history, Stages, Phases, Statuses, Move, Step, Tell, Copy, KnownContents
<1>28. ASSUME NEW p \in Pushes, NEW f \in Files, Extract(p, f) PROVE Typed
  <2>1. [g \in Remaining(p) \ {f} |-> tar[p][g]] \in KnownPrints
    BY PrintRest DEF TypeInv, Remaining
  <2>2. tar[p][f] \in Known
    BY <1>28, PrintShape DEF TypeInv, Remaining, Extract
  <2>3. repo' \in KnownContents
    BY <1>28, <2>2 DEF TypeInv, KnownContents, Extract
  <2> QED BY <1>28, <2>1, <2>3 DEF TypeInv, Typed, local, remote, plan, final, entry, history, Extract
<1>29. ASSUME NEW f \in Files, Edit(f) PROVE TypeInv'
  <2>1. edits' = edits + 1 /\ edits' \in 0 .. MaxEdits
    BY <1>29, MaxEditsIsNat DEF TypeInv, Edit
  <2>2. Known \subseteq Known' /\ edits + 1 \in Known'
    BY <2>1, MaxEditsIsNat DEF TypeInv, Known
  <2>3. KnownContents \subseteq KnownContents' /\ KnownPrints \subseteq KnownPrints'
    BY <2>2 DEF KnownContents, KnownPrints
  <2>4. tree' \in KnownContents' /\ \A g \in Files \ Included : tree'[g] # Absent
    BY <1>29, <2>1, <2>2, AbsentIsNoVersion, MaxEditsIsNat DEF TypeInv, Edit, KnownContents
  <2>5. calm' \in BOOLEAN /\ trusted' \in BOOLEAN
    BY <1>29 DEF TypeInv, Edit, Interfere
  <2>6. UNCHANGED <<repo, manifest, hash, at, fell, todo, stale, archive, sweep, tar, fin, digest, ctx,
                    status, requested, canceller, early>>
    BY <1>29 DEF Edit, remote, plan, final, entry
  <2> QED BY <2>1, <2>3, <2>4, <2>5, <2>6 DEF TypeInv
<1>30. ASSUME NEW p \in Tracked, FinTimesOut(p) PROVE Typed
  BY <1>30, EmptyPrint, PushesAndFiles DEF TypeInv, Typed, local, remote, plan, final, entry, history, Stages, Phases, Statuses, Move, Step, Tell, FinTimesOut, MayFail, End
<1>31. ASSUME NEW p \in Pushes, Sweep(p) PROVE Typed
  BY <1>31, NothingIsKnown DEF TypeInv, Typed, local, plan, final, entry, history, Sweep, KnownContents
<1>32. ASSUME NEW p \in Pushes, SweepEnds(p) PROVE Typed
  BY <1>32 DEF TypeInv, Typed, local, remote, plan, final, entry, SweepEnds
<1> QED
  BY TypedIsTyped, <1>1, <1>2, <1>3, <1>4, <1>5, <1>6, <1>7, <1>8, <1>9, <1>10, <1>11, <1>12, <1>13, <1>14, <1>15, <1>16, <1>17, <1>18, <1>19, <1>20, <1>21, <1>22, <1>23, <1>24, <1>25, <1>26, <1>27, <1>28, <1>29, <1>30, <1>31, <1>32 DEF RepoNext, PushStep, FinStep, RemoteStep

\* What exists is a version the specification speaks of.
LEMMA TypeCorrect == TypeInv => RepoTypeOK
<1> SUFFICES ASSUME TypeInv PROVE RepoTypeOK
  OBVIOUS
<1>1. Known \subseteq Versions
  BY MaxEditsIsNat DEF TypeInv, Known, Versions
<1>2. KnownContents \subseteq Contents
  BY <1>1 DEF KnownContents, Contents
<1>3. KnownPrints \subseteq Prints
  BY <1>1 DEF KnownPrints, Prints
<1> QED BY <1>2, <1>3 DEF TypeInv, RepoTypeOK

-----------------------------------------------------------------------------
(* Control. *)

LEMMA ControlInit == RepoInit => ControlInv
<1> SUFFICES ASSUME RepoInit, NEW p \in Pushes PROVE Control(p)
  BY DEF ControlInv
<1>1. tar[p] = <<>> /\ Remaining(p) = {}
  BY EmptyPrint DEF RepoInit, Remaining
<1> QED BY <1>1 DEF RepoInit, Control

LEMMA ControlStep ==
  ASSUME TypeInv, ControlInv, RepoNext
  PROVE  ControlInv'
<1>1. ASSUME NEW p \in Pushes, Submit(p) PROVE ControlInv'
  BY <1>1 DEF TypeInv, ControlInv, Control, Remaining, local, remote, plan, final, entry, history, Move, Step, Submit, Writing, Active
<1>2. ASSUME NEW p \in Pushes, Connect(p) PROVE ControlInv'
  BY <1>2 DEF TypeInv, ControlInv, Control, Remaining, local, remote, plan, final, entry, history, Move, Step, Connect
<1>3. ASSUME NEW p \in Pushes, Fail(p) PROVE ControlInv'
  BY <1>3, EmptyPrint DEF TypeInv, ControlInv, Control, Remaining, local, remote, plan, final, entry, history, Move, Step, Fail
<1>4. ASSUME NEW p \in Pushes, Skip(p) PROVE ControlInv'
  BY <1>4 DEF TypeInv, ControlInv, Control, Remaining, local, remote, plan, final, entry, history, Move, Step, Skip
<1>5. ASSUME NEW p \in Pushes, ChooseSnapshot(p) PROVE ControlInv'
  BY <1>5 DEF TypeInv, ControlInv, Control, Remaining, local, remote, plan, final, entry, history, Move, Step, ChooseSnapshot
<1>6. ASSUME NEW p \in Pushes, ChooseDelta(p) PROVE ControlInv'
  BY <1>6 DEF TypeInv, ControlInv, Control, Remaining, local, remote, plan, final, entry, history, Move, Step, ChooseDelta
<1>7. ASSUME NEW p \in Pushes, Mirror(p) PROVE ControlInv'
  BY <1>7 DEF TypeInv, ControlInv, Control, Remaining, local, remote, plan, final, entry, history, Move, Step, Mirror
<1>8. ASSUME NEW p \in Pushes, RsyncFails(p) PROVE ControlInv'
  BY <1>8 DEF TypeInv, ControlInv, Control, Remaining, local, remote, plan, final, entry, history, Move, Step, RsyncFails
<1>9. ASSUME NEW p \in Pushes, Plan(p) PROVE ControlInv'
  BY <1>9 DEF TypeInv, ControlInv, Control, Remaining, local, remote, plan, final, entry, history, Move, Step, Plan
<1>10. ASSUME NEW p \in Pushes, DeltaFails(p) PROVE ControlInv'
  BY <1>10 DEF TypeInv, ControlInv, Control, Remaining, local, remote, plan, final, entry, history, Move, Step, DeltaFails
<1>11. ASSUME NEW p \in Pushes, Tidy(p) PROVE ControlInv'
  BY <1>11 DEF TypeInv, ControlInv, Control, Remaining, local, remote, plan, final, entry, history, Move, Step, Tidy
<1>12. ASSUME NEW p \in Pushes, RecordHash(p) PROVE ControlInv'
  BY <1>12 DEF TypeInv, ControlInv, Control, Remaining, local, remote, plan, final, entry, history, Move, Step, RecordHash
<1>13. ASSUME NEW p \in Pushes, Pack(p) PROVE ControlInv'
  BY <1>13, FingerprintIsNotNone, PathsAreFiles DEF TypeInv, ControlInv, Control, Remaining, local, remote, plan, final, entry, history, Move, Step, Pack
<1>14. ASSUME NEW p \in Pushes, Clear(p) PROVE ControlInv'
  BY <1>14 DEF TypeInv, ControlInv, Control, Remaining, local, remote, plan, final, entry, history, Move, Step, Clear
<1>15. ASSUME NEW p \in Pushes, Schedule(p) PROVE ControlInv'
  BY <1>15 DEF TypeInv, ControlInv, Control, Remaining, local, remote, plan, final, entry, history, Move, Step, Schedule
<1>16. ASSUME NEW p \in Tracked, FinCheck(p) PROVE ControlInv'
  BY <1>16, PushesAndFiles DEF TypeInv, ControlInv, Control, Remaining, local, remote, plan, final, entry, history, Move, Step, FinCheck, Cancelled
<1>17. ASSUME NEW p \in Tracked, FinOpen(p) PROVE ControlInv'
  BY <1>17, PushesAndFiles DEF TypeInv, ControlInv, Control, Remaining, local, remote, plan, final, entry, history, Move, Step, FinOpen, Cancelled
<1>18. ASSUME NEW p \in Tracked, FinClear(p) PROVE ControlInv'
  BY <1>18, PushesAndFiles DEF TypeInv, ControlInv, Control, Remaining, local, remote, plan, final, entry, history, Move, Step, FinClear
<1>19. ASSUME NEW p \in Tracked, FinTar(p) PROVE ControlInv'
  BY <1>19, PushesAndFiles DEF TypeInv, ControlInv, Control, Remaining, local, remote, plan, final, entry, history, Move, Step, FinTar, Cancelled
<1>20. ASSUME NEW p \in Tracked, FinRemove(p) PROVE ControlInv'
  BY <1>20, PushesAndFiles DEF TypeInv, ControlInv, Control, Remaining, local, remote, plan, final, entry, history, Move, Step, FinRemove, Cancelled
<1>21. ASSUME NEW p \in Tracked, FinComplete(p) PROVE ControlInv'
  BY <1>21, PushesAndFiles DEF TypeInv, ControlInv, Control, Remaining, local, remote, plan, final, entry, history, Move, Step, FinComplete, End
<1>22. ASSUME NEW p \in Tracked, FinCancelled(p) PROVE ControlInv'
  BY <1>22, PushesAndFiles DEF TypeInv, ControlInv, Control, Remaining, local, remote, plan, final, entry, history, Move, Step, FinCancelled, End, Cancelled
<1>23. ASSUME NEW p \in Tracked, FinFails(p) PROVE ControlInv'
  BY <1>23, EmptyPrint, PushesAndFiles DEF TypeInv, ControlInv, Control, Remaining, local, remote, plan, final, entry, history, Move, Step, FinFails, MayFail, End
<1>24. ASSUME NEW p \in Tracked, CancelSeen(p) PROVE ControlInv'
  BY <1>24, PushesAndFiles DEF TypeInv, ControlInv, Control, Remaining, local, remote, plan, final, entry, history, Move, Step, CancelSeen
<1>25. ASSUME NEW p \in Tracked, CancelMark(p) PROVE ControlInv'
  BY <1>25, PushesAndFiles DEF TypeInv, ControlInv, Control, Remaining, local, remote, plan, final, entry, history, Move, Step, CancelMark
<1>26. ASSUME NEW p \in Tracked, CancelKill(p) PROVE ControlInv'
  BY <1>26, EmptyPrint, PushesAndFiles DEF TypeInv, ControlInv, Control, Remaining, local, remote, plan, final, entry, history, Move, Step, CancelKill
<1>27. ASSUME NEW p \in Pushes, NEW f \in Files, Copy(p, f) PROVE ControlInv'
  BY <1>27 DEF TypeInv, ControlInv, Control, Remaining, local, remote, plan, final, entry, history, Move, Step, Copy
<1>28. ASSUME NEW p \in Pushes, NEW f \in Files, Extract(p, f) PROVE ControlInv'
  BY <1>28 DEF TypeInv, ControlInv, Control, Remaining, local, remote, plan, final, entry, history, Move, Step, Extract
<1>29. ASSUME NEW f \in Files, Edit(f) PROVE ControlInv'
  BY <1>29 DEF TypeInv, ControlInv, Control, Remaining, local, remote, plan, final, entry, history, Move, Step, Edit
<1>30. ASSUME NEW p \in Tracked, FinTimesOut(p) PROVE ControlInv'
  BY <1>30, EmptyPrint, PushesAndFiles DEF TypeInv, ControlInv, Control, Remaining, local, remote, plan, final, entry, history, FinTimesOut, MayFail, End
<1>31. ASSUME NEW p \in Pushes, Sweep(p) PROVE ControlInv'
  BY <1>31 DEF TypeInv, ControlInv, Control, Remaining, local, remote, plan, final, entry, history, Sweep
<1>32. ASSUME NEW p \in Pushes, SweepEnds(p) PROVE ControlInv'
  BY <1>32 DEF TypeInv, ControlInv, Control, Remaining, local, remote, plan, final, entry, history, SweepEnds
<1> QED
  BY <1>1, <1>2, <1>3, <1>4, <1>5, <1>6, <1>7, <1>8, <1>9, <1>10, <1>11, <1>12, <1>13, <1>14, <1>15, <1>16, <1>17, <1>18, <1>19, <1>20, <1>21, <1>22, <1>23, <1>24, <1>25, <1>26, <1>27, <1>28, <1>29, <1>30, <1>31, <1>32 DEF RepoNext, PushStep, FinStep, RemoteStep

-----------------------------------------------------------------------------
(* Records. *)

\* Nobody but p writes on the VM.
Alone(p) == \A q \in Pushes : Writing(q) => q = p

\* What p holds of the local tree is what is there now.
Fresh(p) ==
  /\ Active(p) /\ archive[p] # None => archive[p] = Fingerprint(Paths(p))
  /\ fin[p] \notin {"none", "lost"} => digest[p] = Fingerprint(Paths(p))

CalmInv == calm => \A p \in Pushes : Writing(p) => Alone(p) /\ Fresh(p)

\* A delta may have copied f already.
Fetching(f) == \E p \in Pushes : at[p] = "copy" /\ f \in Paths(p) /\ tree[f] # Absent

\* A record that says that f has version v misleads nobody: f does, or v is not
\* what is wanted, and never will be again.
Recorded(f, v) ==
  IF v = Absent THEN repo[f] = Absent \/ Fetching(f)
                ELSE repo[f] = v \/ tree[f] # v

HashSays(f) == IF f \in DOMAIN hash THEN hash[f] ELSE Absent

HashTells ==
  hash = None \/ \E P \in {Files, Included} :
    DOMAIN hash \subseteq P /\ \A f \in P : Recorded(f, HashSays(f))

ManifestTells == manifest = Nothing \/ \A f \in Files : Recorded(f, manifest[f])

\* While the repository is mirrored or extracted there are no records; while it is
\* being cleared there is nothing to rely on.
NoRecords(p) ==
  /\ ~sweep[p]
  /\ at[p] \in {"mirror", "extract"} \/ fin[p] \in {"cleared", "tar", "remove"} \/ Remaining(p) # {}
  => hash = None /\ manifest = Nothing

\* What f shall be on the VM when p is complete.
Target(p, f) == IF f \in Paths(p) THEN tree[f] ELSE Absent

Delivering(p) ==
  /\ ~sweep[p]
  /\ \/ at[p] \in {"mirror", "copy", "tidied", "extract"}
     \/ fin[p] = "tar" /\ ~requested[p]
     \/ fin[p] = "remove"

\* What p has not dealt with yet it will.
Due(p, f) ==
  /\ f \in todo[p] \/ f \in stale[p] \/ f \in Remaining(p) \/ repo[f] = Target(p, f)
  /\ f \in todo[p] => f \in Paths(p) /\ tree[f] # Absent
  /\ f \in stale[p] => Target(p, f) = Absent
  /\ f \in Remaining(p) => Target(p, f) = tar[p][f]

Delivery(p) ==
  /\ fin[p] = "cleared" /\ ~sweep[p] => repo = Nothing
  /\ Delivering(p) => \A f \in Files : Due(p, f)

RecordInv ==
  trusted =>
    /\ (\A p \in Pushes : ~sweep[p]) =>
         ManifestTells /\ ((\A p \in Pushes : at[p] # "tidied") => HashTells)
    /\ \A p \in Pushes : Writing(p) => calm /\ NoRecords(p) /\ Delivery(p)

LEMMA DataInit == RepoInit => CalmInv /\ RecordInv
BY DEF RepoInit, CalmInv, RecordInv, ManifestTells, HashTells, Writing, Active, Remaining

\* The threads of the others rest.
OthersRest(p) ==
  \A q \in Pushes \ {p} :
    /\ at'[q] = at[q] /\ fin'[q] = fin[q]
    /\ sweep'[q] = sweep[q] /\ tar'[q] = tar[q]

LEMMA StaysAlone ==
  ASSUME NEW p \in Pushes, Alone(p), OthersRest(p)
  PROVE  Alone(p)'
BY DEF Alone, OthersRest, Writing, Active, Remaining

\* The records tell the truth when p rests, and while it works but for the time
\* between the two.
Tells(p) == ~sweep[p] => ManifestTells /\ (at[p] # "tidied" => HashTells)

\* It is enough to look at p.
LEMMA CalmStep ==
  ASSUME NEW p \in Pushes, calm' => Alone(p)' /\ Fresh(p)'
  PROVE  CalmInv'
BY DEF CalmInv, Alone

LEMMA RecordStep ==
  ASSUME NEW p \in Pushes,
         trusted' => /\ calm' /\ Alone(p)'
                     /\ Tells(p)'
                     /\ NoRecords(p)' /\ Delivery(p)'
  PROVE  RecordInv'
BY DEF RecordInv, Alone, Tells

\* The records tell the truth as long as nobody touches them, the local tree or
\* the repository.
LEMMA RecordsRest ==
  ASSUME UNCHANGED <<tree, repo, manifest, hash>>,
         \A q \in Pushes : at[q] = "copy" => at'[q] = "copy"
  PROVE  (ManifestTells => ManifestTells') /\ (HashTells => HashTells')
<1>1. \A f : Fetching(f) => Fetching(f)'
  BY DEF Fetching, Paths
<1>2. \A f, v : Recorded(f, v) => Recorded(f, v)'
  BY <1>1 DEF Recorded
<1>3. \A f : HashSays(f)' = HashSays(f)
  BY DEF HashSays
<1> QED BY <1>2, <1>3 DEF ManifestTells, HashTells

\* A step that only moves p on.
Quiet(p) ==
  /\ UNCHANGED <<tree, repo, manifest, hash, calm, trusted>>
  /\ OthersRest(p)
  /\ sweep'[p] = sweep[p]
  /\ at[p] \in {"copy", "tidied"} => at'[p] = at[p]
  /\ at[p] # "tidied" => at'[p] # "tidied"
  /\ Writing(p)
  /\ Fresh(p) => Fresh(p)'
  /\ Fresh(p) /\ NoRecords(p) /\ Delivery(p) => NoRecords(p)' /\ Delivery(p)'

LEMMA QuietStep ==
  ASSUME CalmInv, RecordInv, NEW p \in Pushes, Quiet(p)
  PROVE  CalmInv' /\ RecordInv'
<1>1. calm => Alone(p) /\ Fresh(p)
  BY DEF CalmInv, Quiet
<1>2. CalmInv'
  BY <1>1, StaysAlone, CalmStep DEF Quiet
<1>3. ASSUME trusted PROVE RecordInv'
  <2>1. calm /\ NoRecords(p) /\ Delivery(p) /\ Alone(p)
    BY <1>1, <1>3 DEF RecordInv, Quiet
  <2>2. \A q \in Pushes : at[q] = "copy" => at'[q] = "copy"
    BY DEF Quiet, OthersRest
  <2>3. /\ at'[p] # "tidied" => \A q \in Pushes : at[q] # "tidied"
        /\ ~sweep'[p] => \A q \in Pushes : ~sweep[q]
    BY <2>1 DEF Quiet, Alone, Writing, Active
  <2>4. Tells(p)'
    BY <1>3, <2>2, <2>3, RecordsRest DEF RecordInv, Quiet, Tells
  <2> QED BY <1>1, <2>1, <2>4, StaysAlone, RecordStep DEF Quiet
<1>4. ASSUME ~trusted PROVE RecordInv'
  BY <1>4 DEF RecordInv, Quiet
<1> QED BY <1>2, <1>3, <1>4

-----------------------------------------------------------------------------
(* Steps. *)

LEMMA SamePrint ==
  ASSUME tree' = tree, NEW P
  PROVE  Fingerprint(P)' = Fingerprint(P)
BY DEF Fingerprint, Present

LEMMA QuietSteps ==
  ASSUME TypeInv, ControlInv, NEW p \in Pushes,
         \/ Skip(p) \/ ChooseSnapshot(p) \/ ChooseDelta(p) \/ RsyncFails(p) \/ Fail(p) \/ Pack(p) \/ Schedule(p)
         \/ FinCheck(p) \/ FinOpen(p) \/ FinTar(p) \/ FinRemove(p) \/ FinCancelled(p) \/ FinFails(p) \/ FinTimesOut(p)
  PROVE  Quiet(p)
<1>1. Control(p)
  BY DEF ControlInv
<1>2. \A q \in Pushes : Paths(q) \in SUBSET Files
  BY PathsAreFiles
<1>3. CASE Skip(p)
  BY <1>1, <1>3, SamePrint DEF TypeInv, Control, Quiet, OthersRest, Writing, Active, Fresh, NoRecords, Delivery, Delivering, Due, Target, Remaining, local, remote, plan, final, entry, history, Move, Step, Skip
<1>4. CASE ChooseSnapshot(p)
  BY <1>1, <1>4, SamePrint DEF TypeInv, Control, Quiet, OthersRest, Writing, Active, Fresh, NoRecords, Delivery, Delivering, Due, Target, Remaining, local, remote, plan, final, entry, history, Move, Step, ChooseSnapshot
<1>5. CASE ChooseDelta(p)
  BY <1>1, <1>5, SamePrint DEF TypeInv, Control, Quiet, OthersRest, Writing, Active, Fresh, NoRecords, Delivery, Delivering, Due, Target, Remaining, local, remote, plan, final, entry, history, Move, Step, ChooseDelta
<1>6. CASE RsyncFails(p)
  BY <1>1, <1>6, SamePrint DEF TypeInv, Control, Quiet, OthersRest, Writing, Active, Fresh, NoRecords, Delivery, Delivering, Due, Target, Remaining, local, remote, plan, final, entry, history, Move, Step, RsyncFails
<1>7. CASE Fail(p)
  BY <1>1, <1>7, EmptyPrint, SamePrint DEF TypeInv, Control, Quiet, OthersRest, Writing, Active, Fresh, NoRecords, Delivery, Delivering, Due, Target, Remaining, local, remote, plan, final, entry, history, Move, Step, Fail
<1>8. CASE Pack(p)
  BY <1>1, <1>8, SamePrint DEF TypeInv, Control, Quiet, OthersRest, Writing, Active, Fresh, NoRecords, Delivery, Delivering, Due, Target, Remaining, local, remote, plan, final, entry, history, Move, Step, Pack
<1>9. CASE Schedule(p)
  BY <1>1, <1>9, SamePrint DEF TypeInv, Control, Quiet, OthersRest, Writing, Active, Fresh, NoRecords, Delivery, Delivering, Due, Target, Remaining, local, remote, plan, final, entry, history, Move, Step, Schedule
<1>10. CASE FinCheck(p)
  BY <1>1, <1>10, SamePrint DEF TypeInv, Control, Quiet, OthersRest, Writing, Active, Fresh, NoRecords, Delivery, Delivering, Due, Target, Remaining, local, remote, plan, final, entry, history, Move, Step, FinCheck, Cancelled
<1>11. CASE FinOpen(p)
  BY <1>1, <1>11, SamePrint DEF TypeInv, Control, Quiet, OthersRest, Writing, Active, Fresh, NoRecords, Delivery, Delivering, Due, Target, Remaining, local, remote, plan, final, entry, history, Move, Step, FinOpen, Cancelled
<1>12. CASE FinTar(p)
  <2>1. /\ at'[p] = at[p] /\ at[p] = "idle" /\ fin'[p] = "tar" /\ fin[p] = "cleared"
        /\ tar'[p] = archive[p] /\ archive[p] # None /\ archive' = archive
        /\ ~sweep[p]
        /\ UNCHANGED <<tree, repo, manifest, hash, calm, trusted, todo, stale, digest, sweep>>
    BY <1>1, <1>12 DEF TypeInv, Control, FinTar, Cancelled, local, remote, plan, history, Step
  <2>2. OthersRest(p)
    BY <1>12 DEF TypeInv, OthersRest, FinTar, Step
  <2>3. Fresh(p) => Fresh(p)' /\ tar'[p] = Fingerprint(Paths(p))
    BY <2>1, SamePrint DEF Fresh, Active
  <2>4. NoRecords(p) => NoRecords(p)'
    BY <2>1 DEF NoRecords
  <2>5. ASSUME tar'[p] = Fingerprint(Paths(p)), repo = Nothing, NEW f \in Files
        PROVE  Due(p, f)'
    <3>1. /\ Remaining(p)' = {g \in Paths(p) : tree[g] # Absent}
          /\ \A g \in Remaining(p)' : tar'[p][g] = tree[g]
      BY <1>2, <2>5, FingerprintIsPrint DEF Remaining
    <3>2. todo'[p] = {} /\ stale'[p] = {} /\ repo'[f] = Absent
      BY <1>1, <2>1, <2>5 DEF Control, Nothing
    <3> QED BY <2>1, <3>1, <3>2 DEF Due, Target
  <2> QED BY <2>1, <2>2, <2>3, <2>4, <2>5 DEF Quiet, Writing, Active, Delivery
<1>13. CASE FinRemove(p)
  BY <1>1, <1>13, SamePrint DEF TypeInv, Control, Quiet, OthersRest, Writing, Active, Fresh, NoRecords, Delivery, Delivering, Due, Target, Remaining, local, remote, plan, final, entry, history, Move, Step, FinRemove, Cancelled
<1>14. CASE FinCancelled(p)
  BY <1>1, <1>14, SamePrint DEF TypeInv, Control, Quiet, OthersRest, Writing, Active, Fresh, NoRecords, Delivery, Delivering, Due, Target, Remaining, local, remote, plan, final, entry, history, Move, Step, FinCancelled, End
<1>15. CASE FinFails(p)
  BY <1>1, <1>15, EmptyPrint, SamePrint DEF TypeInv, Control, Quiet, OthersRest, Writing, Active, Fresh, NoRecords, Delivery, Delivering, Due, Target, Remaining, local, remote, plan, final, entry, history, Move, Step, FinFails, MayFail, End
<1>16. CASE FinTimesOut(p)
  BY <1>1, <1>16, EmptyPrint, SamePrint DEF TypeInv, Control, Quiet, OthersRest, Writing, Active, Fresh, NoRecords, Delivery, Delivering, Due, Target, Remaining, local, remote, plan, final, entry, history, Move, Step, FinTimesOut, MayFail, End
<1> QED BY <1>3, <1>4, <1>5, <1>6, <1>7, <1>8, <1>9, <1>10, <1>11, <1>12, <1>13, <1>14, <1>15, <1>16

\* A cancel request changes what a finalizer will do, and may end its tar.
LEMMA CancelSteps ==
  ASSUME TypeInv, ControlInv, CalmInv, RecordInv, NEW p \in Pushes,
         CancelSeen(p) \/ CancelMark(p) \/ CancelKill(p)
  PROVE  CalmInv' /\ RecordInv'
<1>1. Control(p)
  BY DEF ControlInv
<1>2. /\ UNCHANGED <<tree, repo, manifest, hash, calm, trusted, at, fin, todo, stale, digest, sweep>>
      /\ \A q \in Pushes \ {p} : /\ archive'[q] = archive[q] /\ tar'[q] = tar[q]
                                 /\ requested'[q] = requested[q]
      /\ tar'[p] = tar[p] \/ tar'[p] = <<>>
      /\ archive'[p] = archive[p] \/ archive'[p] = None
      /\ requested'[p] = requested[p] \/ requested'[p]
      /\ tar'[p] # tar[p] => fin[p] \notin {"none", "lost"} /\ requested[p] /\ requested'[p]
  <2>1. CASE CancelSeen(p)
    BY <2>1 DEF CancelSeen, local, remote, plan, final, entry, history
  <2>2. CASE CancelMark(p)
    BY <2>2 DEF CancelMark, TypeInv, local, remote, plan, final
  <2>3. CASE CancelKill(p)
    BY <1>1, <2>3 DEF CancelKill, Control, TypeInv, local, remote, plan, final, entry, history
  <2> QED BY <2>1, <2>2, <2>3
<1>3. CASE Writing(p)
  <2>1. OthersRest(p)
    BY <1>2 DEF OthersRest
  <2>2. Fresh(p) => Fresh(p)'
    BY <1>2, SamePrint DEF Fresh, Active
  <2>3. Delivery(p) => Delivery(p)'
    BY <1>1, <1>2, EmptyPrint DEF Delivery, Delivering, Due, Target, Remaining, Control
  <2>4. NoRecords(p) => NoRecords(p)'
    BY <1>2, EmptyPrint DEF NoRecords, Remaining
  <2>5. Quiet(p)
    BY <1>2, <1>3, <2>1, <2>2, <2>3, <2>4 DEF Quiet
  <2> QED BY <2>5, QuietStep
<1>4. CASE ~Writing(p)
  <2>1. \A q \in Pushes : tar'[q] = tar[q]
    BY <1>2, <1>4 DEF Writing, Active
  <2>2. \A q \in Pushes : /\ Writing(q)' <=> Writing(q)
                          /\ Writing(q) => q # p
    BY <1>2, <1>4, <2>1 DEF Writing, Active, Remaining
  <2>3. \A q \in Pushes : Alone(q) => Alone(q)'
    BY <2>2 DEF Alone
  <2>4. \A q \in Pushes \ {p} : Fresh(q) => Fresh(q)'
    BY <1>2, SamePrint DEF Fresh, Active
  <2>5. CalmInv'
    BY <1>2, <2>2, <2>3, <2>4 DEF CalmInv
  <2>6. \A q \in Pushes \ {p} : Delivery(q) => Delivery(q)'
    BY <1>2, <2>1 DEF Delivery, Delivering, Due, Target, Remaining
  <2>7. \A q \in Pushes \ {p} : NoRecords(q) => NoRecords(q)'
    BY <1>2, <2>1 DEF NoRecords, Remaining
  <2>8. (ManifestTells => ManifestTells') /\ (HashTells => HashTells')
    BY <1>2, RecordsRest
  <2>9. RecordInv'
    BY <1>2, <2>2, <2>6, <2>7, <2>8 DEF RecordInv
  <2> QED BY <2>5, <2>9
<1> QED BY <1>3, <1>4

\* The records tell the truth, and p does what it has still to do.
Truth(p) ==
  /\ Tells(p)
  /\ NoRecords(p) /\ Delivery(p)

\* A step of a push that changes what is on the VM.
LEMMA DataStep ==
  ASSUME CalmInv, RecordInv, NEW p \in Pushes, Writing(p), OthersRest(p), calm' = calm,
         Fresh(p) => Fresh(p)',
         trusted' => trusted \/ calm,
         trusted' /\ Alone(p) /\ Fresh(p) /\ (trusted => Truth(p)) => Truth(p)'
  PROVE  CalmInv' /\ RecordInv'
<1>1. calm => Alone(p) /\ Fresh(p)
  BY DEF CalmInv
<1>2. CalmInv'
  BY <1>1, StaysAlone, CalmStep
<1>3. ASSUME trusted' PROVE RecordInv'
  <2>1. calm /\ Alone(p) /\ Fresh(p)
    BY <1>1, <1>3 DEF RecordInv
  <2>2. trusted => Truth(p)
    BY <2>1 DEF RecordInv, Truth, Tells, Alone, Writing, Active
  <2>3. Truth(p)'
    BY <1>3, <2>1, <2>2
  <2> QED BY <2>1, <2>3, StaysAlone, RecordStep DEF Truth, Tells
<1>4. ASSUME ~trusted' PROVE RecordInv'
  BY <1>4 DEF RecordInv
<1> QED BY <1>2, <1>3, <1>4

LEMMA NotFetching ==
  ASSUME NEW p \in Pushes, Alone(p), at[p] # "copy"
  PROVE  \A f : ~Fetching(f)
BY DEF Alone, Fetching, Writing, Active

LEMMA RecordsStep ==
  ASSUME TypeInv, UNCHANGED <<manifest, hash>>,
         \A f \in Files, v \in Known \cup {Absent} : Recorded(f, v) => Recorded(f, v)'
  PROVE  (ManifestTells => ManifestTells') /\ (HashTells => HashTells')
<1>1. \A f \in Files : manifest[f] \in Known \cup {Absent}
  BY DEF TypeInv, KnownContents
<1>2. ASSUME hash # None PROVE \A f : HashSays(f) \in Known \cup {Absent}
  BY <1>2, PrintShape DEF TypeInv, HashSays
<1>3. \A f : HashSays(f)' = HashSays(f)
  BY DEF HashSays
<1>4. ManifestTells => ManifestTells'
  BY <1>1 DEF ManifestTells
<1>5. ASSUME HashTells, hash # None PROVE HashTells'
  <2>1. PICK P \in {Files, Included} : DOMAIN hash \subseteq P /\ \A f \in P : Recorded(f, HashSays(f))
    BY <1>5 DEF HashTells
  <2>2. \A f \in P : Recorded(f, HashSays(f))'
    BY <1>2, <1>3, <1>5, <2>1, PushesAndFiles
  <2> QED BY <2>1, <2>2 DEF HashTells
<1> QED BY <1>4, <1>5 DEF HashTells

\* No records, no lies.
LEMMA WipedTells ==
  ASSUME hash' = None, manifest' = Nothing
  PROVE  ManifestTells' /\ HashTells'
BY DEF ManifestTells, HashTells, Nothing

LEMMA ConnectStep ==
  ASSUME TypeInv, ControlInv, CalmInv, RecordInv, NEW p \in Pushes, Connect(p)
  PROVE  CalmInv' /\ RecordInv'
<1>1. Control(p)
  BY DEF ControlInv
<1>2. /\ at[p] = "connect" /\ at'[p] = "compare"
      /\ UNCHANGED <<tree, manifest, hash, calm, trusted, fin, sweep, tar, archive, digest>>
      /\ OthersRest(p) /\ Writing(p) /\ ~sweep[p]
      /\ repo' = [f \in Files |-> IF f \in Packs /\ tree[f] = Absent THEN Absent ELSE repo[f]]
  BY <1>1 DEF Control, Connect, TypeInv, Move, OthersRest, Writing, Active, local, plan, final, history
<1>3. Fresh(p) => Fresh(p)'
  BY <1>2, SamePrint DEF Fresh, Active
<1>4. ASSUME Alone(p), Truth(p) PROVE Truth(p)'
  <2>1. \A f : ~Fetching(f)
    BY <1>2, <1>4, NotFetching
  <2>2. \A f \in Files, v \in Known \cup {Absent} : Recorded(f, v) => Recorded(f, v)'
    BY <1>2, <2>1 DEF Recorded
  <2>3. ManifestTells' /\ HashTells'
    BY <1>2, <1>4, <2>2, RecordsStep DEF Truth, Tells
  <2>4. NoRecords(p)' /\ Delivery(p)'
    BY <1>1, <1>2 DEF NoRecords, Delivery, Delivering, Control, Remaining
  <2> QED BY <2>3, <2>4 DEF Truth, Tells
<1> QED BY <1>2, <1>3, <1>4, DataStep

LEMMA MirrorStep ==
  ASSUME TypeInv, ControlInv, CalmInv, RecordInv, NEW p \in Pushes, Mirror(p)
  PROVE  CalmInv' /\ RecordInv'
<1>1. Control(p)
  BY DEF ControlInv
<1>2. /\ at[p] = "compare" /\ at'[p] = "mirror" /\ hash' = None /\ manifest' = Nothing
      /\ UNCHANGED <<tree, calm, trusted, fin, stale, sweep, tar, archive, digest>>
      /\ OthersRest(p) /\ Writing(p)
      /\ repo' = [f \in Files |-> IF f \in Present(Paths(p)) THEN repo[f] ELSE Absent]
      /\ todo'[p] = {f \in Present(Paths(p)) : repo[f] # tree[f]}
  BY DEF Mirror, TypeInv, Move, OthersRest, Writing, Active, local, final, history
<1>3. Fresh(p) => Fresh(p)'
  BY <1>2, SamePrint DEF Fresh, Active
<1>4. ManifestTells' /\ HashTells'
  BY <1>2, WipedTells
<1>5. fin'[p] = "none" /\ stale'[p] = {} /\ Remaining(p)' = {}
  BY <1>1, <1>2 DEF Control, Remaining
<1>6. \A f \in Files : Due(p, f)'
  BY <1>2, <1>5 DEF Due, Target, Present
<1>7. Truth(p)'
  BY <1>2, <1>4, <1>5, <1>6 DEF Truth, Tells, NoRecords, Delivery
<1> QED BY <1>2, <1>3, <1>7, DataStep

LEMMA CopyStep ==
  ASSUME TypeInv, ControlInv, CalmInv, RecordInv, NEW p \in Pushes, NEW f \in Files, Copy(p, f)
  PROVE  CalmInv' /\ RecordInv'
<1>1. Control(p)
  BY DEF ControlInv
<1>2. /\ at[p] \in {"mirror", "copy"} /\ f \in todo[p]
      /\ UNCHANGED <<tree, manifest, hash, calm, trusted, at, fin, stale, sweep, tar, archive, digest>>
      /\ OthersRest(p) /\ Writing(p) /\ ~sweep[p]
      /\ repo' = [repo EXCEPT ![f] = IF tree[f] = Absent THEN @ ELSE tree[f]]
      /\ todo'[p] = todo[p] \ {f}
  BY <1>1 DEF Control, Copy, TypeInv, OthersRest, Writing, Active, local, final, history
<1>3. Fresh(p) => Fresh(p)'
  BY <1>2, SamePrint DEF Fresh, Active
<1>4. ASSUME Truth(p) PROVE Truth(p)'
  <2>1. f \in Paths(p) /\ tree[f] # Absent /\ repo'[f] = tree[f] /\ \A g \in Files \ {f} : repo'[g] = repo[g]
    BY <1>2, <1>4 DEF Truth, Tells, Delivery, Delivering, Due, TypeInv, KnownContents
  <2>2. ASSUME at[p] = "copy" PROVE ManifestTells' /\ HashTells'
    <3>1. \A g : Fetching(g) => Fetching(g)'
      BY <1>2 DEF Fetching
    <3>2. Fetching(f)'
      BY <1>2, <2>1, <2>2 DEF Fetching
    <3>3. \A g \in Files, v \in Known \cup {Absent} : Recorded(g, v) => Recorded(g, v)'
      BY <1>2, <2>1, <3>1, <3>2 DEF Recorded
    <3> QED BY <1>2, <1>4, <2>2, <3>3, RecordsStep DEF Truth, Tells
  <2>3. ASSUME at[p] = "mirror" PROVE ManifestTells' /\ HashTells'
    BY <1>2, <1>4, <2>3, WipedTells DEF Truth, Tells, NoRecords
  <2>4. \A g \in Files : Due(p, g)'
    BY <1>2, <1>4, <2>1 DEF Truth, Tells, Delivery, Delivering, Due, Target, Remaining
  <2>5. NoRecords(p)' /\ Delivery(p)'
    BY <1>1, <1>2, <1>4, <2>4 DEF Truth, Tells, NoRecords, Delivery, Control, Remaining
  <2> QED BY <1>2, <2>2, <2>3, <2>5 DEF Truth, Tells
<1> QED BY <1>2, <1>3, <1>4, DataStep

LEMMA PlanStep ==
  ASSUME TypeInv, ControlInv, CalmInv, RecordInv, NEW p \in Pushes, Plan(p)
  PROVE  CalmInv' /\ RecordInv'
<1>1. Control(p)
  BY DEF ControlInv
<1>2. PICK m \in {manifest, repo, Nothing} :
      /\ at[p] = "plan" /\ at'[p] = "copy"
      /\ UNCHANGED <<tree, repo, hash, calm, trusted, fin, sweep, tar, archive, digest>>
      /\ OthersRest(p) /\ Writing(p) /\ ~sweep[p]
      /\ manifest' = IF m = Nothing THEN manifest ELSE m
      /\ todo'[p] = {f \in Present(Paths(p)) : m = Nothing \/ p \in Partial \/ m[f] # tree[f]}
      /\ stale'[p] = {f \in Files \ Present(Paths(p)) :
                        (IF m = Nothing THEN repo ELSE m)[f] # Absent}
  BY <1>1 DEF Control, Plan, TypeInv, Move, OthersRest, Writing, Active, local, final, history
<1>3. Fresh(p) => Fresh(p)'
  BY <1>2, SamePrint DEF Fresh, Active
<1>4. ASSUME Alone(p), Truth(p) PROVE Truth(p)'
  <2>1. \A f : ~Fetching(f)
    BY <1>2, <1>4, NotFetching
  <2>2. \A f, v : Recorded(f, v) => Recorded(f, v)'
    BY <1>2, <2>1 DEF Recorded
  <2>3. \A f \in Files : m # Nothing => Recorded(f, m[f])
    BY <1>2, <1>4 DEF Truth, Tells, ManifestTells, Recorded
  <2>4. ManifestTells'
    BY <1>2, <1>4, <2>2, <2>3 DEF Truth, Tells, ManifestTells, Nothing
  <2>5. HashTells'
    <3>1. \A f : HashSays(f)' = HashSays(f)
      BY <1>2 DEF HashSays
    <3> QED BY <1>2, <1>4, <2>2, <3>1 DEF Truth, Tells, HashTells
  <2>6. Remaining(p)' = {} /\ fin'[p] = "none"
    BY <1>1, <1>2 DEF Control, Remaining
  <2>7. \A f \in Files : Due(p, f)'
    BY <1>2, <2>1, <2>3, <2>6 DEF Due, Target, Present, Recorded
  <2> QED BY <1>2, <2>4, <2>5, <2>6, <2>7 DEF Truth, Tells, NoRecords, Delivery
<1> QED BY <1>2, <1>3, <1>4, DataStep

LEMMA DeltaFailsStep ==
  ASSUME TypeInv, ControlInv, CalmInv, RecordInv, NEW p \in Pushes, DeltaFails(p)
  PROVE  CalmInv' /\ RecordInv'
<1>1. Control(p)
  BY DEF ControlInv
<1>2. /\ at[p] \in {"plan", "copy"} /\ at'[p] \in {"idle", "pack"}
      /\ trusted' = (trusted /\ ~(at[p] = "copy" /\ Unrecorded(p)))
      /\ UNCHANGED <<tree, repo, manifest, hash, calm, fin, sweep, tar, archive, digest>>
      /\ OthersRest(p) /\ Writing(p) /\ ~sweep[p]
      /\ todo'[p] = {} /\ stale'[p] = {}
  BY <1>1 DEF Control, DeltaFails, TypeInv, OthersRest, Writing, Active, local, remote, final
<1>3. Fresh(p) => Fresh(p)'
  BY <1>2, SamePrint DEF Fresh, Active
<1>4. ASSUME Alone(p), Truth(p), trusted' PROVE Truth(p)'
  <2>1. \A f : Fetching(f) => at[p] = "copy" /\ f \in Present(Paths(p))
    BY <1>4, PathsAreFiles DEF Fetching, Alone, Writing, Active, Present
  <2>2. ASSUME NEW f, Fetching(f)
        PROVE  (hash # None => f \in DOMAIN hash) /\ (manifest # Nothing => manifest[f] # Absent)
    BY <1>2, <1>4, <2>1, <2>2 DEF Unrecorded
  <2>3. ManifestTells'
    BY <1>2, <1>4, <2>2 DEF Truth, Tells, ManifestTells, Recorded
  <2>4. ASSUME hash # None PROVE HashTells'
    <3>1. PICK P \in {Files, Included} : DOMAIN hash \subseteq P /\ \A f \in P : Recorded(f, HashSays(f))
      BY <1>2, <1>4, <2>4 DEF Truth, Tells, HashTells
    <3>2. \A f : HashSays(f)' = HashSays(f)
      BY <1>2 DEF HashSays
    <3>3. \A f : f \in DOMAIN hash => HashSays(f) # Absent
      BY <2>4, PrintShape, AbsentIsNoVersion DEF TypeInv, HashSays, Known
    <3>4. \A f \in P : Recorded(f, HashSays(f))'
      BY <1>2, <2>2, <2>4, <3>1, <3>2, <3>3 DEF Recorded
    <3> QED BY <1>2, <3>1, <3>4 DEF HashTells
  <2>5. HashTells'
    BY <1>2, <2>4 DEF HashTells
  <2>6. NoRecords(p)' /\ Delivery(p)'
    BY <1>1, <1>2 DEF NoRecords, Delivery, Delivering, Control, Remaining
  <2> QED BY <2>3, <2>5, <2>6 DEF Truth, Tells
<1> QED BY <1>2, <1>3, <1>4, DataStep

LEMMA TidyStep ==
  ASSUME TypeInv, ControlInv, CalmInv, RecordInv, NEW p \in Pushes, Tidy(p)
  PROVE  CalmInv' /\ RecordInv'
<1>1. Control(p)
  BY DEF ControlInv
<1> DEFINE new == [f \in Files |-> IF f \in Paths(p) THEN tree[f] ELSE Absent]
<1>2. PICK gone \in SUBSET stale[p], m \in {manifest, new} :
      /\ at[p] = "copy" /\ at'[p] = "tidied" /\ todo[p] = {}
      /\ repo' = [f \in Files |-> IF f \in gone THEN Absent ELSE repo[f]]
      /\ manifest' = m
      /\ trusted' = (trusted /\ gone = stale[p] /\ m = new)
      /\ UNCHANGED <<tree, hash, calm, fin, todo, sweep, tar, archive, digest>>
      /\ OthersRest(p) /\ Writing(p) /\ ~sweep[p]
      /\ stale'[p] = {}
  BY <1>1 DEF Control, Tidy, TypeInv, Move, OthersRest, Writing, Active, local, final
<1>3. Fresh(p) => Fresh(p)'
  BY <1>2, SamePrint DEF Fresh, Active
<1>4. ASSUME Truth(p), trusted' PROVE Truth(p)'
  <2>1. gone = stale[p] /\ manifest' = new
    BY <1>2, <1>4
  <2>2. Remaining(p) = {} /\ Remaining(p)' = {} /\ fin'[p] = "none"
    BY <1>1, <1>2 DEF Control, Remaining
  <2>3. \A f \in Files : repo'[f] = Target(p, f)
    BY <1>2, <1>4, <2>1, <2>2 DEF Truth, Tells, Delivery, Delivering, Due
  <2>4. ManifestTells'
    BY <1>2, <2>1, <2>3 DEF ManifestTells, Recorded, Target
  <2>5. \A f \in Files : Due(p, f)'
    BY <1>2, <2>2, <2>3 DEF Due, Target
  <2> QED BY <1>2, <2>2, <2>4, <2>5 DEF Truth, Tells, NoRecords, Delivery
<1> QED BY <1>2, <1>3, <1>4, DataStep

\* All that p had to do is done.
LEMMA Delivered ==
  ASSUME NEW p \in Pushes, Control(p), Delivery(p), Delivering(p), todo[p] = {}, Remaining(p) = {},
         at[p] # "copy"
  PROVE  \A f \in Files : repo[f] = Target(p, f)
BY DEF Control, Delivery, Due

\* Then the local tree's print is a true record.
LEMMA PrintTells ==
  ASSUME TypeInv, NEW p \in Pushes, \A f \in Files : repo[f] = Target(p, f),
         UNCHANGED <<tree, repo>>, hash' = Fingerprint(Paths(p))
  PROVE  HashTells'
<1> DEFINE P == Paths(p)
<1>1. P \in {Files, Included} /\ P \subseteq Files
  BY PushesAndFiles DEF Paths
<1>2. /\ DOMAIN hash' = {f \in P : tree[f] # Absent}
      /\ \A f \in DOMAIN hash' : hash'[f] = tree[f]
  BY <1>1, FingerprintIsPrint
<1>3. \A f \in P : Recorded(f, HashSays(f))'
  BY <1>1, <1>2 DEF Recorded, HashSays, Target
<1> QED BY <1>1, <1>2, <1>3 DEF HashTells

LEMMA RecordHashStep ==
  ASSUME TypeInv, ControlInv, CalmInv, RecordInv, NEW p \in Pushes, RecordHash(p)
  PROVE  CalmInv' /\ RecordInv'
<1>1. Control(p)
  BY DEF ControlInv
<1>2. /\ at[p] \in {"mirror", "tidied", "extract"} /\ at'[p] = "idle"
      /\ todo[p] = {} /\ Remaining(p) = {}
      /\ hash' \in {hash, Fingerprint(Paths(p))}
      /\ trusted' = (trusted /\ (hash' = Fingerprint(Paths(p)) \/ hash' = None))
      /\ UNCHANGED <<tree, repo, manifest, calm, fin, todo, sweep, tar, digest>>
      /\ ~sweep[p]
      /\ archive'[p] = None
      /\ OthersRest(p) /\ Writing(p)
  BY DEF RecordHash, TypeInv, OthersRest, Writing, Active, local, final
<1>3. Fresh(p) => Fresh(p)'
  BY <1>2, SamePrint DEF Fresh, Active
<1>4. ASSUME Alone(p), Truth(p), trusted' PROVE Truth(p)'
  <2>1. \A f \in Files : repo[f] = Target(p, f)
    BY <1>1, <1>2, <1>4, Delivered DEF Truth, Tells, Delivering
  <2>2. HashTells'
    BY <1>2, <1>4, <2>1, PrintTells DEF HashTells
  <2>3. \A f : ~Fetching(f)
    BY <1>2, <1>4, NotFetching
  <2>4. ManifestTells'
    BY <1>2, <1>4, <2>3 DEF Truth, Tells, ManifestTells, Recorded
  <2>5. NoRecords(p)' /\ Delivery(p)'
    BY <1>1, <1>2 DEF NoRecords, Delivery, Delivering, Control, Remaining
  <2> QED BY <2>2, <2>4, <2>5 DEF Truth, Tells
<1> QED BY <1>2, <1>3, <1>4, DataStep

\* A clearing begins: nothing is to be relied on until it is over.
LEMMA ClearStep ==
  ASSUME TypeInv, ControlInv, CalmInv, RecordInv, NEW p \in Pushes, Clear(p) \/ FinClear(p)
  PROVE  CalmInv' /\ RecordInv'
<1>1. Control(p)
  BY DEF ControlInv
<1>2. /\ UNCHANGED <<tree, calm, trusted, archive, digest>>
      /\ sweep'[p] = TRUE
      /\ at[p] = "idle" <=> at'[p] = "idle"
      /\ fin[p] \in {"none", "lost"} <=> fin'[p] \in {"none", "lost"}
      /\ OthersRest(p) /\ Writing(p)
  BY DEF Clear, FinClear, TypeInv, Move, Step, OthersRest, Writing, Active, local, plan, final, history
<1>3. Fresh(p) => Fresh(p)'
  BY <1>2, SamePrint DEF Fresh, Active
<1>4. Truth(p)'
  BY <1>2 DEF Truth, Tells, NoRecords, Delivery, Delivering
<1> QED BY <1>2, <1>3, <1>4, DataStep

LEMMA SweepStep ==
  ASSUME TypeInv, ControlInv, CalmInv, RecordInv, NEW p \in Pushes, Sweep(p)
  PROVE  CalmInv' /\ RecordInv'
<1>1. /\ sweep[p] /\ sweep'[p]
      /\ UNCHANGED <<tree, calm, trusted, at, fin, archive, digest>>
      /\ OthersRest(p) /\ Writing(p)
  BY DEF Sweep, OthersRest, Writing, local, plan, final, history
<1>2. Fresh(p) => Fresh(p)'
  BY <1>1, SamePrint DEF Fresh, Active
<1>3. Truth(p)'
  BY <1>1 DEF Truth, Tells, NoRecords, Delivery, Delivering
<1> QED BY <1>1, <1>2, <1>3, DataStep

\* The clearing has left nothing, or nobody trusts what it left.
LEMMA SweepEndsStep ==
  ASSUME TypeInv, ControlInv, CalmInv, RecordInv, NEW p \in Pushes, SweepEnds(p)
  PROVE  CalmInv' /\ RecordInv'
<1>1. Control(p)
  BY DEF ControlInv
<1>2. /\ sweep[p] /\ sweep'[p] = FALSE
      /\ trusted' = (Bare /\ (trusted \/ calm))
      /\ UNCHANGED <<tree, repo, manifest, hash, calm, at, fin, todo, stale, archive, tar, digest>>
      /\ OthersRest(p) /\ Writing(p)
  BY DEF SweepEnds, TypeInv, OthersRest, Writing, local, remote, plan, final
<1>3. Fresh(p) => Fresh(p)'
  BY <1>2, SamePrint DEF Fresh, Active
<1>4. ASSUME trusted', Fresh(p) PROVE Truth(p)'
  <2>1. repo' = Nothing /\ manifest' = Nothing /\ hash' = None
    BY <1>2, <1>4 DEF Bare
  <2>2. Tells(p)' /\ NoRecords(p)'
    BY <2>1, WipedTells DEF Tells, NoRecords
  <2>3. at[p] \in {"idle", "extract"} /\ fin[p] \in {"none", "lost", "cleared"}
    BY <1>1, <1>2 DEF Control
  <2>4. ASSUME at[p] = "extract", NEW f \in Files PROVE Due(p, f)'
    <3>1. tar'[p] = Fingerprint(Paths(p))
      BY <1>1, <1>2, <1>4, <2>4 DEF Control, Fresh, Active
    <3>2. /\ Remaining(p)' = {g \in Paths(p) : tree[g] # Absent}
          /\ \A g \in Remaining(p)' : tar'[p][g] = tree[g]
      BY <3>1, FingerprintIsPrint, PathsAreFiles DEF Remaining
    <3>3. todo'[p] = {} /\ stale'[p] = {} /\ repo'[f] = Absent
      BY <1>1, <1>2, <2>1, <2>4 DEF Control, Nothing
    <3> QED BY <1>2, <3>2, <3>3 DEF Due, Target
  <2>5. Delivery(p)'
    BY <1>2, <2>1, <2>3, <2>4 DEF Delivery, Delivering
  <2> QED BY <2>2, <2>5 DEF Truth
<1> QED BY <1>2, <1>3, <1>4, DataStep

LEMMA ExtractStep ==
  ASSUME TypeInv, ControlInv, CalmInv, RecordInv, NEW p \in Pushes, NEW f \in Files, Extract(p, f)
  PROVE  CalmInv' /\ RecordInv'
<1>1. Control(p)
  BY DEF ControlInv
<1>2. /\ f \in Remaining(p)
      /\ repo' = [repo EXCEPT ![f] = tar[p][f]]
      /\ tar'[p] = [g \in Remaining(p) \ {f} |-> tar[p][g]]
      /\ UNCHANGED <<tree, manifest, hash, calm, trusted, at, fin, todo, stale, sweep, archive, digest, requested>>
      /\ ~sweep[p]
      /\ OthersRest(p) /\ Writing(p)
  BY DEF Extract, TypeInv, OthersRest, Writing, Active, local, plan, final, entry, history
<1>3. Fresh(p) => Fresh(p)'
  BY <1>2, SamePrint DEF Fresh, Active
<1>4. ASSUME Truth(p) PROVE Truth(p)'
  <2>1. hash' = None /\ manifest' = Nothing
    BY <1>2, <1>4 DEF Truth, Tells, NoRecords
  <2>2. /\ Remaining(p)' = Remaining(p) \ {f}
        /\ \A g \in Remaining(p)' : tar'[p][g] = tar[p][g]
    BY <1>2 DEF Remaining
  <2>3. /\ repo'[f] = tar[p][f] /\ \A g \in Files \ {f} : repo'[g] = repo[g]
        /\ fin[p] # "cleared"
    BY <1>1, <1>2 DEF TypeInv, KnownContents, Control
  <2>4. ASSUME Delivering(p)' PROVE \A g \in Files : Due(p, g)'
    <3>1. \A g \in Files : Due(p, g)
      BY <1>2, <1>4, <2>4 DEF Delivering, Truth, Delivery
    <3> QED BY <1>2, <2>2, <2>3, <3>1 DEF Due, Target
  <2>5. Delivery(p)'
    BY <1>2, <2>3, <2>4 DEF Delivery
  <2> QED BY <2>1, <2>5, WipedTells DEF Truth, Tells, NoRecords
<1> QED BY <1>2, <1>3, <1>4, DataStep

LEMMA FinCompleteStep ==
  ASSUME TypeInv, ControlInv, CalmInv, RecordInv, NEW p \in Pushes, FinComplete(p)
  PROVE  CalmInv' /\ RecordInv'
<1>1. Control(p)
  BY DEF ControlInv
<1>2. /\ fin[p] = "remove" /\ fin'[p] = "none" /\ ~sweep[p]
      /\ hash' \in {hash, digest[p]}
      /\ trusted' = (trusted /\ (hash' = digest[p] \/ hash' = None))
      /\ UNCHANGED <<tree, repo, manifest, calm, at, todo, stale, sweep, tar>>
      /\ archive'[p] = None
      /\ OthersRest(p) /\ Writing(p)
  BY <1>1 DEF Control, FinComplete, End, TypeInv, OthersRest, Writing, Active, local, plan
<1>3. Fresh(p) => Fresh(p)'
  BY <1>2 DEF Fresh
<1>4. ASSUME Alone(p), Fresh(p), Truth(p), trusted' PROVE Truth(p)'
  <2>1. \A f \in Files : repo[f] = Target(p, f)
    BY <1>1, <1>2, <1>4, Delivered DEF Truth, Tells, Delivering, Control
  <2>2. HashTells'
    BY <1>2, <1>4, <2>1, PrintTells DEF HashTells, Fresh
  <2>3. manifest' = Nothing
    BY <1>2, <1>4 DEF Truth, Tells, NoRecords
  <2>4. NoRecords(p)' /\ Delivery(p)'
    BY <1>1, <1>2 DEF NoRecords, Delivery, Delivering, Control, Remaining
  <2> QED BY <2>2, <2>3, <2>4 DEF Truth, Tells, ManifestTells, Nothing
<1> QED BY <1>2, <1>3, <1>4, DataStep

\* A push that begins while another writes, or an edit, makes nobody trust what is
\* there; else they find everything at rest.
LEMMA SubmitStep ==
  ASSUME TypeInv, ControlInv, CalmInv, RecordInv, NEW p \in Pushes, Submit(p)
  PROVE  CalmInv' /\ RecordInv'
<1>1. CASE \E q \in Pushes : Writing(q)
  BY <1>1 DEF Submit, Interfere, CalmInv, RecordInv
<1>2. CASE \A q \in Pushes : ~Writing(q)
  <2>1. /\ at'[p] = "connect" /\ calm' /\ OthersRest(p)
        /\ UNCHANGED <<tree, repo, manifest, hash, trusted, todo, stale, sweep, tar, archive, digest>>
        /\ fin'[p] = "none"
    BY <1>2 DEF Submit, TypeInv, Move, OthersRest, local, remote, plan, final
  <2>2. /\ \A q \in Pushes : at[q] = "idle" /\ ~sweep[q]
        /\ Remaining(p) = {} /\ archive[p] = None
    BY <1>2 DEF Writing, Active, ControlInv, Control
  <2>3. Alone(p)' /\ Fresh(p)'
    BY <1>2, <2>1, <2>2 DEF Alone, OthersRest, Writing, Active, Remaining, Fresh
  <2>4. trusted => ManifestTells' /\ HashTells'
    BY <2>1, <2>2, RecordsRest DEF RecordInv
  <2>5. ~trusted \/ (Tells(p)' /\ NoRecords(p)' /\ Delivery(p)')
    BY <2>1, <2>2, <2>4 DEF Tells, NoRecords, Delivery, Delivering, Remaining
  <2> QED BY <2>1, <2>3, <2>5, CalmStep, RecordStep
<1> QED BY <1>1, <1>2

LEMMA EditStep ==
  ASSUME TypeInv, ControlInv, CalmInv, RecordInv, NEW f \in Files, Edit(f)
  PROVE  CalmInv' /\ RecordInv'
<1>1. CASE \E q \in Pushes : Writing(q)
  BY <1>1 DEF Edit, Interfere, CalmInv, RecordInv
<1>2. CASE \A q \in Pushes : ~Writing(q)
  <2>1. UNCHANGED <<repo, manifest, hash, calm, trusted, at, fin, sweep, tar>>
    BY <1>2 DEF Edit, Interfere, remote, plan, final
  <2>2. \A q \in Pushes : ~Writing(q)' /\ at[q] = "idle" /\ ~sweep[q]
    BY <1>2, <2>1 DEF Writing, Active, Remaining
  <2>3. \A g : ~Fetching(g)
    BY <2>2 DEF Fetching
  <2>4. ASSUME NEW g \in Files, NEW v \in Known \cup {Absent}, Recorded(g, v)
        PROVE  Recorded(g, v)'
    <3>1. tree'[g] # tree[g] => tree'[g] \in {edits + 1, Absent}
      BY DEF Edit, TypeInv, KnownContents
    <3>2. v # edits + 1
      BY MaxEditsIsNat, AbsentIsNoVersion DEF TypeInv, Known
    <3> QED BY <2>1, <2>3, <2>4, <3>1, <3>2 DEF Recorded
  <2>5. trusted => ManifestTells' /\ HashTells'
    BY <2>1, <2>2, <2>4, RecordsStep DEF RecordInv
  <2> QED BY <2>1, <2>2, <2>5 DEF CalmInv, RecordInv
<1> QED BY <1>1, <1>2

-----------------------------------------------------------------------------
(* Theorems. *)

PushInv == TypeInv /\ ControlInv /\ CalmInv /\ RecordInv

LEMMA PushInvStep == PushInv /\ [RepoNext]_pushVars => PushInv'
<1> SUFFICES ASSUME PushInv, [RepoNext]_pushVars PROVE PushInv'
  OBVIOUS
<1> USE DEF PushInv
<1>1. CASE UNCHANGED pushVars
  <2>1. /\ UNCHANGED <<edits, tree, repo, manifest, hash, at, fell, todo, stale, archive, sweep, tar, fin>>
        /\ UNCHANGED <<digest, ctx, status, requested, canceller, early, calm, trusted>>
    BY <1>1 DEF pushVars, local, remote, plan, final, entry, history
  <2>2. TypeInv'
    BY <2>1 DEF TypeInv, Known, KnownContents, KnownPrints
  <2>3. ControlInv'
    BY <2>1 DEF ControlInv, Control, Remaining
  <2>4. \A p : /\ Writing(p)' <=> Writing(p)
               /\ Alone(p)' <=> Alone(p)
               /\ Fresh(p)' <=> Fresh(p)
    BY <2>1, SamePrint DEF Writing, Active, Remaining, Alone, Fresh
  <2>5. CalmInv'
    BY <2>1, <2>4 DEF CalmInv
  <2>6. (ManifestTells => ManifestTells') /\ (HashTells => HashTells')
    BY <2>1, RecordsRest
  <2>7. \A p : (NoRecords(p) => NoRecords(p)') /\ (Delivery(p) => Delivery(p)')
    BY <2>1 DEF NoRecords, Delivery, Delivering, Due, Target, Remaining
  <2>8. RecordInv'
    BY <2>1, <2>4, <2>6, <2>7 DEF RecordInv
  <2> QED BY <2>2, <2>3, <2>5, <2>8
<1>2. ASSUME RepoNext PROVE PushInv'
  <2>1. TypeInv' /\ ControlInv'
    BY <1>2, TypeStep, ControlStep
  <2>2. ASSUME NEW p \in Pushes, PushStep(p) PROVE CalmInv' /\ RecordInv'
    BY <2>2, QuietSteps, QuietStep, ConnectStep, MirrorStep, CopyStep, PlanStep, DeltaFailsStep,
       TidyStep, RecordHashStep, ClearStep DEF PushStep
  <2>3. ASSUME NEW p \in Tracked, FinStep(p) PROVE CalmInv' /\ RecordInv'
    BY <2>3, PushesAndFiles, QuietSteps, QuietStep, ClearStep, FinCompleteStep DEF FinStep
  <2>4. ASSUME NEW p \in Tracked, CancelSeen(p) \/ CancelMark(p) \/ CancelKill(p)
        PROVE  CalmInv' /\ RecordInv'
    BY <2>4, PushesAndFiles, CancelSteps
  <2>5. ASSUME NEW p \in Pushes, Submit(p) \/ RemoteStep(p)
        PROVE  CalmInv' /\ RecordInv'
    BY <2>5, SubmitStep, SweepStep, SweepEndsStep, ExtractStep DEF RemoteStep
  <2> QED BY <1>2, <2>1, <2>2, <2>3, <2>4, <2>5, EditStep DEF RepoNext
<1> QED BY <1>1, <1>2

LEMMA PushInvHolds == RepoSpec => []PushInv
<1>1. RepoInit => PushInv
  BY TypeInit, ControlInit, DataInit DEF PushInv
<1> QED BY <1>1, PushInvStep, PTL DEF RepoSpec

\* Every variable keeps its type.
THEOREM RepoTypes == RepoSpec => []RepoTypeOK
BY PushInvHolds, TypeCorrect, PTL DEF PushInv

\* Whatever statuses its threads write meanwhile, a push that was cancelled before
\* its finalizer began does not clear the repository on the VM.
THEOREM CancelStands == RepoSpec => []CancelRemembered
<1>1. PushInv => CancelRemembered
  BY PushesAndFiles DEF PushInv, ControlInv, Control, CancelRemembered
<1> QED BY <1>1, PushInvHolds, PTL

\* What a hash that tells the truth says of the local tree.
LEMMA PrintMeans ==
  ASSUME TypeInv, HashTells, \A f : ~Fetching(f), NEW P \in {Files, Included}, hash = Fingerprint(P)
  PROVE  \A f \in P : repo[f] = tree[f]
<1>1. Included \subseteq Files
  BY PushesAndFiles
<1>2. /\ hash # None /\ DOMAIN hash = {f \in P : tree[f] # Absent}
      /\ \A f \in DOMAIN hash : hash[f] = tree[f]
  BY <1>1, FingerprintIsNotNone, FingerprintIsPrint
<1>3. PICK Q \in {Files, Included} : DOMAIN hash \subseteq Q /\ \A f \in Q : Recorded(f, HashSays(f))
  BY <1>2 DEF HashTells
<1>4. P \subseteq Q
  BY <1>1, <1>2, <1>3 DEF TypeInv
<1> QED BY <1>2, <1>3, <1>4 DEF Recorded, HashSays

\* When all pushes rest, no record on the VM makes the next one leave out a file that
\* it would have to copy or delete; what an overlap, an edit, a lost record or a
\* clearing that falls short has spoilt, an undisturbed clearing that leaves nothing
\* makes good.
THEOREM RecordsCanBeUsed == RepoSpec => []RecordsUsable
<1>1. ASSUME PushInv, Idle, trusted PROVE RecordsMatch
  <2>1. \A p \in Pushes : at[p] = "idle" /\ ~sweep[p]
    BY <1>1 DEF Idle, Active
  <2>2. \A f : ~Fetching(f)
    BY <2>1 DEF Fetching
  <2>3. ManifestTells /\ HashTells
    BY <1>1, <2>1 DEF PushInv, RecordInv
  <2>4. \A P \in {Files, Included} : hash = Fingerprint(P) => \A f \in P : repo[f] = tree[f]
    BY <1>1, <2>2, <2>3, PrintMeans DEF PushInv
  <2>5. manifest # Nothing => \A f \in Files : manifest[f] = tree[f] => repo[f] = tree[f]
    BY <2>2, <2>3 DEF ManifestTells, Recorded
  <2> QED BY <2>4, <2>5 DEF RecordsMatch
<1>2. PushInv => RecordsUsable
  BY <1>1 DEF RecordsUsable
<1> QED BY <1>2, PushInvHolds, PTL

\* A push that nothing disturbs and that says it is complete has delivered the local
\* tree, whether it copied, extracted or skipped it.
THEOREM CompletionIsDelivery == RepoSpec => CompleteIsDelivered
<1>1. ASSUME PushInv, [RepoNext]_pushVars,
             NEW p \in Pushes, trusted, trusted', Completes(p), NEW f \in Paths(p)
      PROVE  repo'[f] = tree[f]
  <2>1. Control(p) /\ TypeInv
    BY <1>1 DEF PushInv, ControlInv
  <2>2. Writing(p) /\ repo' = repo
    BY <1>1 DEF Completes, Skip, RecordHash, FinComplete, Move, Writing, Active, remote
  <2>3. Alone(p) /\ Fresh(p) /\ Truth(p)
    BY <1>1, <2>2 DEF PushInv, CalmInv, RecordInv, Truth, Tells, Alone, Writing, Active
  <2>4. CASE Skip(p)
    <3>1. hash = Fingerprint(Paths(p)) /\ at[p] = "compare" /\ ~sweep[p]
      BY <2>1, <2>4 DEF Skip, Move, Control
    <3>2. \A g : ~Fetching(g)
      BY <2>3, <3>1, NotFetching
    <3>3. Paths(p) \in {Files, Included}
      BY DEF Paths
    <3> QED BY <1>1, <2>1, <2>2, <2>3, <3>1, <3>2, <3>3, PrintMeans DEF Truth, Tells
  <2>5. CASE RecordHash(p) \/ FinComplete(p)
    <3>1. Delivering(p) /\ todo[p] = {} /\ Remaining(p) = {} /\ at[p] # "copy"
      BY <2>1, <2>5 DEF RecordHash, FinComplete, Cancelled, Delivering, Control
    <3>2. \A g \in Files : repo[g] = Target(p, g)
      BY <2>1, <2>3, <3>1, Delivered DEF Truth, Tells
    <3> QED BY <1>1, <2>2, <3>2, PathsAreFiles DEF Target
  <2> QED BY <1>1, <2>4, <2>5 DEF Completes
<1>2. PushInv /\ [RepoNext]_pushVars =>
        [\A p \in Pushes : trusted /\ trusted' /\ Completes(p) =>
           \A f \in Paths(p) : repo'[f] = tree[f]]_pushVars
  BY <1>1
<1> QED BY <1>2, PushInvHolds, PTL DEF RepoSpec, CompleteIsDelivered
-----------------------------------------------------------------------------
(* The progress entry. *)

LEMMA EntryStep ==
  ASSUME TypeInv, ControlInv, EntryTrue, RepoNext
  PROVE  EntryTrue'
<1>1. \A p \in Pushes : Control(p)
  BY DEF ControlInv
<1>2. Tracked \subseteq Pushes
  BY PushesAndFiles
<1>3. ASSUME NEW p \in Pushes, Submit(p) PROVE EntryTrue'
  BY <1>2, <1>3 DEF TypeInv, EntryTrue, Active, Submit, Move, Tell
<1>4. ASSUME NEW p \in Pushes, PushStep(p) PROVE EntryTrue'
  <2>1. /\ \A q \in Pushes \ {p} : at'[q] = at[q] /\ fin'[q] = fin[q] /\ status'[q] = status[q]
        /\ at[p] # "idle" /\ fin[p] = "none"
    BY <1>1, <1>4 DEF PushStep, TypeInv, Control, Move, Step, Tell, entry, final,
         Connect, Fail, Skip, ChooseSnapshot, ChooseDelta, Mirror, RsyncFails, Plan, DeltaFails,
         Tidy, RecordHash, Pack, Clear, Schedule, Copy
  <2>2. p \in Tracked => \/ status'[p] = "working" /\ (at'[p] # "idle" \/ fin'[p] = "check")
                         \/ status'[p] = "over" /\ at'[p] = "idle" /\ fin'[p] = "none"
                         \/ status'[p] = status[p] /\ at'[p] # "idle"
    BY <2>1, <1>4 DEF PushStep, TypeInv, Move, Step, Tell, entry, final,
         Connect, Fail, Skip, ChooseSnapshot, ChooseDelta, Mirror, RsyncFails, Plan, DeltaFails,
         Tidy, RecordHash, Pack, Clear, Schedule, Copy
  <2> QED BY <1>2, <2>1, <2>2 DEF EntryTrue, Active
<1>5. ASSUME NEW p \in Tracked, FinStep(p) PROVE EntryTrue'
  <2>1. /\ \A q \in Pushes \ {p} : fin'[q] = fin[q] /\ status'[q] = status[q]
        /\ at' = at /\ at[p] = "idle" /\ fin[p] \notin {"none", "lost"}
    BY <1>1, <1>2, <1>5 DEF FinStep, TypeInv, Control, Step, Tell, End, MayFail, entry,
         FinCheck, FinOpen, FinClear, FinTar, FinRemove, FinComplete, FinCancelled, FinFails,
         FinTimesOut
  <2>2. \/ status'[p] \in {"working", status[p]} /\ fin'[p] # "none"
        \/ status'[p] \in {"over", "cancelled"} /\ fin'[p] = "none"
    BY <1>2, <1>5 DEF FinStep, TypeInv, Step, Tell, End, MayFail, entry,
         FinCheck, FinOpen, FinClear, FinTar, FinRemove, FinComplete, FinCancelled, FinFails,
         FinTimesOut
  <2> QED BY <1>2, <2>1, <2>2 DEF EntryTrue, Active
<1>6. ASSUME NEW p \in Tracked, CancelSeen(p) \/ CancelMark(p) \/ CancelKill(p) PROVE EntryTrue'
  BY <1>2, <1>6 DEF TypeInv, EntryTrue, Active, Tell, CancelSeen, CancelMark, CancelKill, final, entry
<1>7. ASSUME NEW p \in Pushes, RemoteStep(p) PROVE EntryTrue'
  BY <1>7 DEF EntryTrue, Active, RemoteStep, Sweep, SweepEnds, Extract, final, entry
<1>8. ASSUME NEW f \in Files, Edit(f) PROVE EntryTrue'
  BY <1>8 DEF EntryTrue, Active, Edit, final, entry
<1> QED BY <1>3, <1>4, <1>5, <1>6, <1>7, <1>8 DEF RepoNext

\* Whatever fails and whenever a push is cancelled, the entry a browser polls says
\* "under way" only while a thread is at work or after its connection timed out in
\* the finalizing thread, and "complete" or "error" only when no thread is.
THEOREM EntryTellsTruth == RepoSpec => []EntryTrue
<1>1. RepoInit => EntryTrue
  BY PushesAndFiles DEF RepoInit, EntryTrue, Active
<1>2. PushInv /\ EntryTrue /\ [RepoNext]_pushVars => EntryTrue'
  <2> SUFFICES ASSUME PushInv, EntryTrue, [RepoNext]_pushVars PROVE EntryTrue'
    OBVIOUS
  <2>1. CASE RepoNext
    BY <2>1, EntryStep DEF PushInv
  <2>2. CASE UNCHANGED pushVars
    BY <2>2 DEF EntryTrue, Active, pushVars, final, entry
  <2> QED BY <2>1, <2>2
<1> QED BY <1>1, <1>2, PushInvHolds, PTL DEF RepoSpec
=============================================================================
