----------------------------- MODULE ImageCache -----------------------------
(***************************************************************************)
(* The images of catalogue items are pulled to the CORE VM, looked for       *)
(* there, or cleared, by runs that go through the selected items one by one  *)
(* and record in the catalogue what they found.  A run can be stopped at any  *)
(* moment, each of its commands on the VM can fail or time out, and items can  *)
(* be pinned ("persistent") meanwhile.  Flag generators and vulnerabilities   *)
(* have such runs of their own, of the same shape.                           *)
(***************************************************************************)
EXTENDS Naturals, Sequences, FiniteSets, SequencesExt

CONSTANTS
  CacheRuns,   \* bound: runs in memory at once
  CacheItems,  \* items of the catalogue, by number
  Images,
  Needs        \* Needs[i]: the images in the compose file of item i

ASSUME ItemsAreNumbers ==
  CacheItems \subseteq Nat /\ IsFiniteSet(CacheItems) /\ Needs \in [CacheItems -> SUBSET Images]

VARIABLES
  cacheRun,  \* the runs
  images,    \* images that are on the VM
  cached,    \* cached[i]: what the catalogue says of item i
  pinned,    \* items marked persistent
  doubt,     \* history: items recorded as cached that something has overtaken
  crowded    \* history: two runs were active at once

cacheVars == <<cacheRun, images, cached, pinned, doubt, crowded>>

CacheStages == {"free", "checked", "queued", "connect", "loop", "pull", "build", "list",
                "each", "save", "done"}
CacheModes == {"pull", "status", "clear"}
CacheFindings == {"unknown", "cached", "absent"}

FreeRun ==
  [stage |-> "free", mode |-> "pull", stop |-> FALSE, status |-> "queued", synced |-> FALSE,
   selected |-> <<>>, at |-> 1, todo |-> {}, missing |-> {}, pulled |-> FALSE,
   finding |-> "unknown", results |-> <<>>]

\* Some of the items, in the order of the catalogue.
Selections ==
  {s \in UNION {[1 .. n -> CacheItems] : n \in 1 .. Cardinality(CacheItems)} :
     \A i, j \in DOMAIN s : i < j => s[i] < s[j]}

CacheTypeOK ==
  /\ \A c \in CacheRuns :
       LET r == cacheRun[c] IN
       /\ r.stage \in CacheStages /\ r.mode \in CacheModes /\ r.finding \in CacheFindings
       /\ {r.stop, r.synced, r.pulled} \subseteq BOOLEAN
       /\ r.status \in {"queued", "running", "failed", "stopped", "completed"}
       /\ r.selected \in Selections \cup {<<>>}
       /\ r.todo \cup r.missing \subseteq Images
       /\ r.stage \in {"pull", "build", "list", "each", "save"} => r.at \in DOMAIN r.selected
  /\ images \subseteq Images
  /\ cached \in [CacheItems -> CacheFindings]
  /\ pinned \cup doubt \subseteq CacheItems
  /\ crowded \in BOOLEAN

CacheInit ==
  /\ cacheRun = [c \in CacheRuns |-> FreeRun]
  /\ images \in SUBSET Images
  /\ cached = [i \in CacheItems |-> "unknown"]
  /\ pinned \in SUBSET CacheItems
  /\ doubt = {} /\ crowded = FALSE

ActiveRuns == {c \in CacheRuns : cacheRun[c].stage \notin {"free", "checked", "done"}}

Item(c) == cacheRun[c].selected[cacheRun[c].at]

\* Run c goes on at another stage, and ends the work on an item with a finding.
To(c, stage) == cacheRun' = [cacheRun EXCEPT ![c].stage = stage]

Found(c, f) == cacheRun' = [cacheRun EXCEPT ![c].stage = "save", ![c].finding = f]

Failed(c) == Found(c, "unknown")

catalogVars == <<cached, pinned, doubt, crowded>>

-----------------------------------------------------------------------------
(* Faulty variants of the definitions below, each with a bug the code could have; *)
(* they take no part in CacheSpec.  PROJECT.json names the property each breaks.  *)

\* An image whose size cannot be told is not counted as missing.
InspectLenient(c) ==
  /\ cacheRun[c].stage = "each" /\ cacheRun[c].mode = "status" /\ ~cacheRun[c].stop
  /\ \E x \in cacheRun[c].todo :
       cacheRun' = [cacheRun EXCEPT ![c].todo = @ \ {x}]
  /\ UNCHANGED <<images, catalogVars>>

\* The flag ends the work on items, but the run only ends after the last one.
EndCacheRunUnstopped(c) ==
  LET r == cacheRun[c] IN
  /\ r.stage = "loop" /\ r.at > Len(r.selected)
  /\ cacheRun' = [cacheRun EXCEPT ![c].stage = "done",
                    ![c].status = IF r.stop THEN "stopped" ELSE "completed"]
  /\ UNCHANGED <<images, catalogVars>>

-----------------------------------------------------------------------------
(* Requests. *)

\* A run is asked for: no other may be active.
AskCacheRun(c) ==
  /\ cacheRun[c].stage = "free" /\ ActiveRuns = {}
  /\ To(c, "checked")
  /\ UNCHANGED <<images, catalogVars>>

\* What may be selected: pinned items are not cleared.
Selectable(m) ==
  {s \in Selections : m = "clear" => ToSet(s) \cap pinned = {}}

\* The request goes on without a look at other runs.  If the thread cannot be started
\* the entry is taken back.
InsertCacheRun(c) ==
  /\ cacheRun[c].stage = "checked"
  /\ \/ \E m \in CacheModes : \E s \in Selectable(m) :
          /\ cacheRun' = [cacheRun EXCEPT ![c] =
                [FreeRun EXCEPT !.stage = "queued", !.mode = m, !.selected = s]]
          /\ crowded' = (crowded \/ ActiveRuns # {})
     \/ To(c, "free") /\ UNCHANGED crowded
  /\ UNCHANGED <<images, cached, pinned, doubt>>

StopCacheRun(c) ==
  /\ c \in ActiveRuns
  /\ cacheRun' = [cacheRun EXCEPT ![c].stop = TRUE]
  /\ UNCHANGED <<images, catalogVars>>

\* An item is pinned or unpinned.
SetPersistent(i) ==
  /\ pinned' = IF i \in pinned THEN pinned \ {i} ELSE pinned \cup {i}
  /\ UNCHANGED <<cacheRun, images, cached, doubt, crowded>>

\* A place of CacheRuns is used again.
ForgetCacheRun(c) ==
  /\ cacheRun[c].stage = "done"
  /\ cacheRun' = [cacheRun EXCEPT ![c] = FreeRun]
  /\ UNCHANGED <<images, catalogVars>>

-----------------------------------------------------------------------------
(* The thread of a run. *)

\* The repository is uploaded first, if it can be.
SyncRepo(c) ==
  /\ cacheRun[c].stage = "queued"
  /\ \E ok \in BOOLEAN :
       cacheRun' = [cacheRun EXCEPT ![c].stage = "connect", ![c].status = "running",
                                    ![c].synced = ok]
  /\ UNCHANGED <<images, catalogVars>>

Connect(c) ==
  /\ cacheRun[c].stage = "connect"
  /\ \/ To(c, "loop")
     \/ cacheRun' = [cacheRun EXCEPT ![c].stage = "done", ![c].status = "failed"]
  /\ UNCHANGED <<images, catalogVars>>

\* The next item.  It is left with a result, and no record, if it has no compose
\* file, or the VM has not.
NextItem(c) ==
  LET r == cacheRun[c] IN
  /\ r.stage = "loop" /\ ~r.stop /\ r.at <= Len(r.selected)
  /\ \/ r.synced /\ To(c, IF r.mode = "pull" THEN "pull" ELSE "list")
     \/ cacheRun' = [cacheRun EXCEPT ![c].at = @ + 1,
                                     ![c].results = Append(@, r.selected[r.at])]
  /\ UNCHANGED <<images, catalogVars>>

EndCacheRun(c) ==
  LET r == cacheRun[c] IN
  /\ r.stage = "loop" /\ (r.stop \/ r.at > Len(r.selected))
  /\ cacheRun' = [cacheRun EXCEPT ![c].stage = "done",
                    ![c].status = IF r.stop THEN "stopped" ELSE "completed"]
  /\ UNCHANGED <<images, catalogVars>>

\* docker compose pull fetches some of the images, even if it fails, is stopped or
\* runs into its time-out (then it raises an exception).
Pull(c) ==
  /\ cacheRun[c].stage = "pull"
  /\ \E new \in SUBSET Needs[Item(c)] : images' = images \cup new
  /\ \/ Failed(c)
     \/ /\ ~cacheRun[c].stop
        /\ \E ok \in BOOLEAN :
             cacheRun' = [cacheRun EXCEPT ![c].stage = "build", ![c].pulled = ok]
  /\ UNCHANGED catalogVars

\* docker compose build makes those that are not pulled; after both succeeded, all
\* are there.
Build(c) ==
  /\ cacheRun[c].stage = "build"
  /\ \/ /\ images' = images \cup Needs[Item(c)]
        /\ cacheRun[c].pulled /\ Found(c, "cached")
     \/ /\ \E new \in SUBSET Needs[Item(c)] : images' = images \cup new
        /\ \E f \in {"unknown", "absent"} : Found(c, f)
  /\ UNCHANGED catalogVars

\* docker compose config lists the images.
ListImages(c) ==
  /\ cacheRun[c].stage = "list"
  /\ \/ cacheRun' = [cacheRun EXCEPT ![c].stage = "each", ![c].todo = Needs[Item(c)],
                                     ![c].missing = {}]
     \/ Failed(c)
  /\ UNCHANGED <<images, catalogVars>>

\* One of them is looked for.  An image that is there may seem to be missing.
Inspect(c) ==
  /\ cacheRun[c].stage = "each" /\ cacheRun[c].mode = "status" /\ ~cacheRun[c].stop
  /\ \E x \in cacheRun[c].todo :
       \/ /\ x \in images
          /\ cacheRun' = [cacheRun EXCEPT ![c].todo = @ \ {x}]
       \/ cacheRun' = [cacheRun EXCEPT ![c].todo = @ \ {x}, ![c].missing = @ \cup {x}]
       \/ Failed(c)
  /\ UNCHANGED <<images, catalogVars>>

\* One of them is removed, or not; a command that is broken off may have removed it.
RemoveImage(c) ==
  /\ cacheRun[c].stage = "each" /\ cacheRun[c].mode = "clear" /\ ~cacheRun[c].stop
  /\ \E x \in cacheRun[c].todo :
       /\ \/ images' = images \ {x} /\ doubt' = doubt \cup {i \in CacheItems : x \in Needs[i] /\ cached[i] = "cached"}
          \/ UNCHANGED <<images, doubt>>
       /\ \/ cacheRun' = [cacheRun EXCEPT ![c].todo = @ \ {x}]
          \/ Failed(c)
  /\ UNCHANGED <<cached, pinned, crowded>>

\* All have been seen, or the run is stopped.
Conclude(c) ==
  LET r == cacheRun[c] IN
  /\ r.stage = "each" /\ (r.stop \/ r.todo = {})
  /\ Found(c, IF r.mode = "status" /\ Needs[Item(c)] # {} /\ r.missing = {}
              THEN "cached" ELSE "absent")
  /\ UNCHANGED <<images, catalogVars>>

\* The finding is recorded; a failing rewrite of the catalogue is passed over.
Save(c) ==
  LET r == cacheRun[c] IN
  /\ r.stage = "save"
  /\ \/ /\ cached' = [cached EXCEPT ![Item(c)] = r.finding]
        /\ doubt' = IF r.todo # {} /\ r.finding = "cached" THEN doubt \cup {Item(c)}
                    ELSE doubt \ {Item(c)}
     \/ UNCHANGED <<cached, doubt>>
  /\ cacheRun' = [cacheRun EXCEPT ![c].stage = "loop", ![c].at = @ + 1, ![c].todo = {},
                    ![c].results = Append(@, Item(c))]
  /\ UNCHANGED <<images, pinned, crowded>>

CacheStep(c) ==
  \/ SyncRepo(c) \/ Connect(c) \/ NextItem(c) \/ EndCacheRun(c) \/ Pull(c) \/ Build(c)
  \/ ListImages(c) \/ Inspect(c) \/ RemoveImage(c) \/ Conclude(c) \/ Save(c)

CacheNext ==
  \/ \E c \in CacheRuns :
       \/ AskCacheRun(c) \/ InsertCacheRun(c) \/ StopCacheRun(c) \/ ForgetCacheRun(c)
       \/ CacheStep(c)
  \/ \E i \in CacheItems : SetPersistent(i)

CacheSpec == CacheInit /\ [][CacheNext]_cacheVars

\* Threads go on: every command on the VM has a time-out.
CacheFairness == \A c \in CacheRuns : WF_cacheVars(CacheStep(c))

-----------------------------------------------------------------------------
(* Properties. *)

\* A run reports the selected items in order, all of them unless it was stopped or
\* could not connect.  And what the catalogue says to be cached is on the VM, unless
\* two runs were active at once, or the record is in doubt: a look at the images was
\* broken off by a stop, which counts those not seen as there; a clearing removed an
\* image that the item shares; or its own clearing could not be recorded.
CacheTells ==
  /\ \A c \in CacheRuns :
       LET r == cacheRun[c] IN
       /\ IsPrefix(r.results, r.selected)
       /\ r.stage = "done" =>
            \/ r.status = "completed" /\ r.results = r.selected
            \/ r.status = "stopped" /\ r.stop
            \/ r.status = "failed" /\ r.results = <<>>
  /\ ~crowded =>
       \A i \in CacheItems : cached[i] = "cached" /\ i \notin doubt => Needs[i] \subseteq images

\* "Marking a vulnerability-catalog or generator item persistent adds its images to a
\* keep set that no ScenarioForge cleanup will remove": while an item is marked, no
\* step removes an image of it.
PinnedImagesKept ==
  [][\A i \in pinned : Needs[i] \cap images \subseteq images']_cacheVars

\* Every run ends, and lets others begin.
CacheRunsEnd == \A c \in CacheRuns : c \in ActiveRuns ~> c \notin ActiveRuns
=============================================================================
