-------------------------- MODULE FlagBatch_proofs --------------------------
(***************************************************************************)
(* Theorems about FlagBatch for any number of generators and of batches    *)
(* whose tests users clean up, and about ImageCache, the runs that pull,   *)
(* look for and clear the images of catalogue items, for every set of      *)
(* runs, items and images.                                                 *)
(***************************************************************************)
EXTENDS FlagBatch, ImageCache, TLAPS

\* The types, what the loop finds, and what holds before it has begun.
TypeInv ==
  /\ FlagTypeOK
  /\ finding \in {"none", "passed", "failed", "incomplete"}
  /\ loop = "unborn" => place = 1 /\ reported = <<>>

LEMMA TypeInit == FlagInit => TypeInv
<1> SUFFICES ASSUME FlagInit PROVE TypeInv
  OBVIOUS
<1>1. MaxFlags \in Nat /\ MaxFlags >= 1
  BY MaxFlagsIsPositive
<1>2. selected \in FlagItems /\ place \in 1 .. selected + 1 /\ 1 \in FlagItems
  BY <1>1 DEF FlagInit, FlagItems
<1>3. child \in [FlagItems -> Children]
  BY DEF FlagInit, NoChild, Children, RunnerPlaces
<1>4. cleaner \in [Cleaners -> [at : CleanerPlaces, of : FlagItems]]
  BY <1>2 DEF FlagInit, CleanerPlaces
<1>5. catalog \in [FlagItems -> {"none", "passed", "failed", "incomplete"}]
  BY DEF FlagInit
<1>6. loop = "unborn" /\ finding = "none" /\ reported = <<>> /\ place = 1
  BY DEF FlagInit
<1>7. reported \in Seq([item : FlagItems, status : Findings]) /\ sessions \in SUBSET FlagItems
      /\ others \in SUBSET FlagItems
  BY DEF FlagInit
<1>8. halt \in BOOLEAN /\ left \in BOOLEAN
  BY Zenon DEF FlagInit
<1> QED BY <1>2, <1>3, <1>4, <1>5, <1>6, <1>7, <1>8 DEF TypeInv, FlagTypeOK, LoopPlaces, Findings

\* The thread of a test leaves a record of the right shape.
LEMMA RunTypes ==
  ASSUME TypeInv, NEW i \in FlagItems, NEW a, NEW b \in RunnerPlaces, NEW d, Run(i, a, b, d),
         DOMAIN d \subseteq {"rc", "over", "code", "fetched", "truth"},
         "rc" \in DOMAIN d => d["rc"] \in {"none", "zero", "bad"},
         "code" \in DOMAIN d => d["code"] \in {"none", "zero", "bad"},
         "over" \in DOMAIN d => d["over"] \in BOOLEAN,
         "fetched" \in DOMAIN d => d["fetched"] \in BOOLEAN,
         "truth" \in DOMAIN d => d["truth"] \in {"none", "pass", "fail", "unknown"}
  PROVE  /\ child' \in [FlagItems -> Children]
         /\ \A j \in FlagItems \ {i} : child'[j] = child[j]
         /\ child'[i].runner = b
         /\ child'[i].listed = child[i].listed /\ child'[i].claimed = child[i].claimed
         /\ child'[i].removed = child[i].removed
         /\ child'[i].over = IF "over" \in DOMAIN d THEN d["over"] ELSE child[i].over
         /\ child'[i].code = IF "code" \in DOMAIN d THEN d["code"] ELSE child[i].code
         /\ child'[i].fetched = IF "fetched" \in DOMAIN d THEN d["fetched"] ELSE child[i].fetched
         /\ child'[i].truth = IF "truth" \in DOMAIN d THEN d["truth"] ELSE child[i].truth
<1> DEFINE c == [f \in DOMAIN NoChild |->
          IF f = "runner" THEN b ELSE IF f \in DOMAIN d THEN d[f] ELSE child[i][f]]
<1>1. child[i] \in Children /\ child \in [FlagItems -> Children]
  BY DEF TypeInv, FlagTypeOK
<1>2. DOMAIN NoChild = {"runner", "rc", "listed", "claimed", "asked", "over", "code", "closed",
                        "fetched", "removed", "truth"}
  BY DEF NoChild
<1>3. child' = [child EXCEPT ![i] = c]
  BY DEF Run
<1>4. c = [runner |-> c["runner"], rc |-> c["rc"], listed |-> c["listed"], claimed |-> c["claimed"],
           asked |-> c["asked"], over |-> c["over"], code |-> c["code"], closed |-> c["closed"],
           fetched |-> c["fetched"], removed |-> c["removed"], truth |-> c["truth"]]
  BY <1>2
<1>5. /\ c["runner"] \in RunnerPlaces
      /\ c["rc"] \in {"none", "zero", "bad"} /\ c["code"] \in {"none", "zero", "bad"}
      /\ c["over"] \in BOOLEAN /\ c["fetched"] \in BOOLEAN
      /\ c["truth"] \in {"none", "pass", "fail", "unknown"}
      /\ c["listed"] \in BOOLEAN /\ c["claimed"] \in BOOLEAN /\ c["asked"] \in BOOLEAN
      /\ c["closed"] \in BOOLEAN /\ c["removed"] \in BOOLEAN
  BY <1>1, <1>2 DEF Children
<1>6. c \in Children
  BY <1>4, <1>5 DEF Children
<1> QED BY <1>1, <1>2, <1>3, <1>6

\* What the thread of a test changes, and where.
RunnerShape(i) ==
  /\ child' \in [FlagItems -> Children]
  /\ \A j \in FlagItems \ {i} : child'[j] = child[j]
  /\ child'[i].listed = child[i].listed /\ child'[i].claimed = child[i].claimed
  /\ child'[i].removed = child[i].removed
  /\ child[i].runner \notin {"none", "gone"} /\ child'[i].runner # "none"
  /\ child[i].runner = "code" => child'[i].runner = "gone" /\ child'[i].over = child[i].over
  /\ child'[i].over /\ ~child[i].over => child'[i].runner \in {"code", "gone"}
  /\ child'[i].fetched # child[i].fetched => child[i].runner = "sync"
  /\ child'[i].truth # child[i].truth =>
       child[i].runner = "run" /\ child'[i].runner = "gone"
         /\ (child'[i].truth = "pass" => child'[i].code = "zero")
  /\ \/ sessions' = sessions
     \/ sessions' = sessions \cup {i} /\ child[i].runner = "launch" /\ child'[i].runner = "run"
  /\ UNCHANGED <<selected, loop, place, finding, reported, halt, catalog, cleaner, others, left>>

LEMMA RunnerSteps ==
  ASSUME TypeInv, NEW i \in FlagItems, RunnerStep(i)
  PROVE  RunnerShape(i)
<1>0. child[i] \in Children /\ DOMAIN NoChild = {"runner", "rc", "listed", "claimed", "asked",
         "over", "code", "closed", "fetched", "removed", "truth"}
  BY DEF TypeInv, FlagTypeOK, NoChild
<1>1. ASSUME NEW rc \in {"zero", "bad"}, Run(i, "generator", "sync", [rc |-> rc]), sessions' = sessions
      PROVE  RunnerShape(i)
  <2> DEFINE d == [rc |-> rc]
  <2>1. DOMAIN d = {"rc"} /\ d["rc"] = rc
    OBVIOUS
  <2>0. d["rc"] \in {"none", "zero", "bad"}
    BY <1>0, <1>1, <2>1 DEF Children
  <2>2. /\ Run(i, "generator", "sync", d) /\ child[i].runner = "generator"
        /\ UNCHANGED <<selected, loop, place, finding, reported, halt, catalog, cleaner, others, left>>
    BY <1>1 DEF Run
  <2>9. "generator" \in RunnerPlaces /\ "sync" \in RunnerPlaces
    BY DEF RunnerPlaces
  <2> HIDE DEF d
  <2>3. /\ child' \in [FlagItems -> Children]
        /\ \A j \in FlagItems \ {i} : child'[j] = child[j]
        /\ child'[i].runner = "sync"
        /\ child'[i].listed = child[i].listed /\ child'[i].claimed = child[i].claimed
        /\ child'[i].removed = child[i].removed
        /\ child'[i].over = child[i].over /\ child'[i].code = child[i].code
        /\ child'[i].fetched = child[i].fetched /\ child'[i].truth = child[i].truth
    BY <2>0, <2>1, <2>2, <2>9, RunTypes
  <2> QED BY <1>1, <2>2, <2>3 DEF RunnerShape
<1>2. ASSUME Run(i, "sync", "decide", [fetched |-> TRUE]), sessions' = sessions
      PROVE  RunnerShape(i)
  <2> DEFINE d == [fetched |-> TRUE]
  <2>1. DOMAIN d = {"fetched"} /\ d["fetched"] = TRUE
    OBVIOUS
  <2>0. d["fetched"] \in BOOLEAN
    BY <1>0, <1>2, <2>1 DEF Children
  <2>2. /\ Run(i, "sync", "decide", d) /\ child[i].runner = "sync"
        /\ UNCHANGED <<selected, loop, place, finding, reported, halt, catalog, cleaner, others, left>>
    BY <1>2 DEF Run
  <2>9. "sync" \in RunnerPlaces /\ "decide" \in RunnerPlaces
    BY DEF RunnerPlaces
  <2> HIDE DEF d
  <2>3. /\ child' \in [FlagItems -> Children]
        /\ \A j \in FlagItems \ {i} : child'[j] = child[j]
        /\ child'[i].runner = "decide"
        /\ child'[i].listed = child[i].listed /\ child'[i].claimed = child[i].claimed
        /\ child'[i].removed = child[i].removed
        /\ child'[i].over = child[i].over /\ child'[i].code = child[i].code
        /\ child'[i].fetched = TRUE /\ child'[i].truth = child[i].truth
    BY <2>0, <2>1, <2>2, <2>9, RunTypes
  <2> QED BY <1>2, <2>2, <2>3 DEF RunnerShape
<1>3. ASSUME Run(i, "sync", "decide", Nothing), sessions' = sessions
      PROVE  RunnerShape(i)
  <2> DEFINE d == Nothing
  <2>1. DOMAIN d = {}
    BY DEF Nothing
  <2>2. /\ Run(i, "sync", "decide", d) /\ child[i].runner = "sync"
        /\ UNCHANGED <<selected, loop, place, finding, reported, halt, catalog, cleaner, others, left>>
    BY <1>3 DEF Run
  <2>9. "sync" \in RunnerPlaces /\ "decide" \in RunnerPlaces
    BY DEF RunnerPlaces
  <2> HIDE DEF d
  <2>3. /\ child' \in [FlagItems -> Children]
        /\ \A j \in FlagItems \ {i} : child'[j] = child[j]
        /\ child'[i].runner = "decide"
        /\ child'[i].listed = child[i].listed /\ child'[i].claimed = child[i].claimed
        /\ child'[i].removed = child[i].removed
        /\ child'[i].over = child[i].over /\ child'[i].code = child[i].code
        /\ child'[i].fetched = child[i].fetched /\ child'[i].truth = child[i].truth
    BY <2>1, <2>2, <2>9, RunTypes
  <2> QED BY <1>3, <2>2, <2>3 DEF RunnerShape
<1>4. ASSUME Run(i, "decide", "execute", Nothing), sessions' = sessions
      PROVE  RunnerShape(i)
  <2> DEFINE d == Nothing
  <2>1. DOMAIN d = {}
    BY DEF Nothing
  <2>2. /\ Run(i, "decide", "execute", d) /\ child[i].runner = "decide"
        /\ UNCHANGED <<selected, loop, place, finding, reported, halt, catalog, cleaner, others, left>>
    BY <1>4 DEF Run
  <2>9. "decide" \in RunnerPlaces /\ "execute" \in RunnerPlaces
    BY DEF RunnerPlaces
  <2> HIDE DEF d
  <2>3. /\ child' \in [FlagItems -> Children]
        /\ \A j \in FlagItems \ {i} : child'[j] = child[j]
        /\ child'[i].runner = "execute"
        /\ child'[i].listed = child[i].listed /\ child'[i].claimed = child[i].claimed
        /\ child'[i].removed = child[i].removed
        /\ child'[i].over = child[i].over /\ child'[i].code = child[i].code
        /\ child'[i].fetched = child[i].fetched /\ child'[i].truth = child[i].truth
    BY <2>1, <2>2, <2>9, RunTypes
  <2> QED BY <1>4, <2>2, <2>3 DEF RunnerShape
<1>5. ASSUME Run(i, "decide", "over", Nothing), sessions' = sessions
      PROVE  RunnerShape(i)
  <2> DEFINE d == Nothing
  <2>1. DOMAIN d = {}
    BY DEF Nothing
  <2>2. /\ Run(i, "decide", "over", d) /\ child[i].runner = "decide"
        /\ UNCHANGED <<selected, loop, place, finding, reported, halt, catalog, cleaner, others, left>>
    BY <1>5 DEF Run
  <2>9. "decide" \in RunnerPlaces /\ "over" \in RunnerPlaces
    BY DEF RunnerPlaces
  <2> HIDE DEF d
  <2>3. /\ child' \in [FlagItems -> Children]
        /\ \A j \in FlagItems \ {i} : child'[j] = child[j]
        /\ child'[i].runner = "over"
        /\ child'[i].listed = child[i].listed /\ child'[i].claimed = child[i].claimed
        /\ child'[i].removed = child[i].removed
        /\ child'[i].over = child[i].over /\ child'[i].code = child[i].code
        /\ child'[i].fetched = child[i].fetched /\ child'[i].truth = child[i].truth
    BY <2>1, <2>2, <2>9, RunTypes
  <2> QED BY <1>5, <2>2, <2>3 DEF RunnerShape
<1>6. ASSUME Run(i, "over", "code", [over |-> TRUE]), sessions' = sessions
      PROVE  RunnerShape(i)
  <2> DEFINE d == [over |-> TRUE]
  <2>1. DOMAIN d = {"over"} /\ d["over"] = TRUE
    OBVIOUS
  <2>0. d["over"] \in BOOLEAN
    BY <1>0, <1>6, <2>1 DEF Children
  <2>2. /\ Run(i, "over", "code", d) /\ child[i].runner = "over"
        /\ UNCHANGED <<selected, loop, place, finding, reported, halt, catalog, cleaner, others, left>>
    BY <1>6 DEF Run
  <2>9. "over" \in RunnerPlaces /\ "code" \in RunnerPlaces
    BY DEF RunnerPlaces
  <2> HIDE DEF d
  <2>3. /\ child' \in [FlagItems -> Children]
        /\ \A j \in FlagItems \ {i} : child'[j] = child[j]
        /\ child'[i].runner = "code"
        /\ child'[i].listed = child[i].listed /\ child'[i].claimed = child[i].claimed
        /\ child'[i].removed = child[i].removed
        /\ child'[i].over = TRUE /\ child'[i].code = child[i].code
        /\ child'[i].fetched = child[i].fetched /\ child'[i].truth = child[i].truth
    BY <2>0, <2>1, <2>2, <2>9, RunTypes
  <2> QED BY <1>6, <2>2, <2>3 DEF RunnerShape
<1>7. ASSUME Run(i, "code", "gone", [code |-> child[i].rc]), sessions' = sessions
      PROVE  RunnerShape(i)
  <2> DEFINE d == [code |-> child[i].rc]
  <2>1. DOMAIN d = {"code"} /\ d["code"] = child[i].rc
    OBVIOUS
  <2>0. d["code"] \in {"none", "zero", "bad"}
    BY <1>0, <1>7, <2>1 DEF Children
  <2>2. /\ Run(i, "code", "gone", d) /\ child[i].runner = "code"
        /\ UNCHANGED <<selected, loop, place, finding, reported, halt, catalog, cleaner, others, left>>
    BY <1>7 DEF Run
  <2>9. "code" \in RunnerPlaces /\ "gone" \in RunnerPlaces
    BY DEF RunnerPlaces
  <2> HIDE DEF d
  <2>3. /\ child' \in [FlagItems -> Children]
        /\ \A j \in FlagItems \ {i} : child'[j] = child[j]
        /\ child'[i].runner = "gone"
        /\ child'[i].listed = child[i].listed /\ child'[i].claimed = child[i].claimed
        /\ child'[i].removed = child[i].removed
        /\ child'[i].over = child[i].over /\ child'[i].code = child[i].rc
        /\ child'[i].fetched = child[i].fetched /\ child'[i].truth = child[i].truth
    BY <2>0, <2>1, <2>2, <2>9, RunTypes
  <2> QED BY <1>7, <2>2, <2>3 DEF RunnerShape
<1>8. ASSUME Run(i, "execute", "launch", [over |-> FALSE, code |-> "none"]), sessions' = sessions
      PROVE  RunnerShape(i)
  <2> DEFINE d == [over |-> FALSE, code |-> "none"]
  <2>1. DOMAIN d = {"over", "code"} /\ d["over"] = FALSE /\ d["code"] = "none"
    OBVIOUS
  <2>0. d["over"] \in BOOLEAN /\ d["code"] \in {"none", "zero", "bad"}
    BY <1>0, <1>8, <2>1 DEF Children
  <2>2. /\ Run(i, "execute", "launch", d) /\ child[i].runner = "execute"
        /\ UNCHANGED <<selected, loop, place, finding, reported, halt, catalog, cleaner, others, left>>
    BY <1>8 DEF Run
  <2>9. "execute" \in RunnerPlaces /\ "launch" \in RunnerPlaces
    BY DEF RunnerPlaces
  <2> HIDE DEF d
  <2>3. /\ child' \in [FlagItems -> Children]
        /\ \A j \in FlagItems \ {i} : child'[j] = child[j]
        /\ child'[i].runner = "launch"
        /\ child'[i].listed = child[i].listed /\ child'[i].claimed = child[i].claimed
        /\ child'[i].removed = child[i].removed
        /\ child'[i].over = FALSE /\ child'[i].code = "none"
        /\ child'[i].fetched = child[i].fetched /\ child'[i].truth = child[i].truth
    BY <2>0, <2>1, <2>2, <2>9, RunTypes
  <2> QED BY <1>8, <2>2, <2>3 DEF RunnerShape
<1>9. ASSUME Run(i, "execute", "gone", [over |-> TRUE, code |-> "bad"]), sessions' = sessions
      PROVE  RunnerShape(i)
  <2> DEFINE d == [over |-> TRUE, code |-> "bad"]
  <2>1. DOMAIN d = {"over", "code"} /\ d["over"] = TRUE /\ d["code"] = "bad"
    OBVIOUS
  <2>0. d["over"] \in BOOLEAN /\ d["code"] \in {"none", "zero", "bad"}
    BY <1>0, <1>9, <2>1 DEF Children
  <2>2. /\ Run(i, "execute", "gone", d) /\ child[i].runner = "execute"
        /\ UNCHANGED <<selected, loop, place, finding, reported, halt, catalog, cleaner, others, left>>
    BY <1>9 DEF Run
  <2>9. "execute" \in RunnerPlaces /\ "gone" \in RunnerPlaces
    BY DEF RunnerPlaces
  <2> HIDE DEF d
  <2>3. /\ child' \in [FlagItems -> Children]
        /\ \A j \in FlagItems \ {i} : child'[j] = child[j]
        /\ child'[i].runner = "gone"
        /\ child'[i].listed = child[i].listed /\ child'[i].claimed = child[i].claimed
        /\ child'[i].removed = child[i].removed
        /\ child'[i].over = TRUE /\ child'[i].code = "bad"
        /\ child'[i].fetched = child[i].fetched /\ child'[i].truth = child[i].truth
    BY <2>0, <2>1, <2>2, <2>9, RunTypes
  <2> QED BY <1>9, <2>2, <2>3 DEF RunnerShape
<1>10. ASSUME Run(i, "execute", "gone", Nothing), sessions' = sessions
      PROVE  RunnerShape(i)
  <2> DEFINE d == Nothing
  <2>1. DOMAIN d = {}
    BY DEF Nothing
  <2>2. /\ Run(i, "execute", "gone", d) /\ child[i].runner = "execute"
        /\ UNCHANGED <<selected, loop, place, finding, reported, halt, catalog, cleaner, others, left>>
    BY <1>10 DEF Run
  <2>9. "execute" \in RunnerPlaces /\ "gone" \in RunnerPlaces
    BY DEF RunnerPlaces
  <2> HIDE DEF d
  <2>3. /\ child' \in [FlagItems -> Children]
        /\ \A j \in FlagItems \ {i} : child'[j] = child[j]
        /\ child'[i].runner = "gone"
        /\ child'[i].listed = child[i].listed /\ child'[i].claimed = child[i].claimed
        /\ child'[i].removed = child[i].removed
        /\ child'[i].over = child[i].over /\ child'[i].code = child[i].code
        /\ child'[i].fetched = child[i].fetched /\ child'[i].truth = child[i].truth
    BY <2>1, <2>2, <2>9, RunTypes
  <2> QED BY <1>10, <2>2, <2>3 DEF RunnerShape
<1>11. ASSUME Run(i, "launch", "run", Nothing), sessions' = sessions \cup {i}
      PROVE  RunnerShape(i)
  <2> DEFINE d == Nothing
  <2>1. DOMAIN d = {}
    BY DEF Nothing
  <2>2. /\ Run(i, "launch", "run", d) /\ child[i].runner = "launch"
        /\ UNCHANGED <<selected, loop, place, finding, reported, halt, catalog, cleaner, others, left>>
    BY <1>11 DEF Run
  <2>9. "launch" \in RunnerPlaces /\ "run" \in RunnerPlaces
    BY DEF RunnerPlaces
  <2> HIDE DEF d
  <2>3. /\ child' \in [FlagItems -> Children]
        /\ \A j \in FlagItems \ {i} : child'[j] = child[j]
        /\ child'[i].runner = "run"
        /\ child'[i].listed = child[i].listed /\ child'[i].claimed = child[i].claimed
        /\ child'[i].removed = child[i].removed
        /\ child'[i].over = child[i].over /\ child'[i].code = child[i].code
        /\ child'[i].fetched = child[i].fetched /\ child'[i].truth = child[i].truth
    BY <2>1, <2>2, <2>9, RunTypes
  <2> QED BY <1>11, <2>2, <2>3 DEF RunnerShape
<1>12. ASSUME Run(i, "launch", "gone", [over |-> TRUE, code |-> "bad"]), sessions' = sessions
      PROVE  RunnerShape(i)
  <2> DEFINE d == [over |-> TRUE, code |-> "bad"]
  <2>1. DOMAIN d = {"over", "code"} /\ d["over"] = TRUE /\ d["code"] = "bad"
    OBVIOUS
  <2>0. d["over"] \in BOOLEAN /\ d["code"] \in {"none", "zero", "bad"}
    BY <1>0, <1>12, <2>1 DEF Children
  <2>2. /\ Run(i, "launch", "gone", d) /\ child[i].runner = "launch"
        /\ UNCHANGED <<selected, loop, place, finding, reported, halt, catalog, cleaner, others, left>>
    BY <1>12 DEF Run
  <2>9. "launch" \in RunnerPlaces /\ "gone" \in RunnerPlaces
    BY DEF RunnerPlaces
  <2> HIDE DEF d
  <2>3. /\ child' \in [FlagItems -> Children]
        /\ \A j \in FlagItems \ {i} : child'[j] = child[j]
        /\ child'[i].runner = "gone"
        /\ child'[i].listed = child[i].listed /\ child'[i].claimed = child[i].claimed
        /\ child'[i].removed = child[i].removed
        /\ child'[i].over = TRUE /\ child'[i].code = "bad"
        /\ child'[i].fetched = child[i].fetched /\ child'[i].truth = child[i].truth
    BY <2>0, <2>1, <2>2, <2>9, RunTypes
  <2> QED BY <1>12, <2>2, <2>3 DEF RunnerShape
<1>13. ASSUME NEW t \in {"pass", "fail", "unknown"}, Run(i, "run", "gone", [truth |-> t, over |-> TRUE, code |-> IF t = "fail" THEN "bad" ELSE "zero"]), sessions' = sessions
      PROVE  RunnerShape(i)
  <2> DEFINE d == [truth |-> t, over |-> TRUE, code |-> IF t = "fail" THEN "bad" ELSE "zero"]
  <2>1. DOMAIN d = {"truth", "over", "code"} /\ d["truth"] = t /\ d["over"] = TRUE /\ d["code"] = (IF t = "fail" THEN "bad" ELSE "zero")
    OBVIOUS
  <2>0. d["truth"] \in {"none", "pass", "fail", "unknown"} /\ d["over"] \in BOOLEAN /\ d["code"] \in {"none", "zero", "bad"}
    BY <1>0, <1>13, <2>1 DEF Children
  <2>2. /\ Run(i, "run", "gone", d) /\ child[i].runner = "run"
        /\ UNCHANGED <<selected, loop, place, finding, reported, halt, catalog, cleaner, others, left>>
    BY <1>13 DEF Run
  <2>9. "run" \in RunnerPlaces /\ "gone" \in RunnerPlaces
    BY DEF RunnerPlaces
  <2> HIDE DEF d
  <2>3. /\ child' \in [FlagItems -> Children]
        /\ \A j \in FlagItems \ {i} : child'[j] = child[j]
        /\ child'[i].runner = "gone"
        /\ child'[i].listed = child[i].listed /\ child'[i].claimed = child[i].claimed
        /\ child'[i].removed = child[i].removed
        /\ child'[i].over = TRUE /\ child'[i].code = (IF t = "fail" THEN "bad" ELSE "zero")
        /\ child'[i].fetched = child[i].fetched /\ child'[i].truth = t
    BY <2>0, <2>1, <2>2, <2>9, RunTypes
  <2> QED BY <1>13, <2>2, <2>3 DEF RunnerShape
<1>14. CASE GeneratorEnds(i)
  BY <1>1, <1>14 DEF GeneratorEnds
<1>15. CASE SyncOutputs(i)
  BY <1>2, <1>3, <1>15 DEF SyncOutputs
<1>16. CASE Decide(i)
  BY <1>4, <1>5, <1>16 DEF Decide
<1>17. CASE SetOver(i)
  BY <1>6, <1>17 DEF SetOver
<1>18. CASE SetCode(i)
  BY <1>7, <1>18 DEF SetCode
<1>19. CASE Execute(i)
  BY <1>8, <1>9, <1>10, <1>19 DEF Execute
<1>20. CASE LaunchSession(i)
  BY <1>11, <1>12, <1>20 DEF LaunchSession
<1>21. CASE SessionEnds(i)
  BY <1>13, <1>21 DEF SessionEnds
<1> QED BY <1>14, <1>15, <1>16, <1>17, <1>18, <1>19, <1>20, <1>21 DEF RunnerStep

\* What a step of a clean-up changes, and where.
CleanerMove(a) ==
  LET i == cleaner[a].of IN
  \/ /\ cleaner[a].at = "check" /\ UNCHANGED <<child, sessions, left>>
     /\ cleaner'[a].at = IF child[i].claimed THEN "out" ELSE "claim"
  \/ cleaner[a].at = "claim" /\ cleaner'[a].at = "runtime" /\ UNCHANGED <<sessions, left>>
  \/ /\ cleaner[a].at = "runtime" /\ cleaner'[a].at = "close"
     /\ (sessions' = {} /\ left' = left) \/ (sessions' = sessions /\ left' = TRUE)
  \/ /\ cleaner[a].at \in {"close", "remove", "end"} /\ cleaner'[a].at \in {"remove", "end", "drop"}
     /\ UNCHANGED <<sessions, left>>
  \/ /\ cleaner[a].at = "drop" /\ cleaner'[a].at = IF a = "user" THEN "gone" ELSE "out"
     /\ ~child'[i].listed /\ UNCHANGED <<sessions, left>>

CleanerShape(a) ==
  LET i == cleaner[a].of IN
  /\ child' \in [FlagItems -> Children]
  /\ \A j \in FlagItems \ {i} : child'[j] = child[j]
  /\ child'[i].runner = child[i].runner /\ child'[i].code = child[i].code
  /\ child'[i].fetched = child[i].fetched /\ child'[i].truth = child[i].truth
  /\ cleaner' \in [Cleaners -> [at : CleanerPlaces, of : FlagItems]]
  /\ \A b \in Cleaners \ {a} : cleaner'[b] = cleaner[b]
  /\ cleaner'[a].of = i
  /\ catalog' = catalog \/ catalog' = [catalog EXCEPT ![i] = "incomplete"]
  /\ CleanerMove(a)
  /\ UNCHANGED <<selected, loop, place, finding, reported, halt, others>>

LEMMA CleanTypes ==
  ASSUME TypeInv, NEW a \in Cleaners, NEW from, NEW to \in CleanerPlaces, NEW c \in Children,
         Clean(a, from, to, c)
  PROVE  /\ cleaner[a].at = from /\ cleaner[a].of \in FlagItems
         /\ child' \in [FlagItems -> Children] /\ child'[cleaner[a].of] = c
         /\ \A j \in FlagItems \ {cleaner[a].of} : child'[j] = child[j]
         /\ cleaner' \in [Cleaners -> [at : CleanerPlaces, of : FlagItems]]
         /\ \A b \in Cleaners \ {a} : cleaner'[b] = cleaner[b]
         /\ cleaner'[a].of = cleaner[a].of /\ cleaner'[a].at = to
         /\ UNCHANGED <<selected, loop, place, finding, reported, halt>>
<1>1. cleaner \in [Cleaners -> [at : CleanerPlaces, of : FlagItems]] /\ child \in [FlagItems -> Children]
  BY DEF TypeInv, FlagTypeOK
<1>2. cleaner[a] \in [at : CleanerPlaces, of : FlagItems]
  BY <1>1
<1>3. [cleaner[a] EXCEPT !.at = to] = [at |-> to, of |-> cleaner[a].of]
  BY <1>2
<1> QED BY <1>1, <1>2, <1>3 DEF Clean

LEMMA CleanerSteps ==
  ASSUME TypeInv, NEW a \in Cleaners, CleanerStep(a)
  PROVE  CleanerShape(a)
<1> DEFINE i == cleaner[a].of
<1>0. i \in FlagItems /\ child[i] \in Children /\ child \in [FlagItems -> Children]
  BY DEF TypeInv, FlagTypeOK
<1>1. CASE CheckClaim(a)
  <2> DEFINE c == child[i]
  <2> DEFINE to == IF child[i].claimed THEN "out" ELSE "claim"
  <2>1. c \in Children
    BY <1>0
  <2>2. Clean(a, "check", to, c) /\ to \in CleanerPlaces
    BY <1>1 DEF CheckClaim, Cleaned, CleanerPlaces
  <2>5. UNCHANGED <<catalog, sessions, others, left>>
    BY <1>1 DEF CheckClaim, Cleaned
  <2> HIDE DEF c, to
  <2>3. /\ cleaner[a].at = "check" /\ child' \in [FlagItems -> Children] /\ child'[i] = c
        /\ \A j \in FlagItems \ {i} : child'[j] = child[j]
        /\ cleaner' \in [Cleaners -> [at : CleanerPlaces, of : FlagItems]]
        /\ \A b \in Cleaners \ {a} : cleaner'[b] = cleaner[b]
        /\ cleaner'[a].of = i /\ cleaner'[a].at = to
        /\ UNCHANGED <<selected, loop, place, finding, reported, halt>>
    BY <2>1, <2>2, CleanTypes
  <2>4. CleanerMove(a)
    BY <1>0, <2>1, <2>3, <2>5 DEF CleanerMove, c, to
  <2> QED BY <1>0, <2>1, <2>3, <2>4, <2>5 DEF CleanerShape, c, to
<1>2. CASE Claim(a)
  <2> DEFINE c == [child[i] EXCEPT !.claimed = TRUE, !.asked = TRUE]
  <2> DEFINE to == "runtime"
  <2>1. c \in Children /\ c.runner = child[i].runner /\ c.code = child[i].code /\ c.fetched = child[i].fetched /\ c.truth = child[i].truth
        /\ c.claimed = TRUE /\ c.asked = TRUE
    BY <1>0 DEF Children
  <2>2. Clean(a, "claim", to, c) /\ to \in CleanerPlaces
    BY <1>2 DEF Claim, Cleaned, CleanerPlaces
  <2>5. UNCHANGED <<catalog, sessions, others, left>>
    BY <1>2 DEF Claim, Cleaned
  <2> HIDE DEF c, to
  <2>3. /\ cleaner[a].at = "claim" /\ child' \in [FlagItems -> Children] /\ child'[i] = c
        /\ \A j \in FlagItems \ {i} : child'[j] = child[j]
        /\ cleaner' \in [Cleaners -> [at : CleanerPlaces, of : FlagItems]]
        /\ \A b \in Cleaners \ {a} : cleaner'[b] = cleaner[b]
        /\ cleaner'[a].of = i /\ cleaner'[a].at = to
        /\ UNCHANGED <<selected, loop, place, finding, reported, halt>>
    BY <2>1, <2>2, CleanTypes
  <2>4. CleanerMove(a)
    BY <1>0, <2>1, <2>3, <2>5 DEF CleanerMove, to
  <2> QED BY <1>0, <2>1, <2>3, <2>4, <2>5 DEF CleanerShape, to
<1>3. CASE CleanRuntime(a)
  <2> DEFINE c == child[i]
  <2> DEFINE to == "close"
  <2>1. c \in Children
    BY <1>0
  <2>2. Clean(a, "runtime", to, c) /\ to \in CleanerPlaces
    BY <1>3 DEF CleanRuntime, Cleaned, CleanerPlaces
  <2>5. UNCHANGED <<catalog, others>> /\ ((sessions' = {} /\ left' = left) \/ (sessions' = sessions /\ left' = TRUE))
    BY <1>3 DEF CleanRuntime, Cleaned
  <2> HIDE DEF c, to
  <2>3. /\ cleaner[a].at = "runtime" /\ child' \in [FlagItems -> Children] /\ child'[i] = c
        /\ \A j \in FlagItems \ {i} : child'[j] = child[j]
        /\ cleaner' \in [Cleaners -> [at : CleanerPlaces, of : FlagItems]]
        /\ \A b \in Cleaners \ {a} : cleaner'[b] = cleaner[b]
        /\ cleaner'[a].of = i /\ cleaner'[a].at = to
        /\ UNCHANGED <<selected, loop, place, finding, reported, halt>>
    <3> HIDE DEF i
    <3>1. i = cleaner[a].of
      BY DEF i
    <3> QED
      BY <2>1, <2>2, <3>1, CleanTypes
  <2>4. CleanerMove(a)
    BY <1>0, <2>1, <2>3, <2>5 DEF CleanerMove, c, to
  <2> QED BY <1>0, <2>1, <2>3, <2>4, <2>5 DEF CleanerShape, c, to
<1>4. CASE CloseChannel(a)
  <2> DEFINE c == [child[i] EXCEPT !.closed = TRUE]
  <2> DEFINE to == "remove"
  <2>1. c \in Children /\ c.runner = child[i].runner /\ c.code = child[i].code /\ c.fetched = child[i].fetched /\ c.truth = child[i].truth
        /\ c.closed = TRUE
    BY <1>0 DEF Children
  <2>2. Clean(a, "close", to, c) /\ to \in CleanerPlaces
    BY <1>4 DEF CloseChannel, Cleaned, CleanerPlaces
  <2>5. UNCHANGED <<catalog, sessions, others, left>>
    BY <1>4 DEF CloseChannel, Cleaned
  <2> HIDE DEF c, to
  <2>3. /\ cleaner[a].at = "close" /\ child' \in [FlagItems -> Children] /\ child'[i] = c
        /\ \A j \in FlagItems \ {i} : child'[j] = child[j]
        /\ cleaner' \in [Cleaners -> [at : CleanerPlaces, of : FlagItems]]
        /\ \A b \in Cleaners \ {a} : cleaner'[b] = cleaner[b]
        /\ cleaner'[a].of = i /\ cleaner'[a].at = to
        /\ UNCHANGED <<selected, loop, place, finding, reported, halt>>
    BY <2>1, <2>2, CleanTypes
  <2>4. CleanerMove(a)
    BY <1>0, <2>1, <2>3, <2>5 DEF CleanerMove, to
  <2> QED BY <1>0, <2>1, <2>3, <2>4, <2>5 DEF CleanerShape, to
<1>5. CASE RemoveFiles(a)
  <2> DEFINE c == [child[i] EXCEPT !.removed = TRUE]
  <2> DEFINE to == "end"
  <2>1. c \in Children /\ c.runner = child[i].runner /\ c.code = child[i].code /\ c.fetched = child[i].fetched /\ c.truth = child[i].truth
        /\ c.removed = TRUE
    BY <1>0 DEF Children
  <2>2. Clean(a, "remove", to, c) /\ to \in CleanerPlaces
    BY <1>5 DEF RemoveFiles, Cleaned, CleanerPlaces
  <2>5. UNCHANGED <<sessions, others, left>> /\ (catalog' = catalog \/ catalog' = [catalog EXCEPT ![i] = "incomplete"])
    BY <1>5 DEF RemoveFiles, Cleaned
  <2> HIDE DEF c, to
  <2>3. /\ cleaner[a].at = "remove" /\ child' \in [FlagItems -> Children] /\ child'[i] = c
        /\ \A j \in FlagItems \ {i} : child'[j] = child[j]
        /\ cleaner' \in [Cleaners -> [at : CleanerPlaces, of : FlagItems]]
        /\ \A b \in Cleaners \ {a} : cleaner'[b] = cleaner[b]
        /\ cleaner'[a].of = i /\ cleaner'[a].at = to
        /\ UNCHANGED <<selected, loop, place, finding, reported, halt>>
    BY <2>1, <2>2, CleanTypes
  <2>4. CleanerMove(a)
    BY <1>0, <2>1, <2>3, <2>5 DEF CleanerMove, to
  <2> QED BY <1>0, <2>1, <2>3, <2>4, <2>5 DEF CleanerShape, to
<1>6. CASE EndTest(a)
  <2> DEFINE c == [child[i] EXCEPT !.over = TRUE]
  <2> DEFINE to == "drop"
  <2>1. c \in Children /\ c.runner = child[i].runner /\ c.code = child[i].code /\ c.fetched = child[i].fetched /\ c.truth = child[i].truth
        /\ c.over = TRUE
    BY <1>0 DEF Children
  <2>2. Clean(a, "end", to, c) /\ to \in CleanerPlaces
    BY <1>6 DEF EndTest, Cleaned, CleanerPlaces
  <2>5. UNCHANGED <<catalog, sessions, others, left>>
    BY <1>6 DEF EndTest, Cleaned
  <2> HIDE DEF c, to
  <2>3. /\ cleaner[a].at = "end" /\ child' \in [FlagItems -> Children] /\ child'[i] = c
        /\ \A j \in FlagItems \ {i} : child'[j] = child[j]
        /\ cleaner' \in [Cleaners -> [at : CleanerPlaces, of : FlagItems]]
        /\ \A b \in Cleaners \ {a} : cleaner'[b] = cleaner[b]
        /\ cleaner'[a].of = i /\ cleaner'[a].at = to
        /\ UNCHANGED <<selected, loop, place, finding, reported, halt>>
    BY <2>1, <2>2, CleanTypes
  <2>4. CleanerMove(a)
    BY <1>0, <2>1, <2>3, <2>5 DEF CleanerMove, to
  <2> QED BY <1>0, <2>1, <2>3, <2>4, <2>5 DEF CleanerShape, to
<1>7. CASE DropChild(a)
  <2> DEFINE c == [child[i] EXCEPT !.listed = FALSE]
  <2> DEFINE to == IF a = "user" THEN "gone" ELSE "out"
  <2>1. c \in Children /\ c.runner = child[i].runner /\ c.code = child[i].code /\ c.fetched = child[i].fetched /\ c.truth = child[i].truth
        /\ c.listed = FALSE
    BY <1>0 DEF Children
  <2>2. Clean(a, "drop", to, c) /\ to \in CleanerPlaces
    BY <1>7 DEF DropChild, Cleaned, CleanerPlaces
  <2>5. UNCHANGED <<catalog, sessions, others, left>>
    BY <1>7 DEF DropChild, Cleaned
  <2> HIDE DEF c, to
  <2>3. /\ cleaner[a].at = "drop" /\ child' \in [FlagItems -> Children] /\ child'[i] = c
        /\ \A j \in FlagItems \ {i} : child'[j] = child[j]
        /\ cleaner' \in [Cleaners -> [at : CleanerPlaces, of : FlagItems]]
        /\ \A b \in Cleaners \ {a} : cleaner'[b] = cleaner[b]
        /\ cleaner'[a].of = i /\ cleaner'[a].at = to
        /\ UNCHANGED <<selected, loop, place, finding, reported, halt>>
    BY <2>1, <2>2, CleanTypes
  <2>4. CleanerMove(a)
    BY <1>0, <2>1, <2>3, <2>5 DEF CleanerMove, to
  <2> QED BY <1>0, <2>1, <2>3, <2>4, <2>5 DEF CleanerShape, to
<1> QED BY <1>1, <1>2, <1>3, <1>4, <1>5, <1>6, <1>7 DEF CleanerStep

\* A result keeps the types.
LEMMA ResultTypes ==
  ASSUME TypeInv, NEW st \in Findings, Result(st), place <= selected, UNCHANGED selected
  PROVE  /\ reported' \in Seq([item : FlagItems, status : Findings])
         /\ place' \in 1 .. selected + 1
         /\ Len(reported') = Len(reported) + 1
         /\ \A k \in DOMAIN reported' :
              reported'[k] = IF k = Len(reported) + 1 THEN [item |-> place, status |-> st]
                             ELSE reported[k]
         /\ \A k \in DOMAIN reported' : k # Len(reported) + 1 => k \in DOMAIN reported
<1> DEFINE R == [item : FlagItems, status : Findings]
<1>1. reported \in Seq(R) /\ selected \in FlagItems /\ place \in 1 .. selected + 1
  BY DEF TypeInv, FlagTypeOK
<1>2. MaxFlags \in Nat
  BY MaxFlagsIsPositive
<1>3. [item |-> place, status |-> st] \in R /\ place' \in 1 .. selected + 1
  BY <1>1, <1>2 DEF FlagItems, Result
<1> DEFINE e == [item |-> place, status |-> st]
<1>4. reported' = Append(reported, e)
  BY DEF Result
<1> HIDE DEF R, e
<1>5. /\ reported' \in Seq(R) /\ Len(reported') = Len(reported) + 1
      /\ \A k \in DOMAIN reported' : reported'[k] = IF k = Len(reported) + 1 THEN e ELSE reported[k]
      /\ \A k \in DOMAIN reported' : k # Len(reported) + 1 => k \in DOMAIN reported
  BY <1>1, <1>3, <1>4 DEF e
<1> QED BY <1>3, <1>5 DEF R, e

LEMMA LoopTypes == TypeInv /\ FlagLoopStep => TypeInv'
<1> SUFFICES ASSUME TypeInv, FlagLoopStep PROVE TypeInv'
  OBVIOUS
<1>0. /\ selected \in Nat /\ place \in 1 .. selected + 1 /\ selected <= MaxFlags /\ selected \in FlagItems
      /\ MaxFlags \in Nat /\ cleaner \in [Cleaners -> [at : CleanerPlaces, of : FlagItems]]
      /\ child \in [FlagItems -> Children]
  BY MaxFlagsIsPositive DEF TypeInv, FlagTypeOK, FlagItems
<1>a. place <= selected => place \in FlagItems
  BY <1>0 DEF FlagItems
<1>1. CASE TakeItem
  BY <1>0, <1>1 DEF TypeInv, FlagTypeOK, TakeItem, Turn, LoopPlaces, Findings
<1>2. CASE LeaveLoop
  BY <1>0, <1>2 DEF TypeInv, FlagTypeOK, LeaveLoop, Turn, LoopPlaces, Findings
<1>3. CASE SkipManual
  <2>1. Result("manual") /\ place <= selected /\ loop = "starting" /\ loop' = "next"
        /\ UNCHANGED <<selected, finding, catalog, halt, child, cleaner, sessions, others, left>>
    BY <1>3 DEF SkipManual, Turn, Result, TypeInv, FlagTypeOK
  <2>2. place' \in 1 .. selected' + 1 /\ reported' \in Seq([item : FlagItems, status : Findings])
    BY <2>1, ResultTypes DEF Findings
  <2> QED BY <1>0, <2>1, <2>2 DEF TypeInv, FlagTypeOK, LoopPlaces
<1>4. CASE ChildFails
  <2>1. Result("failed") /\ place <= selected /\ loop = "starting" /\ loop' = "next"
        /\ UNCHANGED <<selected, finding, catalog, halt, child, cleaner, sessions, others, left>>
    BY <1>4 DEF ChildFails, Turn, Result, TypeInv, FlagTypeOK
  <2>2. place' \in 1 .. selected' + 1 /\ reported' \in Seq([item : FlagItems, status : Findings])
    BY <2>1, ResultTypes DEF Findings
  <2> QED BY <1>0, <2>1, <2>2 DEF TypeInv, FlagTypeOK, LoopPlaces
<1>5. CASE StartRaises
  BY <1>0, <1>5 DEF TypeInv, FlagTypeOK, StartRaises, Turn, LoopPlaces, Findings
<1>6. CASE StartChild
  <2>1. child' = [child EXCEPT ![place] = NewChild] /\ loop' = "watch" /\ place <= selected
        /\ finding' = "none" /\ loop = "starting"
        /\ UNCHANGED <<selected, place, reported, halt, catalog, cleaner, sessions, others, left>>
    BY <1>6 DEF StartChild, Turn, TypeInv, FlagTypeOK
  <2>2. NewChild \in Children
    BY DEF NewChild, NoChild, Children, RunnerPlaces
  <2>3. child' \in [FlagItems -> Children]
    BY <1>0, <2>1, <2>2
  <2> QED BY <1>0, <2>1, <2>3 DEF TypeInv, FlagTypeOK, LoopPlaces, Findings
<1>7. CASE SeeMissing
  BY <1>0, <1>7 DEF TypeInv, FlagTypeOK, SeeMissing, Turn, LoopPlaces, Findings
<1>8. CASE SeeStop
  <2>1. cleaner' = [cleaner EXCEPT !["batch"] = [at |-> "check", of |-> place]] /\ loop' = "own"
        /\ place <= selected /\ loop = "watch"
        /\ finding' \in {"none", "passed", "failed", "incomplete"}
        /\ UNCHANGED <<selected, place, reported, halt, catalog, child, sessions, others, left>>
    BY <1>8 DEF SeeStop, Turn, TypeInv, FlagTypeOK, Judged
  <2>2. [at |-> "check", of |-> place] \in [at : CleanerPlaces, of : FlagItems]
    BY <1>a, <2>1 DEF CleanerPlaces
  <2>3. cleaner' \in [Cleaners -> [at : CleanerPlaces, of : FlagItems]]
    BY <1>0, <2>1, <2>2
  <2> QED BY <1>0, <2>1, <2>3 DEF TypeInv, FlagTypeOK, LoopPlaces, Findings
<1>9. CASE SeeCleaning
  BY <1>0, <1>9 DEF TypeInv, FlagTypeOK, SeeCleaning, Turn, LoopPlaces, Findings
<1>10. CASE SeeDone
  BY <1>0, <1>10 DEF TypeInv, FlagTypeOK, SeeDone, Turn, LoopPlaces, Findings
<1>11. CASE Classify
  <2>1. cleaner' = [cleaner EXCEPT !["batch"] = [at |-> "check", of |-> place]] /\ loop' = "own"
        /\ place <= selected /\ loop = "classify"
        /\ finding' \in {"none", "passed", "failed", "incomplete"}
        /\ UNCHANGED <<selected, place, reported, halt, catalog, child, sessions, others, left>>
    BY <1>11 DEF Classify, Turn, TypeInv, FlagTypeOK, Judged
  <2>2. [at |-> "check", of |-> place] \in [at : CleanerPlaces, of : FlagItems]
    BY <1>a, <2>1 DEF CleanerPlaces
  <2>3. cleaner' \in [Cleaners -> [at : CleanerPlaces, of : FlagItems]]
    BY <1>0, <2>1, <2>2
  <2> QED BY <1>0, <2>1, <2>3 DEF TypeInv, FlagTypeOK, LoopPlaces, Findings
<1>12. CASE OwnOver
  BY <1>0, <1>12 DEF TypeInv, FlagTypeOK, OwnOver, Turn, LoopPlaces, Findings
<1>13. CASE Bottom
  BY <1>0, <1>13 DEF TypeInv, FlagTypeOK, Bottom, Turn, LoopPlaces, Findings
<1>14. CASE RecordResult
  <2>1. Result(finding) /\ place <= selected /\ loop = "record" /\ loop' = "next"
        /\ catalog' = [catalog EXCEPT ![place] = finding] /\ finding' = "none"
        /\ UNCHANGED <<selected, halt, child, cleaner, sessions, others, left>>
    BY <1>14 DEF RecordResult, Turn, Result, TypeInv, FlagTypeOK
  <2>2. finding \in Findings /\ finding \in {"none", "passed", "failed", "incomplete"}
    BY DEF Findings, TypeInv
  <2>3. place' \in 1 .. selected' + 1 /\ reported' \in Seq([item : FlagItems, status : Findings])
    BY <2>1, <2>2, ResultTypes
  <2>4. catalog' \in [FlagItems -> {"none", "passed", "failed", "incomplete"}]
    BY <2>1, <2>2 DEF TypeInv, FlagTypeOK
  <2> QED BY <1>0, <2>1, <2>3, <2>4 DEF TypeInv, FlagTypeOK, LoopPlaces, Findings
<1>15. CASE SkipUnseen
  <2> DEFINE R == [item : FlagItems, status : Findings]
  <2>1. PICK i \in 1 .. selected : reported' = Append(reported, [item |-> i, status |-> "stopped"])
    BY <1>15 DEF SkipUnseen, Unseen
  <2>2. [item |-> i, status |-> "stopped"] \in R /\ reported \in Seq(R)
    BY <1>0, <2>1 DEF FlagItems, Findings, TypeInv, FlagTypeOK
  <2> HIDE DEF R
  <2>3. reported' \in Seq(R)
    BY <2>1, <2>2
  <2>4. loop = "report" /\ UNCHANGED <<selected, loop, place, finding, halt, catalog, child, cleaner, sessions, others, left>>
    BY <1>15 DEF SkipUnseen
  <2> QED BY <2>3, <2>4 DEF TypeInv, FlagTypeOK, R
<1>16. CASE EndFlagBatch
  BY <1>0, <1>16 DEF TypeInv, FlagTypeOK, EndFlagBatch, Turn, LoopPlaces, Findings
<1> QED BY <1>1, <1>2, <1>3, <1>4, <1>5, <1>6, <1>7, <1>8, <1>9, <1>10, <1>11, <1>12, <1>13, <1>14, <1>15, <1>16 DEF FlagLoopStep

LEMMA TypeStep == TypeInv /\ [FlagNext]_flagVars => TypeInv'
<1> SUFFICES ASSUME TypeInv, [FlagNext]_flagVars PROVE TypeInv'
  OBVIOUS
<1>0. /\ child \in [FlagItems -> Children] /\ selected \in FlagItems /\ sessions \in SUBSET FlagItems
      /\ cleaner \in [Cleaners -> [at : CleanerPlaces, of : FlagItems]] /\ MaxFlags \in Nat
      /\ place \in 1 .. selected + 1
  BY MaxFlagsIsPositive DEF TypeInv, FlagTypeOK
<1>1. CASE StartFlagBatch
  <2>1. loop = "unborn" /\ loop' = "next" /\ selected' \in FlagItems
        /\ UNCHANGED <<place, finding, reported, halt, catalog, child, cleaner, sessions, others, left>>
    BY <1>1 DEF StartFlagBatch
  <2>2. place = 1
    BY <2>1 DEF TypeInv
  <2>3. selected' \in Nat /\ selected' >= 1
    BY <2>1, MaxFlagsIsPositive DEF FlagItems
  <2>5. place' = 1
    BY <2>1, <2>2
  <2>6. \A n \in Nat : 1 \in 1 .. n + 1
    OBVIOUS
  <2>4. place' \in 1 .. selected' + 1
    BY <2>3, <2>5, <2>6
  <2> QED BY <2>1, <2>4 DEF TypeInv, FlagTypeOK, LoopPlaces
<1>2. ASSUME NEW i \in FlagItems, RunnerStep(i) PROVE TypeInv'
  <2>1. RunnerShape(i)
    BY <1>2, RunnerSteps
  <2>2. sessions' \in SUBSET FlagItems
    BY <1>0, <2>1 DEF RunnerShape
  <2> QED BY <2>1, <2>2 DEF RunnerShape, TypeInv, FlagTypeOK
<1>3. ASSUME NEW i \in FlagItems, UserCleans(i) PROVE TypeInv'
  <2>1. /\ cleaner' = [cleaner EXCEPT !["user"] = [at |-> "runtime", of |-> i]]
        /\ child' = [child EXCEPT ![i].asked = TRUE] /\ others' = others \cup {i}
        /\ UNCHANGED <<selected, loop, place, finding, reported, halt, catalog, sessions, left>>
    BY <1>3 DEF UserCleans
  <2>2. [at |-> "runtime", of |-> i] \in [at : CleanerPlaces, of : FlagItems]
    BY DEF CleanerPlaces
  <2>3. cleaner' \in [Cleaners -> [at : CleanerPlaces, of : FlagItems]]
    BY <1>0, <2>1, <2>2
  <2>4. [child[i] EXCEPT !.asked = TRUE] \in Children
    <3>1. child[i] \in Children
      BY <1>0
    <3> QED BY <3>1 DEF Children
  <2>5. child' \in [FlagItems -> Children]
    BY <1>0, <2>1, <2>4
  <2>6. others' \in SUBSET FlagItems
    BY <2>1 DEF TypeInv, FlagTypeOK
  <2> QED BY <2>1, <2>3, <2>5, <2>6 DEF TypeInv, FlagTypeOK
<1>4. CASE RequestStop \/ LookForChild
  <2>1. PICK x \in CleanerPlaces, j \in FlagItems :
          cleaner' = [cleaner EXCEPT !["stop"] = [at |-> x, of |-> j]]
    <3>0. cleaner["stop"] \in [at : CleanerPlaces, of : FlagItems]
      BY <1>0 DEF Cleaners
    <3>a. \A y : [cleaner["stop"] EXCEPT !.at = y] = [at |-> y, of |-> cleaner["stop"].of]
      BY <3>0
    <3>1. CASE RequestStop
      <4>1. cleaner' = [cleaner EXCEPT !["stop"] = [at |-> "look", of |-> cleaner["stop"].of]]
        BY <1>0, <3>1, <3>a DEF RequestStop, Cleaners
      <4> QED BY <3>0, <4>1 DEF CleanerPlaces
    <3>2. CASE LookForChild
      <4>1. CASE loop \in {"watch", "classify", "own", "bottom", "record"} /\ child[place].listed
        <5>1. cleaner' = [cleaner EXCEPT !["stop"] = [at |-> "check", of |-> place]]
          BY <3>2, <4>1 DEF LookForChild
        <5>2. place \in FlagItems
          BY <1>0, <4>1 DEF TypeInv, FlagTypeOK, FlagItems
        <5> QED BY <5>1, <5>2 DEF CleanerPlaces
      <4>2. CASE ~(loop \in {"watch", "classify", "own", "bottom", "record"} /\ child[place].listed)
        <5>1. cleaner' = [cleaner EXCEPT !["stop"] = [at |-> "out", of |-> cleaner["stop"].of]]
          BY <1>0, <3>2, <3>a, <4>2 DEF LookForChild, Cleaners
        <5> QED BY <3>0, <5>1 DEF CleanerPlaces
      <4> QED BY <4>1, <4>2
    <3> QED BY <1>4, <3>1, <3>2
  <2>2. [at |-> x, of |-> j] \in [at : CleanerPlaces, of : FlagItems]
    OBVIOUS
  <2>3. cleaner' \in [Cleaners -> [at : CleanerPlaces, of : FlagItems]]
    BY <1>0, <2>1, <2>2
  <2>4. UNCHANGED <<selected, loop, place, finding, reported, catalog, child, sessions, others, left>>
    BY <1>4 DEF RequestStop, LookForChild
  <2>5. halt' \in BOOLEAN
    BY <1>4, Zenon DEF RequestStop, LookForChild, TypeInv, FlagTypeOK
  <2> QED BY <2>3, <2>4, <2>5 DEF TypeInv, FlagTypeOK
<1>5. ASSUME NEW a \in Cleaners, CleanerStep(a) PROVE TypeInv'
  <2>1. CleanerShape(a)
    BY <1>5, CleanerSteps
  <2>2. catalog' \in [FlagItems -> {"none", "passed", "failed", "incomplete"}]
    BY <1>0, <2>1 DEF CleanerShape, TypeInv, FlagTypeOK
  <2>3. sessions' \in SUBSET FlagItems /\ left' \in BOOLEAN
    BY <1>0, <2>1 DEF CleanerShape, CleanerMove, TypeInv, FlagTypeOK
  <2> QED BY <2>1, <2>2, <2>3 DEF CleanerShape, TypeInv, FlagTypeOK
<1>6. CASE UNCHANGED flagVars
  BY <1>6 DEF flagVars, TypeInv, FlagTypeOK
<1> QED BY <1>1, <1>2, <1>3, <1>4, <1>5, <1>6, LoopTypes DEF FlagNext

-----------------------------------------------------------------------------
(* The report, the tests and their verdicts. *)

\* The loop has come to item j.
Started(j) ==
  \/ j < place
  \/ j = place /\ loop \in {"watch", "classify", "own", "bottom", "record"}

\* Nobody but the batch cleans up after j.
Quiet(j) == ~halt /\ j \notin others

\* The thread of j's test launches no session any more, and fetches no outputs.
Settled(j) == child[j].runner \in {"none", "code", "gone"}

\* The status is what the session of j's test and its outputs say.
Earned(j, status) == (status = "passed") <=> (child[j].truth = "pass" /\ child[j].fetched)

ReportInv ==
  /\ \A k \in DOMAIN reported : reported[k].item = k /\ (reported[k].status = "stopped" => halt)
  /\ loop \notin {"report", "ended"} => Len(reported) = place - 1
  /\ loop = "report" => Len(reported) <= selected /\ (~halt => Len(reported) = selected)
  /\ loop = "ended" => Len(reported) = selected

ChildInv ==
  \A j \in FlagItems :
    /\ child[j].truth # "none" => child[j].runner = "gone"
    /\ child[j].truth = "pass" => child[j].code = "zero"
    /\ ~Started(j) => child[j].runner = "none" /\ child[j].truth = "none"

CleanerInv ==
  /\ cleaner["batch"].at # "out" => loop = "own" /\ cleaner["batch"].of = place
  /\ cleaner["stop"].at # "out" => halt
  /\ cleaner["user"].at # "out" => cleaner["user"].of \in others

\* The current test, if nobody else cleans up after it.
CurrentInv ==
  (Started(place) /\ Quiet(place)) =>
    /\ loop \in {"watch", "classify"} =>
         /\ child[place].listed /\ ~child[place].claimed /\ ~child[place].removed
         /\ child[place].over => child[place].runner \in {"code", "gone"}
    /\ loop = "classify" => child[place].over
    /\ loop \in {"own", "bottom", "record"} =>
         finding # "none" /\ Earned(place, finding) /\ Settled(place)
    /\ loop = "own" =>
         IF cleaner["batch"].at = "out" THEN ~child[place].listed
         ELSE cleaner["batch"].at \in {"check", "claim"} => ~child[place].claimed
    /\ loop = "bottom" => ~child[place].listed

\* The tests that are reported.
PastInv ==
  \A k \in DOMAIN reported : Quiet(k) => Settled(k) /\ Earned(k, reported[k].status)

CatalogInv ==
  /\ \A j \in FlagItems : catalog[j] = "passed" => j < place /\ child[j].truth = "pass"
  /\ finding = "passed" => Started(place) /\ child[place].truth = "pass"

SessionsInv ==
  ~halt /\ others = {} /\ ~left /\ sessions # {} =>
    \/ loop \in {"watch", "classify"}
    \/ loop = "own" /\ cleaner["batch"].at \in {"check", "claim", "runtime"}

FlagInv ==
  /\ TypeInv
  /\ ReportInv /\ ChildInv /\ CleanerInv /\ CurrentInv /\ PastInv /\ CatalogInv /\ SessionsInv

\* What the types say of the parts the steps look at.
LEMMA Shapes ==
  ASSUME TypeInv
  PROVE  /\ MaxFlags \in Nat /\ selected \in Nat /\ selected <= MaxFlags /\ place \in Nat
         /\ place >= 1 /\ place <= selected + 1
         /\ loop \in {"starting", "watch", "classify", "own", "bottom", "record"} =>
              place <= selected /\ place \in FlagItems
         /\ FlagItems = 1 .. MaxFlags
         /\ child \in [FlagItems -> Children]
         /\ cleaner \in [Cleaners -> [at : CleanerPlaces, of : FlagItems]]
         /\ Cleaners = {"batch", "stop", "user"}
         /\ Len(reported) \in Nat /\ DOMAIN reported = 1 .. Len(reported)
         /\ loop \in LoopPlaces
BY MaxFlagsIsPositive DEF TypeInv, FlagTypeOK, FlagItems, Cleaners

LEMMA InvInit == FlagInit => FlagInv
<1> SUFFICES ASSUME FlagInit PROVE FlagInv
  OBVIOUS
<1>1. TypeInv
  BY TypeInit
<1>2. \A j \in FlagItems : child[j] = NoChild
  BY DEF FlagInit
<1>3. ReportInv /\ PastInv
  BY DEF FlagInit, ReportInv, PastInv
<1>4. ChildInv
  BY <1>2 DEF ChildInv, NoChild
<1>5. CleanerInv /\ CurrentInv /\ CatalogInv /\ SessionsInv
  BY DEF FlagInit, CleanerInv, CurrentInv, CatalogInv, SessionsInv, Started, Cleaners
<1> QED BY <1>1, <1>3, <1>4, <1>5 DEF FlagInv

\* A step of the batch's thread, or the start of the batch.
LEMMA LoopInv ==
  ASSUME FlagInv, TypeInv', StartFlagBatch \/ FlagLoopStep
  PROVE  FlagInv'
<1> USE DEF FlagInv
<1>0. /\ MaxFlags \in Nat /\ selected \in Nat /\ selected <= MaxFlags /\ place \in Nat
      /\ place >= 1 /\ place <= selected + 1
      /\ loop \in {"starting", "watch", "classify", "own", "bottom", "record"} =>
           place <= selected /\ place \in FlagItems
      /\ FlagItems = 1 .. MaxFlags
      /\ child \in [FlagItems -> Children]
      /\ cleaner \in [Cleaners -> [at : CleanerPlaces, of : FlagItems]]
      /\ Cleaners = {"batch", "stop", "user"}
      /\ Len(reported) \in Nat /\ DOMAIN reported = 1 .. Len(reported)
  BY Shapes
<1>a. Len(reported)' \in Nat /\ DOMAIN (reported') = 1 .. Len(reported')
  BY DEF TypeInv, FlagTypeOK
<1>1. CASE StartFlagBatch
  <2>1. ReportInv'
    BY <1>0, <1>a, <1>1 DEF ReportInv, StartFlagBatch, Turn, TypeInv
  <2>2. ChildInv'
    BY <1>0, <1>a, <1>1 DEF ChildInv, Started, StartFlagBatch, Turn
  <2>3. CleanerInv'
    BY <1>0, <1>a, <1>1 DEF CleanerInv, StartFlagBatch, Turn
  <2>4. CurrentInv'
    BY <1>0, <1>a, <1>1 DEF CurrentInv, Started, Quiet, Earned, Settled, StartFlagBatch, Turn
  <2>5. PastInv'
    BY <1>0, <1>a, <1>1 DEF PastInv, Quiet, Settled, Earned, StartFlagBatch, Turn, ReportInv
  <2>6. CatalogInv'
    BY <1>0, <1>a, <1>1 DEF CatalogInv, Started, StartFlagBatch, Turn
  <2>7. SessionsInv'
    BY <1>0, <1>a, <1>1 DEF SessionsInv, StartFlagBatch, Turn
  <2> QED BY <2>1, <2>2, <2>3, <2>4, <2>5, <2>6, <2>7
<1>2. CASE TakeItem
  <2>1. ReportInv'
    BY <1>0, <1>a, <1>2 DEF ReportInv, TakeItem, Turn
  <2>2. ChildInv'
    BY <1>0, <1>a, <1>2 DEF ChildInv, Started, TakeItem, Turn
  <2>3. CleanerInv'
    BY <1>0, <1>a, <1>2 DEF CleanerInv, TakeItem, Turn
  <2>4. CurrentInv'
    BY <1>0, <1>a, <1>2 DEF CurrentInv, Started, Quiet, Earned, Settled, TakeItem, Turn
  <2>5. PastInv'
    BY <1>0, <1>a, <1>2 DEF PastInv, Quiet, Settled, Earned, TakeItem, Turn, ReportInv
  <2>6. CatalogInv'
    BY <1>0, <1>a, <1>2 DEF CatalogInv, Started, TakeItem, Turn
  <2>7. SessionsInv'
    BY <1>0, <1>a, <1>2 DEF SessionsInv, TakeItem, Turn
  <2> QED BY <2>1, <2>2, <2>3, <2>4, <2>5, <2>6, <2>7
<1>3. CASE LeaveLoop
  <2>r. (halt \/ place > selected) /\ loop = "next" /\ loop' = "report"
        /\ UNCHANGED <<selected, place, halt, reported>>
    BY <1>3 DEF LeaveLoop, Turn
  <2>t. Len(reported) = place - 1
    BY <2>r DEF ReportInv
  <2>u. ~halt => place = selected + 1
    BY <1>0, <2>r
  <2>s. Len(reported) = place - 1 /\ (~halt => Len(reported) = selected) /\ Len(reported) <= selected
    BY <1>0, <2>t, <2>u
  <2>1. ReportInv'
    BY <1>0, <1>a, <2>r, <2>s DEF ReportInv
  <2>2. ChildInv'
    BY <1>0, <1>a, <1>3 DEF ChildInv, Started, LeaveLoop, Turn
  <2>3. CleanerInv'
    BY <1>0, <1>a, <1>3 DEF CleanerInv, LeaveLoop, Turn
  <2>4. CurrentInv'
    BY <1>0, <1>a, <1>3 DEF CurrentInv, Started, Quiet, Earned, Settled, LeaveLoop, Turn
  <2>5. PastInv'
    BY <1>0, <1>a, <1>3 DEF PastInv, Quiet, Settled, Earned, LeaveLoop, Turn, ReportInv
  <2>6. CatalogInv'
    BY <1>0, <1>a, <1>3 DEF CatalogInv, Started, LeaveLoop, Turn
  <2>7. SessionsInv'
    BY <1>0, <1>a, <1>3 DEF SessionsInv, LeaveLoop, Turn
  <2> QED BY <2>1, <2>2, <2>3, <2>4, <2>5, <2>6, <2>7
<1>4. CASE SkipManual
  <2>r. Result("manual") /\ loop = "starting" /\ loop' = "next" /\ UNCHANGED <<finding, catalog, selected>>
    BY <1>4 DEF SkipManual, Turn
  <2>s. /\ Len(reported') = Len(reported) + 1
        /\ \A k \in DOMAIN reported' :
             reported'[k] = IF k = Len(reported) + 1 THEN [item |-> place, status |-> "manual"]
                            ELSE reported[k]
    BY <1>0, <2>r, ResultTypes DEF Findings
  <2>1. ReportInv'
    BY <1>0, <1>a, <2>r, <2>s DEF ReportInv, Result
  <2>2. ChildInv'
    BY <1>0, <1>a, <2>r, <2>s DEF ChildInv, Started, Result
  <2>3. CleanerInv'
    BY <1>0, <1>a, <2>r, <2>s DEF CleanerInv, Result
  <2>4. CurrentInv'
    BY <1>0, <1>a, <2>r, <2>s DEF CurrentInv, Started, Quiet, Earned, Settled, Result
  <2>5. PastInv'
    BY <1>0, <1>a, <2>r, <2>s DEF PastInv, Quiet, Settled, Earned, Result, ReportInv, ChildInv, Started, CurrentInv
  <2>6. CatalogInv'
    BY <1>0, <1>a, <2>r, <2>s DEF CatalogInv, Started, Result
  <2>7. SessionsInv'
    BY <1>0, <1>a, <2>r, <2>s DEF SessionsInv, Result
  <2> QED BY <2>1, <2>2, <2>3, <2>4, <2>5, <2>6, <2>7
<1>5. CASE ChildFails
  <2>r. Result("failed") /\ loop = "starting" /\ loop' = "next" /\ UNCHANGED <<finding, catalog, selected>>
    BY <1>5 DEF ChildFails, Turn
  <2>s. /\ Len(reported') = Len(reported) + 1
        /\ \A k \in DOMAIN reported' :
             reported'[k] = IF k = Len(reported) + 1 THEN [item |-> place, status |-> "failed"]
                            ELSE reported[k]
    BY <1>0, <2>r, ResultTypes DEF Findings
  <2>1. ReportInv'
    BY <1>0, <1>a, <2>r, <2>s DEF ReportInv, Result
  <2>2. ChildInv'
    BY <1>0, <1>a, <2>r, <2>s DEF ChildInv, Started, Result
  <2>3. CleanerInv'
    BY <1>0, <1>a, <2>r, <2>s DEF CleanerInv, Result
  <2>4. CurrentInv'
    BY <1>0, <1>a, <2>r, <2>s DEF CurrentInv, Started, Quiet, Earned, Settled, Result
  <2>5. PastInv'
    BY <1>0, <1>a, <2>r, <2>s DEF PastInv, Quiet, Settled, Earned, Result, ReportInv, ChildInv, Started, CurrentInv
  <2>6. CatalogInv'
    BY <1>0, <1>a, <2>r, <2>s DEF CatalogInv, Started, Result
  <2>7. SessionsInv'
    BY <1>0, <1>a, <2>r, <2>s DEF SessionsInv, Result
  <2> QED BY <2>1, <2>2, <2>3, <2>4, <2>5, <2>6, <2>7
<1>6. CASE StartRaises
  <2>1. ReportInv'
    BY <1>0, <1>a, <1>6 DEF ReportInv, StartRaises, Turn
  <2>2. ChildInv'
    BY <1>0, <1>a, <1>6 DEF ChildInv, Started, StartRaises, Turn
  <2>3. CleanerInv'
    BY <1>0, <1>a, <1>6 DEF CleanerInv, StartRaises, Turn
  <2>4. CurrentInv'
    BY <1>0, <1>a, <1>6 DEF CurrentInv, Started, Quiet, Earned, Settled, StartRaises, Turn
  <2>5. PastInv'
    BY <1>0, <1>a, <1>6 DEF PastInv, Quiet, Settled, Earned, StartRaises, Turn, ReportInv
  <2>6. CatalogInv'
    BY <1>0, <1>a, <1>6 DEF CatalogInv, Started, StartRaises, Turn
  <2>7. SessionsInv'
    BY <1>0, <1>a, <1>6 DEF SessionsInv, StartRaises, Turn
  <2> QED BY <2>1, <2>2, <2>3, <2>4, <2>5, <2>6, <2>7
<1>7. CASE StartChild
  <2>r. /\ loop = "starting" /\ loop' = "watch" /\ finding' = "none" /\ sessions = {}
        /\ child' = [child EXCEPT ![place] = NewChild]
        /\ UNCHANGED <<selected, place, reported, halt, catalog, cleaner, sessions, others, left>>
    BY <1>7 DEF StartChild, Turn
  <2>s. child'[place] = NewChild /\ \A j \in FlagItems \ {place} : child'[j] = child[j]
    BY <1>0, <2>r
  <2>t. /\ NewChild.runner = "generator" /\ NewChild.listed /\ ~NewChild.claimed /\ ~NewChild.removed
        /\ ~NewChild.over /\ NewChild.truth = "none"
    BY DEF NewChild, NoChild
  <2>1. ReportInv'
    BY <1>0, <1>a, <2>r, <2>s, <2>t DEF ReportInv
  <2>2. ChildInv'
    BY <1>0, <1>a, <2>r, <2>s, <2>t DEF ChildInv, Started
  <2>3. CleanerInv'
    BY <1>0, <1>a, <2>r, <2>s, <2>t DEF CleanerInv
  <2>4. CurrentInv'
    BY <1>0, <1>a, <2>r, <2>s, <2>t DEF CurrentInv, Started, Quiet, Earned, Settled
  <2>5. PastInv'
    BY <1>0, <1>a, <2>r, <2>s, <2>t DEF PastInv, Quiet, Settled, Earned, ReportInv
  <2>6. CatalogInv'
    BY <1>0, <1>a, <2>r, <2>s, <2>t DEF CatalogInv, Started
  <2>7. SessionsInv'
    BY <1>0, <1>a, <2>r, <2>s, <2>t DEF SessionsInv
  <2> QED BY <2>1, <2>2, <2>3, <2>4, <2>5, <2>6, <2>7
<1>8. CASE SeeMissing
  <2>1. ReportInv'
    BY <1>0, <1>a, <1>8 DEF ReportInv, SeeMissing, Turn
  <2>2. ChildInv'
    BY <1>0, <1>a, <1>8 DEF ChildInv, Started, SeeMissing, Turn
  <2>3. CleanerInv'
    BY <1>0, <1>a, <1>8 DEF CleanerInv, SeeMissing, Turn
  <2>4. CurrentInv'
    BY <1>0, <1>a, <1>8 DEF CurrentInv, Started, Quiet, Earned, Settled, SeeMissing, Turn
  <2>5. PastInv'
    BY <1>0, <1>a, <1>8 DEF PastInv, Quiet, Settled, Earned, SeeMissing, Turn, ReportInv
  <2>6. CatalogInv'
    BY <1>0, <1>a, <1>8 DEF CatalogInv, Started, SeeMissing, Turn
  <2>7. SessionsInv'
    BY <1>0, <1>a, <1>8 DEF SessionsInv, SeeMissing, Turn, CurrentInv, Started, Quiet, CleanerInv
  <2> QED BY <2>1, <2>2, <2>3, <2>4, <2>5, <2>6, <2>7
<1>9. CASE SeeStop
  <2>r. /\ loop = "watch" /\ loop' = "own" /\ finding' = "incomplete" /\ halt
        /\ cleaner' = [cleaner EXCEPT !["batch"] = [at |-> "check", of |-> place]]
        /\ UNCHANGED <<selected, place, reported, halt, catalog, child, sessions, others, left>>
    BY <1>9 DEF SeeStop, Turn
  <2>s. /\ cleaner'["batch"].at = "check" /\ cleaner'["batch"].of = place
        /\ \A a \in {"stop", "user"} : cleaner'[a] = cleaner[a]
    BY <1>0, <2>r
  <2>1. ReportInv'
    BY <1>0, <1>a, <2>r, <2>s DEF ReportInv
  <2>2. ChildInv'
    BY <1>0, <1>a, <2>r, <2>s DEF ChildInv, Started
  <2>3. CleanerInv'
    BY <1>0, <1>a, <2>r, <2>s DEF CleanerInv
  <2>4. CurrentInv'
    BY <1>0, <1>a, <2>r, <2>s DEF CurrentInv, Started, Quiet, Earned, Settled
  <2>5. PastInv'
    BY <1>0, <1>a, <2>r, <2>s DEF PastInv, Quiet, Settled, Earned, ReportInv
  <2>6. CatalogInv'
    BY <1>0, <1>a, <2>r, <2>s DEF CatalogInv, Started
  <2>7. SessionsInv'
    BY <1>0, <1>a, <2>r, <2>s DEF SessionsInv
  <2> QED BY <2>1, <2>2, <2>3, <2>4, <2>5, <2>6, <2>7
<1>10. CASE SeeCleaning
  <2>1. ReportInv'
    BY <1>0, <1>a, <1>10 DEF ReportInv, SeeCleaning, Turn
  <2>2. ChildInv'
    BY <1>0, <1>a, <1>10 DEF ChildInv, Started, SeeCleaning, Turn
  <2>3. CleanerInv'
    BY <1>0, <1>a, <1>10 DEF CleanerInv, SeeCleaning, Turn
  <2>4. CurrentInv'
    BY <1>0, <1>a, <1>10 DEF CurrentInv, Started, Quiet, Earned, Settled, SeeCleaning, Turn
  <2>5. PastInv'
    BY <1>0, <1>a, <1>10 DEF PastInv, Quiet, Settled, Earned, SeeCleaning, Turn, ReportInv
  <2>6. CatalogInv'
    BY <1>0, <1>a, <1>10 DEF CatalogInv, Started, SeeCleaning, Turn
  <2>7. SessionsInv'
    BY <1>0, <1>a, <1>10 DEF SessionsInv, SeeCleaning, Turn
  <2> QED BY <2>1, <2>2, <2>3, <2>4, <2>5, <2>6, <2>7
<1>11. CASE SeeDone
  <2>1. ReportInv'
    BY <1>0, <1>a, <1>11 DEF ReportInv, SeeDone, Turn
  <2>2. ChildInv'
    BY <1>0, <1>a, <1>11 DEF ChildInv, Started, SeeDone, Turn
  <2>3. CleanerInv'
    BY <1>0, <1>a, <1>11 DEF CleanerInv, SeeDone, Turn
  <2>4. CurrentInv'
    BY <1>0, <1>a, <1>11 DEF CurrentInv, Started, Quiet, Earned, Settled, SeeDone, Turn
  <2>5. PastInv'
    BY <1>0, <1>a, <1>11 DEF PastInv, Quiet, Settled, Earned, SeeDone, Turn, ReportInv
  <2>6. CatalogInv'
    BY <1>0, <1>a, <1>11 DEF CatalogInv, Started, SeeDone, Turn
  <2>7. SessionsInv'
    BY <1>0, <1>a, <1>11 DEF SessionsInv, SeeDone, Turn
  <2> QED BY <2>1, <2>2, <2>3, <2>4, <2>5, <2>6, <2>7
<1>12. CASE Classify
  <2>r. /\ loop = "classify" /\ loop' = "own" /\ finding' = Judged(child[place])
        /\ cleaner' = [cleaner EXCEPT !["batch"] = [at |-> "check", of |-> place]]
        /\ UNCHANGED <<selected, place, reported, halt, catalog, child, sessions, others, left>>
    BY <1>12 DEF Classify, Turn
  <2>s. /\ cleaner'["batch"].at = "check" /\ cleaner'["batch"].of = place
        /\ \A a \in {"stop", "user"} : cleaner'[a] = cleaner[a]
    BY <1>0, <2>r
  <2>1. ReportInv'
    BY <1>0, <1>a, <2>r, <2>s DEF ReportInv, Judged
  <2>2. ChildInv'
    BY <1>0, <1>a, <2>r, <2>s DEF ChildInv, Started, Judged
  <2>3. CleanerInv'
    BY <1>0, <1>a, <2>r, <2>s DEF CleanerInv, Judged
  <2>4. CurrentInv'
    BY <1>0, <1>a, <2>r, <2>s DEF CurrentInv, Started, Quiet, Earned, Settled, Judged, ChildInv
  <2>5. PastInv'
    BY <1>0, <1>a, <2>r, <2>s DEF PastInv, Quiet, Settled, Earned, Judged, ReportInv
  <2>6. CatalogInv'
    BY <1>0, <1>a, <2>r, <2>s DEF CatalogInv, Started, Judged
  <2>7. SessionsInv'
    BY <1>0, <1>a, <2>r, <2>s DEF SessionsInv, Judged
  <2> QED BY <2>1, <2>2, <2>3, <2>4, <2>5, <2>6, <2>7
<1>13. CASE OwnOver
  <2>1. ReportInv'
    BY <1>0, <1>a, <1>13 DEF ReportInv, OwnOver, Turn
  <2>2. ChildInv'
    BY <1>0, <1>a, <1>13 DEF ChildInv, Started, OwnOver, Turn
  <2>3. CleanerInv'
    BY <1>0, <1>a, <1>13 DEF CleanerInv, OwnOver, Turn
  <2>4. CurrentInv'
    BY <1>0, <1>a, <1>13 DEF CurrentInv, Started, Quiet, Earned, Settled, OwnOver, Turn
  <2>5. PastInv'
    BY <1>0, <1>a, <1>13 DEF PastInv, Quiet, Settled, Earned, OwnOver, Turn, ReportInv
  <2>6. CatalogInv'
    BY <1>0, <1>a, <1>13 DEF CatalogInv, Started, OwnOver, Turn
  <2>7. SessionsInv'
    BY <1>0, <1>a, <1>13 DEF SessionsInv, OwnOver, Turn, CurrentInv, Started, Quiet, CleanerInv
  <2> QED BY <2>1, <2>2, <2>3, <2>4, <2>5, <2>6, <2>7
<1>14. CASE Bottom
  <2>1. ReportInv'
    BY <1>0, <1>a, <1>14 DEF ReportInv, Bottom, Turn
  <2>2. ChildInv'
    BY <1>0, <1>a, <1>14 DEF ChildInv, Started, Bottom, Turn
  <2>3. CleanerInv'
    BY <1>0, <1>a, <1>14 DEF CleanerInv, Bottom, Turn
  <2>4. CurrentInv'
    BY <1>0, <1>a, <1>14 DEF CurrentInv, Started, Quiet, Earned, Settled, Bottom, Turn
  <2>5. PastInv'
    BY <1>0, <1>a, <1>14 DEF PastInv, Quiet, Settled, Earned, Bottom, Turn, ReportInv
  <2>6. CatalogInv'
    BY <1>0, <1>a, <1>14 DEF CatalogInv, Started, Bottom, Turn
  <2>7. SessionsInv'
    BY <1>0, <1>a, <1>14 DEF SessionsInv, Bottom, Turn, CurrentInv, Started, Quiet, CleanerInv
  <2> QED BY <2>1, <2>2, <2>3, <2>4, <2>5, <2>6, <2>7
<1>15. CASE RecordResult
  <2>r. Result(finding) /\ loop = "record" /\ loop' = "next" /\ finding' = "none"
        /\ catalog' = [catalog EXCEPT ![place] = finding] /\ UNCHANGED selected
    BY <1>15 DEF RecordResult, Turn
  <2>f. finding \in Findings /\ finding # "stopped"
    BY DEF TypeInv, Findings
  <2>s. /\ Len(reported') = Len(reported) + 1
        /\ \A k \in DOMAIN reported' :
             reported'[k] = IF k = Len(reported) + 1 THEN [item |-> place, status |-> finding]
                            ELSE reported[k]
    BY <1>0, <2>r, <2>f, ResultTypes
  <2>1. ReportInv'
    BY <1>0, <1>a, <2>r, <2>s, <2>f DEF ReportInv, Result
  <2>2. ChildInv'
    BY <1>0, <1>a, <2>r, <2>s, <2>f DEF ChildInv, Started, Result
  <2>3. CleanerInv'
    BY <1>0, <1>a, <2>r, <2>s, <2>f DEF CleanerInv, Result
  <2>4. CurrentInv'
    BY <1>0, <1>a, <2>r, <2>s, <2>f DEF CurrentInv, Started, Quiet, Earned, Settled, Result
  <2>5. PastInv'
    BY <1>0, <1>a, <2>r, <2>s, <2>f DEF PastInv, Quiet, Settled, Earned, Result, ReportInv, ChildInv, Started, CurrentInv
  <2>6. CatalogInv'
    BY <1>0, <1>a, <2>r, <2>s, <2>f DEF CatalogInv, Started, Result
  <2>7. SessionsInv'
    BY <1>0, <1>a, <2>r, <2>s, <2>f DEF SessionsInv, Result, CurrentInv, Started, Quiet, CleanerInv
  <2> QED BY <2>1, <2>2, <2>3, <2>4, <2>5, <2>6, <2>7
<1>16. CASE SkipUnseen
  <2>r. PICK i \in Unseen : /\ \A j \in Unseen : i <= j
                           /\ reported' = Append(reported, [item |-> i, status |-> "stopped"])
    BY <1>16 DEF SkipUnseen
  <2>t. loop = "report" /\ halt
        /\ UNCHANGED <<selected, loop, place, finding, halt, catalog, child, cleaner, sessions, others, left>>
    BY <1>16 DEF SkipUnseen
  <2>u. i = Len(reported) + 1 /\ i <= selected
    <3>1. Len(reported) <= selected /\ \A k \in DOMAIN reported : reported[k].item = k
      BY <2>t DEF ReportInv
    <3>2. i \in 1 .. selected /\ \A k \in DOMAIN reported : k # i
      BY <2>r, <3>1 DEF Unseen
    <3>3. i > Len(reported)
      BY <1>0, <3>2
    <3>4. Len(reported) + 1 \in Unseen
      BY <1>0, <3>1, <3>2, <3>3 DEF Unseen
    <3> QED BY <1>0, <2>r, <3>2, <3>3, <3>4
  <2> DEFINE e == [item |-> i, status |-> "stopped"]
  <2>v. e.item = i /\ e.status = "stopped" /\ reported' = Append(reported, e)
    BY <2>r
  <2> HIDE DEF e
  <2>w. Len(reported') = Len(reported) + 1 /\ \A k \in DOMAIN reported' :
          reported'[k] = IF k = Len(reported) + 1 THEN e ELSE reported[k]
    BY <1>0, <2>v DEF TypeInv, FlagTypeOK
  <2>1. ReportInv'
    BY <1>0, <1>a, <2>t, <2>u, <2>v, <2>w DEF ReportInv
  <2>2. ChildInv'
    BY <1>0, <1>a, <2>t, <2>u, <2>v, <2>w DEF ChildInv, Started
  <2>3. CleanerInv'
    BY <1>0, <1>a, <2>t, <2>u, <2>v, <2>w DEF CleanerInv
  <2>4. CurrentInv'
    BY <1>0, <1>a, <2>t, <2>u, <2>v, <2>w DEF CurrentInv, Started, Quiet, Earned, Settled
  <2>5. PastInv'
    BY <1>0, <1>a, <2>t, <2>u, <2>v, <2>w DEF PastInv, Quiet, Settled, Earned, ReportInv
  <2>6. CatalogInv'
    BY <1>0, <1>a, <2>t, <2>u, <2>v, <2>w DEF CatalogInv, Started
  <2>7. SessionsInv'
    BY <1>0, <1>a, <2>t, <2>u, <2>v, <2>w DEF SessionsInv
  <2> QED BY <2>1, <2>2, <2>3, <2>4, <2>5, <2>6, <2>7
<1>17. CASE EndFlagBatch
  <2>r. (halt => Unseen = {}) /\ loop = "report" /\ loop' = "ended"
        /\ UNCHANGED <<selected, halt, reported>>
    BY <1>17 DEF EndFlagBatch, Turn
  <2>s. Len(reported) = selected
    <3>1. CASE ~halt
      BY <2>r, <3>1 DEF ReportInv
    <3>2. CASE halt
      <4>1. \A k \in DOMAIN reported : reported[k].item = k
        BY DEF ReportInv
      <4>2. Len(reported) <= selected
        BY <2>r DEF ReportInv
      <4>3. \A i \in 1 .. selected : i \in DOMAIN reported
        BY <2>r, <3>2, <4>1 DEF Unseen
      <4>4. Len(reported) + 1 \notin DOMAIN reported
        BY <1>0
      <4>5. Len(reported) + 1 \notin 1 .. selected
        BY <4>3, <4>4
      <4>6. \A n, m \in Nat : n <= m /\ n + 1 \notin 1 .. m => n = m
        OBVIOUS
      <4> QED BY <1>0, <4>2, <4>5, <4>6
    <3> QED BY <3>1, <3>2
  <2>1. ReportInv'
    BY <1>0, <1>a, <2>r, <2>s DEF ReportInv
  <2>2. ChildInv'
    BY <1>0, <1>a, <1>17 DEF ChildInv, Started, EndFlagBatch, Turn
  <2>3. CleanerInv'
    BY <1>0, <1>a, <1>17 DEF CleanerInv, EndFlagBatch, Turn
  <2>4. CurrentInv'
    BY <1>0, <1>a, <1>17 DEF CurrentInv, Started, Quiet, Earned, Settled, EndFlagBatch, Turn
  <2>5. PastInv'
    BY <1>0, <1>a, <1>17 DEF PastInv, Quiet, Settled, Earned, EndFlagBatch, Turn, ReportInv
  <2>6. CatalogInv'
    BY <1>0, <1>a, <1>17 DEF CatalogInv, Started, EndFlagBatch, Turn
  <2>7. SessionsInv'
    BY <1>0, <1>a, <1>17 DEF SessionsInv, EndFlagBatch, Turn
  <2> QED BY <2>1, <2>2, <2>3, <2>4, <2>5, <2>6, <2>7
<1> QED BY <1>1, <1>2, <1>3, <1>4, <1>5, <1>6, <1>7, <1>8, <1>9, <1>10, <1>11, <1>12, <1>13, <1>14, <1>15, <1>16, <1>17 DEF FlagLoopStep

\* Results are of items.
LEMMA PastItems ==
  ASSUME FlagInv
  PROVE  \A k \in DOMAIN reported : k \in FlagItems /\ reported[k].item = k
<1> DEFINE R == [item : FlagItems, status : Findings]
<1>1. reported \in Seq(R) /\ ReportInv
  BY DEF FlagInv, TypeInv, FlagTypeOK
<1>2. \A r \in R : r.item \in FlagItems
  OBVIOUS
<1> HIDE DEF R
<1>3. \A k \in DOMAIN reported : reported[k] \in R
  BY <1>1
<1> QED BY <1>1, <1>2, <1>3 DEF ReportInv

\* A step of the thread of a test.
LEMMA RunnerInv ==
  ASSUME FlagInv, TypeInv', NEW i \in FlagItems, RunnerStep(i)
  PROVE  FlagInv'
<1> USE DEF FlagInv
<1>0. /\ MaxFlags \in Nat /\ selected \in Nat /\ place \in Nat /\ place >= 1 /\ place <= selected + 1
      /\ FlagItems = 1 .. MaxFlags
      /\ Len(reported) \in Nat /\ DOMAIN reported = 1 .. Len(reported)
      /\ loop \in {"starting", "watch", "classify", "own", "bottom", "record"} => place \in FlagItems
  BY Shapes
<1>1. RunnerShape(i)
  BY RunnerSteps
<1>2. UNCHANGED <<selected, loop, place, finding, reported, halt, catalog, cleaner, others, left>>
  BY <1>1 DEF RunnerShape
<1>3. ReportInv'
  BY <1>2 DEF ReportInv
<1>4. ChildInv'
  BY <1>0, <1>1, <1>2 DEF ChildInv, Started, RunnerShape
<1>5. CleanerInv'
  BY <1>2 DEF CleanerInv
<1>6. CurrentInv'
  <2>1. CASE place = i
    <3>1. /\ child'[i].listed = child[i].listed /\ child'[i].claimed = child[i].claimed
          /\ child'[i].removed = child[i].removed
          /\ child[i].runner \notin {"none", "gone"}
          /\ child[i].runner = "code" => child'[i].runner = "gone"
          /\ child'[i].over /\ ~child[i].over => child'[i].runner \in {"code", "gone"}
          /\ child'[i].fetched # child[i].fetched => child[i].runner = "sync"
          /\ child'[i].truth # child[i].truth => child[i].runner = "run"
      BY <1>1 DEF RunnerShape
    <3>2. Settled(i) => Settled(i)' /\ \A st : Earned(i, st) => Earned(i, st)'
      BY <3>1 DEF Settled, Earned
    <3>3. SUFFICES ASSUME Started(i), Quiet(i)
                   PROVE  /\ loop \in {"watch", "classify"} =>
                               /\ child'[i].listed /\ ~child'[i].claimed /\ ~child'[i].removed
                               /\ child'[i].over => child'[i].runner \in {"code", "gone"}
                          /\ loop = "classify" => child'[i].over
                          /\ loop \in {"own", "bottom", "record"} =>
                               finding # "none" /\ Earned(i, finding)' /\ Settled(i)'
                          /\ loop = "own" =>
                               IF cleaner["batch"].at = "out" THEN ~child'[i].listed
                               ELSE cleaner["batch"].at \in {"check", "claim"} => ~child'[i].claimed
                          /\ loop = "bottom" => ~child'[i].listed
      BY <1>2, <2>1 DEF CurrentInv, Started, Quiet, Earned
    <3>4. loop \in {"own", "bottom", "record"} => finding # "none" /\ Earned(i, finding) /\ Settled(i)
      BY <2>1, <3>3 DEF CurrentInv
    <3>5. loop \in {"watch", "classify"} =>
            /\ child[i].listed /\ ~child[i].claimed /\ ~child[i].removed
            /\ child[i].over => child[i].runner \in {"code", "gone"}
      BY <2>1, <3>3 DEF CurrentInv
    <3>6. /\ loop = "own" =>
               IF cleaner["batch"].at = "out" THEN ~child[i].listed
               ELSE cleaner["batch"].at \in {"check", "claim"} => ~child[i].claimed
          /\ loop = "bottom" => ~child[i].listed
      BY <2>1, <3>3 DEF CurrentInv
    <3>7. loop = "classify" => child'[i].over
      BY <1>1, <2>1, <3>1, <3>3, <3>5 DEF CurrentInv, RunnerShape
    <3> QED BY <1>2, <3>1, <3>2, <3>4, <3>5, <3>6, <3>7
  <2>2. CASE place # i
    <3>1. Started(place) => child'[place] = child[place]
      BY <1>0, <1>1, <2>2 DEF RunnerShape, Started
    <3> QED BY <1>2, <3>1 DEF CurrentInv, Started, Quiet, Earned, Settled
  <2> QED BY <2>1, <2>2
<1>7. PastInv'
  <2> SUFFICES ASSUME NEW k \in DOMAIN reported, Quiet(k)
               PROVE  Settled(k)' /\ Earned(k, reported[k].status)'
    BY <1>2 DEF PastInv, Quiet
  <2>1. Settled(k) /\ Earned(k, reported[k].status)
    BY DEF PastInv
  <2>2. CASE k = i
    BY <1>1, <1>2, <2>1, <2>2 DEF Settled, Earned, RunnerShape
  <2>3. CASE k # i
    <3>1. child'[k] = child[k]
      BY <1>1, <2>3, PastItems DEF RunnerShape
    <3> QED BY <1>2, <2>1, <3>1 DEF Settled, Earned
  <2> QED BY <2>2, <2>3
<1>8. CatalogInv'
  BY <1>0, <1>1, <1>2 DEF CatalogInv, Started, RunnerShape, ChildInv
<1>9. SessionsInv'
  <2>1. CASE sessions' = sessions
    BY <1>2, <2>1 DEF SessionsInv
  <2>2. CASE child[i].runner = "launch"
    <3>1. SUFFICES ASSUME ~halt, others = {}
                   PROVE  loop \in {"watch", "classify"}
      BY <1>2 DEF SessionsInv
    <3>2. Started(i)
      BY <2>2 DEF ChildInv
    <3>3. i \notin DOMAIN reported
      BY <2>2, <3>1 DEF PastInv, Quiet, Settled
    <3>4. i = place /\ loop \in {"watch", "classify", "own", "bottom", "record"}
      <4>1. i <= place /\ i <= MaxFlags /\ i \in Nat /\ i >= 1
        BY <1>0, <3>2 DEF Started
      <4>2. CASE i < place
        <5>1. Len(reported) = place - 1 \/ Len(reported) = selected
          BY <3>1 DEF ReportInv
        <5>2. i <= Len(reported)
          <6>1. \A l, p, m \in Nat : p <= m + 1 /\ i < p /\ (l = p - 1 \/ l = m) => i <= l
            BY <4>1
          <6> QED BY <1>0, <4>2, <5>1, <6>1
        <5> QED BY <1>0, <3>3, <4>1, <5>2
      <4> QED BY <1>0, <3>2, <4>1, <4>2 DEF Started
    <3> QED BY <2>2, <3>1, <3>4 DEF CurrentInv, Started, Quiet, Settled
  <2> QED BY <1>1, <2>1, <2>2 DEF RunnerShape
<1> QED BY <1>3, <1>4, <1>5, <1>6, <1>7, <1>8, <1>9

\* A user's clean-up begins, or a stop request is made and looks for the test.
LEMMA AskInv ==
  ASSUME FlagInv, TypeInv', RequestStop \/ LookForChild \/ \E i \in FlagItems : UserCleans(i)
  PROVE  FlagInv'
<1> USE DEF FlagInv
<1>0. /\ child \in [FlagItems -> Children] /\ cleaner \in [Cleaners -> [at : CleanerPlaces, of : FlagItems]]
      /\ Cleaners = {"batch", "stop", "user"}
  BY Shapes
<1>1. ASSUME RequestStop \/ LookForChild PROVE FlagInv'
  <2>1. /\ UNCHANGED <<selected, loop, place, finding, reported, catalog, child, sessions, others, left>>
        /\ halt' = TRUE \/ halt' = halt
        /\ cleaner'["batch"] = cleaner["batch"] /\ cleaner'["user"] = cleaner["user"]
    BY <1>0, <1>1 DEF RequestStop, LookForChild
  <2>2. halt'
    BY <1>1 DEF RequestStop, LookForChild, CleanerInv
  <2>3. ReportInv' /\ CleanerInv'
    BY <2>1, <2>2 DEF ReportInv, CleanerInv
  <2>4. ChildInv' /\ CatalogInv'
    BY <2>1 DEF ChildInv, CatalogInv, Started
  <2>5. CurrentInv' /\ PastInv' /\ SessionsInv'
    BY <2>2 DEF CurrentInv, PastInv, SessionsInv, Quiet
  <2> QED BY <2>3, <2>4, <2>5
<1>2. ASSUME NEW i \in FlagItems, UserCleans(i) PROVE FlagInv'
  <2>1. /\ cleaner' = [cleaner EXCEPT !["user"] = [at |-> "runtime", of |-> i]]
        /\ child' = [child EXCEPT ![i].asked = TRUE] /\ others' = others \cup {i}
        /\ UNCHANGED <<selected, loop, place, finding, reported, halt, catalog, sessions, left>>
    BY <1>2 DEF UserCleans
  <2>2. /\ cleaner'["batch"] = cleaner["batch"] /\ cleaner'["stop"] = cleaner["stop"]
        /\ cleaner'["user"].of = i
    BY <1>0, <2>1
  <2>3. \A j \in FlagItems :
          /\ child'[j].runner = child[j].runner /\ child'[j].truth = child[j].truth
          /\ child'[j].fetched = child[j].fetched /\ child'[j].code = child[j].code
          /\ child'[j].listed = child[j].listed /\ child'[j].claimed = child[j].claimed
          /\ child'[j].removed = child[j].removed /\ child'[j].over = child[j].over
    <3>1. child[i] \in Children
      BY <1>0
    <3>2. child'[i] = [child[i] EXCEPT !.asked = TRUE] /\ \A j \in FlagItems \ {i} : child'[j] = child[j]
      BY <1>0, <2>1
    <3> QED BY <3>1, <3>2 DEF Children
  <2>4. ReportInv' /\ SessionsInv'
    BY <2>1 DEF ReportInv, SessionsInv
  <2>5. CleanerInv'
    BY <2>1, <2>2 DEF CleanerInv
  <2>6. ChildInv'
    BY <2>1, <2>3 DEF ChildInv, Started
  <2>7. Started(place) => place \in FlagItems
    BY Shapes DEF Started
  <2>8. CurrentInv'
    BY <2>1, <2>2, <2>3, <2>7 DEF CurrentInv, Started, Quiet, Earned, Settled
  <2>9. PastInv'
    <3>1. \A k \in DOMAIN reported : k \in FlagItems
      BY PastItems
    <3> QED BY <2>1, <2>3, <3>1 DEF PastInv, Quiet, Earned, Settled
  <2>10. CatalogInv'
    BY <2>1, <2>3, <2>7 DEF CatalogInv, Started
  <2> QED BY <2>4, <2>5, <2>6, <2>8, <2>9, <2>10
<1> QED BY <1>1, <1>2

\* A step of a clean-up.
LEMMA CleanerInvStep ==
  ASSUME FlagInv, TypeInv', NEW a \in Cleaners, CleanerStep(a)
  PROVE  FlagInv'
<1> USE DEF FlagInv
<1> DEFINE i == cleaner[a].of
<1>0. /\ i \in FlagItems /\ Cleaners = {"batch", "stop", "user"} /\ FlagItems = 1 .. MaxFlags
      /\ Started(place) => place \in FlagItems
      /\ \A k \in DOMAIN reported : k \in FlagItems
  BY Shapes, PastItems DEF Started
<1>1. CleanerShape(a)
  BY CleanerSteps
<1>2. UNCHANGED <<selected, loop, place, finding, reported, halt, others>>
  BY <1>1 DEF CleanerShape
<1>3. /\ cleaner[a].at \notin {"out", "look", "gone"} /\ CleanerMove(a)
      /\ cleaner'[a].of = i /\ \A b \in Cleaners \ {a} : cleaner'[b] = cleaner[b]
  BY <1>1 DEF CleanerShape, CleanerMove
<1>4. \A j \in FlagItems :
        /\ child'[j].runner = child[j].runner /\ child'[j].truth = child[j].truth
        /\ child'[j].fetched = child[j].fetched /\ child'[j].code = child[j].code
        /\ j # i => child'[j] = child[j]
  BY <1>1 DEF CleanerShape
<1>5. ReportInv'
  BY <1>2 DEF ReportInv
<1>6. ChildInv'
  BY <1>2, <1>4 DEF ChildInv, Started
<1>7. CleanerInv'
  BY <1>0, <1>2, <1>3 DEF CleanerInv
<1>8. CurrentInv'
  <2>1. CASE a = "stop"
    BY <1>2, <1>3, <2>1 DEF CleanerInv, CurrentInv, Quiet
  <2>2. CASE a = "user"
    <3>1. Quiet(place) => place # i
      BY <1>3, <2>2 DEF CleanerInv, Quiet
    <3>2. cleaner'["batch"] = cleaner["batch"]
      BY <1>0, <1>3, <2>2
    <3> QED BY <1>0, <1>2, <1>4, <3>1, <3>2 DEF CurrentInv, Started, Quiet, Earned, Settled
  <2>3. CASE a = "batch"
    <3>1. loop = "own" /\ i = place
      BY <1>3, <2>3 DEF CleanerInv
    <3> QED BY <1>0, <1>2, <1>3, <1>4, <2>3, <3>1
            DEF CurrentInv, Started, Quiet, Earned, Settled, CleanerMove
  <2> QED BY <1>0, <2>1, <2>2, <2>3
<1>9. PastInv'
  BY <1>0, <1>2, <1>4 DEF PastInv, Quiet, Earned, Settled
<1>10. CatalogInv'
  BY <1>0, <1>1, <1>2, <1>4 DEF CatalogInv, Started, CleanerShape, TypeInv, FlagTypeOK
<1>11. SessionsInv'
  <2>1. CASE a = "batch"
    <3>1. loop = "own" /\ i = place
      BY <1>3, <2>1 DEF CleanerInv
    <3>2. Started(place)
      BY <3>1 DEF Started
    <3>3. ~halt /\ others = {} /\ cleaner[a].at \in {"check", "claim"} => ~child[i].claimed
      BY <1>3, <2>1, <3>1, <3>2 DEF CurrentInv, Quiet
    <3> QED BY <1>2, <1>3, <2>1, <3>1, <3>3 DEF SessionsInv, CleanerMove
  <2>2. CASE a = "stop"
    BY <1>2, <1>3, <2>2 DEF CleanerInv, SessionsInv
  <2>3. CASE a = "user"
    BY <1>2, <1>3, <2>3 DEF CleanerInv, SessionsInv
  <2> QED BY <1>0, <2>1, <2>2, <2>3
<1> QED BY <1>5, <1>6, <1>7, <1>8, <1>9, <1>10, <1>11

LEMMA InvStep == FlagInv /\ [FlagNext]_flagVars => FlagInv'
<1> SUFFICES ASSUME FlagInv, [FlagNext]_flagVars PROVE FlagInv'
  OBVIOUS
<1>1. TypeInv'
  BY TypeStep DEF FlagInv
<1>2. CASE UNCHANGED flagVars
  BY <1>2 DEF flagVars, FlagInv, TypeInv, FlagTypeOK, ReportInv, ChildInv, CleanerInv, CurrentInv,
     PastInv, CatalogInv, SessionsInv, Started, Quiet, Settled, Earned
<1> QED BY <1>1, <1>2, LoopInv, RunnerInv, AskInv, CleanerInvStep DEF FlagNext

LEMMA Invariant == FlagSpec => []FlagInv
BY InvInit, InvStep, PTL DEF FlagSpec

\* Every variable keeps its type: for instance, the batch never works on an item
\* beyond the last one.
THEOREM FlagTypes == FlagSpec => []FlagTypeOK
<1>1. FlagInv => FlagTypeOK
  BY DEF FlagInv, TypeInv
<1> QED BY <1>1, Invariant, PTL

\* The report of a batch names every generator once and in order, and says that
\* one was skipped because of a stop request only if there was one.
THEOREM FlagReport == FlagSpec => []FlagReportComplete
<1>1. FlagInv => FlagReportComplete
  BY DEF FlagInv, ReportInv, FlagReportComplete
<1> QED BY <1>1, Invariant, PTL

\* A generator is recorded as passed only if a session was validated, and a test
\* that nobody interfered with is reported as it ended.
THEOREM VerdictIsEarned == FlagSpec => []FlagVerdictEarned
<1>1. FlagInv => FlagVerdictEarned
  BY DEF FlagInv, ReportInv, PastInv, CatalogInv, Quiet, Earned, FlagVerdictEarned
<1> QED BY <1>1, Invariant, PTL

\* A batch that nobody interfered with ends with no session on the VM, unless a
\* clean-up could not reach it.
THEOREM SessionsAreGone == FlagSpec => []FlagSessionsGone
<1>1. FlagInv => FlagSessionsGone
  BY DEF FlagInv, SessionsInv, FlagSessionsGone
<1> QED BY <1>1, Invariant, PTL

-----------------------------------------------------------------------------
(* The types of the image cache runs. *)

CacheRunRecords ==
  [stage : CacheStages, mode : CacheModes, stop : BOOLEAN,
   status : {"queued", "running", "failed", "stopped", "completed"}, synced : BOOLEAN,
   selected : Selections \cup {<<>>}, at : Nat \ {0}, todo : SUBSET Images,
   missing : SUBSET Images, pulled : BOOLEAN, finding : CacheFindings,
   results : Seq(CacheItems)]

CacheTyped ==
  /\ cacheRun \in [CacheRuns -> CacheRunRecords]
  /\ images \in SUBSET Images
  /\ cached \in [CacheItems -> CacheFindings]
  /\ pinned \in SUBSET CacheItems /\ doubt \in SUBSET CacheItems
  /\ crowded \in BOOLEAN

\* Where a run works on an item.
AtItem == {"pull", "build", "list", "each", "save"}

\* Where a run is not active.
IdleStages == {"free", "checked", "done"}

\* A run has a result for each item before the one it is at, in order, and it ends
\* after the last one, or stopped, or without having begun.
Reports(r) ==
  /\ r.at <= Len(r.selected) + 1 /\ Len(r.results) = r.at - 1
  /\ \A i \in 1 .. Len(r.results) : r.results[i] = r.selected[i]
  /\ r.stage \in {"free", "checked", "queued", "connect"} => r.at = 1
  /\ r.stage \in AtItem => r.at <= Len(r.selected)
  /\ r.stage = "done" =>
       \/ r.status = "completed" /\ r.at = Len(r.selected) + 1
       \/ r.status = "stopped" /\ r.stop
       \/ r.status = "failed" /\ r.at = 1

RunsTyped == CacheTyped /\ \A c \in CacheRuns : Reports(cacheRun[c])

\* What a look at the images has not found missing is there, and so is what a run is
\* about to record as cached.
Looks(r, present) ==
  /\ r.stage = "each" /\ r.mode = "status" =>
       Needs[r.selected[r.at]] \ (r.todo \cup r.missing) \subseteq present
  /\ r.stage = "save" /\ r.finding = "cached" /\ r.todo = {} =>
       Needs[r.selected[r.at]] \subseteq present

Alone == ~crowded => \A c, d \in ActiveRuns : c = d

LooksAreTrue == ~crowded => \A c \in CacheRuns : Looks(cacheRun[c], images)

CatalogueTrue ==
  ~crowded =>
    \A i \in CacheItems : cached[i] = "cached" /\ i \notin doubt => Needs[i] \subseteq images

CacheInv == RunsTyped /\ Alone /\ LooksAreTrue /\ CatalogueTrue

LEMMA SelectionsAreSequences ==
  ASSUME NEW s \in Selections \cup {<<>>}
  PROVE  s \in Seq(CacheItems) /\ DOMAIN s = 1 .. Len(s) /\ Len(s) \in Nat
<1>1. CASE s \in Selections
  <2>1. PICK n \in 1 .. Cardinality(CacheItems) : s \in [1 .. n -> CacheItems]
    BY <1>1 DEF Selections
  <2> QED
    BY <2>1
<1>2. CASE s = <<>>
  BY <1>2
<1> QED
  BY <1>1, <1>2

\* The item a run is at.
LEMMA ItemTyped ==
  ASSUME RunsTyped, NEW c \in CacheRuns, cacheRun[c].at \in 1 .. Len(cacheRun[c].selected)
  PROVE  Item(c) \in CacheItems /\ Needs[Item(c)] \in SUBSET Images
<1> DEFINE r == cacheRun[c]
<1>1. r.selected \in Seq(CacheItems)
  BY SelectionsAreSequences DEF RunsTyped, CacheTyped, CacheRunRecords
<1>2. r.selected[r.at] \in CacheItems
  BY <1>1
<1>3. Needs \in [CacheItems -> SUBSET Images]
  BY ItemsAreNumbers
<1> QED
  BY <1>2, <1>3 DEF Item

LEMMA FreeRunTyped == FreeRun \in CacheRunRecords /\ Reports(FreeRun)
BY DEF FreeRun, CacheRunRecords, Reports, CacheStages, CacheModes, CacheFindings, AtItem

LEMMA CacheInitTyped == CacheInit => RunsTyped
BY FreeRunTyped DEF CacheInit, RunsTyped, CacheTyped, CacheFindings

-----------------------------------------------------------------------------
(* Steps that change one run, and may bring images to the VM. *)

\* The run at c becomes q, which is active only if it was before; images only come.
LEMMA OneRunGoesOn ==
  ASSUME CacheInv, NEW c \in CacheRuns,
         NEW q, q \in CacheRunRecords, Reports(q), cacheRun' = [cacheRun EXCEPT ![c] = q],
         q.stage \in IdleStages \/ cacheRun[c].stage \notin IdleStages,
         images \subseteq images', images' \in SUBSET Images,
         cached' = cached, pinned' = pinned, doubt' = doubt, crowded' = crowded,
         ~crowded => Looks(q, images')
  PROVE  CacheInv'
<1>1. RunsTyped'
  BY DEF CacheInv, RunsTyped, CacheTyped
<1>2. /\ cacheRun'[c] = q /\ cacheRun' \in [CacheRuns -> CacheRunRecords]
      /\ \A d \in CacheRuns \ {c} : cacheRun'[d] = cacheRun[d]
  BY DEF CacheInv, RunsTyped, CacheTyped
<1>3. ActiveRuns' \subseteq ActiveRuns
  BY <1>2 DEF ActiveRuns, IdleStages
<1>4. Alone'
  BY <1>3 DEF CacheInv, Alone
<1>5. LooksAreTrue'
  <2> SUFFICES ASSUME ~crowded', NEW d \in CacheRuns PROVE Looks(cacheRun'[d], images')
    BY DEF LooksAreTrue
  <2>1. Looks(cacheRun[d], images)
    BY DEF CacheInv, LooksAreTrue
  <2> QED
    BY <1>2, <2>1 DEF Looks
<1>7. CatalogueTrue'
  BY DEF CacheInv, CatalogueTrue
<1> QED
  BY <1>1, <1>4, <1>5, <1>7 DEF CacheInv

-----------------------------------------------------------------------------
(* Every step keeps the invariant. *)

\* What the invariant says of one run.
Known(c) ==
  LET r == cacheRun[c] IN
  /\ cacheRun \in [CacheRuns -> CacheRunRecords] /\ images \in SUBSET Images
  /\ r \in CacheRunRecords /\ Reports(r)
  /\ ~crowded => Looks(r, images)
  /\ r.selected \in Seq(CacheItems) /\ Len(r.selected) \in Nat
  /\ Item(c) = r.selected[r.at]
  /\ r.at \in 1 .. Len(r.selected) => Item(c) \in CacheItems /\ Needs[Item(c)] \in SUBSET Images
  /\ r.stage \in AtItem => r.at \in 1 .. Len(r.selected)

LEMMA RunIsKnown ==
  ASSUME CacheInv, NEW c \in CacheRuns
  PROVE  Known(c)
<1> DEFINE r == cacheRun[c]
<1>1. /\ cacheRun \in [CacheRuns -> CacheRunRecords] /\ images \in SUBSET Images
      /\ r \in CacheRunRecords /\ Reports(r)
      /\ ~crowded => Looks(r, images)
  BY DEF CacheInv, RunsTyped, CacheTyped, LooksAreTrue
<1>2. r.selected \in Seq(CacheItems) /\ Len(r.selected) \in Nat /\ r.at \in Nat \ {0}
  BY <1>1, SelectionsAreSequences DEF Known, CacheRunRecords
<1>3. r.stage \in AtItem => r.at \in 1 .. Len(r.selected)
  BY <1>1, <1>2 DEF Reports
<1> QED
  BY <1>1, <1>2, <1>3, ItemTyped DEF Known, Item, CacheInv

\* A run is asked for.
LEMMA AskKeeps ==
  ASSUME CacheInv, NEW c \in CacheRuns, AskCacheRun(c)
  PROVE  CacheInv'
<1> DEFINE r == cacheRun[c]
           q == [r EXCEPT !.stage = "checked"]
<1>0. Known(c)
  BY RunIsKnown
<1>1. cacheRun' = [cacheRun EXCEPT ![c] = q]
  BY <1>0, AskCacheRun(c) DEF Known, AskCacheRun, To
<1>2. q \in CacheRunRecords
  BY <1>0 DEF Known, CacheRunRecords, CacheStages
<1>3. Reports(q)
  BY <1>0, AskCacheRun(c) DEF Known, CacheRunRecords, Reports, AtItem, AskCacheRun
<1>4. ~crowded => Looks(q, images')
  BY <1>0, AskCacheRun(c) DEF Known, CacheRunRecords, Looks, AskCacheRun
<1>5. q.stage \in IdleStages \/ r.stage \notin IdleStages
  BY <1>0, AskCacheRun(c) DEF Known, IdleStages, CacheRunRecords, AskCacheRun, ActiveRuns
<1>6. /\ images \subseteq images' /\ images' \in SUBSET Images
      /\ cached' = cached /\ pinned' = pinned /\ doubt' = doubt /\ crowded' = crowded
  BY <1>0, AskCacheRun(c) DEF Known, catalogVars, AskCacheRun
<1> HIDE DEF q
<1> QED
  BY <1>1, <1>2, <1>3, <1>4, <1>5, <1>6, OneRunGoesOn

\* A run is stopped.
LEMMA StopKeeps ==
  ASSUME CacheInv, NEW c \in CacheRuns, StopCacheRun(c)
  PROVE  CacheInv'
<1> DEFINE r == cacheRun[c]
           q == [r EXCEPT !.stop = TRUE]
<1>0. Known(c)
  BY RunIsKnown
<1>1. cacheRun' = [cacheRun EXCEPT ![c] = q]
  BY <1>0, StopCacheRun(c) DEF Known, StopCacheRun
<1>2. q \in CacheRunRecords
  BY <1>0 DEF Known, CacheRunRecords
<1>3. Reports(q)
  BY <1>0, StopCacheRun(c) DEF Known, CacheRunRecords, Reports, AtItem, StopCacheRun
<1>4. ~crowded => Looks(q, images')
  BY <1>0, StopCacheRun(c) DEF Known, CacheRunRecords, Looks, StopCacheRun
<1>5. q.stage \in IdleStages \/ r.stage \notin IdleStages
  BY <1>0, StopCacheRun(c) DEF Known, IdleStages, CacheRunRecords, StopCacheRun, ActiveRuns
<1>6. /\ images \subseteq images' /\ images' \in SUBSET Images
      /\ cached' = cached /\ pinned' = pinned /\ doubt' = doubt /\ crowded' = crowded
  BY <1>0, StopCacheRun(c) DEF Known, catalogVars, StopCacheRun
<1> HIDE DEF q
<1> QED
  BY <1>1, <1>2, <1>3, <1>4, <1>5, <1>6, OneRunGoesOn

\* A run is forgotten.
LEMMA ForgetKeeps ==
  ASSUME CacheInv, NEW c \in CacheRuns, ForgetCacheRun(c)
  PROVE  CacheInv'
<1> DEFINE r == cacheRun[c]
           q == FreeRun
<1>0. Known(c)
  BY RunIsKnown
<1>1. cacheRun' = [cacheRun EXCEPT ![c] = q]
  BY <1>0, ForgetCacheRun(c) DEF Known, ForgetCacheRun
<1>2. q \in CacheRunRecords
  BY FreeRunTyped
<1>3. Reports(q)
  BY <1>0, ForgetCacheRun(c) DEF Known, CacheRunRecords, Reports, AtItem, FreeRun,
     ForgetCacheRun
<1>4. ~crowded => Looks(q, images')
  BY <1>0, ForgetCacheRun(c) DEF Known, CacheRunRecords, Looks, FreeRun, ForgetCacheRun
<1>5. q.stage \in IdleStages \/ r.stage \notin IdleStages
  BY <1>0, ForgetCacheRun(c) DEF Known, IdleStages, CacheRunRecords, FreeRun, ForgetCacheRun
<1>6. /\ images \subseteq images' /\ images' \in SUBSET Images
      /\ cached' = cached /\ pinned' = pinned /\ doubt' = doubt /\ crowded' = crowded
  BY <1>0, ForgetCacheRun(c) DEF Known, catalogVars, ForgetCacheRun
<1> HIDE DEF q
<1> QED
  BY <1>1, <1>2, <1>3, <1>4, <1>5, <1>6, OneRunGoesOn

\* The repository is uploaded.
LEMMA SyncKeeps ==
  ASSUME CacheInv, NEW c \in CacheRuns, SyncRepo(c)
  PROVE  CacheInv'
<1> DEFINE r == cacheRun[c]
<1>0. Known(c)
  BY RunIsKnown
<1>1. PICK ok \in BOOLEAN : cacheRun' = [cacheRun EXCEPT ![c].stage = "connect",
          ![c].status = "running", ![c].synced = ok]
  BY SyncRepo(c) DEF SyncRepo
<1> DEFINE q == [r EXCEPT !.stage = "connect", !.status = "running", !.synced = ok]
<1>2. cacheRun' = [cacheRun EXCEPT ![c] = q]
  BY <1>0, <1>1, SyncRepo(c) DEF Known, SyncRepo
<1>3. q \in CacheRunRecords
  BY <1>0, <1>1 DEF Known, CacheRunRecords, CacheStages
<1>4. Reports(q)
  BY <1>0, <1>1, SyncRepo(c) DEF Known, CacheRunRecords, Reports, AtItem, SyncRepo
<1>5. ~crowded => Looks(q, images')
  BY <1>0, <1>1, SyncRepo(c) DEF Known, CacheRunRecords, Looks, SyncRepo
<1>6. q.stage \in IdleStages \/ r.stage \notin IdleStages
  BY <1>0, <1>1, SyncRepo(c) DEF Known, IdleStages, CacheRunRecords, SyncRepo
<1>7. /\ images \subseteq images' /\ images' \in SUBSET Images
      /\ cached' = cached /\ pinned' = pinned /\ doubt' = doubt /\ crowded' = crowded
  BY <1>0, <1>1, SyncRepo(c) DEF Known, catalogVars, SyncRepo
<1> HIDE DEF q
<1> QED
  BY <1>2, <1>3, <1>4, <1>5, <1>6, <1>7, OneRunGoesOn

\* The VM is reached, or not.
LEMMA ConnectKeeps ==
  ASSUME CacheInv, NEW c \in CacheRuns, Connect(c)
  PROVE  CacheInv'
<1> DEFINE r == cacheRun[c]
<1>0. Known(c)
  BY RunIsKnown
<1>1. CASE To(c, "loop")
  <2> DEFINE q == [r EXCEPT !.stage = "loop"]
  <2>1. cacheRun' = [cacheRun EXCEPT ![c] = q]
    BY <1>0, <1>1, Connect(c) DEF Known, Connect, To
  <2>2. q \in CacheRunRecords
    BY <1>0, <1>1 DEF Known, CacheRunRecords, CacheStages
  <2>3. Reports(q)
    BY <1>0, <1>1, Connect(c) DEF Known, CacheRunRecords, Reports, AtItem, Connect
  <2>4. ~crowded => Looks(q, images')
    BY <1>0, <1>1, Connect(c) DEF Known, CacheRunRecords, Looks, Connect
  <2>5. q.stage \in IdleStages \/ r.stage \notin IdleStages
    BY <1>0, <1>1, Connect(c) DEF Known, IdleStages, CacheRunRecords, Connect
  <2>6. /\ images \subseteq images' /\ images' \in SUBSET Images
        /\ cached' = cached /\ pinned' = pinned /\ doubt' = doubt /\ crowded' = crowded
    BY <1>0, <1>1, Connect(c) DEF Known, catalogVars, Connect
  <2> HIDE DEF q
  <2> QED
    BY <2>1, <2>2, <2>3, <2>4, <2>5, <2>6, OneRunGoesOn
<1>2. CASE cacheRun' = [cacheRun EXCEPT ![c].stage = "done", ![c].status = "failed"]
  <2> DEFINE q == [r EXCEPT !.stage = "done", !.status = "failed"]
  <2>1. cacheRun' = [cacheRun EXCEPT ![c] = q]
    BY <1>0, <1>2, Connect(c) DEF Known, Connect
  <2>2. q \in CacheRunRecords
    BY <1>0, <1>2 DEF Known, CacheRunRecords, CacheStages
  <2>3. Reports(q)
    BY <1>0, <1>2, Connect(c) DEF Known, CacheRunRecords, Reports, AtItem, Connect
  <2>4. ~crowded => Looks(q, images')
    BY <1>0, <1>2, Connect(c) DEF Known, CacheRunRecords, Looks, Connect
  <2>5. q.stage \in IdleStages \/ r.stage \notin IdleStages
    BY <1>0, <1>2, Connect(c) DEF Known, IdleStages, CacheRunRecords, Connect
  <2>6. /\ images \subseteq images' /\ images' \in SUBSET Images
        /\ cached' = cached /\ pinned' = pinned /\ doubt' = doubt /\ crowded' = crowded
    BY <1>0, <1>2, Connect(c) DEF Known, catalogVars, Connect
  <2> HIDE DEF q
  <2> QED
    BY <2>1, <2>2, <2>3, <2>4, <2>5, <2>6, OneRunGoesOn
<1> QED
  BY Connect(c), <1>1, <1>2 DEF Connect

\* The next item is begun, or left with a result.
LEMMA NextKeeps ==
  ASSUME CacheInv, NEW c \in CacheRuns, NextItem(c)
  PROVE  CacheInv'
<1> DEFINE r == cacheRun[c]
<1>0. Known(c)
  BY RunIsKnown
<1>1. CASE To(c, "pull")
  <2> DEFINE q == [r EXCEPT !.stage = "pull"]
  <2>1. cacheRun' = [cacheRun EXCEPT ![c] = q]
    BY <1>0, <1>1, NextItem(c) DEF Known, NextItem, To
  <2>2. q \in CacheRunRecords
    BY <1>0, <1>1 DEF Known, CacheRunRecords, CacheStages
  <2>3. Reports(q)
    BY <1>0, <1>1, NextItem(c) DEF Known, CacheRunRecords, Reports, AtItem, NextItem
  <2>4. ~crowded => Looks(q, images')
    BY <1>0, <1>1, NextItem(c) DEF Known, CacheRunRecords, Looks, NextItem
  <2>5. q.stage \in IdleStages \/ r.stage \notin IdleStages
    BY <1>0, <1>1, NextItem(c) DEF Known, IdleStages, CacheRunRecords, NextItem
  <2>6. /\ images \subseteq images' /\ images' \in SUBSET Images
        /\ cached' = cached /\ pinned' = pinned /\ doubt' = doubt /\ crowded' = crowded
    BY <1>0, <1>1, NextItem(c) DEF Known, catalogVars, NextItem
  <2> HIDE DEF q
  <2> QED
    BY <2>1, <2>2, <2>3, <2>4, <2>5, <2>6, OneRunGoesOn
<1>2. CASE To(c, "list")
  <2> DEFINE q == [r EXCEPT !.stage = "list"]
  <2>1. cacheRun' = [cacheRun EXCEPT ![c] = q]
    BY <1>0, <1>2, NextItem(c) DEF Known, NextItem, To
  <2>2. q \in CacheRunRecords
    BY <1>0, <1>2 DEF Known, CacheRunRecords, CacheStages
  <2>3. Reports(q)
    BY <1>0, <1>2, NextItem(c) DEF Known, CacheRunRecords, Reports, AtItem, NextItem
  <2>4. ~crowded => Looks(q, images')
    BY <1>0, <1>2, NextItem(c) DEF Known, CacheRunRecords, Looks, NextItem
  <2>5. q.stage \in IdleStages \/ r.stage \notin IdleStages
    BY <1>0, <1>2, NextItem(c) DEF Known, IdleStages, CacheRunRecords, NextItem
  <2>6. /\ images \subseteq images' /\ images' \in SUBSET Images
        /\ cached' = cached /\ pinned' = pinned /\ doubt' = doubt /\ crowded' = crowded
    BY <1>0, <1>2, NextItem(c) DEF Known, catalogVars, NextItem
  <2> HIDE DEF q
  <2> QED
    BY <2>1, <2>2, <2>3, <2>4, <2>5, <2>6, OneRunGoesOn
<1>3. CASE cacheRun' = [cacheRun EXCEPT ![c].at = @ + 1,
                        ![c].results = Append(@, r.selected[r.at])]
  <2> DEFINE q == [r EXCEPT !.at = @ + 1, !.results = Append(@, r.selected[r.at])]
  <2>1. cacheRun' = [cacheRun EXCEPT ![c] = q]
    BY <1>0, <1>3, NextItem(c) DEF Known, NextItem
  <2>2. q \in CacheRunRecords
    BY <1>0, <1>3, NextItem(c) DEF Known, CacheRunRecords, Reports, AtItem, NextItem
  <2>3. Reports(q)
    BY <1>0, <1>3, NextItem(c) DEF Known, CacheRunRecords, Reports, AtItem, NextItem
  <2>4. ~crowded => Looks(q, images')
    BY <1>0, <1>3, NextItem(c) DEF Known, CacheRunRecords, Looks, NextItem
  <2>5. q.stage \in IdleStages \/ r.stage \notin IdleStages
    BY <1>0, <1>3, NextItem(c) DEF Known, IdleStages, CacheRunRecords, NextItem
  <2>6. /\ images \subseteq images' /\ images' \in SUBSET Images
        /\ cached' = cached /\ pinned' = pinned /\ doubt' = doubt /\ crowded' = crowded
    BY <1>0, <1>3, NextItem(c) DEF Known, catalogVars, NextItem
  <2> HIDE DEF q
  <2> QED
    BY <2>1, <2>2, <2>3, <2>4, <2>5, <2>6, OneRunGoesOn
<1> QED
  BY NextItem(c), <1>1, <1>2, <1>3 DEF NextItem

\* A run ends.
LEMMA EndKeeps ==
  ASSUME CacheInv, NEW c \in CacheRuns, EndCacheRun(c)
  PROVE  CacheInv'
<1> DEFINE r == cacheRun[c]
<1>0. Known(c)
  BY RunIsKnown
<1>1. CASE r.stop
  <2> DEFINE q == [r EXCEPT !.stage = "done", !.status = "stopped"]
  <2>1. cacheRun' = [cacheRun EXCEPT ![c] = q]
    BY <1>0, <1>1, EndCacheRun(c) DEF Known, EndCacheRun
  <2>2. q \in CacheRunRecords
    BY <1>0, <1>1 DEF Known, CacheRunRecords, CacheStages
  <2>3. Reports(q)
    BY <1>0, <1>1, EndCacheRun(c) DEF Known, CacheRunRecords, Reports, AtItem, EndCacheRun
  <2>4. ~crowded => Looks(q, images')
    BY <1>0, <1>1, EndCacheRun(c) DEF Known, CacheRunRecords, Looks, EndCacheRun
  <2>5. q.stage \in IdleStages \/ r.stage \notin IdleStages
    BY <1>0, <1>1, EndCacheRun(c) DEF Known, IdleStages, CacheRunRecords, EndCacheRun
  <2>6. /\ images \subseteq images' /\ images' \in SUBSET Images
        /\ cached' = cached /\ pinned' = pinned /\ doubt' = doubt /\ crowded' = crowded
    BY <1>0, <1>1, EndCacheRun(c) DEF Known, catalogVars, EndCacheRun
  <2> HIDE DEF q
  <2> QED
    BY <2>1, <2>2, <2>3, <2>4, <2>5, <2>6, OneRunGoesOn
<1>2. CASE ~r.stop
  <2> DEFINE q == [r EXCEPT !.stage = "done", !.status = "completed"]
  <2>1. cacheRun' = [cacheRun EXCEPT ![c] = q]
    BY <1>0, <1>2, EndCacheRun(c) DEF Known, EndCacheRun
  <2>2. q \in CacheRunRecords
    BY <1>0, <1>2 DEF Known, CacheRunRecords, CacheStages
  <2>3. Reports(q)
    BY <1>0, <1>2, EndCacheRun(c) DEF Known, CacheRunRecords, Reports, AtItem, EndCacheRun
  <2>4. ~crowded => Looks(q, images')
    BY <1>0, <1>2, EndCacheRun(c) DEF Known, CacheRunRecords, Looks, EndCacheRun
  <2>5. q.stage \in IdleStages \/ r.stage \notin IdleStages
    BY <1>0, <1>2, EndCacheRun(c) DEF Known, IdleStages, CacheRunRecords, EndCacheRun
  <2>6. /\ images \subseteq images' /\ images' \in SUBSET Images
        /\ cached' = cached /\ pinned' = pinned /\ doubt' = doubt /\ crowded' = crowded
    BY <1>0, <1>2, EndCacheRun(c) DEF Known, catalogVars, EndCacheRun
  <2> HIDE DEF q
  <2> QED
    BY <2>1, <2>2, <2>3, <2>4, <2>5, <2>6, OneRunGoesOn
<1> QED
  BY EndCacheRun(c), <1>1, <1>2 DEF EndCacheRun

\* Images are pulled.
LEMMA PullKeeps ==
  ASSUME CacheInv, NEW c \in CacheRuns, Pull(c)
  PROVE  CacheInv'
<1> DEFINE r == cacheRun[c]
<1>0. Known(c)
  BY RunIsKnown
<1>1. CASE Failed(c)
  <2> DEFINE q == [r EXCEPT !.stage = "save", !.finding = "unknown"]
  <2>1. cacheRun' = [cacheRun EXCEPT ![c] = q]
    BY <1>0, <1>1, Pull(c) DEF Known, Pull, Found, Failed
  <2>2. q \in CacheRunRecords
    BY <1>0, <1>1 DEF Known, CacheRunRecords, CacheStages, CacheFindings
  <2>3. Reports(q)
    BY <1>0, <1>1, Pull(c) DEF Known, CacheRunRecords, Reports, AtItem, Pull
  <2>4. ~crowded => Looks(q, images')
    BY <1>0, <1>1, Pull(c) DEF Known, CacheRunRecords, Looks, Pull
  <2>5. q.stage \in IdleStages \/ r.stage \notin IdleStages
    BY <1>0, <1>1, Pull(c) DEF Known, IdleStages, CacheRunRecords, Pull
  <2>6. /\ images \subseteq images' /\ images' \in SUBSET Images
        /\ cached' = cached /\ pinned' = pinned /\ doubt' = doubt /\ crowded' = crowded
    BY <1>0, <1>1, Pull(c) DEF Known, catalogVars, AtItem, CacheRunRecords, Pull
  <2> HIDE DEF q
  <2> QED
    BY <2>1, <2>2, <2>3, <2>4, <2>5, <2>6, OneRunGoesOn
<1>2. CASE \E ok \in BOOLEAN : cacheRun' =
                [cacheRun EXCEPT ![c].stage = "build", ![c].pulled = ok]
  <2>0. PICK ok \in BOOLEAN : cacheRun' =
          [cacheRun EXCEPT ![c].stage = "build", ![c].pulled = ok]
    BY <1>2, Pull(c) DEF Pull
  <2> DEFINE q == [r EXCEPT !.stage = "build", !.pulled = ok]
  <2>1. cacheRun' = [cacheRun EXCEPT ![c] = q]
    BY <1>0, <2>0, <1>2, Pull(c) DEF Known, Pull
  <2>2. q \in CacheRunRecords
    BY <1>0, <2>0, <1>2 DEF Known, CacheRunRecords, CacheStages
  <2>3. Reports(q)
    BY <1>0, <2>0, <1>2, Pull(c) DEF Known, CacheRunRecords, Reports, AtItem, Pull
  <2>4. ~crowded => Looks(q, images')
    BY <1>0, <2>0, <1>2, Pull(c) DEF Known, CacheRunRecords, Looks, Pull
  <2>5. q.stage \in IdleStages \/ r.stage \notin IdleStages
    BY <1>0, <2>0, <1>2, Pull(c) DEF Known, IdleStages, CacheRunRecords, Pull
  <2>6. /\ images \subseteq images' /\ images' \in SUBSET Images
        /\ cached' = cached /\ pinned' = pinned /\ doubt' = doubt /\ crowded' = crowded
    BY <1>0, <2>0, <1>2, Pull(c) DEF Known, catalogVars, AtItem, CacheRunRecords, Pull
  <2> HIDE DEF q
  <2> QED
    BY <2>1, <2>2, <2>3, <2>4, <2>5, <2>6, OneRunGoesOn
<1> QED
  BY Pull(c), <1>1, <1>2 DEF Pull

\* Images are built.
LEMMA BuildKeeps ==
  ASSUME CacheInv, NEW c \in CacheRuns, Build(c)
  PROVE  CacheInv'
<1> DEFINE r == cacheRun[c]
<1>0. Known(c)
  BY RunIsKnown
<1>1. CASE images' = images \cup Needs[Item(c)] /\ Found(c, "cached")
  <2> DEFINE q == [r EXCEPT !.stage = "save", !.finding = "cached"]
  <2>1. cacheRun' = [cacheRun EXCEPT ![c] = q]
    BY <1>0, <1>1, Build(c) DEF Known, Build, Found
  <2>2. q \in CacheRunRecords
    BY <1>0, <1>1 DEF Known, CacheRunRecords, CacheStages, CacheFindings
  <2>3. Reports(q)
    BY <1>0, <1>1, Build(c) DEF Known, CacheRunRecords, Reports, AtItem, Build
  <2>4. ~crowded => Looks(q, images')
    BY <1>0, <1>1, Build(c) DEF Known, CacheRunRecords, Looks, Build
  <2>5. q.stage \in IdleStages \/ r.stage \notin IdleStages
    BY <1>0, <1>1, Build(c) DEF Known, IdleStages, CacheRunRecords, Build
  <2>6. /\ images \subseteq images' /\ images' \in SUBSET Images
        /\ cached' = cached /\ pinned' = pinned /\ doubt' = doubt /\ crowded' = crowded
    BY <1>0, <1>1, Build(c) DEF Known, catalogVars, AtItem, CacheRunRecords, Build
  <2> HIDE DEF q
  <2> QED
    BY <2>1, <2>2, <2>3, <2>4, <2>5, <2>6, OneRunGoesOn
<1>2. CASE \E f \in {"unknown", "absent"} : Found(c, f)
  <2>0. PICK f \in {"unknown", "absent"} : Found(c, f)
    BY <1>2, Build(c) DEF Build
  <2> DEFINE q == [r EXCEPT !.stage = "save", !.finding = f]
  <2>1. cacheRun' = [cacheRun EXCEPT ![c] = q]
    BY <1>0, <2>0, <1>2, Build(c) DEF Known, Build, Found
  <2>2. q \in CacheRunRecords
    BY <1>0, <2>0, <1>2 DEF Known, CacheRunRecords, CacheStages, CacheFindings
  <2>3. Reports(q)
    BY <1>0, <2>0, <1>2, Build(c) DEF Known, CacheRunRecords, Reports, AtItem, Build
  <2>4. ~crowded => Looks(q, images')
    BY <1>0, <2>0, <1>2, Build(c) DEF Known, CacheRunRecords, Looks, Build
  <2>5. q.stage \in IdleStages \/ r.stage \notin IdleStages
    BY <1>0, <2>0, <1>2, Build(c) DEF Known, IdleStages, CacheRunRecords, Build
  <2>6. /\ images \subseteq images' /\ images' \in SUBSET Images
        /\ cached' = cached /\ pinned' = pinned /\ doubt' = doubt /\ crowded' = crowded
    BY <1>0, <2>0, <1>2, Build(c) DEF Known, catalogVars, AtItem, CacheRunRecords, Build
  <2> HIDE DEF q
  <2> QED
    BY <2>1, <2>2, <2>3, <2>4, <2>5, <2>6, OneRunGoesOn
<1> QED
  BY Build(c), <1>1, <1>2 DEF Build

\* The images of an item are listed.
LEMMA ListKeeps ==
  ASSUME CacheInv, NEW c \in CacheRuns, ListImages(c)
  PROVE  CacheInv'
<1> DEFINE r == cacheRun[c]
<1>0. Known(c)
  BY RunIsKnown
<1>1. CASE cacheRun' = [cacheRun EXCEPT ![c].stage = "each", ![c].todo = Needs[Item(c)],
                        ![c].missing = {}]
  <2> DEFINE q == [r EXCEPT !.stage = "each", !.todo = Needs[Item(c)], !.missing = {}]
  <2>1. cacheRun' = [cacheRun EXCEPT ![c] = q]
    BY <1>0, <1>1, ListImages(c) DEF Known, ListImages
  <2>2. q \in CacheRunRecords
    BY <1>0, <1>1, ListImages(c) DEF Known, CacheRunRecords, CacheStages, Reports, AtItem,
       ListImages
  <2>3. Reports(q)
    BY <1>0, <1>1, ListImages(c) DEF Known, CacheRunRecords, Reports, AtItem, ListImages
  <2>4. ~crowded => Looks(q, images')
    BY <1>0, <1>1, ListImages(c) DEF Known, CacheRunRecords, Looks, ListImages
  <2>5. q.stage \in IdleStages \/ r.stage \notin IdleStages
    BY <1>0, <1>1, ListImages(c) DEF Known, IdleStages, CacheRunRecords, ListImages
  <2>6. /\ images \subseteq images' /\ images' \in SUBSET Images
        /\ cached' = cached /\ pinned' = pinned /\ doubt' = doubt /\ crowded' = crowded
    BY <1>0, <1>1, ListImages(c) DEF Known, catalogVars, ListImages
  <2> HIDE DEF q
  <2> QED
    BY <2>1, <2>2, <2>3, <2>4, <2>5, <2>6, OneRunGoesOn
<1>2. CASE Failed(c)
  <2> DEFINE q == [r EXCEPT !.stage = "save", !.finding = "unknown"]
  <2>1. cacheRun' = [cacheRun EXCEPT ![c] = q]
    BY <1>0, <1>2, ListImages(c) DEF Known, ListImages, Found, Failed
  <2>2. q \in CacheRunRecords
    BY <1>0, <1>2 DEF Known, CacheRunRecords, CacheStages, CacheFindings
  <2>3. Reports(q)
    BY <1>0, <1>2, ListImages(c) DEF Known, CacheRunRecords, Reports, AtItem, ListImages
  <2>4. ~crowded => Looks(q, images')
    BY <1>0, <1>2, ListImages(c) DEF Known, CacheRunRecords, Looks, ListImages
  <2>5. q.stage \in IdleStages \/ r.stage \notin IdleStages
    BY <1>0, <1>2, ListImages(c) DEF Known, IdleStages, CacheRunRecords, ListImages
  <2>6. /\ images \subseteq images' /\ images' \in SUBSET Images
        /\ cached' = cached /\ pinned' = pinned /\ doubt' = doubt /\ crowded' = crowded
    BY <1>0, <1>2, ListImages(c) DEF Known, catalogVars, ListImages
  <2> HIDE DEF q
  <2> QED
    BY <2>1, <2>2, <2>3, <2>4, <2>5, <2>6, OneRunGoesOn
<1> QED
  BY ListImages(c), <1>1, <1>2 DEF ListImages

\* An image is looked for.
LEMMA InspectKeeps ==
  ASSUME CacheInv, NEW c \in CacheRuns, Inspect(c)
  PROVE  CacheInv'
<1> DEFINE r == cacheRun[c]
<1>0. Known(c)
  BY RunIsKnown
<1>1. CASE \E x \in r.todo : x \in images /\ cacheRun' = [cacheRun EXCEPT ![c].todo = @ \ {x}]
  <2>0. PICK x \in r.todo : x \in images /\ cacheRun' = [cacheRun EXCEPT ![c].todo = @ \ {x}]
    BY <1>1, Inspect(c) DEF Inspect
  <2> DEFINE q == [r EXCEPT !.todo = @ \ {x}]
  <2>1. cacheRun' = [cacheRun EXCEPT ![c] = q]
    BY <1>0, <2>0, <1>1, Inspect(c) DEF Known, Inspect
  <2>2. q \in CacheRunRecords
    BY <1>0, <2>0, <1>1, Inspect(c) DEF Known, CacheRunRecords
  <2>3. Reports(q)
    BY <1>0, <2>0, <1>1, Inspect(c) DEF Known, CacheRunRecords, Reports, AtItem, Inspect
  <2>4. ~crowded => Looks(q, images')
    BY <1>0, <2>0, <1>1, Inspect(c) DEF Known, CacheRunRecords, Looks, Inspect
  <2>5. q.stage \in IdleStages \/ r.stage \notin IdleStages
    BY <1>0, <2>0, <1>1, Inspect(c) DEF Known, IdleStages, CacheRunRecords, Inspect
  <2>6. /\ images \subseteq images' /\ images' \in SUBSET Images
        /\ cached' = cached /\ pinned' = pinned /\ doubt' = doubt /\ crowded' = crowded
    BY <1>0, <2>0, <1>1, Inspect(c) DEF Known, catalogVars, Inspect
  <2> HIDE DEF q
  <2> QED
    BY <2>1, <2>2, <2>3, <2>4, <2>5, <2>6, OneRunGoesOn
<1>2. CASE \E x \in r.todo : cacheRun' = [cacheRun EXCEPT ![c].todo = @ \ {x},
                                          ![c].missing = @ \cup {x}]
  <2>0. PICK x \in r.todo : cacheRun' = [cacheRun EXCEPT ![c].todo = @ \ {x},
                                             ![c].missing = @ \cup {x}]
    BY <1>2, Inspect(c) DEF Inspect
  <2> DEFINE q == [r EXCEPT !.todo = @ \ {x}, !.missing = @ \cup {x}]
  <2>1. cacheRun' = [cacheRun EXCEPT ![c] = q]
    BY <1>0, <2>0, <1>2, Inspect(c) DEF Known, Inspect
  <2>2. q \in CacheRunRecords
    BY <1>0, <2>0, <1>2, Inspect(c) DEF Known, CacheRunRecords
  <2>3. Reports(q)
    BY <1>0, <2>0, <1>2, Inspect(c) DEF Known, CacheRunRecords, Reports, AtItem, Inspect
  <2>4. ~crowded => Looks(q, images')
    BY <1>0, <2>0, <1>2, Inspect(c) DEF Known, CacheRunRecords, Looks, Inspect
  <2>5. q.stage \in IdleStages \/ r.stage \notin IdleStages
    BY <1>0, <2>0, <1>2, Inspect(c) DEF Known, IdleStages, CacheRunRecords, Inspect
  <2>6. /\ images \subseteq images' /\ images' \in SUBSET Images
        /\ cached' = cached /\ pinned' = pinned /\ doubt' = doubt /\ crowded' = crowded
    BY <1>0, <2>0, <1>2, Inspect(c) DEF Known, catalogVars, Inspect
  <2> HIDE DEF q
  <2> QED
    BY <2>1, <2>2, <2>3, <2>4, <2>5, <2>6, OneRunGoesOn
<1>3. CASE Failed(c)
  <2> DEFINE q == [r EXCEPT !.stage = "save", !.finding = "unknown"]
  <2>1. cacheRun' = [cacheRun EXCEPT ![c] = q]
    BY <1>0, <1>3, Inspect(c) DEF Known, Inspect, Found, Failed
  <2>2. q \in CacheRunRecords
    BY <1>0, <1>3, Inspect(c) DEF Known, CacheRunRecords, CacheStages, CacheFindings
  <2>3. Reports(q)
    BY <1>0, <1>3, Inspect(c) DEF Known, CacheRunRecords, Reports, AtItem, Inspect
  <2>4. ~crowded => Looks(q, images')
    BY <1>0, <1>3, Inspect(c) DEF Known, CacheRunRecords, Looks, Inspect
  <2>5. q.stage \in IdleStages \/ r.stage \notin IdleStages
    BY <1>0, <1>3, Inspect(c) DEF Known, IdleStages, CacheRunRecords, Inspect
  <2>6. /\ images \subseteq images' /\ images' \in SUBSET Images
        /\ cached' = cached /\ pinned' = pinned /\ doubt' = doubt /\ crowded' = crowded
    BY <1>0, <1>3, Inspect(c) DEF Known, catalogVars, Inspect
  <2> HIDE DEF q
  <2> QED
    BY <2>1, <2>2, <2>3, <2>4, <2>5, <2>6, OneRunGoesOn
<1> QED
  BY Inspect(c), <1>1, <1>2, <1>3 DEF Inspect

\* All images of an item have been seen, or the run is stopped.
LEMMA ConcludeKeeps ==
  ASSUME CacheInv, NEW c \in CacheRuns, Conclude(c)
  PROVE  CacheInv'
<1> DEFINE r == cacheRun[c]
<1>0. Known(c)
  BY RunIsKnown
<1>1. CASE r.mode = "status" /\ Needs[Item(c)] # {} /\ r.missing = {}
  <2> DEFINE q == [r EXCEPT !.stage = "save", !.finding = "cached"]
  <2>1. cacheRun' = [cacheRun EXCEPT ![c] = q]
    BY <1>0, <1>1, Conclude(c) DEF Known, Conclude, Found
  <2>2. q \in CacheRunRecords
    BY <1>0, <1>1 DEF Known, CacheRunRecords, CacheStages, CacheFindings
  <2>3. Reports(q)
    BY <1>0, <1>1, Conclude(c) DEF Known, CacheRunRecords, Reports, AtItem, Conclude
  <2>4. ~crowded => Looks(q, images')
    BY <1>0, <1>1, Conclude(c) DEF Known, CacheRunRecords, Looks, Conclude
  <2>5. q.stage \in IdleStages \/ r.stage \notin IdleStages
    BY <1>0, <1>1, Conclude(c) DEF Known, IdleStages, CacheRunRecords, Conclude
  <2>6. /\ images \subseteq images' /\ images' \in SUBSET Images
        /\ cached' = cached /\ pinned' = pinned /\ doubt' = doubt /\ crowded' = crowded
    BY <1>0, <1>1, Conclude(c) DEF Known, catalogVars, Conclude
  <2> HIDE DEF q
  <2> QED
    BY <2>1, <2>2, <2>3, <2>4, <2>5, <2>6, OneRunGoesOn
<1>2. CASE ~(r.mode = "status" /\ Needs[Item(c)] # {} /\ r.missing = {})
  <2> DEFINE q == [r EXCEPT !.stage = "save", !.finding = "absent"]
  <2>1. cacheRun' = [cacheRun EXCEPT ![c] = q]
    BY <1>0, <1>2, Conclude(c) DEF Known, Conclude, Found
  <2>2. q \in CacheRunRecords
    BY <1>0, <1>2 DEF Known, CacheRunRecords, CacheStages, CacheFindings
  <2>3. Reports(q)
    BY <1>0, <1>2, Conclude(c) DEF Known, CacheRunRecords, Reports, AtItem, Conclude
  <2>4. ~crowded => Looks(q, images')
    BY <1>0, <1>2, Conclude(c) DEF Known, CacheRunRecords, Looks, Conclude
  <2>5. q.stage \in IdleStages \/ r.stage \notin IdleStages
    BY <1>0, <1>2, Conclude(c) DEF Known, IdleStages, CacheRunRecords, Conclude
  <2>6. /\ images \subseteq images' /\ images' \in SUBSET Images
        /\ cached' = cached /\ pinned' = pinned /\ doubt' = doubt /\ crowded' = crowded
    BY <1>0, <1>2, Conclude(c) DEF Known, catalogVars, Conclude
  <2> HIDE DEF q
  <2> QED
    BY <2>1, <2>2, <2>3, <2>4, <2>5, <2>6, OneRunGoesOn
<1> QED
  BY Conclude(c), <1>1, <1>2 DEF Conclude

\* A run begins, or its request is taken back.
LEMMA InsertKeeps ==
  ASSUME CacheInv, NEW c \in CacheRuns, InsertCacheRun(c)
  PROVE  CacheInv'
<1> DEFINE r == cacheRun[c]
<1>0. Known(c)
  BY RunIsKnown
<1>1. CASE To(c, "free") /\ UNCHANGED crowded
  <2> DEFINE q == [r EXCEPT !.stage = "free"]
  <2>1. cacheRun' = [cacheRun EXCEPT ![c] = q]
    BY <1>0, <1>1 DEF Known, To
  <2>2. q \in CacheRunRecords
    BY <1>0 DEF Known, CacheRunRecords, CacheStages
  <2>3. Reports(q) /\ (~crowded => Looks(q, images'))
    BY <1>0, InsertCacheRun(c)
    DEF Known, CacheRunRecords, Reports, AtItem, Looks, InsertCacheRun
  <2>4. q.stage \in IdleStages
    BY <1>0 DEF Known, IdleStages, CacheRunRecords
  <2>5. /\ images' = images /\ images \in SUBSET Images
        /\ cached' = cached /\ pinned' = pinned /\ doubt' = doubt /\ crowded' = crowded
    BY <1>0, <1>1, InsertCacheRun(c) DEF Known, InsertCacheRun
  <2> HIDE DEF q
  <2> QED
    BY <2>1, <2>2, <2>3, <2>4, <2>5, OneRunGoesOn
<1>2. CASE \E m \in CacheModes : \E s \in Selectable(m) :
             /\ cacheRun' = [cacheRun EXCEPT ![c] =
                   [FreeRun EXCEPT !.stage = "queued", !.mode = m, !.selected = s]]
             /\ crowded' = (crowded \/ ActiveRuns # {})
  <2>0. PICK m \in CacheModes : \E s \in Selectable(m) :
             /\ cacheRun' = [cacheRun EXCEPT ![c] =
                   [FreeRun EXCEPT !.stage = "queued", !.mode = m, !.selected = s]]
             /\ crowded' = (crowded \/ ActiveRuns # {})
    BY <1>2
  <2>1. PICK s \in Selectable(m) :
             /\ cacheRun' = [cacheRun EXCEPT ![c] =
                   [FreeRun EXCEPT !.stage = "queued", !.mode = m, !.selected = s]]
             /\ crowded' = (crowded \/ ActiveRuns # {})
    BY <2>0
  <2> DEFINE q == [FreeRun EXCEPT !.stage = "queued", !.mode = m, !.selected = s]
  <2>2. s \in Selections /\ (m = "clear" => ToSet(s) \cap pinned = {})
    BY DEF Selectable
  <2>3. s \in Seq(CacheItems) /\ Len(s) \in Nat
    BY <2>2, SelectionsAreSequences
  <2>4. q \in CacheRunRecords /\ q.stage = "queued" /\ q.mode = m /\ q.selected = s
    BY <2>2, FreeRunTyped DEF CacheRunRecords, CacheStages
  <2>5. Reports(q)
    BY <2>3 DEF FreeRun, Reports, AtItem
  <2> HIDE DEF q
  <2>7. /\ cacheRun'[c] = q /\ cacheRun' \in [CacheRuns -> CacheRunRecords]
        /\ \A d \in CacheRuns \ {c} : cacheRun'[d] = cacheRun[d]
    BY <1>0, <2>1, <2>4 DEF Known, q
  <2>8. /\ images' = images /\ cached' = cached /\ pinned' = pinned /\ doubt' = doubt
    BY InsertCacheRun(c) DEF InsertCacheRun
  <2>9. crowded' \in BOOLEAN /\ (~crowded' => ~crowded /\ ActiveRuns = {})
    BY <2>1
  <2>10. RunsTyped'
    BY <2>5, <2>7, <2>8, <2>9 DEF CacheInv, RunsTyped, CacheTyped
  <2>11. Alone'
    BY <2>7, <2>9 DEF Alone, ActiveRuns
  <2>12. LooksAreTrue'
    <3> SUFFICES ASSUME ~crowded', NEW d \in CacheRuns PROVE Looks(cacheRun'[d], images)
      BY <2>8 DEF LooksAreTrue
    <3>1. Looks(q, images)
      BY <2>4 DEF Looks
    <3>2. Looks(cacheRun[d], images)
      BY <2>9 DEF CacheInv, LooksAreTrue
    <3> QED
      BY <2>7, <3>1, <3>2
  <2>14. CatalogueTrue'
    BY <2>8, <2>9 DEF CacheInv, CatalogueTrue
  <2> QED
    BY <2>10, <2>11, <2>12, <2>14 DEF CacheInv
<1> QED
  BY <1>1, <1>2, InsertCacheRun(c) DEF InsertCacheRun

\* An image is removed, or not.  No other run is active that might have seen it, and
\* every record that rests on it is in doubt from then on.
LEMMA RemoveKeeps ==
  ASSUME CacheInv, NEW c \in CacheRuns, RemoveImage(c)
  PROVE  CacheInv'
<1> DEFINE r == cacheRun[c]
<1>0. Known(c)
  BY RunIsKnown
<1>1. /\ r.stage = "each" /\ r.mode = "clear"
      /\ UNCHANGED <<cached, pinned, crowded>>
  BY DEF RemoveImage
<1>2. PICK x \in r.todo :
        /\ \/ /\ images' = images \ {x}
              /\ doubt' = doubt \cup {i \in CacheItems : x \in Needs[i] /\ cached[i] = "cached"}
           \/ UNCHANGED <<images, doubt>>
        /\ \/ cacheRun' = [cacheRun EXCEPT ![c].todo = @ \ {x}]
           \/ Failed(c)
  BY DEF RemoveImage
<1> DEFINE fewer == [r EXCEPT !.todo = @ \ {x}]
           given == [r EXCEPT !.stage = "save", !.finding = "unknown"]
<1>3. PICK q \in {fewer, given} : cacheRun' = [cacheRun EXCEPT ![c] = q]
  BY <1>0, <1>2 DEF Known, Failed, Found
<1>4. q \in CacheRunRecords
  <2>1. fewer \in CacheRunRecords
    BY <1>0 DEF Known, CacheRunRecords
  <2>2. given \in CacheRunRecords
    BY <1>0 DEF Known, CacheRunRecords, CacheStages, CacheFindings
  <2> QED
    BY <2>1, <2>2
<1>5. Reports(q)
  BY <1>0, <1>1 DEF Known, CacheRunRecords, Reports, AtItem
<1>7. Looks(q, images')
  BY <1>0, <1>1 DEF Known, CacheRunRecords, Looks
<1>8. /\ cacheRun'[c] = q /\ cacheRun' \in [CacheRuns -> CacheRunRecords]
      /\ \A d \in CacheRuns \ {c} : cacheRun'[d] = cacheRun[d]
  BY <1>0, <1>3, <1>4 DEF Known
<1>9. q.stage \in {"each", "save"}
  BY <1>0, <1>1 DEF Known, CacheRunRecords
<1>10. RunsTyped'
  <2>1. images' \in SUBSET Images /\ doubt' \in SUBSET CacheItems
    BY <1>2 DEF CacheInv, RunsTyped, CacheTyped
  <2> QED
    BY <1>1, <1>5, <1>8, <2>1 DEF CacheInv, RunsTyped, CacheTyped
<1>11. ActiveRuns' = ActiveRuns
  BY <1>1, <1>8, <1>9 DEF ActiveRuns
<1>12. Alone'
  BY <1>1, <1>11 DEF CacheInv, Alone
<1>13. LooksAreTrue'
  <2> SUFFICES ASSUME ~crowded', NEW d \in CacheRuns, d # c PROVE Looks(cacheRun'[d], images')
    BY <1>7, <1>8 DEF LooksAreTrue
  <2>1. c \in ActiveRuns /\ d \notin ActiveRuns
    BY <1>1 DEF CacheInv, Alone, ActiveRuns
  <2> QED
    BY <1>8, <2>1 DEF ActiveRuns, Looks
<1>15. CatalogueTrue'
  <2> SUFFICES ASSUME ~crowded', NEW i \in CacheItems, cached[i] = "cached", i \notin doubt'
               PROVE  Needs[i] \subseteq images'
    BY <1>1 DEF CatalogueTrue
  <2>1. Needs[i] \subseteq images
    BY <1>1, <1>2 DEF CacheInv, CatalogueTrue
  <2> QED
    BY <1>2, <2>1
<1> QED
  BY <1>10, <1>12, <1>13, <1>15 DEF CacheInv

\* A finding is recorded, or could not be.
LEMMA SaveKeeps ==
  ASSUME CacheInv, NEW c \in CacheRuns, Save(c)
  PROVE  CacheInv'
<1> DEFINE r == cacheRun[c]
           q == [r EXCEPT !.stage = "loop", !.at = @ + 1, !.todo = {},
                          !.results = Append(@, Item(c))]
<1>0. Known(c)
  BY RunIsKnown
<1>1. r.stage = "save" /\ UNCHANGED <<images, pinned, crowded>>
  BY DEF Save
<1>2. cacheRun' = [cacheRun EXCEPT ![c] = q]
  BY <1>0 DEF Known, Save
<1>3. r.at \in 1 .. Len(r.selected) /\ Item(c) = r.selected[r.at] /\ Item(c) \in CacheItems
  BY <1>0, <1>1 DEF Known, AtItem
<1>4. q \in CacheRunRecords
  <2>1. r.at + 1 \in Nat \ {0} /\ Append(r.results, Item(c)) \in Seq(CacheItems)
    BY <1>0, <1>3 DEF Known, CacheRunRecords
  <2> QED
    BY <1>0, <2>1 DEF Known, CacheRunRecords, CacheStages
<1>5. Reports(q)
  BY <1>0, <1>1, <1>3 DEF Known, CacheRunRecords, Reports, AtItem
<1>6. Looks(q, images)
  BY <1>0, <1>1 DEF Known, CacheRunRecords, Looks
<1>7. q.stage = "loop"
  BY <1>0 DEF Known, CacheRunRecords
<1> HIDE DEF q
<1>8. /\ cacheRun'[c] = q /\ cacheRun' \in [CacheRuns -> CacheRunRecords]
      /\ \A d \in CacheRuns \ {c} : cacheRun'[d] = cacheRun[d]
  BY <1>0, <1>2, <1>4 DEF Known
<1>9. \/ /\ cached' = [cached EXCEPT ![Item(c)] = r.finding]
         /\ doubt' = IF r.todo # {} /\ r.finding = "cached" THEN doubt \cup {Item(c)}
                     ELSE doubt \ {Item(c)}
      \/ UNCHANGED <<cached, doubt>>
  BY DEF Save
<1>10. RunsTyped'
  <2>1. cached' \in [CacheItems -> CacheFindings] /\ doubt' \in SUBSET CacheItems
    BY <1>0, <1>3, <1>9 DEF Known, CacheInv, RunsTyped, CacheTyped, CacheRunRecords
  <2> QED
    BY <1>1, <1>5, <1>8, <2>1 DEF CacheInv, RunsTyped, CacheTyped
<1>11. ActiveRuns' = ActiveRuns
  BY <1>1, <1>7, <1>8 DEF ActiveRuns
<1>12. Alone'
  BY <1>1, <1>11 DEF CacheInv, Alone
<1>13. LooksAreTrue'
  BY <1>1, <1>6, <1>8 DEF CacheInv, LooksAreTrue
<1>15. CatalogueTrue'
  <2> SUFFICES ASSUME ~crowded, NEW i \in CacheItems, cached'[i] = "cached", i \notin doubt'
               PROVE  Needs[i] \subseteq images
    BY <1>1 DEF CatalogueTrue
  <2>1. CASE cached[i] = "cached" /\ i \notin doubt
    BY <2>1 DEF CacheInv, CatalogueTrue
  <2>2. CASE ~(cached[i] = "cached" /\ i \notin doubt)
    <3>1. i = Item(c) /\ r.finding = "cached" /\ r.todo = {}
      BY <1>9, <2>2 DEF CacheInv, RunsTyped, CacheTyped
    <3> QED
      BY <1>0, <1>1, <1>3, <3>1 DEF Known, Looks
  <2> QED
    BY <2>1, <2>2
<1> QED
  BY <1>10, <1>12, <1>13, <1>15 DEF CacheInv

\* An item is marked persistent, or no longer.
LEMMA PinKeeps ==
  ASSUME CacheInv, NEW i \in CacheItems, SetPersistent(i)
  PROVE  CacheInv'
<1>1. UNCHANGED <<cacheRun, images, cached, doubt, crowded>>
  BY DEF SetPersistent
<1>2. RunsTyped'
  BY <1>1 DEF CacheInv, RunsTyped, CacheTyped, SetPersistent
<1>3. Alone' /\ LooksAreTrue' /\ CatalogueTrue'
  BY <1>1 DEF CacheInv, Alone, ActiveRuns, LooksAreTrue, CatalogueTrue
<1> QED
  BY <1>2, <1>3 DEF CacheInv

-----------------------------------------------------------------------------
(* The theorems. *)

LEMMA CacheInitInv == CacheInit => CacheInv
<1> SUFFICES ASSUME CacheInit PROVE CacheInv
  OBVIOUS
<1>1. \A c \in CacheRuns : cacheRun[c] = FreeRun
  BY DEF CacheInit
<1>2. FreeRun.stage = "free" /\ FreeRun.todo = {}
  BY DEF FreeRun
<1>3. ActiveRuns = {}
  BY <1>1, <1>2 DEF ActiveRuns
<1>4. Alone
  BY <1>3 DEF Alone
<1>5. LooksAreTrue
  BY <1>1, <1>2 DEF LooksAreTrue, Looks
<1>6. CatalogueTrue
  BY DEF CacheInit, CatalogueTrue
<1> QED
  BY <1>4, <1>5, <1>6, CacheInitTyped DEF CacheInv

LEMMA CacheStepInv == CacheInv /\ [CacheNext]_cacheVars => CacheInv'
<1> SUFFICES ASSUME CacheInv, [CacheNext]_cacheVars PROVE CacheInv'
  OBVIOUS
<1>1. ASSUME NEW c \in CacheRuns,
             \/ AskCacheRun(c) \/ InsertCacheRun(c) \/ StopCacheRun(c) \/ ForgetCacheRun(c)
      PROVE  CacheInv'
  BY <1>1, AskKeeps, InsertKeeps, StopKeeps, ForgetKeeps
<1>2. ASSUME NEW c \in CacheRuns, CacheStep(c) PROVE CacheInv'
  BY <1>2, SyncKeeps, ConnectKeeps, NextKeeps, EndKeeps, PullKeeps, BuildKeeps, ListKeeps,
     InspectKeeps, RemoveKeeps, ConcludeKeeps, SaveKeeps DEF CacheStep
<1>3. ASSUME NEW i \in CacheItems, SetPersistent(i) PROVE CacheInv'
  BY <1>3, PinKeeps
<1>4. CASE UNCHANGED cacheVars
  BY <1>4 DEF cacheVars, CacheInv, RunsTyped, CacheTyped, Alone, ActiveRuns, LooksAreTrue,
     CatalogueTrue
<1> QED
  BY <1>1, <1>2, <1>3, <1>4 DEF CacheNext

LEMMA CacheInvHolds == CacheSpec => []CacheInv
BY CacheInitInv, CacheStepInv, PTL DEF CacheSpec

\* The runs, the images, the catalogue and the pins are what they should be in every
\* state, and a run works on an item that was selected.
THEOREM CacheTypes == CacheSpec => []CacheTypeOK
<1>1. CacheInv => CacheTypeOK
  <2> SUFFICES ASSUME CacheInv PROVE CacheTypeOK
    OBVIOUS
  <2>1. ASSUME NEW c \in CacheRuns
        PROVE  LET r == cacheRun[c] IN
               /\ r.stage \in CacheStages /\ r.mode \in CacheModes /\ r.finding \in CacheFindings
               /\ {r.stop, r.synced, r.pulled} \subseteq BOOLEAN
               /\ r.status \in {"queued", "running", "failed", "stopped", "completed"}
               /\ r.selected \in Selections \cup {<<>>}
               /\ r.todo \cup r.missing \subseteq Images
               /\ r.stage \in AtItem => r.at \in DOMAIN r.selected
    <3> DEFINE r == cacheRun[c]
    <3>1. r \in CacheRunRecords /\ (r.stage \in AtItem => r.at \in 1 .. Len(r.selected))
      BY RunIsKnown DEF Known
    <3>2. r.selected \in Selections \cup {<<>>}
      BY <3>1 DEF CacheRunRecords
    <3>3. DOMAIN r.selected = 1 .. Len(r.selected)
      BY <3>2, SelectionsAreSequences
    <3> QED
      BY <3>1, <3>2, <3>3 DEF CacheRunRecords
  <2> QED
    BY <2>1 DEF CacheTypeOK, CacheInv, RunsTyped, CacheTyped, AtItem
<1> QED
  BY <1>1, CacheInvHolds, PTL

\* A run has reported a prefix of its selection, and all of it when it completes; and
\* what the catalogue says to be cached is on the VM, unless two runs were active at once
\* or the record is in doubt.
THEOREM CacheTellsTruth == CacheSpec => []CacheTells
<1>1. CacheInv => CacheTells
  <2> SUFFICES ASSUME CacheInv PROVE CacheTells
    OBVIOUS
  <2>1. ASSUME NEW c \in CacheRuns
        PROVE  LET r == cacheRun[c] IN
               /\ IsPrefix(r.results, r.selected)
               /\ r.stage = "done" =>
                    \/ r.status = "completed" /\ r.results = r.selected
                    \/ r.status = "stopped" /\ r.stop
                    \/ r.status = "failed" /\ r.results = <<>>
    <3> DEFINE s == cacheRun[c].results
               t == cacheRun[c].selected
               n == Len(s)
    <3>1. /\ s \in Seq(CacheItems) /\ t \in Seq(CacheItems) /\ n \in Nat /\ Len(t) \in Nat
          /\ cacheRun[c] \in CacheRunRecords /\ Reports(cacheRun[c])
      BY RunIsKnown DEF Known, CacheRunRecords
    <3>2. n = cacheRun[c].at - 1 /\ n <= Len(t) /\ \A i \in 1 .. n : s[i] = t[i]
      BY <3>1 DEF Reports, CacheRunRecords
    <3> HIDE DEF s, t
    <3>3. SubSeq(s, 1, n) = SubSeq(t, 1, n)
      BY <3>1, <3>2
    <3>4. n = Len(t) => s = t
      BY <3>1, <3>2
    <3>5. n = 0 => s = <<>>
      BY <3>1
    <3> QED
      BY <3>1, <3>2, <3>3, <3>4, <3>5 DEF IsPrefix, Reports, CacheRunRecords, s, t
  <2> QED
    BY <2>1 DEF CacheTells, CacheInv, CatalogueTrue
<1> QED
  BY <1>1, CacheInvHolds, PTL

=============================================================================
