----------------------------- MODULE RunHistory -----------------------------
(***************************************************************************)
(* run_history.json and those who rewrite it: status requests append an     *)
(* entry under a lock; deleting reports takes the lock to read the file and  *)
(* rewrites it without; deleting scenarios reads and rewrites it without.    *)
(* All write the same temporary file and rename it.  A file that cannot be   *)
(* read counts as empty.                                                     *)
(***************************************************************************)
EXTENDS Naturals

CONSTANTS
  Entries,       \* entries of the history
  Writers,       \* threads that rewrite it
  Unlocked,      \* no holder of the lock
  NoFile,        \* the temporary file is not there
  Torn,          \* the content of a file that is no JSON list: empty, or mixed up
  MaxReadErrors  \* bound: how often reading the file fails

ASSUME UnlockedIsNoWriter == Unlocked \notin Writers
ASSUME MaxReadErrorsIsNat == MaxReadErrors \in Nat
ASSUME TornIsNoHistory == \A S \in SUBSET Entries : Torn # S /\ NoFile # S
ASSUME NoFileIsNotTorn == NoFile # Torn

VARIABLES
  disk,    \* content of the history file
  tmp,     \* content of the temporary file
  lock,    \* holder of RUN_HISTORY_LOCK
  pc,      \* pc[w]: where w is in its rewrite
  op,      \* op[w]: what it does, to which entries
  copy,    \* copy[w]: what it is going to write
  opened,  \* opened[w]: what the file w has opened is by now
  errors,  \* number of read errors
  saved,   \* history: entries that were appended and not deleted since
  alone    \* history: no rewrite without the lock has met another, no read failed

writing == <<pc, op, copy, opened>>
histVars == <<disk, tmp, lock, writing, errors, saved, alone>>

Ops == [kind : {"none", "append", "delete", "purge"}, of : SUBSET Entries]
NoOp == [kind |-> "none", of |-> {}]
Histories == SUBSET Entries

HistTypeOK ==
  /\ disk \in Histories \cup {Torn}
  /\ tmp \in Histories \cup {Torn, NoFile}
  /\ lock \in Writers \cup {Unlocked}
  /\ pc \in [Writers -> {"out", "open", "dump", "replace"}]
  /\ op \in [Writers -> Ops]
  /\ copy \in [Writers -> Histories]
  /\ opened \in [Writers -> {"none", "tmp", "disk"}]
  /\ errors \in 0 .. MaxReadErrors
  /\ saved \in Histories /\ alone \in BOOLEAN
  /\ \A w \in Writers :
       /\ lock = w <=> op[w].kind = "append"
       /\ pc[w] = "out" <=> op[w] = NoOp

HistInit ==
  /\ disk = {} /\ tmp = NoFile
  /\ lock = Unlocked
  /\ pc = [w \in Writers |-> "out"]
  /\ op = [w \in Writers |-> NoOp]
  /\ copy = [w \in Writers |-> {}]
  /\ opened = [w \in Writers |-> "none"]
  /\ errors = 0
  /\ saved = {} /\ alone = TRUE

Busy(w) == pc[w] # "out"

\* saved counts only as long as the rewrites have stayed alone.
Remember(S) == saved' = IF alone' THEN S ELSE {}

\* What others have opened when the temporary file gets its new name, or is removed.
Renamed(w) ==
  [v \in Writers |->
     IF v = w \/ opened[v] # "tmp" THEN "none" ELSE "disk"]
Unlinked(w) ==
  [v \in Writers |-> IF v = w \/ opened[v] = "tmp" THEN "none" ELSE opened[v]]

\* w begins a rewrite of kind k.
Begin(w, k, S, content) ==
  /\ pc' = [pc EXCEPT ![w] = "open"]
  /\ op' = [op EXCEPT ![w] = [kind |-> k, of |-> S]]
  /\ copy' = [copy EXCEPT ![w] = content]
  /\ UNCHANGED opened

\* A rewrite without the lock overlaps with another one.
Meets(k) ==
  \E v \in Writers : Busy(v) /\ ~(k = "append" /\ op[v].kind = "append")

\* _load_run_history: nothing if the file cannot be read.
Load(h) ==
  \/ /\ h = IF disk = Torn THEN {} ELSE disk
     /\ UNCHANGED errors
  \/ /\ errors < MaxReadErrors /\ errors' = errors + 1
     /\ h = {}

-----------------------------------------------------------------------------
(* Faulty variants of the actions below, each with a bug the code could have;    *)
(* they take no part in HistSpec.  PROJECT.json names the property each breaks.  *)

\* The lock is given back after reading.
AppendUnlocked(w, e) ==
  /\ pc[w] = "out" /\ lock = Unlocked
  /\ \E h \in Histories :
       /\ Load(h)
       /\ alone' = (alone /\ errors' = errors /\ ~Meets("append"))
       /\ e \notin h /\ Begin(w, "append", {e}, h \cup {e})
  /\ Remember(saved)
  /\ UNCHANGED <<disk, tmp, lock>>

\* An exception leaves the rewrite without giving the lock back.
WriteFailsLocked(w) ==
  /\ Busy(w) /\ (pc[w] = "replace" => tmp = NoFile)
  /\ pc' = [pc EXCEPT ![w] = "out"]
  /\ op' = [op EXCEPT ![w] = NoOp]
  /\ copy' = [copy EXCEPT ![w] = {}]
  /\ opened' = [opened EXCEPT ![w] = "none"]
  /\ UNCHANGED <<disk, tmp, lock, errors, saved, alone>>

-----------------------------------------------------------------------------
(* Appending: the lock is held to the end.  An entry that is there is not added. *)

AppendEntry(w, e) ==
  /\ pc[w] = "out" /\ lock = Unlocked
  /\ \E h \in Histories :
       /\ Load(h)
       /\ alone' = (alone /\ errors' = errors /\ ~Meets("append"))
       /\ \/ /\ e \in h /\ Remember(saved \cup {e})
             /\ UNCHANGED <<lock, writing>>
          \/ /\ e \notin h /\ Begin(w, "append", {e}, h \cup {e})
             /\ lock' = w /\ Remember(saved)
  /\ UNCHANGED <<disk, tmp>>

\* Deleting reports: the file is rewritten whatever was found.
Delete(w, S) ==
  /\ pc[w] = "out" /\ lock = Unlocked
  /\ \E h \in Histories :
       /\ Load(h)
       /\ alone' = (alone /\ errors' = errors /\ ~Meets("delete"))
       /\ Begin(w, "delete", S, h \ S)
  /\ Remember(saved)
  /\ UNCHANGED <<disk, tmp, lock>>

\* Deleting scenarios: nothing is done if the file cannot be read or has none of
\* their entries.
Purge(w, S) ==
  /\ pc[w] = "out"
  /\ disk # Torn /\ disk \cap S # {}
  /\ Begin(w, "purge", S, disk \ S)
  /\ alone' = (alone /\ ~Meets("purge"))
  /\ Remember(saved)
  /\ UNCHANGED <<disk, tmp, lock, errors>>

-----------------------------------------------------------------------------
(* The rewrite. *)

End(w) ==
  /\ pc' = [pc EXCEPT ![w] = "out"]
  /\ op' = [op EXCEPT ![w] = NoOp]
  /\ copy' = [copy EXCEPT ![w] = {}]
  /\ lock' = IF lock = w THEN Unlocked ELSE lock
  /\ UNCHANGED <<errors, alone>>

\* open(tmp, 'w') empties the file if it is there, and whoever has it open.
Open(w) ==
  /\ pc[w] = "open"
  /\ pc' = [pc EXCEPT ![w] = "dump"]
  /\ tmp' = Torn
  /\ opened' = [opened EXCEPT ![w] = "tmp"]
  /\ UNCHANGED <<disk, lock, op, copy, errors, saved, alone>>

\* If another thread has opened the same file the two texts may mix.  What is
\* written goes where that file is now.
Dump(w) ==
  /\ pc[w] = "dump"
  /\ pc' = [pc EXCEPT ![w] = "replace"]
  /\ LET shared == opened[w] = "disk" \/ \E v \in Writers \ {w} : opened[v] = opened[w] IN
     \E c \in {copy[w]} \cup (IF shared THEN {Torn} ELSE {}) :
       /\ tmp' = IF opened[w] = "tmp" THEN c ELSE tmp
       /\ disk' = IF opened[w] = "disk" THEN c ELSE disk
  /\ UNCHANGED <<lock, op, copy, opened, errors, saved, alone>>

\* os.replace: whatever the temporary file is, it becomes the history.
Replace(w) ==
  /\ pc[w] = "replace" /\ tmp # NoFile
  /\ disk' = tmp /\ tmp' = NoFile
  /\ opened' = Renamed(w)
  /\ End(w)
  /\ Remember(IF op[w].kind = "append" THEN saved \cup op[w].of ELSE saved \ op[w].of)

\* Writing fails, or the temporary file has gone; only an append removes it.
WriteFails(w) ==
  /\ Busy(w) /\ (pc[w] = "replace" => tmp = NoFile)
  /\ \/ /\ op[w].kind = "append"
        /\ tmp' = NoFile /\ opened' = Unlinked(w)
     \/ /\ op[w].kind # "append"
        /\ tmp' \in {tmp} \cup (IF opened[w] = "tmp" THEN {Torn} ELSE {})
        /\ opened' = [opened EXCEPT ![w] = "none"]
  /\ End(w)
  /\ UNCHANGED <<disk, saved>>

\* The web process dies: the files stay.
Crash ==
  /\ lock' = Unlocked
  /\ pc' = [w \in Writers |-> "out"]
  /\ op' = [w \in Writers |-> NoOp]
  /\ copy' = [w \in Writers |-> {}]
  /\ opened' = [w \in Writers |-> "none"]
  /\ UNCHANGED <<disk, tmp, errors, saved, alone>>

Rewrite(w) == Open(w) \/ Dump(w) \/ Replace(w) \/ WriteFails(w)

HistNext ==
  \/ \E w \in Writers :
       \/ \E e \in Entries : AppendEntry(w, e)
       \/ \E S \in Histories \ {{}} : Delete(w, S) \/ Purge(w, S)
       \/ Rewrite(w)
  \/ Crash

HistSpec == HistInit /\ [][HistNext]_histVars

-----------------------------------------------------------------------------
(* Properties. *)

\* As long as no unlocked rewrite meets another rewrite and no read fails, the
\* history is what was appended and not deleted, whatever writes fail, whatever
\* appends compete and wherever the web process dies.
HistoryKept == alone => disk = saved
=============================================================================
