--------------------------- MODULE DeploymentSwap ---------------------------
(***************************************************************************)
(* An update of the fixed deployment directory: the lock beside it, with   *)
(* the gate that guards the judgement of an old lock, and the exchange of  *)
(* the program under data that must survive.  Every gateway process is one *)
(* updater; a step is one call of the file system, any of which may fail;  *)
(* a process may be killed between two of them.                            *)
(*                                                                         *)
(* A file of the lock is as old as its TTL only when its writer is gone:   *)
(* the commands run under the lock time out long before the hour, and the  *)
(* gate is held for a few calls.                                           *)
(***************************************************************************)
EXTENDS Integers, FiniteSets

CONSTANTS
  Proc,            \* gateway processes that update this deployment
  Program, Kept,   \* names of directory entries: the package's, the user's
  MaxFaults,       \* bound: calls of the file system that fail
  MaxCrashes,      \* bound: processes killed
  CrashInGate,     \* whether one may be killed while it holds the gate
  NoOne            \* no process, no file

SwapAssumption ==
  /\ NoOne \notin Proc \cup [by : Proc, written : BOOLEAN, old : BOOLEAN]
  /\ Program \cap Kept = {}
  /\ MaxFaults \in Nat /\ MaxCrashes \in Nat /\ CrashInGate \in BOOLEAN

VARIABLES
  file,            \* the gate and the lock: NoOne, or who wrote it and how far
  dirs,            \* the directories that exist: from entries to whose they are
  at,              \* what each process does next, and with which file
  tries,           \* attempts at the file at hand
  rest,            \* entries the loop at hand has still to move
  got, won, told,  \* lock acquired; replaced; a failed roll-back was reported
  before,          \* ghost: the deployment when the lock was acquired
  inPlace,         \* inPlaceDeploymentSwap: Windows
  faults, crashes

locking == <<file, tries, got>>
swapping == <<dirs, rest, won, told, before>>
bounds == <<inPlace, faults, crashes>>
vars == <<locking, swapping, at, bounds>>

Name == Program \cup Kept
Preserved == Kept   \* preservedDeploymentEntries()
Deployment == <<NoOne, "deployment">>
Candidate(p) == <<p, "candidate">>
Backup(p) == <<p, "backup">>
Failed(p) == <<p, "failed">>

Exists(d) == d \in DOMAIN dirs
Entries(d) == IF Exists(d) THEN DOMAIN dirs[d] ELSE {}
Contents(d) == IF Exists(d) THEN dirs[d] ELSE [e \in {} |-> "old"]

Renamed(d, from, to) ==
  [x \in (DOMAIN d \ {from}) \cup {to} |-> IF x = to THEN d[from] ELSE d[x]]

Without(d, gone) == [x \in DOMAIN d \ {gone} |-> d[x]]

Go(p, step, what) == at' = [at EXCEPT ![p] = <<step, what>>]
At(p, step, what) == at[p] = <<step, what>>
Dead(p) == At(p, "dead", "")

------------------------------------------------------------------------------
(* acquireFixedDeploymentLock() and acquireFixedDeploymentGate(): the same *)
(* five calls for either file.                                             *)

Open(p, f) ==
  /\ At(p, "open", f)
  /\ \/ /\ file[f] = NoOne
        /\ file' = [file EXCEPT ![f] = [by |-> p, written |-> FALSE, old |-> FALSE]]
        /\ Go(p, "write", f)
     \/ /\ file[f] # NoOne
        /\ Go(p, "judge", f)
        /\ UNCHANGED file
  /\ UNCHANGED <<tries, got, swapping, bounds>>

(* The content goes to the file that was opened, wherever it is now.       *)
Write(p, f) ==
  /\ At(p, "write", f)
  /\ file' = IF file[f] # NoOne /\ file[f].by = p
               THEN [file EXCEPT ![f].written = TRUE] ELSE file
  /\ tries' = [tries EXCEPT ![p] = 0]
  /\ got' = [got EXCEPT ![p] = f = "lock"]
  /\ IF f = "gate" THEN Go(p, "open", "lock") ELSE Go(p, "mine", "gate")
  /\ UNCHANGED <<swapping, bounds>>

GiveUp(p, f) == IF f = "gate" THEN Go(p, "done", "") ELSE Go(p, "mine", "gate")

(* Slip: any lock found is taken for a dead process's.                     *)
StaleAlways(f) == file[f] # NoOne

(* staleDeploymentGate(), and the age of the lock.                         *)
Stale(f) ==
  /\ file[f] # NoOne
  /\ \/ file[f].old
     \/ f = "gate" /\ file[f].written /\ Dead(file[f].by)
     \/ f = "lock" /\ ~file[f].written

Judge(p, f) ==
  /\ At(p, "judge", f)
  /\ IF Stale(f) /\ tries[p] = 0 THEN Go(p, "rename", f) ELSE GiveUp(p, f)
  /\ UNCHANGED <<locking, swapping, bounds>>

(* Whatever bears the name now is renamed away and removed.                *)
Rename(p, f) ==
  /\ At(p, "rename", f)
  /\ IF file[f] = NoOne
       THEN GiveUp(p, f) /\ UNCHANGED <<file, tries>>
       ELSE /\ file' = [file EXCEPT ![f] = NoOne]
            /\ tries' = [tries EXCEPT ![p] = 1]
            /\ Go(p, "open", f)
  /\ UNCHANGED <<got, swapping, bounds>>

(* A file is released by reading it, and removing it if it is one's own;   *)
(* what was laid out for the update is removed before the lock is.         *)
AfterRelease(p, f) ==
  IF f = "gate" /\ got[p] THEN Go(p, "stage", "") ELSE Go(p, "done", "")

ReadMine(p, f) ==
  /\ At(p, "mine", f)
  /\ IF file[f] # NoOne /\ file[f].by = p /\ file[f].written
       THEN Go(p, "unlink", f) ELSE AfterRelease(p, f)
  /\ dirs' = IF f = "lock" THEN Without(dirs, Candidate(p)) ELSE dirs
  /\ UNCHANGED <<locking, rest, won, told, before, bounds>>

Unlink(p, f) ==
  /\ At(p, "unlink", f)
  /\ file' = [file EXCEPT ![f] = NoOne]
  /\ AfterRelease(p, f)
  /\ UNCHANGED <<tries, got, swapping, bounds>>

------------------------------------------------------------------------------
(* Calls that change the directories.                                      *)

Put(d, to, e, whose) ==
  [d EXCEPT ![to] = [x \in DOMAIN d[to] \cup {e} |-> IF x = e THEN whose ELSE d[to][x]]]

Drop(d, from, e) == [d EXCEPT ![from] = [x \in DOMAIN d[from] \ {e} |-> d[from][x]]]

Moved(d, from, to, e) == Put(Drop(d, from, e), to, e, d[from][e])

(* Where a failure leads, by what has been moved when it comes.            *)
Fault == faults < MaxFaults /\ faults' = faults + 1 /\ UNCHANGED <<inPlace, crashes>>

Refuse(p) == Go(p, "mine", "lock")

(* After the first rename a failure is rolled back. Slip: it is not.       *)
NoRollBack(p) == Refuse(p)
RollBack(p) == Go(p, "aside", "")

(* The new package is laid out beside the deployment. A name of its that   *)
(* is the user's stops the update. Slip: it does not.                      *)
ConflictIgnored(names) == FALSE
Conflict(names) == names \cap Preserved # {}

Stage(p) ==
  /\ At(p, "stage", "")
  /\ before' = [before EXCEPT ![p] = Contents(Deployment)]
  /\ \/ Refuse(p) /\ UNCHANGED <<dirs, rest>>
     \/ \E k \in SUBSET Kept :
          LET names == Program \cup k
          IN  IF Conflict(names) \/ ~Exists(Deployment)
                THEN Refuse(p) /\ UNCHANGED <<dirs, rest>>
                ELSE /\ dirs' = [d \in DOMAIN dirs \cup {Candidate(p)} |->
                          IF d = Candidate(p) THEN [e \in names |-> "new"] ELSE dirs[d]]
                     /\ rest' = [rest EXCEPT ![p] = Entries(Deployment) \ Preserved]
                     /\ Go(p, IF inPlace THEN "out" ELSE "away", "")
  /\ UNCHANGED <<locking, won, told, bounds>>

(* The whole directory goes away, the new one takes its place, the user's  *)
(* entries follow.                                                         *)
Away(p) ==
  /\ At(p, "away", "")
  /\ \/ /\ Exists(Deployment)
        /\ dirs' = Renamed(dirs, Deployment, Backup(p))
        /\ Go(p, "enter", "") /\ UNCHANGED bounds
     \/ Fault /\ Refuse(p) /\ UNCHANGED dirs
  /\ UNCHANGED <<locking, rest, won, told, before>>

Enter(p) ==
  /\ At(p, "enter", "")
  /\ \/ /\ ~Exists(Deployment)
        /\ dirs' = Renamed(dirs, Candidate(p), Deployment)
        /\ rest' = [rest EXCEPT ![p] = Preserved]
        /\ Go(p, "keep", "") /\ UNCHANGED bounds
     \/ Fault /\ RollBack(p) /\ UNCHANGED <<dirs, rest>>
  /\ UNCHANGED <<locking, won, told, before>>

(* movePreservedEntries(): an entry in the way is removed first.           *)
MoveOne(p, from, to) ==
  \E e \in rest[p] :
    /\ dirs' = IF e \in Entries(from) THEN Moved(dirs, from, to, e) ELSE dirs
    /\ rest' = [rest EXCEPT ![p] = @ \ {e}]

Keep(p) ==
  /\ At(p, "keep", "")
  /\ \/ MoveOne(p, Backup(p), Deployment) /\ UNCHANGED <<at, bounds>>
     \/ rest[p] = {} /\ Go(p, "register", "") /\ UNCHANGED <<dirs, rest, bounds>>
     \/ rest[p] # {} /\ Fault /\ RollBack(p) /\ UNCHANGED <<dirs, rest>>
  /\ UNCHANGED <<locking, won, told, before>>

(* register-plugin.mjs ran and the profile uses the new program; from then *)
(* on nothing is rolled back.                                              *)
Register(p) ==
  /\ At(p, "register", "")
  /\ \/ Go(p, "commit", "") /\ won' = [won EXCEPT ![p] = TRUE] /\ UNCHANGED rest
     \/ /\ IF inPlace THEN Go(p, "clear", "") ELSE RollBack(p)
        /\ rest' = [rest EXCEPT ![p] = IF inPlace THEN Program ELSE {}]
        /\ UNCHANGED won
  /\ UNCHANGED <<locking, dirs, told, before, bounds>>

Commit(p) ==
  /\ At(p, "commit", "")
  /\ \/ dirs' = Without(dirs, Backup(p)) /\ UNCHANGED bounds
     \/ Fault /\ UNCHANGED dirs
  /\ Refuse(p)
  /\ UNCHANGED <<locking, rest, won, told, before>>

------------------------------------------------------------------------------
(* rollbackFixedDeployment()                                               *)

Aside(p) ==
  /\ At(p, "aside", "")
  /\ \/ /\ dirs' = IF Exists(Deployment) THEN Renamed(dirs, Deployment, Failed(p)) ELSE dirs
        /\ rest' = [rest EXCEPT ![p] = Preserved]
        /\ Go(p, "back", "") /\ UNCHANGED <<told, bounds>>
     \/ Fault /\ Go(p, "sweep", "") /\ told' = [told EXCEPT ![p] = TRUE]
        /\ UNCHANGED <<dirs, rest>>
  /\ UNCHANGED <<locking, won, before>>

Back(p) ==
  /\ At(p, "back", "")
  /\ \/ MoveOne(p, Failed(p), Backup(p)) /\ UNCHANGED <<at, told, bounds>>
     \/ /\ rest[p] = {}
        /\ dirs' = Renamed(dirs, Backup(p), Deployment)
        /\ Go(p, "sweep", "") /\ UNCHANGED <<rest, told, bounds>>
     \/ Fault /\ Go(p, "sweep", "") /\ told' = [told EXCEPT ![p] = TRUE]
        /\ UNCHANGED <<dirs, rest>>
  /\ UNCHANGED <<locking, won, before>>

(* What failed is removed when nothing of the user's is left in it. Slip:  *)
(* it is removed in any case.                                              *)
MaySweepAlways(p) == TRUE
MaySweep(p) == ~told[p] /\ Entries(Failed(p)) \cap Preserved = {}

Sweep(p) ==
  /\ At(p, "sweep", "")
  /\ \/ /\ dirs' = IF MaySweep(p) THEN Without(dirs, Failed(p)) ELSE dirs
        /\ told' = [told EXCEPT ![p] = ~MaySweep(p)]
        /\ UNCHANGED bounds
     \/ Fault /\ MaySweep(p) /\ UNCHANGED <<dirs, told>>
  /\ Refuse(p)
  /\ UNCHANGED <<locking, rest, won, before>>

------------------------------------------------------------------------------
(* swapDeploymentEntriesInPlace() and restoreDeploymentEntries(): program  *)
(* entries out, new ones in; the user's stay where they are.               *)

MoveOut(p) ==
  /\ At(p, "out", "")
  /\ LET here == IF Exists(Backup(p)) THEN dirs
                 ELSE [d \in DOMAIN dirs \cup {Backup(p)} |->
                         IF d = Backup(p) THEN [e \in {} |-> "old"] ELSE dirs[d]]
     IN  \/ /\ rest[p] = {}
            /\ dirs' = here
            /\ rest' = [rest EXCEPT ![p] = Entries(Candidate(p)) \ Preserved]
            /\ Go(p, "in", "") /\ UNCHANGED bounds
         \/ /\ \E e \in rest[p] :
                 /\ dirs' = Moved(here, Deployment, Backup(p), e)
                 /\ rest' = [rest EXCEPT ![p] = @ \ {e}]
            /\ UNCHANGED <<at, bounds>>
         \/ /\ rest[p] # {} /\ Fault
            /\ dirs' = here /\ rest' = [rest EXCEPT ![p] = Entries(Backup(p))]
            /\ Go(p, "return", "")
  /\ UNCHANGED <<locking, won, told, before>>

MoveIn(p) ==
  /\ At(p, "in", "")
  /\ \/ rest[p] = {} /\ Go(p, "register", "") /\ UNCHANGED <<dirs, rest, bounds>>
     \/ /\ \E e \in rest[p] :
             /\ dirs' = Moved(dirs, Candidate(p), Deployment, e)
             /\ rest' = [rest EXCEPT ![p] = @ \ {e}]
        /\ UNCHANGED <<at, bounds>>
     \/ /\ rest[p] # {} /\ Fault /\ Go(p, "clear", "")
        /\ rest' = [rest EXCEPT ![p] = Program \ @] /\ UNCHANGED dirs
  /\ UNCHANGED <<locking, won, told, before>>

(* New entries are removed, old ones moved back; a failure is logged and   *)
(* the next entry tried.                                                   *)
Clear(p) ==
  /\ At(p, "clear", "")
  /\ \/ /\ rest[p] = {} /\ Go(p, "return", "")
        /\ rest' = [rest EXCEPT ![p] = Entries(Backup(p))]
        /\ UNCHANGED <<dirs, told, bounds>>
     \/ \E e \in rest[p] :
          /\ rest' = [rest EXCEPT ![p] = @ \ {e}]
          /\ \/ dirs' = Drop(dirs, Deployment, e) /\ UNCHANGED <<told, bounds>>
             \/ Fault /\ told' = [told EXCEPT ![p] = TRUE] /\ UNCHANGED dirs
          /\ UNCHANGED at
  /\ UNCHANGED <<locking, won, before>>

Return(p) ==
  /\ At(p, "return", "")
  /\ \/ /\ rest[p] = {} /\ Refuse(p)
        /\ dirs' = IF Entries(Backup(p)) = {} THEN Without(dirs, Backup(p)) ELSE dirs
        /\ UNCHANGED <<rest, told, bounds>>
     \/ \E e \in rest[p] :
          /\ rest' = [rest EXCEPT ![p] = @ \ {e}]
          /\ \/ /\ e \notin Entries(Deployment)
                /\ dirs' = Moved(dirs, Backup(p), Deployment, e)
                /\ UNCHANGED <<told, bounds>>
             \/ /\ IF e \in Entries(Deployment) THEN UNCHANGED bounds ELSE Fault
                /\ told' = [told EXCEPT ![p] = TRUE] /\ UNCHANGED dirs
          /\ UNCHANGED at
  /\ UNCHANGED <<locking, won, before>>

------------------------------------------------------------------------------
HoldsGate(p) ==
  \/ at[p][2] = "gate" /\ at[p][1] \in {"write", "mine", "unlink"}
  \/ at[p][2] = "lock" /\ at[p][1] \in {"open", "write", "judge", "rename"}

Swaps(p) == at[p][1] \in {"stage", "away", "enter", "keep", "register", "commit", "aside",
                          "back", "sweep", "out", "in", "clear", "return"}

Crash(p) ==
  /\ crashes < MaxCrashes /\ at[p][1] \notin {"done", "dead"}
  /\ HoldsGate(p) => CrashInGate
  /\ crashes' = crashes + 1
  /\ Go(p, "dead", "")
  /\ UNCHANGED <<locking, swapping, inPlace, faults>>

(* A file whose writer is gone comes of age.                               *)
Age(f) ==
  /\ file[f] # NoOne /\ ~file[f].old /\ Dead(file[f].by)
  /\ file' = [file EXCEPT ![f].old = TRUE]
  /\ UNCHANGED <<tries, got, swapping, at, bounds>>

Init ==
  /\ file = [f \in {"gate", "lock"} |-> NoOne]
  /\ dirs = [d \in {Deployment} |-> [e \in Name |-> IF e \in Kept THEN "user" ELSE "old"]]
  /\ at = [p \in Proc |-> <<"open", "gate">>]
  /\ tries = [p \in Proc |-> 0] /\ rest = [p \in Proc |-> {}]
  /\ got = [p \in Proc |-> FALSE] /\ won = got /\ told = got
  /\ before = [p \in Proc |-> [e \in {} |-> "old"]]
  /\ inPlace \in BOOLEAN /\ faults = 0 /\ crashes = 0

LockStep(p, f) ==
  \/ Open(p, f) \/ Write(p, f) \/ Judge(p, f) \/ Rename(p, f)
  \/ ReadMine(p, f) \/ Unlink(p, f)

SwapStep(p) ==
  \/ Stage(p) \/ Away(p) \/ Enter(p) \/ Keep(p) \/ Register(p) \/ Commit(p)
  \/ Aside(p) \/ Back(p) \/ Sweep(p)
  \/ MoveOut(p) \/ MoveIn(p) \/ Clear(p) \/ Return(p)

Next ==
  \/ \E p \in Proc, f \in {"gate", "lock"} : LockStep(p, f)
  \/ \E p \in Proc : SwapStep(p) \/ Crash(p)
  \/ \E f \in {"gate", "lock"} : Age(f)

Spec == Init /\ [][Next]_vars

------------------------------------------------------------------------------
(* "Only one update of a fixed deployment directory": no two live          *)
(* processes are between acquiring its lock and giving it up.              *)
OneInstaller == \A p, q \in Proc : Swaps(p) /\ Swaps(q) => p = q

(* Nothing of the user's is ever removed: whatever failed or was killed,   *)
(* each of his entries is still in one of the directories.                 *)
UserDataKept == \A e \in Kept : \E d \in DOMAIN dirs : e \in Entries(d) /\ dirs[d][e] = "user"

(* An update that is over left the whole new program or the whole old one  *)
(* with the user's entries, or it has reported what is left to be mended.  *)
OutcomeWhole ==
  \A p \in Proc : At(p, "mine", "lock") /\ DOMAIN before[p] # {} =>
    IF won[p]
      THEN Contents(Deployment) = [e \in Program \cup DOMAIN before[p] |->
                                     IF e \in Program THEN "new" ELSE before[p][e]]
      ELSE told[p] \/ Contents(Deployment) = before[p]

==============================================================================
