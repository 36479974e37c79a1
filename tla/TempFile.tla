------------------------------ MODULE TempFile ------------------------------
(***************************************************************************)
(* The temp-file ownership protocol of packages/persist-lock/src/temp.rs,  *)
(* for ONE target file.                                                    *)
(*                                                                         *)
(* A writer publishes a new version of the target by creating a temp file  *)
(* under a canonical name, filling it, fsyncing it and renaming it over    *)
(* the target.  Readers sweep temps that crashed writers left behind.      *)
(* What tells a live writer's temp from a dead one's is an advisory lock   *)
(* on a companion file; what makes taking and testing that lock atomic     *)
(* with creating and unlinking the names is the never-unlinked templock.   *)
(*                                                                         *)
(* One step is one system call.  Names map to inodes, and locks belong to  *)
(* inodes, so that a companion that is unlinked and created again is a     *)
(* different lock: the substitution the templock exists to prevent.        *)
(***************************************************************************)
EXTENDS Naturals

CONSTANTS
    Writers,        \* processes inside TempFileGuard (a save each at a time)
    Cleaners,       \* processes inside cleanup_temp_files
    Names,          \* canonical temp names (target, pid, seq)
    Inodes,         \* inodes companions can live on
    Collisions,     \* two live writers may use one (pid, seq): shared volumes
    Degraded,       \* TempLock::acquire may fail in Drop
    NoProc, NoInode, NoName, NoFile

Procs == Writers \union Cleaners

ASSUME ProcsAssumption ==
    /\ Writers \intersect Cleaners = {}
    /\ NoProc \notin Procs
ASSUME NamesAssumption ==
    /\ NoInode \notin Inodes
    /\ NoName \notin Names
    /\ NoFile \notin [by : Writers, data : {"empty", "written", "synced"}]
ASSUME FlagsAssumption ==
    /\ Collisions \in BOOLEAN
    /\ Degraded \in BOOLEAN
    \* temp.rs relies on (pid, seq) being unique per live writer when Drop
    \* has to do without the section.
    /\ ~(Collisions /\ Degraded)

VARIABLES
    pc,         \* where each process is, in the order of the code
    name,       \* the temp name a process works on
    handle,     \* the companion inode a process has open
    templock,   \* holder of <target>.templock
    companion,  \* name -> inode of <temp>.lock, or NoInode
    owner,      \* inode -> holder of its advisory lock
    temp,       \* name -> the temp file, or NoFile
    target,     \* the published file
    done,       \* TempFileGuard.done
    unread,     \* directory entries the cleaner's readdir has not returned
    orphans,    \* companions the cleaner collected for its second loop
    loop        \* which of the two loops of the cleanup a cleaner is in

locks == <<companion, owner>>
files == <<temp, target>>
sweep == <<unread, orphans, loop>>
vars == <<pc, name, handle, templock, locks, files, done, sweep>>

File == [by : Writers, data : {"empty", "written", "synced"}]

WriterPC == {"idle", "opencomp", "trylock", "opentemp", "leave", "write",
             "fsync", "rename", "dirsync", "dropsec", "droptemp", "dropcomp",
             "droprel", "droplock"}
CleanerPC == {"idle", "scan", "orphans", "section", "exists", "opencomp",
              "trylock", "unlock", "unlinkcomp", "unlinktemp", "release"}

\* A directory entry is a temp or a companion of a canonical name.
Entries == {"temp", "lock"} \X Names

\* The shape of the directory, the per-target lock and the processes.
TypeOK ==
    /\ pc \in [Procs -> WriterPC \union CleanerPC]
    /\ \A w \in Writers : pc[w] \in WriterPC
    /\ \A c \in Cleaners : pc[c] \in CleanerPC
    /\ name \in [Procs -> Names \union {NoName}]
    /\ handle \in [Procs -> Inodes \union {NoInode}]
    /\ templock \in Procs \union {NoProc}
    /\ companion \in [Names -> Inodes \union {NoInode}]
    /\ owner \in [Inodes -> Procs \union {NoProc}]
    /\ temp \in [Names -> File \union {NoFile}]
    /\ target \in File \union {NoFile}
    /\ done \in [Writers -> BOOLEAN]
    /\ unread \in [Cleaners -> SUBSET Entries]
    /\ orphans \in [Cleaners -> SUBSET Names]
    /\ loop \in [Cleaners -> {"scan", "orphans"}]

Init ==
    /\ pc = [p \in Procs |-> "idle"]
    /\ name = [p \in Procs |-> NoName]
    /\ handle = [p \in Procs |-> NoInode]
    /\ templock = NoProc
    /\ companion = [n \in Names |-> NoInode]
    /\ owner = [i \in Inodes |-> NoProc]
    /\ temp = [n \in Names |-> NoFile]
    /\ target = NoFile
    /\ done = [w \in Writers |-> FALSE]
    /\ unread = [c \in Cleaners |-> {}]
    /\ orphans = [c \in Cleaners |-> {}]
    /\ loop = [c \in Cleaners |-> "scan"]

-----------------------------------------------------------------------------
(* The file system.                                                        *)

\* An inode nobody links and nobody has open: the kernel may hand it out.
Free(i) == /\ \A n \in Names : companion[n] # i
           /\ \A p \in Procs : handle[p] # i

Goto(p, l) == pc' = [pc EXCEPT ![p] = l]

\* Closing p's handle drops the advisory lock p holds through it.
ReleaseOwner(p) == [i \in Inodes |-> IF owner[i] = p THEN NoProc ELSE owner[i]]

\* File::try_lock on the inode p has open.
LockFree(p) == owner[handle[p]] = NoProc

NameInUse(n) == \E w \in Writers : name[w] = n

-----------------------------------------------------------------------------
(* TempFileGuard::create.                                                  *)

\* TempLock::acquire (blocking), for the temp name of this save.
CreateEnter(w) ==
    /\ pc[w] = "idle"
    /\ templock = NoProc
    /\ \E n \in Names :
          /\ Collisions \/ ~NameInUse(n)
          /\ name' = [name EXCEPT ![w] = n]
    /\ templock' = w
    /\ Goto(w, "opencomp")
    /\ UNCHANGED <<handle, locks, files, done, sweep>>

\* Open the companion, creating it when there is none (not create_new).
CreateOpenCompanion(w) ==
    /\ pc[w] = "opencomp"
    /\ \/ /\ companion[name[w]] # NoInode
          /\ handle' = [handle EXCEPT ![w] = companion[name[w]]]
          /\ UNCHANGED companion
       \/ /\ companion[name[w]] = NoInode
          /\ \E i \in Inodes :
                /\ Free(i)
                /\ companion' = [companion EXCEPT ![name[w]] = i]
                /\ handle' = [handle EXCEPT ![w] = i]
    /\ Goto(w, "trylock")
    /\ UNCHANGED <<name, templock, owner, files, done, sweep>>

\* Mutant: the error paths return without releasing the section.
CreateFailsHolding(w) ==
    /\ owner' = ReleaseOwner(w)
    /\ handle' = [handle EXCEPT ![w] = NoInode]
    /\ name' = [name EXCEPT ![w] = NoName]
    /\ Goto(w, "idle")
    /\ UNCHANGED templock

\* create returns Err: every lock and handle goes with the stack frame.
CreateFails(w) ==
    /\ owner' = ReleaseOwner(w)
    /\ handle' = [handle EXCEPT ![w] = NoInode]
    /\ name' = [name EXCEPT ![w] = NoName]
    /\ templock' = NoProc
    /\ Goto(w, "idle")

CreateOpenCompanionFails(w) ==
    /\ pc[w] = "opencomp"
    /\ CreateFails(w)
    /\ UNCHANGED <<companion, files, done, sweep>>

\* Mutant: create does not look at what try_lock answers.
CreateTryLockIgnored(w) ==
    /\ pc[w] = "trylock"
    /\ owner' = IF LockFree(w) THEN [owner EXCEPT ![handle[w]] = w] ELSE owner
    /\ Goto(w, "opentemp")
    /\ UNCHANGED <<handle, name, templock, companion, files, done, sweep>>

\* try_lock the companion; a held one is a live writer's, and so is taken to
\* be one whose try_lock fails: WouldBlock.
CreateTryLock(w) ==
    /\ pc[w] = "trylock"
    /\ \/ /\ LockFree(w)
          /\ owner' = [owner EXCEPT ![handle[w]] = w]
          /\ Goto(w, "opentemp")
          /\ UNCHANGED <<handle, name, templock>>
       \/ CreateFails(w)
    /\ UNCHANGED <<companion, files, done, sweep>>

\* Create or truncate the temp.
CreateOpenTemp(w) ==
    /\ pc[w] = "opentemp"
    /\ temp' = [temp EXCEPT ![name[w]] = [by |-> w, data |-> "empty"]]
    /\ Goto(w, "leave")
    /\ UNCHANGED <<name, handle, templock, locks, target, done, sweep>>

\* The temp cannot be created: drop the lock, remove the companion (best
\* effort), leave the section.  All of it inside the section.
CreateOpenTempFails(w) ==
    /\ pc[w] = "opentemp"
    /\ companion' \in {companion, [companion EXCEPT ![name[w]] = NoInode]}
    /\ CreateFails(w)
    /\ UNCHANGED <<files, done, sweep>>

\* Ownership is established: leave the section before any long work.
CreateLeave(w) ==
    /\ pc[w] = "leave"
    /\ templock' = NoProc
    /\ Goto(w, "write")
    /\ UNCHANGED <<name, handle, locks, files, done, sweep>>

-----------------------------------------------------------------------------
(* write_all, fsync, rename_into_target.  An error drops the guard.       *)

\* What reaches the file under w's name when w writes through its data
\* handle: nothing once that name is somebody else's file.
Through(w, d) ==
    IF temp[name[w]] # NoFile /\ temp[name[w]].by = w
    THEN [temp EXCEPT ![name[w]] = [by |-> w, data |-> d]]
    ELSE temp

WriteAll(w) ==
    /\ pc[w] = "write"
    /\ \/ /\ temp' = Through(w, "written")
          /\ Goto(w, "fsync")
       \/ /\ Goto(w, "dropsec")
          /\ UNCHANGED temp
    /\ UNCHANGED <<name, handle, templock, locks, target, done, sweep>>

Fsync(w) ==
    /\ pc[w] = "fsync"
    /\ \/ /\ temp' = Through(w, "synced")
          /\ Goto(w, "rename")
       \/ /\ Goto(w, "dropsec")
          /\ UNCHANGED temp
    /\ UNCHANGED <<name, handle, templock, locks, target, done, sweep>>

\* rename(temp, target) publishes whatever file stands under the temp name;
\* with none there, or on any other error, nothing changes.
Rename(w) ==
    /\ pc[w] = "rename"
    /\ \/ /\ temp[name[w]] # NoFile
          /\ target' = temp[name[w]]
          /\ temp' = [temp EXCEPT ![name[w]] = NoFile]
          /\ Goto(w, "dirsync")
       \/ /\ Goto(w, "dropsec")
          /\ UNCHANGED <<files>>
    /\ UNCHANGED <<name, handle, templock, locks, done, sweep>>

\* fsync of the parent directory; only its success sets done.
DirSync(w) ==
    /\ pc[w] = "dirsync"
    /\ \E ok \in BOOLEAN : done' = [done EXCEPT ![w] = ok]
    /\ Goto(w, "dropsec")
    /\ UNCHANGED <<name, handle, templock, locks, files, sweep>>

-----------------------------------------------------------------------------
(* Drop for TempFileGuard.                                                 *)

\* TempLock::acquire(..).ok(): wait for the section, or do without it.
DropEnter(w) ==
    /\ pc[w] = "dropsec"
    /\ \/ /\ templock = NoProc
          /\ templock' = w
       \/ /\ Degraded
          /\ UNCHANGED templock
    /\ Goto(w, IF done[w] THEN "dropcomp" ELSE "droptemp")
    /\ UNCHANGED <<name, handle, locks, files, done, sweep>>

\* if !done remove the temp (best effort).
DropTemp(w) ==
    /\ pc[w] = "droptemp"
    /\ temp' \in {temp, [temp EXCEPT ![name[w]] = NoFile]}
    /\ Goto(w, "dropcomp")
    /\ UNCHANGED <<name, handle, templock, locks, target, done, sweep>>

\* Remove the companion (best effort); its lock is still held.
DropCompanion(w) ==
    /\ pc[w] = "dropcomp"
    /\ companion' \in {companion, [companion EXCEPT ![name[w]] = NoInode]}
    /\ Goto(w, "droprel")
    /\ UNCHANGED <<name, handle, templock, owner, files, done, sweep>>

\* _section goes out of scope at the end of drop() ...
DropLeave(w) ==
    /\ pc[w] = "droprel"
    /\ templock' = IF templock = w THEN NoProc ELSE templock
    /\ Goto(w, "droplock")
    /\ UNCHANGED <<name, handle, locks, files, done, sweep>>

\* ... and only then the fields: closing _lock releases the companion.
DropLock(w) ==
    /\ pc[w] = "droplock"
    /\ owner' = ReleaseOwner(w)
    /\ handle' = [handle EXCEPT ![w] = NoInode]
    /\ name' = [name EXCEPT ![w] = NoName]
    /\ done' = [done EXCEPT ![w] = FALSE]
    /\ Goto(w, "idle")
    /\ UNCHANGED <<templock, companion, files, sweep>>

-----------------------------------------------------------------------------
(* cleanup_temp_files: the directory scan.                                 *)

SweepStart(c) ==
    /\ pc[c] = "idle"
    /\ unread' = [unread EXCEPT ![c] = Entries]
    /\ Goto(c, "scan")
    /\ UNCHANGED <<name, handle, templock, locks, files, done, orphans, loop>>

\* Mutant: companions are not collected for the second loop.
ReadEntryTempsOnly(c) ==
    /\ pc[c] = "scan"
    /\ \E e \in unread[c] :
          /\ unread' = [unread EXCEPT ![c] = @ \ {e}]
          /\ \/ /\ e[1] = "lock" \/ temp[e[2]] = NoFile
                /\ UNCHANGED <<pc, name>>
             \/ /\ e[1] = "temp" /\ temp[e[2]] # NoFile
                /\ name' = [name EXCEPT ![c] = e[2]]
                /\ Goto(c, "section")
    /\ UNCHANGED <<handle, templock, locks, files, done, orphans, loop>>

\* readdir is not a snapshot: each entry is looked at once, at a moment of
\* its own.  A companion is remembered, a temp goes to
\* remove_temp_if_unlocked at once.
ReadEntry(c) ==
    /\ pc[c] = "scan"
    /\ \E e \in unread[c] :
          LET n == e[2] IN
          /\ unread' = [unread EXCEPT ![c] = @ \ {e}]
          /\ \/ /\ e[1] = "lock"
                /\ orphans' = [orphans EXCEPT ![c] =
                       IF companion[n] # NoInode THEN @ \union {n} ELSE @]
                /\ UNCHANGED <<pc, name>>
             \/ /\ e[1] = "temp"
                /\ temp[n] = NoFile
                /\ UNCHANGED <<pc, name, orphans>>
             \/ /\ e[1] = "temp"
                /\ temp[n] # NoFile
                /\ name' = [name EXCEPT ![c] = n]
                /\ Goto(c, "section")
                /\ UNCHANGED orphans
    /\ UNCHANGED <<handle, templock, locks, files, done, loop>>

\* The directory is read: on to the companions collected on the way.
ScanDone(c) ==
    /\ pc[c] = "scan"
    /\ unread[c] = {}
    /\ loop' = [loop EXCEPT ![c] = "orphans"]
    /\ Goto(c, "orphans")
    /\ UNCHANGED <<name, handle, templock, locks, files, done, unread,
                   orphans>>

-----------------------------------------------------------------------------
(* remove_temp_if_unlocked, and the second loop of                         *)
(* cleanup_temp_files_with over companions that have no temp.  The two     *)
(* test and unlink a companion in the same way; they differ in how they    *)
(* enter and in the temp, which only the first removes.                    *)

\* Mutant: the candidate is examined without the section (TS18-01).
RemoveEnterUnlocked(c) ==
    /\ pc[c] = "section"
    /\ Goto(c, "opencomp")
    /\ UNCHANGED <<name, handle, templock, locks, files, done, sweep>>

\* TempLock::try_acquire: a busy section, or an error, skips the candidate.
RemoveEnter(c) ==
    /\ pc[c] = "section"
    /\ \/ /\ templock = NoProc
          /\ templock' = c
          /\ Goto(c, "opencomp")
          /\ UNCHANGED name
       \/ /\ name' = [name EXCEPT ![c] = NoName]
          /\ Goto(c, "scan")
          /\ UNCHANGED templock
    /\ UNCHANGED <<handle, locks, files, done, sweep>>

OrphanEnter(c) ==
    /\ pc[c] = "orphans"
    /\ \E n \in orphans[c] :
          /\ orphans' = [orphans EXCEPT ![c] = @ \ {n}]
          /\ \/ /\ templock = NoProc
                /\ templock' = c
                /\ name' = [name EXCEPT ![c] = n]
                /\ Goto(c, "exists")
             \/ UNCHANGED <<pc, name, templock>>
    /\ UNCHANGED <<handle, locks, files, done, unread, loop>>

\* Re-check, inside the section, that there is still no temp (exists() is
\* also false for a file it cannot stat).
OrphanExists(c) ==
    /\ pc[c] = "exists"
    /\ \/ temp[name[c]] # NoFile /\ Goto(c, "release")
       \/ Goto(c, "opencomp")
    /\ UNCHANGED <<name, handle, templock, locks, files, done, sweep>>

\* Open the companion without creating it.  None there: the temp is
\* ownerless, the orphan is gone.
OpenCompanion(c) ==
    /\ pc[c] = "opencomp"
    /\ \/ /\ companion[name[c]] # NoInode
          /\ handle' = [handle EXCEPT ![c] = companion[name[c]]]
          /\ Goto(c, "trylock")
       \/ /\ companion[name[c]] = NoInode
          /\ Goto(c, IF loop[c] = "scan" THEN "unlinktemp" ELSE "release")
          /\ UNCHANGED handle
       \/ /\ Goto(c, "release")    \* any other error
          /\ UNCHANGED handle
    /\ UNCHANGED <<name, templock, locks, files, done, sweep>>

\* Mutant: a held companion counts as a dead writer's.
TryLockIgnored(c) ==
    /\ pc[c] = "trylock"
    /\ Goto(c, "unlock")
    /\ UNCHANGED <<name, handle, templock, locks, files, done, sweep>>

\* A live owner holds it, or try_lock fails: leave it alone.  Otherwise the
\* lock is ours ...
TryLock(c) ==
    /\ pc[c] = "trylock"
    /\ \/ /\ LockFree(c)
          /\ owner' = [owner EXCEPT ![handle[c]] = c]
          /\ Goto(c, "unlock")
          /\ UNCHANGED handle
       \/ /\ handle' = [handle EXCEPT ![c] = NoInode]
          /\ Goto(c, "release")
          /\ UNCHANGED owner
    /\ UNCHANGED <<name, templock, companion, files, done, sweep>>

\* ... and is dropped again before the unlink.
Unlock(c) ==
    /\ pc[c] = "unlock"
    /\ owner' = ReleaseOwner(c)
    /\ handle' = [handle EXCEPT ![c] = NoInode]
    /\ Goto(c, "unlinkcomp")
    /\ UNCHANGED <<name, templock, companion, files, done, sweep>>

UnlinkCompanion(c) ==
    /\ pc[c] = "unlinkcomp"
    /\ companion' \in {companion, [companion EXCEPT ![name[c]] = NoInode]}
    /\ Goto(c, IF loop[c] = "scan" THEN "unlinktemp" ELSE "release")
    /\ UNCHANGED <<name, handle, templock, owner, files, done, sweep>>

UnlinkTemp(c) ==
    /\ pc[c] = "unlinktemp"
    /\ temp' \in {temp, [temp EXCEPT ![name[c]] = NoFile]}
    /\ Goto(c, "release")
    /\ UNCHANGED <<name, handle, templock, locks, target, done, sweep>>

\* _section goes out of scope; back to the loop it was entered from.
Leave(c) ==
    /\ pc[c] = "release"
    /\ templock' = NoProc
    /\ name' = [name EXCEPT ![c] = NoName]
    /\ Goto(c, loop[c])
    /\ UNCHANGED <<handle, locks, files, done, sweep>>

SweepDone(c) ==
    /\ pc[c] = "orphans"
    /\ orphans[c] = {}
    /\ loop' = [loop EXCEPT ![c] = "scan"]
    /\ Goto(c, "idle")
    /\ UNCHANGED <<name, handle, templock, locks, files, done, unread,
                   orphans>>

-----------------------------------------------------------------------------
(* Process death: the kernel closes every handle and drops every lock; the *)
(* names stay.                                                             *)

Die(p) ==
    /\ pc[p] # "idle"
    /\ owner' = ReleaseOwner(p)
    /\ handle' = [handle EXCEPT ![p] = NoInode]
    /\ name' = [name EXCEPT ![p] = NoName]
    /\ templock' = IF templock = p THEN NoProc ELSE templock
    /\ Goto(p, "idle")
    /\ done' = [w \in Writers |-> IF w = p THEN FALSE ELSE done[w]]
    /\ unread' = [c \in Cleaners |-> IF c = p THEN {} ELSE unread[c]]
    /\ orphans' = [c \in Cleaners |-> IF c = p THEN {} ELSE orphans[c]]
    /\ loop' = [c \in Cleaners |-> IF c = p THEN "scan" ELSE loop[c]]
    /\ UNCHANGED <<companion, files>>

-----------------------------------------------------------------------------

Save(w) ==
    \/ CreateEnter(w) \/ CreateOpenCompanion(w)
    \/ CreateOpenCompanionFails(w) \/ CreateTryLock(w)
    \/ CreateOpenTemp(w) \/ CreateOpenTempFails(w) \/ CreateLeave(w)
    \/ WriteAll(w) \/ Fsync(w) \/ Rename(w) \/ DirSync(w)
    \/ DropEnter(w) \/ DropTemp(w) \/ DropCompanion(w) \/ DropLeave(w)
    \/ DropLock(w)

Sweep(c) ==
    \/ SweepStart(c) \/ ReadEntry(c) \/ ScanDone(c)
    \/ RemoveEnter(c) \/ OrphanEnter(c) \/ OrphanExists(c)
    \/ OpenCompanion(c) \/ TryLock(c) \/ Unlock(c) \/ UnlinkCompanion(c)
    \/ UnlinkTemp(c) \/ Leave(c) \/ SweepDone(c)

Next ==
    \/ \E w \in Writers : Save(w)
    \/ \E c \in Cleaners : Sweep(c)
    \/ \E p \in Procs : Die(p)

Spec == Init /\ [][Next]_vars

\* Not inside the code, or waiting for the section in Drop.
Waiting(w) == pc[w] = "idle" \/ (pc[w] = "dropsec" /\ templock # NoProc)

\* A writer that is inside the code and does not wait is scheduled until it
\* returns or dies, and readers keep loading the target (each load sweeps).
\* Nothing forces a save.
WriterRuns(w) == []<>Waiting(w) \/ []<><<TRUE>>_(pc[w])
SweepRuns(c) == []<><<TRUE>>_<<pc[c], unread[c], orphans[c]>>

-----------------------------------------------------------------------------
(* Properties.                                                             *)

\* create has returned and the rename has not happened.
Publishing(w) == pc[w] \in {"write", "fsync", "rename"}

Progress == [write |-> "empty", fsync |-> "written", rename |-> "synced"]

\* A live writer's temp is its own and is where it left it: no sweep has
\* deleted it (TS17-01, TS18-01) and no other writer has replaced it, at any
\* point between create's return and the publishing rename.
LiveTempKept ==
    \A w \in Writers :
        Publishing(w) =>
            temp[name[w]] = [by |-> w, data |-> Progress[pc[w]]]

\* Two live writers never work on one temp name at the same time, even when
\* they collide on (pid, seq): the second one's create reports WouldBlock.
OneWriterPerTemp ==
    \A v, w \in Writers :
        (v # w /\ Publishing(v) /\ Publishing(w)) => name[v] # name[w]

\* Readers of the target only ever see a file that was completely written and
\* fsynced before it was renamed into place.
TargetComplete == target = NoFile \/ target.data = "synced"

\* The target only changes by a writer publishing the file that writer itself
\* created (rename_into_target), completely written and fsynced: never somebody
\* else's, and never a part of one.
PublishesOwn ==
    [][ target' # target =>
        \E w \in Writers :
            pc[w] = "rename" /\ target' = [by |-> w, data |-> "synced"] ]_vars

\* A companion is unlinked only by its owner or once nobody holds its lock:
\* the lock-file substitution of TS18-01 cannot happen.
NoSubstitution ==
    [][ \A n \in Names :
          (companion[n] # NoInode /\ companion'[n] # companion[n]) =>
              \/ owner[companion[n]] = NoProc
              \/ \E w \in Writers : /\ owner[companion[n]] = w
                                    /\ pc[w] \in {"opentemp", "dropcomp"} ]_vars

-----------------------------------------------------------------------------
(* The inductive invariant behind the properties above.                    *)

\* From try_lock's success to the companion's removal.
Owns(w) == pc[w] \in {"opentemp", "leave", "write", "fsync", "rename",
                      "dirsync", "dropsec", "droptemp", "dropcomp"}

\* The templock is held wherever the code is inside the section; Drop may be
\* outside it only on the degraded path.
InSection ==
    /\ \A w \in Writers :
          /\ pc[w] \in {"opencomp", "trylock", "opentemp", "leave"} => templock = w
          /\ pc[w] \in {"droptemp", "dropcomp"} => Degraded \/ templock = w
    /\ \A c \in Cleaners :
          pc[c] \in {"exists", "opencomp", "trylock", "unlock", "unlinkcomp",
                    "unlinktemp", "release"} => templock = c

\* Every process inside an operation has a name, idle writers have none, and
\* live writers share one only when collisions are allowed.
NamesHeld ==
    /\ \A w \in Writers : (name[w] = NoName) <=> (pc[w] = "idle")
    /\ \A c \in Cleaners : pc[c] \notin {"idle", "scan", "orphans"} => name[c] \in Names
    /\ \A v, w \in Writers :
          (v # w /\ name[v] # NoName /\ name[v] = name[w]) => Collisions

\* A lock belongs to a process that has the inode open, and nothing is open
\* before the companion is opened or after it is closed.
LocksOpen ==
    /\ \A i \in Inodes : owner[i] # NoProc => handle[owner[i]] = i
    /\ \A w \in Writers : pc[w] \in {"idle", "opencomp"} => handle[w] = NoInode
    /\ \A c \in Cleaners :
          /\ pc[c] \notin {"trylock", "unlock"} => handle[c] = NoInode
          /\ pc[c] = "trylock" => \A i \in Inodes : owner[i] # c

\* An owner's companion is still the one it locked, and it is still locked.
OwnersLocked ==
    \A w \in Writers :
        /\ pc[w] = "trylock" =>
              handle[w] \in Inodes /\ companion[name[w]] = handle[w]
        /\ Owns(w) => /\ handle[w] \in Inodes
                     /\ companion[name[w]] = handle[w]
                     /\ owner[handle[w]] = w

\* What a sweep has established about the companion it is looking at; on the
\* degraded path its owner may meanwhile have unlinked it.
SweepsKnow ==
    \A c \in Cleaners :
        LET i == companion[name[c]] IN
        /\ pc[c] = "trylock" =>
              handle[c] \in Inodes /\ i \in {handle[c], NoInode}
        /\ pc[c] = "unlock" =>
              /\ handle[c] \in Inodes /\ i \in {handle[c], NoInode}
              /\ owner[handle[c]] = c
        /\ pc[c] \in {"unlinkcomp", "unlinktemp"} =>
              i = NoInode \/ owner[i] = NoProc

\* A writer's temp is as the writer left it.
TempsKept ==
    \A w \in Writers :
        pc[w] \in {"leave", "write", "fsync", "rename"} =>
            temp[name[w]] = [by |-> w,
                data |-> IF pc[w] = "rename" THEN "synced"
                         ELSE IF pc[w] = "fsync" THEN "written" ELSE "empty"]

\* Ownership of the temps, complete: what makes the sweeps safe in every
\* interleaving of writers, readers and crashes.
Ownership ==
    /\ TypeOK /\ InSection /\ NamesHeld /\ LocksOpen /\ OwnersLocked
    /\ SweepsKnow /\ TempsKept /\ TargetComplete

-----------------------------------------------------------------------------
(* Liveness.                                                               *)

\* The section covers a few system calls and waits for nothing inside: every
\* holder leaves it, on every path out of create, Drop and the sweeps.
SectionEnds == \A p \in Procs : templock = p ~> templock # p

\* Once the writers are quiet, sweeps do not overlap for ever and their system
\* calls succeed where they can, every temp and companion that dead writers or
\* dead sweeps left behind is removed: skipping a busy section (TS19-01) only
\* puts the removal off.  (Two sweeps in lockstep for ever may go on skipping:
\* each finds the section taken by the other's look at the orphans.)
WritersQuiet == \A w \in Writers : pc[w] = "idle"
SweepsApart == \A b, c \in Cleaners : b # c => "idle" \in {pc[b], pc[c]}
SweepsWork ==
    \A c \in Cleaners :
        /\ pc'[c] # pc[c] =>
              /\ pc'[c] = "idle" => pc[c] = "orphans" /\ orphans[c] = {}
              /\ (pc[c] = "section" /\ templock = NoProc) => templock' = c
              /\ (pc[c] = "opencomp" /\ companion[name[c]] # NoInode) => pc'[c] = "trylock"
              /\ (pc[c] = "opencomp" /\ companion[name[c]] = NoInode /\ loop[c] = "scan")
                    => pc'[c] = "unlinktemp"
              /\ (pc[c] = "trylock" /\ LockFree(c)) => pc'[c] = "unlock"
              /\ pc[c] = "unlinktemp" => temp'[name[c]] = NoFile
              /\ pc[c] = "unlinkcomp" => companion'[name[c]] = NoInode
        /\ (pc[c] = "orphans" /\ orphans'[c] # orphans[c] /\ templock = NoProc) => templock' = c
LeftoversSwept ==
    (<>[]WritersQuiet /\ <>[]SweepsApart /\ <>[][SweepsWork]_vars)
        => <>[](\A n \in Names : temp[n] = NoFile /\ companion[n] = NoInode)

=============================================================================
