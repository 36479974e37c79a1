--------------------------- MODULE TempFileProofs ---------------------------
(***************************************************************************)
(* Proofs about TempFile, for any number of writers, readers, temp names   *)
(* and inodes, and any interleaving of their system calls and deaths.      *)
(*                                                                         *)
(* Ownership is the inductive invariant.  The argument: a companion's lock *)
(* is only ever TAKEN inside the templock section (InSection), so a sweep  *)
(* that finds it free there may rely on it staying free until it leaves    *)
(* (SweepsKnow); a writer that took it keeps the companion's name bound to *)
(* the inode it locked (OwnersLocked), because whoever unlinks that name   *)
(* either holds that very lock or has just seen it free; hence nobody but  *)
(* the owner touches the temp (TempsKept).                                 *)
(***************************************************************************)
EXTENDS TempFile, TLAPS

(* The leaves are first-order and go to Zenon; those about numbers, records *)
(* or sequences say SMT.                                                   *)
USE Zenon

\* An empty directory satisfies the inductive invariant.
LEMMA OwnershipInit == Init => Ownership
BY ProcsAssumption, NamesAssumption, SMTT(30)
   DEF Init, Ownership, TypeOK, InSection, NamesHeld, LocksOpen, OwnersLocked,
       SweepsKnow, TempsKept, TargetComplete, Owns, File, WriterPC, CleanerPC,
       Procs

-----------------------------------------------------------------------------
(* Every step preserves every part of Ownership, action by action.         *)

\* NamesHeld is what makes the names in the actions names of files.
LEMMA TypeStep ==
    ASSUME Ownership, [Next]_vars
    PROVE  TypeOK'
<1> USE ProcsAssumption, NamesAssumption DEF Ownership, NamesHeld, TypeOK,
           File, WriterPC, CleanerPC, Entries, Goto, locks, files, sweep,
           Procs
<1>1. ASSUME NEW w \in Writers, CreateEnter(w) PROVE TypeOK'
  BY <1>1, SMT DEF CreateEnter, NameInUse
<1>2. ASSUME NEW w \in Writers, CreateOpenCompanion(w) PROVE TypeOK'
  BY <1>2, SMTT(30) DEF CreateOpenCompanion, Free
<1>3. ASSUME NEW w \in Writers, CreateOpenCompanionFails(w) PROVE TypeOK'
  BY <1>3 DEF CreateOpenCompanionFails, CreateFails, ReleaseOwner
<1>4. ASSUME NEW w \in Writers, CreateTryLock(w) PROVE TypeOK'
  BY <1>4, SMTT(30) DEF CreateTryLock, LockFree, CreateFails, ReleaseOwner
<1>5. ASSUME NEW w \in Writers, CreateOpenTemp(w) PROVE TypeOK'
  BY <1>5 DEF CreateOpenTemp
<1>6. ASSUME NEW w \in Writers, CreateOpenTempFails(w) PROVE TypeOK'
  BY <1>6 DEF CreateOpenTempFails, CreateFails, ReleaseOwner
<1>7. ASSUME NEW w \in Writers, CreateLeave(w) PROVE TypeOK'
  BY <1>7 DEF CreateLeave
<1>8. ASSUME NEW w \in Writers, WriteAll(w) PROVE TypeOK'
  BY <1>8, SMTT(30) DEF WriteAll, Through
<1>9. ASSUME NEW w \in Writers, Fsync(w) PROVE TypeOK'
  BY <1>9, SMTT(30) DEF Fsync, Through
<1>10. ASSUME NEW w \in Writers, Rename(w) PROVE TypeOK'
  BY <1>10, SMTT(30) DEF Rename
<1>11. ASSUME NEW w \in Writers, DirSync(w) PROVE TypeOK'
  BY <1>11, SMT DEF DirSync
<1>12. ASSUME NEW w \in Writers, DropEnter(w) PROVE TypeOK'
  BY <1>12 DEF DropEnter
<1>13. ASSUME NEW w \in Writers, DropTemp(w) PROVE TypeOK'
  BY <1>13 DEF DropTemp
<1>14. ASSUME NEW w \in Writers, DropCompanion(w) PROVE TypeOK'
  BY <1>14 DEF DropCompanion
<1>15. ASSUME NEW w \in Writers, DropLeave(w) PROVE TypeOK'
  BY <1>15 DEF DropLeave
<1>16. ASSUME NEW w \in Writers, DropLock(w) PROVE TypeOK'
  BY <1>16 DEF DropLock, ReleaseOwner
<1>17. ASSUME NEW c \in Cleaners, SweepStart(c) PROVE TypeOK'
  BY <1>17, SMT DEF SweepStart
<1>18. ASSUME NEW c \in Cleaners, ReadEntry(c) PROVE TypeOK'
  BY <1>18, SMTT(30) DEF ReadEntry, Entries
<1>19. ASSUME NEW c \in Cleaners, ScanDone(c) PROVE TypeOK'
  BY <1>19 DEF ScanDone
<1>20. ASSUME NEW c \in Cleaners, RemoveEnter(c) PROVE TypeOK'
  BY <1>20, SMT DEF RemoveEnter
<1>21. ASSUME NEW c \in Cleaners, OrphanEnter(c) PROVE TypeOK'
  <2>1. orphans' \in [Cleaners -> SUBSET Names]
    BY <1>21, SMT DEF OrphanEnter
  <2>2. QED BY <1>21, <2>1, SMT, SMTT(30) DEF OrphanEnter
<1>22. ASSUME NEW c \in Cleaners, OrphanExists(c) PROVE TypeOK'
  BY <1>22, SMT DEF OrphanExists
<1>23. ASSUME NEW c \in Cleaners, OpenCompanion(c) PROVE TypeOK'
  BY <1>23, SMTT(30) DEF OpenCompanion
<1>24. ASSUME NEW c \in Cleaners, TryLock(c) PROVE TypeOK'
  BY <1>24, SMTT(30) DEF TryLock, LockFree
<1>25. ASSUME NEW c \in Cleaners, Unlock(c) PROVE TypeOK'
  BY <1>25 DEF Unlock, ReleaseOwner
<1>26. ASSUME NEW c \in Cleaners, UnlinkCompanion(c) PROVE TypeOK'
  BY <1>26 DEF UnlinkCompanion
<1>27. ASSUME NEW c \in Cleaners, UnlinkTemp(c) PROVE TypeOK'
  BY <1>27 DEF UnlinkTemp
<1>28. ASSUME NEW c \in Cleaners, Leave(c) PROVE TypeOK'
  BY <1>28 DEF Leave
<1>29. ASSUME NEW c \in Cleaners, SweepDone(c) PROVE TypeOK'
  BY <1>29 DEF SweepDone
<1>30. ASSUME NEW p \in Procs, Die(p) PROVE TypeOK'
  BY <1>30, ZenonT(60) DEF Die, ReleaseOwner
<1>31. CASE UNCHANGED vars
  BY <1>31 DEF vars
<1>32. QED BY <1>1, <1>2, <1>3, <1>4, <1>5, <1>6, <1>7, <1>8, <1>9, <1>10, <1>11,
         <1>12, <1>13, <1>14, <1>15, <1>16, <1>17, <1>18, <1>19, <1>20,
         <1>21, <1>22, <1>23, <1>24, <1>25, <1>26, <1>27, <1>28, <1>29,
         <1>30, <1>31, ZenonT(60) DEF Next, Save, Sweep

\* Only the templock's holder moves inside the section.
LEMMA SectionStep ==
    ASSUME Ownership, [Next]_vars
    PROVE  InSection'
<1> USE ProcsAssumption DEF Ownership, TypeOK, InSection, WriterPC,
           CleanerPC, Goto, locks, files, sweep, Procs
<1>1. ASSUME NEW w \in Writers, CreateEnter(w) PROVE InSection'
  BY <1>1 DEF CreateEnter, NameInUse
<1>2. ASSUME NEW w \in Writers, CreateOpenCompanion(w) PROVE InSection'
  BY <1>2 DEF CreateOpenCompanion, Free
<1>3. ASSUME NEW w \in Writers, CreateOpenCompanionFails(w) PROVE InSection'
  BY <1>3 DEF CreateOpenCompanionFails, CreateFails, ReleaseOwner
<1>4. ASSUME NEW w \in Writers, CreateTryLock(w) PROVE InSection'
  BY <1>4, SMTT(30) DEF CreateTryLock, LockFree, CreateFails, ReleaseOwner
<1>5. ASSUME NEW w \in Writers, CreateOpenTemp(w) PROVE InSection'
  BY <1>5 DEF CreateOpenTemp
<1>6. ASSUME NEW w \in Writers, CreateOpenTempFails(w) PROVE InSection'
  BY <1>6 DEF CreateOpenTempFails, CreateFails, ReleaseOwner
<1>7. ASSUME NEW w \in Writers, CreateLeave(w) PROVE InSection'
  BY <1>7 DEF CreateLeave
<1>8. ASSUME NEW w \in Writers, WriteAll(w) PROVE InSection'
  BY <1>8, SMT DEF WriteAll, Through
<1>9. ASSUME NEW w \in Writers, Fsync(w) PROVE InSection'
  BY <1>9, SMT DEF Fsync, Through
<1>10. ASSUME NEW w \in Writers, Rename(w) PROVE InSection'
  BY <1>10, SMT DEF Rename
<1>11. ASSUME NEW w \in Writers, DirSync(w) PROVE InSection'
  BY <1>11 DEF DirSync
<1>12. ASSUME NEW w \in Writers, DropEnter(w) PROVE InSection'
  BY <1>12, SMT DEF DropEnter
<1>13. ASSUME NEW w \in Writers, DropTemp(w) PROVE InSection'
  BY <1>13 DEF DropTemp
<1>14. ASSUME NEW w \in Writers, DropCompanion(w) PROVE InSection'
  BY <1>14 DEF DropCompanion
<1>15. ASSUME NEW w \in Writers, DropLeave(w) PROVE InSection'
  BY <1>15, SMT DEF DropLeave
<1>16. ASSUME NEW w \in Writers, DropLock(w) PROVE InSection'
  BY <1>16 DEF DropLock, ReleaseOwner
<1>17. ASSUME NEW c \in Cleaners, SweepStart(c) PROVE InSection'
  BY <1>17 DEF SweepStart
<1>18. ASSUME NEW c \in Cleaners, ReadEntry(c) PROVE InSection'
  BY <1>18, SMT DEF ReadEntry, Entries
<1>19. ASSUME NEW c \in Cleaners, ScanDone(c) PROVE InSection'
  BY <1>19 DEF ScanDone
<1>20. ASSUME NEW c \in Cleaners, RemoveEnter(c) PROVE InSection'
  BY <1>20, SMT DEF RemoveEnter
<1>21. ASSUME NEW c \in Cleaners, OrphanEnter(c) PROVE InSection'
  BY <1>21, SMT DEF OrphanEnter
<1>22. ASSUME NEW c \in Cleaners, OrphanExists(c) PROVE InSection'
  BY <1>22 DEF OrphanExists
<1>23. ASSUME NEW c \in Cleaners, OpenCompanion(c) PROVE InSection'
  BY <1>23, SMT DEF OpenCompanion
<1>24. ASSUME NEW c \in Cleaners, TryLock(c) PROVE InSection'
  BY <1>24 DEF TryLock, LockFree
<1>25. ASSUME NEW c \in Cleaners, Unlock(c) PROVE InSection'
  BY <1>25 DEF Unlock, ReleaseOwner
<1>26. ASSUME NEW c \in Cleaners, UnlinkCompanion(c) PROVE InSection'
  BY <1>26 DEF UnlinkCompanion
<1>27. ASSUME NEW c \in Cleaners, UnlinkTemp(c) PROVE InSection'
  BY <1>27 DEF UnlinkTemp
<1>28. ASSUME NEW c \in Cleaners, Leave(c) PROVE InSection'
  BY <1>28, ZenonT(60) DEF Leave
<1>29. ASSUME NEW c \in Cleaners, SweepDone(c) PROVE InSection'
  BY <1>29 DEF SweepDone
<1>30. ASSUME NEW p \in Procs, Die(p) PROVE InSection'
  BY <1>30 DEF Die, ReleaseOwner
<1>31. CASE UNCHANGED vars
  BY <1>31 DEF vars
<1>32. QED BY <1>1, <1>2, <1>3, <1>4, <1>5, <1>6, <1>7, <1>8, <1>9, <1>10, <1>11,
         <1>12, <1>13, <1>14, <1>15, <1>16, <1>17, <1>18, <1>19, <1>20,
         <1>21, <1>22, <1>23, <1>24, <1>25, <1>26, <1>27, <1>28, <1>29,
         <1>30, <1>31, ZenonT(60) DEF Next, Save, Sweep

\* create takes a name that is free unless collisions are allowed.
LEMMA NamesStep ==
    ASSUME Ownership, [Next]_vars
    PROVE  NamesHeld'
<1> USE ProcsAssumption, NamesAssumption DEF Ownership, TypeOK, NamesHeld,
           WriterPC, CleanerPC, Goto, locks, files, sweep, Procs
<1>1. ASSUME NEW w \in Writers, CreateEnter(w) PROVE NamesHeld'
  BY <1>1, SMT DEF CreateEnter, NameInUse
<1>2. ASSUME NEW w \in Writers, CreateOpenCompanion(w) PROVE NamesHeld'
  BY <1>2 DEF CreateOpenCompanion, Free
<1>3. ASSUME NEW w \in Writers, CreateOpenCompanionFails(w) PROVE NamesHeld'
  BY <1>3 DEF CreateOpenCompanionFails, CreateFails, ReleaseOwner
<1>4. ASSUME NEW w \in Writers, CreateTryLock(w) PROVE NamesHeld'
  BY <1>4, SMTT(30) DEF CreateTryLock, LockFree, CreateFails, ReleaseOwner
<1>5. ASSUME NEW w \in Writers, CreateOpenTemp(w) PROVE NamesHeld'
  BY <1>5 DEF CreateOpenTemp
<1>6. ASSUME NEW w \in Writers, CreateOpenTempFails(w) PROVE NamesHeld'
  BY <1>6 DEF CreateOpenTempFails, CreateFails, ReleaseOwner
<1>7. ASSUME NEW w \in Writers, CreateLeave(w) PROVE NamesHeld'
  BY <1>7 DEF CreateLeave
<1>8. ASSUME NEW w \in Writers, WriteAll(w) PROVE NamesHeld'
  BY <1>8, ZenonT(60) DEF WriteAll, Through
<1>9. ASSUME NEW w \in Writers, Fsync(w) PROVE NamesHeld'
  BY <1>9, ZenonT(60) DEF Fsync, Through
<1>10. ASSUME NEW w \in Writers, Rename(w) PROVE NamesHeld'
  BY <1>10, SMT DEF Rename
<1>11. ASSUME NEW w \in Writers, DirSync(w) PROVE NamesHeld'
  BY <1>11 DEF DirSync
<1>12. ASSUME NEW w \in Writers, DropEnter(w) PROVE NamesHeld'
  BY <1>12 DEF DropEnter
<1>13. ASSUME NEW w \in Writers, DropTemp(w) PROVE NamesHeld'
  BY <1>13 DEF DropTemp
<1>14. ASSUME NEW w \in Writers, DropCompanion(w) PROVE NamesHeld'
  BY <1>14 DEF DropCompanion
<1>15. ASSUME NEW w \in Writers, DropLeave(w) PROVE NamesHeld'
  BY <1>15 DEF DropLeave
<1>16. ASSUME NEW w \in Writers, DropLock(w) PROVE NamesHeld'
  BY <1>16 DEF DropLock, ReleaseOwner
<1>17. ASSUME NEW c \in Cleaners, SweepStart(c) PROVE NamesHeld'
  BY <1>17, SMT DEF SweepStart
<1>18. ASSUME NEW c \in Cleaners, ReadEntry(c) PROVE NamesHeld'
  BY <1>18, SMTT(30) DEF ReadEntry, Entries
<1>19. ASSUME NEW c \in Cleaners, ScanDone(c) PROVE NamesHeld'
  BY <1>19 DEF ScanDone
<1>20. ASSUME NEW c \in Cleaners, RemoveEnter(c) PROVE NamesHeld'
  BY <1>20, SMT DEF RemoveEnter
<1>21. ASSUME NEW c \in Cleaners, OrphanEnter(c) PROVE NamesHeld'
  BY <1>21, SMTT(30) DEF OrphanEnter
<1>22. ASSUME NEW c \in Cleaners, OrphanExists(c) PROVE NamesHeld'
  BY <1>22, ZenonT(60) DEF OrphanExists
<1>23. ASSUME NEW c \in Cleaners, OpenCompanion(c) PROVE NamesHeld'
  BY <1>23, SMT, SMTT(30) DEF OpenCompanion
<1>24. ASSUME NEW c \in Cleaners, TryLock(c) PROVE NamesHeld'
  BY <1>24, SMT DEF TryLock, LockFree
<1>25. ASSUME NEW c \in Cleaners, Unlock(c) PROVE NamesHeld'
  BY <1>25 DEF Unlock, ReleaseOwner
<1>26. ASSUME NEW c \in Cleaners, UnlinkCompanion(c) PROVE NamesHeld'
  BY <1>26 DEF UnlinkCompanion
<1>27. ASSUME NEW c \in Cleaners, UnlinkTemp(c) PROVE NamesHeld'
  BY <1>27 DEF UnlinkTemp
<1>28. ASSUME NEW c \in Cleaners, Leave(c) PROVE NamesHeld'
  BY <1>28 DEF Leave
<1>29. ASSUME NEW c \in Cleaners, SweepDone(c) PROVE NamesHeld'
  BY <1>29 DEF SweepDone
<1>30. ASSUME NEW p \in Procs, Die(p) PROVE NamesHeld'
  BY <1>30, ZenonT(60) DEF Die, ReleaseOwner
<1>31. CASE UNCHANGED vars
  BY <1>31, ZenonT(60) DEF vars
<1>32. QED BY <1>1, <1>2, <1>3, <1>4, <1>5, <1>6, <1>7, <1>8, <1>9, <1>10, <1>11,
         <1>12, <1>13, <1>14, <1>15, <1>16, <1>17, <1>18, <1>19, <1>20,
         <1>21, <1>22, <1>23, <1>24, <1>25, <1>26, <1>27, <1>28, <1>29,
         <1>30, <1>31, ZenonT(60) DEF Next, Save, Sweep

\* A lock is taken through an open handle and dropped with it.
LEMMA LocksOpenStep ==
    ASSUME Ownership, [Next]_vars
    PROVE  LocksOpen'
<1> USE ProcsAssumption, NamesAssumption DEF Ownership, TypeOK, LocksOpen,
           OwnersLocked, SweepsKnow, NamesHeld, WriterPC, CleanerPC, Owns,
           Goto, locks, files, sweep, Procs
<1>1. ASSUME NEW w \in Writers, CreateEnter(w) PROVE LocksOpen'
  BY <1>1, SMTT(30) DEF CreateEnter, NameInUse
<1>2. ASSUME NEW w \in Writers, CreateOpenCompanion(w) PROVE LocksOpen'
  BY <1>2, SMT, SMTT(30) DEF CreateOpenCompanion, Free
<1>3. ASSUME NEW w \in Writers, CreateOpenCompanionFails(w) PROVE LocksOpen'
  BY <1>3, SMTT(30) DEF CreateOpenCompanionFails, CreateFails, ReleaseOwner
<1>4. ASSUME NEW w \in Writers, CreateTryLock(w) PROVE LocksOpen'
  BY <1>4, SMTT(30) DEF CreateTryLock, LockFree, CreateFails, ReleaseOwner
<1>5. ASSUME NEW w \in Writers, CreateOpenTemp(w) PROVE LocksOpen'
  BY <1>5, SMT DEF CreateOpenTemp
<1>6. ASSUME NEW w \in Writers, CreateOpenTempFails(w) PROVE LocksOpen'
  BY <1>6, SMT DEF CreateOpenTempFails, CreateFails, ReleaseOwner
<1>7. ASSUME NEW w \in Writers, CreateLeave(w) PROVE LocksOpen'
  BY <1>7, SMTT(30) DEF CreateLeave
<1>8. ASSUME NEW w \in Writers, WriteAll(w) PROVE LocksOpen'
  BY <1>8, SMT, SMTT(30) DEF WriteAll, Through
<1>9. ASSUME NEW w \in Writers, Fsync(w) PROVE LocksOpen'
  BY <1>9, SMTT(30) DEF Fsync, Through
<1>10. ASSUME NEW w \in Writers, Rename(w) PROVE LocksOpen'
  BY <1>10, SMT, SMTT(30) DEF Rename
<1>11. ASSUME NEW w \in Writers, DirSync(w) PROVE LocksOpen'
  BY <1>11, SMTT(30) DEF DirSync
<1>12. ASSUME NEW w \in Writers, DropEnter(w) PROVE LocksOpen'
  BY <1>12, SMT, SMTT(30) DEF DropEnter
<1>13. ASSUME NEW w \in Writers, DropTemp(w) PROVE LocksOpen'
  BY <1>13, SMTT(30) DEF DropTemp
<1>14. ASSUME NEW w \in Writers, DropCompanion(w) PROVE LocksOpen'
  BY <1>14, SMT, SMTT(30) DEF DropCompanion
<1>15. ASSUME NEW w \in Writers, DropLeave(w) PROVE LocksOpen'
  BY <1>15, SMTT(30) DEF DropLeave
<1>16. ASSUME NEW w \in Writers, DropLock(w) PROVE LocksOpen'
  BY <1>16, SMTT(30) DEF DropLock, ReleaseOwner
<1>17. ASSUME NEW c \in Cleaners, SweepStart(c) PROVE LocksOpen'
  BY <1>17, SMTT(30) DEF SweepStart
<1>18. ASSUME NEW c \in Cleaners, ReadEntry(c) PROVE LocksOpen'
  BY <1>18, SMTT(30) DEF ReadEntry, Entries
<1>19. ASSUME NEW c \in Cleaners, ScanDone(c) PROVE LocksOpen'
  BY <1>19, SMT DEF ScanDone
<1>20. ASSUME NEW c \in Cleaners, RemoveEnter(c) PROVE LocksOpen'
  BY <1>20, SMTT(30) DEF RemoveEnter
<1>21. ASSUME NEW c \in Cleaners, OrphanEnter(c) PROVE LocksOpen'
  BY <1>21, SMTT(30) DEF OrphanEnter
<1>22. ASSUME NEW c \in Cleaners, OrphanExists(c) PROVE LocksOpen'
  BY <1>22, SMTT(30) DEF OrphanExists
<1>23. ASSUME NEW c \in Cleaners, OpenCompanion(c) PROVE LocksOpen'
  BY <1>23, SMTT(30) DEF OpenCompanion
<1>24. ASSUME NEW c \in Cleaners, TryLock(c) PROVE LocksOpen'
  BY <1>24, SMTT(30) DEF TryLock, LockFree
<1>25. ASSUME NEW c \in Cleaners, Unlock(c) PROVE LocksOpen'
  BY <1>25, SMTT(30) DEF Unlock, ReleaseOwner
<1>26. ASSUME NEW c \in Cleaners, UnlinkCompanion(c) PROVE LocksOpen'
  BY <1>26, SMTT(30) DEF UnlinkCompanion
<1>27. ASSUME NEW c \in Cleaners, UnlinkTemp(c) PROVE LocksOpen'
  BY <1>27, SMTT(30) DEF UnlinkTemp
<1>28. ASSUME NEW c \in Cleaners, Leave(c) PROVE LocksOpen'
  BY <1>28, SMTT(30) DEF Leave
<1>29. ASSUME NEW c \in Cleaners, SweepDone(c) PROVE LocksOpen'
  BY <1>29, SMTT(30) DEF SweepDone
<1>30. ASSUME NEW p \in Procs, Die(p) PROVE LocksOpen'
  BY <1>30, SMT DEF Die, ReleaseOwner
<1>31. CASE UNCHANGED vars
  BY <1>31, ZenonT(60) DEF vars
<1>32. QED BY <1>1, <1>2, <1>3, <1>4, <1>5, <1>6, <1>7, <1>8, <1>9, <1>10, <1>11,
         <1>12, <1>13, <1>14, <1>15, <1>16, <1>17, <1>18, <1>19, <1>20,
         <1>21, <1>22, <1>23, <1>24, <1>25, <1>26, <1>27, <1>28, <1>29,
         <1>30, <1>31, ZenonT(60) DEF Next, Save, Sweep

\* Nobody unlinks or relocks the companion a writer owns; a writer between
\* open and try_lock is protected by the section, or, against a Drop that does
\* without the section, by the uniqueness of names.
LEMMA OwnersStep ==
    ASSUME Ownership, [Next]_vars
    PROVE  OwnersLocked'
<1> USE ProcsAssumption, NamesAssumption, FlagsAssumption DEF Ownership,
           TypeOK, InSection, NamesHeld, LocksOpen, OwnersLocked, SweepsKnow,
           Owns, WriterPC, Goto, locks, files, sweep, Procs
<1>1. ASSUME NEW w \in Writers, CreateEnter(w) PROVE OwnersLocked'
  BY <1>1, SMTT(30) DEF CreateEnter, NameInUse
<1>2. ASSUME NEW w \in Writers, CreateOpenCompanion(w) PROVE OwnersLocked'
  BY <1>2, SMTT(30) DEF CreateOpenCompanion, Free
<1>3. ASSUME NEW w \in Writers, CreateOpenCompanionFails(w) PROVE OwnersLocked'
  BY <1>3, SMTT(30) DEF CreateOpenCompanionFails, CreateFails, ReleaseOwner
<1>4. ASSUME NEW w \in Writers, CreateTryLock(w) PROVE OwnersLocked'
  BY <1>4, SMTT(30) DEF CreateTryLock, LockFree, CreateFails, ReleaseOwner
<1>5. ASSUME NEW w \in Writers, CreateOpenTemp(w) PROVE OwnersLocked'
  BY <1>5, ZenonT(60) DEF CreateOpenTemp
<1>6. ASSUME NEW w \in Writers, CreateOpenTempFails(w) PROVE OwnersLocked'
  BY <1>6, SMT DEF CreateOpenTempFails, CreateFails, ReleaseOwner
<1>7. ASSUME NEW w \in Writers, CreateLeave(w) PROVE OwnersLocked'
  BY <1>7, ZenonT(60) DEF CreateLeave
<1>8. ASSUME NEW w \in Writers, WriteAll(w) PROVE OwnersLocked'
  BY <1>8, SMTT(30) DEF WriteAll, Through
<1>9. ASSUME NEW w \in Writers, Fsync(w) PROVE OwnersLocked'
  BY <1>9, SMTT(30) DEF Fsync, Through
<1>10. ASSUME NEW w \in Writers, Rename(w) PROVE OwnersLocked'
  BY <1>10, SMT DEF Rename
<1>11. ASSUME NEW w \in Writers, DirSync(w) PROVE OwnersLocked'
  BY <1>11, ZenonT(60) DEF DirSync
<1>12. ASSUME NEW w \in Writers, DropEnter(w) PROVE OwnersLocked'
  BY <1>12 DEF DropEnter
<1>13. ASSUME NEW w \in Writers, DropTemp(w) PROVE OwnersLocked'
  BY <1>13, ZenonT(60) DEF DropTemp
<1>14. ASSUME NEW w \in Writers, DropCompanion(w) PROVE OwnersLocked'
  BY <1>14, SMTT(30) DEF DropCompanion
<1>15. ASSUME NEW w \in Writers, DropLeave(w) PROVE OwnersLocked'
  BY <1>15 DEF DropLeave
<1>16. ASSUME NEW w \in Writers, DropLock(w) PROVE OwnersLocked'
  BY <1>16, SMTT(30) DEF DropLock, ReleaseOwner
<1>17. ASSUME NEW c \in Cleaners, SweepStart(c) PROVE OwnersLocked'
  BY <1>17, ZenonT(60) DEF SweepStart
<1>18. ASSUME NEW c \in Cleaners, ReadEntry(c) PROVE OwnersLocked'
  BY <1>18, SMTT(30) DEF ReadEntry, Entries
<1>19. ASSUME NEW c \in Cleaners, ScanDone(c) PROVE OwnersLocked'
  BY <1>19, ZenonT(60) DEF ScanDone
<1>20. ASSUME NEW c \in Cleaners, RemoveEnter(c) PROVE OwnersLocked'
  BY <1>20, SMTT(30) DEF RemoveEnter
<1>21. ASSUME NEW c \in Cleaners, OrphanEnter(c) PROVE OwnersLocked'
  BY <1>21, SMTT(30) DEF OrphanEnter
<1>22. ASSUME NEW c \in Cleaners, OrphanExists(c) PROVE OwnersLocked'
  BY <1>22, SMTT(30) DEF OrphanExists
<1>23. ASSUME NEW c \in Cleaners, OpenCompanion(c) PROVE OwnersLocked'
  BY <1>23, SMTT(30) DEF OpenCompanion
<1>24. ASSUME NEW c \in Cleaners, TryLock(c) PROVE OwnersLocked'
  BY <1>24, SMTT(30) DEF TryLock, LockFree
<1>25. ASSUME NEW c \in Cleaners, Unlock(c) PROVE OwnersLocked'
  BY <1>25, SMTT(30) DEF Unlock, ReleaseOwner
<1>26. ASSUME NEW c \in Cleaners, UnlinkCompanion(c) PROVE OwnersLocked'
  BY <1>26, SMT DEF UnlinkCompanion
<1>27. ASSUME NEW c \in Cleaners, UnlinkTemp(c) PROVE OwnersLocked'
  BY <1>27 DEF UnlinkTemp
<1>28. ASSUME NEW c \in Cleaners, Leave(c) PROVE OwnersLocked'
  BY <1>28, ZenonT(60) DEF Leave
<1>29. ASSUME NEW c \in Cleaners, SweepDone(c) PROVE OwnersLocked'
  BY <1>29, ZenonT(60) DEF SweepDone
<1>30. ASSUME NEW p \in Procs, Die(p) PROVE OwnersLocked'
  BY <1>30, SMTT(30) DEF Die, ReleaseOwner
<1>31. CASE UNCHANGED vars
  BY <1>31, ZenonT(60) DEF vars
<1>32. QED BY <1>1, <1>2, <1>3, <1>4, <1>5, <1>6, <1>7, <1>8, <1>9, <1>10, <1>11,
         <1>12, <1>13, <1>14, <1>15, <1>16, <1>17, <1>18, <1>19, <1>20,
         <1>21, <1>22, <1>23, <1>24, <1>25, <1>26, <1>27, <1>28, <1>29,
         <1>30, <1>31, ZenonT(60) DEF Next, Save, Sweep

\* What a sweep saw of the companion stays true while it has the section.
LEMMA SweepsStep ==
    ASSUME Ownership, [Next]_vars
    PROVE  SweepsKnow'
<1> USE ProcsAssumption, NamesAssumption DEF Ownership, TypeOK, InSection,
           NamesHeld, LocksOpen, OwnersLocked, SweepsKnow, Owns, WriterPC,
           CleanerPC, Goto, locks, files, sweep, Procs
<1>1. ASSUME NEW w \in Writers, CreateEnter(w) PROVE SweepsKnow'
  BY <1>1, SMTT(30) DEF CreateEnter, NameInUse
<1>2. ASSUME NEW w \in Writers, CreateOpenCompanion(w) PROVE SweepsKnow'
  BY <1>2, SMTT(30) DEF CreateOpenCompanion, Free
<1>3. ASSUME NEW w \in Writers, CreateOpenCompanionFails(w) PROVE SweepsKnow'
  BY <1>3, SMTT(30) DEF CreateOpenCompanionFails, CreateFails, ReleaseOwner
<1>4. ASSUME NEW w \in Writers, CreateTryLock(w) PROVE SweepsKnow'
  BY <1>4, SMTT(30) DEF CreateTryLock, LockFree, CreateFails, ReleaseOwner
<1>5. ASSUME NEW w \in Writers, CreateOpenTemp(w) PROVE SweepsKnow'
  BY <1>5, ZenonT(60) DEF CreateOpenTemp
<1>6. ASSUME NEW w \in Writers, CreateOpenTempFails(w) PROVE SweepsKnow'
  BY <1>6, SMT DEF CreateOpenTempFails, CreateFails, ReleaseOwner
<1>7. ASSUME NEW w \in Writers, CreateLeave(w) PROVE SweepsKnow'
  BY <1>7, ZenonT(60) DEF CreateLeave
<1>8. ASSUME NEW w \in Writers, WriteAll(w) PROVE SweepsKnow'
  BY <1>8, SMTT(30) DEF WriteAll, Through
<1>9. ASSUME NEW w \in Writers, Fsync(w) PROVE SweepsKnow'
  BY <1>9, SMTT(30) DEF Fsync, Through
<1>10. ASSUME NEW w \in Writers, Rename(w) PROVE SweepsKnow'
  BY <1>10, SMT DEF Rename
<1>11. ASSUME NEW w \in Writers, DirSync(w) PROVE SweepsKnow'
  BY <1>11 DEF DirSync
<1>12. ASSUME NEW w \in Writers, DropEnter(w) PROVE SweepsKnow'
  BY <1>12, ZenonT(60) DEF DropEnter
<1>13. ASSUME NEW w \in Writers, DropTemp(w) PROVE SweepsKnow'
  BY <1>13, ZenonT(60) DEF DropTemp
<1>14. ASSUME NEW w \in Writers, DropCompanion(w) PROVE SweepsKnow'
  BY <1>14, SMTT(30) DEF DropCompanion
<1>15. ASSUME NEW w \in Writers, DropLeave(w) PROVE SweepsKnow'
  BY <1>15, ZenonT(60) DEF DropLeave
<1>16. ASSUME NEW w \in Writers, DropLock(w) PROVE SweepsKnow'
  BY <1>16, SMTT(30) DEF DropLock, ReleaseOwner
<1>17. ASSUME NEW c \in Cleaners, SweepStart(c) PROVE SweepsKnow'
  BY <1>17, ZenonT(60) DEF SweepStart
<1>18. ASSUME NEW c \in Cleaners, ReadEntry(c) PROVE SweepsKnow'
  BY <1>18, SMTT(30) DEF ReadEntry, Entries
<1>19. ASSUME NEW c \in Cleaners, ScanDone(c) PROVE SweepsKnow'
  BY <1>19, ZenonT(60) DEF ScanDone
<1>20. ASSUME NEW c \in Cleaners, RemoveEnter(c) PROVE SweepsKnow'
  BY <1>20, SMTT(30) DEF RemoveEnter
<1>21. ASSUME NEW c \in Cleaners, OrphanEnter(c) PROVE SweepsKnow'
  BY <1>21, SMTT(30) DEF OrphanEnter
<1>22. ASSUME NEW c \in Cleaners, OrphanExists(c) PROVE SweepsKnow'
  BY <1>22, SMTT(30) DEF OrphanExists
<1>23. ASSUME NEW c \in Cleaners, OpenCompanion(c) PROVE SweepsKnow'
  BY <1>23, SMTT(30) DEF OpenCompanion
<1>24. ASSUME NEW c \in Cleaners, TryLock(c) PROVE SweepsKnow'
  BY <1>24, SMTT(30) DEF TryLock, LockFree
<1>25. ASSUME NEW c \in Cleaners, Unlock(c) PROVE SweepsKnow'
  BY <1>25, SMTT(30) DEF Unlock, ReleaseOwner
<1>26. ASSUME NEW c \in Cleaners, UnlinkCompanion(c) PROVE SweepsKnow'
  BY <1>26, SMTT(30) DEF UnlinkCompanion
<1>27. ASSUME NEW c \in Cleaners, UnlinkTemp(c) PROVE SweepsKnow'
  BY <1>27, ZenonT(60) DEF UnlinkTemp
<1>28. ASSUME NEW c \in Cleaners, Leave(c) PROVE SweepsKnow'
  BY <1>28, SMTT(30) DEF Leave
<1>29. ASSUME NEW c \in Cleaners, SweepDone(c) PROVE SweepsKnow'
  BY <1>29, ZenonT(60) DEF SweepDone
<1>30. ASSUME NEW p \in Procs, Die(p) PROVE SweepsKnow'
  BY <1>30, SMTT(30) DEF Die, ReleaseOwner
<1>31. CASE UNCHANGED vars
  BY <1>31, ZenonT(60) DEF vars
<1>32. QED BY <1>1, <1>2, <1>3, <1>4, <1>5, <1>6, <1>7, <1>8, <1>9, <1>10, <1>11,
         <1>12, <1>13, <1>14, <1>15, <1>16, <1>17, <1>18, <1>19, <1>20,
         <1>21, <1>22, <1>23, <1>24, <1>25, <1>26, <1>27, <1>28, <1>29,
         <1>30, <1>31, ZenonT(60) DEF Next, Save, Sweep

\* Whoever writes, renames or unlinks a temp owns it, or knows it ownerless.
LEMMA TempsStep ==
    ASSUME Ownership, [Next]_vars
    PROVE  TempsKept'
<1> USE ProcsAssumption, NamesAssumption DEF Ownership, TypeOK, NamesHeld,
           OwnersLocked, SweepsKnow, TempsKept, Owns, WriterPC, Goto, locks,
           files, sweep, Procs
<1>1. ASSUME NEW w \in Writers, CreateEnter(w) PROVE TempsKept'
  BY <1>1, SMTT(30) DEF CreateEnter, NameInUse
<1>2. ASSUME NEW w \in Writers, CreateOpenCompanion(w) PROVE TempsKept'
  BY <1>2, SMTT(30) DEF CreateOpenCompanion, Free
<1>3. ASSUME NEW w \in Writers, CreateOpenCompanionFails(w) PROVE TempsKept'
  BY <1>3, SMTT(30) DEF CreateOpenCompanionFails, CreateFails, ReleaseOwner
<1>4. ASSUME NEW w \in Writers, CreateTryLock(w) PROVE TempsKept'
  BY <1>4, SMTT(30) DEF CreateTryLock, LockFree, CreateFails, ReleaseOwner
<1>5. ASSUME NEW w \in Writers, CreateOpenTemp(w) PROVE TempsKept'
  BY <1>5, SMTT(30) DEF CreateOpenTemp
<1>6. ASSUME NEW w \in Writers, CreateOpenTempFails(w) PROVE TempsKept'
  BY <1>6, SMTT(30) DEF CreateOpenTempFails, CreateFails, ReleaseOwner
<1>7. ASSUME NEW w \in Writers, CreateLeave(w) PROVE TempsKept'
  BY <1>7, SMTT(30) DEF CreateLeave
<1>8. ASSUME NEW w \in Writers, WriteAll(w) PROVE TempsKept'
  <2>1. temp[name[w]] = [by |-> w, data |-> "empty"]
    BY <1>8, ZenonT(60) DEF WriteAll
  <2>2. temp[name[w]].by = w
    BY <2>1, SMTT(30)
  <2>3. temp[name[w]] # NoFile
    BY <2>1, SMT DEF File
  <2>4. Through(w, "written") = [temp EXCEPT ![name[w]] = [by |-> w, data |-> "written"]]
    BY <2>2, <2>3, ZenonT(60) DEF Through
  <2>5. QED BY <1>8, <2>4, SMTT(30) DEF WriteAll
<1>9. ASSUME NEW w \in Writers, Fsync(w) PROVE TempsKept'
  <2>1. temp[name[w]] = [by |-> w, data |-> "written"]
    BY <1>9, ZenonT(60) DEF Fsync
  <2>2. temp[name[w]].by = w
    BY <2>1, SMT, SMTT(30)
  <2>3. temp[name[w]] # NoFile
    BY <2>1, SMTT(30) DEF File
  <2>4. Through(w, "synced") = [temp EXCEPT ![name[w]] = [by |-> w, data |-> "synced"]]
    BY <2>2, <2>3, ZenonT(60) DEF Through
  <2>5. QED BY <1>9, <2>4, SMT DEF Fsync
<1>10. ASSUME NEW w \in Writers, Rename(w) PROVE TempsKept'
  BY <1>10, SMTT(30) DEF Rename
<1>11. ASSUME NEW w \in Writers, DirSync(w) PROVE TempsKept'
  BY <1>11, SMTT(30) DEF DirSync
<1>12. ASSUME NEW w \in Writers, DropEnter(w) PROVE TempsKept'
  BY <1>12, SMTT(30) DEF DropEnter
<1>13. ASSUME NEW w \in Writers, DropTemp(w) PROVE TempsKept'
  BY <1>13, SMTT(30) DEF DropTemp
<1>14. ASSUME NEW w \in Writers, DropCompanion(w) PROVE TempsKept'
  BY <1>14, SMTT(30) DEF DropCompanion
<1>15. ASSUME NEW w \in Writers, DropLeave(w) PROVE TempsKept'
  BY <1>15, SMTT(30) DEF DropLeave
<1>16. ASSUME NEW w \in Writers, DropLock(w) PROVE TempsKept'
  BY <1>16, SMTT(30) DEF DropLock, ReleaseOwner
<1>17. ASSUME NEW c \in Cleaners, SweepStart(c) PROVE TempsKept'
  BY <1>17, ZenonT(60) DEF SweepStart
<1>18. ASSUME NEW c \in Cleaners, ReadEntry(c) PROVE TempsKept'
  BY <1>18, SMTT(30) DEF ReadEntry, Entries
<1>19. ASSUME NEW c \in Cleaners, ScanDone(c) PROVE TempsKept'
  BY <1>19, SMTT(30) DEF ScanDone
<1>20. ASSUME NEW c \in Cleaners, RemoveEnter(c) PROVE TempsKept'
  BY <1>20, SMTT(30) DEF RemoveEnter
<1>21. ASSUME NEW c \in Cleaners, OrphanEnter(c) PROVE TempsKept'
  BY <1>21, SMTT(30) DEF OrphanEnter
<1>22. ASSUME NEW c \in Cleaners, OrphanExists(c) PROVE TempsKept'
  BY <1>22, SMTT(30) DEF OrphanExists
<1>23. ASSUME NEW c \in Cleaners, OpenCompanion(c) PROVE TempsKept'
  BY <1>23, SMTT(30) DEF OpenCompanion
<1>24. ASSUME NEW c \in Cleaners, TryLock(c) PROVE TempsKept'
  BY <1>24, SMTT(30) DEF TryLock, LockFree
<1>25. ASSUME NEW c \in Cleaners, Unlock(c) PROVE TempsKept'
  BY <1>25, SMTT(30) DEF Unlock, ReleaseOwner
<1>26. ASSUME NEW c \in Cleaners, UnlinkCompanion(c) PROVE TempsKept'
  BY <1>26, SMTT(30) DEF UnlinkCompanion
<1>27. ASSUME NEW c \in Cleaners, UnlinkTemp(c) PROVE TempsKept'
  BY <1>27, SMTT(30) DEF UnlinkTemp
<1>28. ASSUME NEW c \in Cleaners, Leave(c) PROVE TempsKept'
  BY <1>28, SMTT(30) DEF Leave
<1>29. ASSUME NEW c \in Cleaners, SweepDone(c) PROVE TempsKept'
  BY <1>29, SMT DEF SweepDone
<1>30. ASSUME NEW p \in Procs, Die(p) PROVE TempsKept'
  BY <1>30, ZenonT(60) DEF Die, ReleaseOwner
<1>31. CASE UNCHANGED vars
  BY <1>31 DEF vars
<1>32. QED BY <1>1, <1>2, <1>3, <1>4, <1>5, <1>6, <1>7, <1>8, <1>9, <1>10, <1>11,
         <1>12, <1>13, <1>14, <1>15, <1>16, <1>17, <1>18, <1>19, <1>20,
         <1>21, <1>22, <1>23, <1>24, <1>25, <1>26, <1>27, <1>28, <1>29,
         <1>30, <1>31, ZenonT(60) DEF Next, Save, Sweep

\* What fsync has written is whole.
LEMMA SyncedData ==
    ASSUME NEW w
    PROVE  [by |-> w, data |-> "synced"].data = "synced"
BY SMT

\* Only Rename changes the target, and it finds the writer's fsynced temp.
LEMMA TargetStep ==
    ASSUME Ownership, [Next]_vars
    PROVE  TargetComplete'
<1> USE NamesAssumption DEF Ownership, TargetComplete, Goto,
           locks, files, sweep, Procs
<1>1. ASSUME NEW w \in Writers, CreateEnter(w) PROVE TargetComplete'
  BY <1>1 DEF CreateEnter, NameInUse
<1>2. ASSUME NEW w \in Writers, CreateOpenCompanion(w) PROVE TargetComplete'
  BY <1>2 DEF CreateOpenCompanion, Free
<1>3. ASSUME NEW w \in Writers, CreateOpenCompanionFails(w) PROVE TargetComplete'
  BY <1>3, ZenonT(60) DEF CreateOpenCompanionFails, CreateFails, ReleaseOwner
<1>4. ASSUME NEW w \in Writers, CreateTryLock(w) PROVE TargetComplete'
  BY <1>4 DEF CreateTryLock
<1>5. ASSUME NEW w \in Writers, CreateOpenTemp(w) PROVE TargetComplete'
  BY <1>5 DEF CreateOpenTemp
<1>6. ASSUME NEW w \in Writers, CreateOpenTempFails(w) PROVE TargetComplete'
  BY <1>6 DEF CreateOpenTempFails, CreateFails, ReleaseOwner
<1>7. ASSUME NEW w \in Writers, CreateLeave(w) PROVE TargetComplete'
  BY <1>7 DEF CreateLeave
<1>8. ASSUME NEW w \in Writers, WriteAll(w) PROVE TargetComplete'
  BY <1>8 DEF WriteAll, Through
<1>9. ASSUME NEW w \in Writers, Fsync(w) PROVE TargetComplete'
  BY <1>9 DEF Fsync, Through
<1>10. ASSUME NEW w \in Writers, Rename(w) PROVE TargetComplete'
  <2>1. temp[name[w]] = [by |-> w, data |-> "synced"]
    BY <1>10, ZenonT(60) DEF Rename, TempsKept
  <2>2. temp[name[w]].data = "synced"
    BY <2>1, SyncedData
  <2>3. QED BY <1>10, <2>2, ZenonT(60) DEF Rename
<1>11. ASSUME NEW w \in Writers, DirSync(w) PROVE TargetComplete'
  BY <1>11 DEF DirSync
<1>12. ASSUME NEW w \in Writers, DropEnter(w) PROVE TargetComplete'
  BY <1>12 DEF DropEnter
<1>13. ASSUME NEW w \in Writers, DropTemp(w) PROVE TargetComplete'
  BY <1>13 DEF DropTemp
<1>14. ASSUME NEW w \in Writers, DropCompanion(w) PROVE TargetComplete'
  BY <1>14 DEF DropCompanion
<1>15. ASSUME NEW w \in Writers, DropLeave(w) PROVE TargetComplete'
  BY <1>15 DEF DropLeave
<1>16. ASSUME NEW w \in Writers, DropLock(w) PROVE TargetComplete'
  BY <1>16 DEF DropLock, ReleaseOwner
<1>17. ASSUME NEW c \in Cleaners, SweepStart(c) PROVE TargetComplete'
  BY <1>17 DEF SweepStart
<1>18. ASSUME NEW c \in Cleaners, ReadEntry(c) PROVE TargetComplete'
  BY <1>18 DEF ReadEntry, Entries
<1>19. ASSUME NEW c \in Cleaners, ScanDone(c) PROVE TargetComplete'
  BY <1>19 DEF ScanDone
<1>20. ASSUME NEW c \in Cleaners, RemoveEnter(c) PROVE TargetComplete'
  BY <1>20 DEF RemoveEnter
<1>21. ASSUME NEW c \in Cleaners, OrphanEnter(c) PROVE TargetComplete'
  BY <1>21 DEF OrphanEnter
<1>22. ASSUME NEW c \in Cleaners, OrphanExists(c) PROVE TargetComplete'
  BY <1>22 DEF OrphanExists
<1>23. ASSUME NEW c \in Cleaners, OpenCompanion(c) PROVE TargetComplete'
  BY <1>23 DEF OpenCompanion
<1>24. ASSUME NEW c \in Cleaners, TryLock(c) PROVE TargetComplete'
  BY <1>24 DEF TryLock, LockFree
<1>25. ASSUME NEW c \in Cleaners, Unlock(c) PROVE TargetComplete'
  BY <1>25 DEF Unlock, ReleaseOwner
<1>26. ASSUME NEW c \in Cleaners, UnlinkCompanion(c) PROVE TargetComplete'
  BY <1>26 DEF UnlinkCompanion
<1>27. ASSUME NEW c \in Cleaners, UnlinkTemp(c) PROVE TargetComplete'
  BY <1>27 DEF UnlinkTemp
<1>28. ASSUME NEW c \in Cleaners, Leave(c) PROVE TargetComplete'
  BY <1>28 DEF Leave
<1>29. ASSUME NEW c \in Cleaners, SweepDone(c) PROVE TargetComplete'
  BY <1>29 DEF SweepDone
<1>30. ASSUME NEW p \in Procs, Die(p) PROVE TargetComplete'
  BY <1>30 DEF Die, ReleaseOwner
<1>31. CASE UNCHANGED vars
  BY <1>31 DEF vars
<1>32. QED BY <1>1, <1>2, <1>3, <1>4, <1>5, <1>6, <1>7, <1>8, <1>9, <1>10, <1>11,
         <1>12, <1>13, <1>14, <1>15, <1>16, <1>17, <1>18, <1>19, <1>20,
         <1>21, <1>22, <1>23, <1>24, <1>25, <1>26, <1>27, <1>28, <1>29,
         <1>30, <1>31 DEF Next, Save, Sweep

\* Every step of a writer or a cleaner keeps the invariant.
LEMMA OwnershipStep ==
    ASSUME Ownership, [Next]_vars
    PROVE  Ownership'
BY TypeStep, SectionStep, NamesStep, LocksOpenStep, OwnersStep, SweepsStep,
   TempsStep, TargetStep DEF Ownership

-----------------------------------------------------------------------------
(* The results.                                                            *)

\* Ownership of temp files is an invariant of every execution of
\* TempFileGuard and cleanup_temp_files.
THEOREM OwnershipHolds == Spec => []Ownership
<1>1. Init => Ownership
  BY OwnershipInit
<1>2. Ownership /\ [Next]_vars => Ownership'
  BY OwnershipStep
<1>3. QED BY <1>1, <1>2, PTL DEF Spec

\* Every variable keeps its type.
THEOREM TypeCorrect == Spec => []TypeOK
<1>1. Ownership => TypeOK
  BY ZenonT(60) DEF Ownership
<1>2. QED BY <1>1, OwnershipHolds, PTL

\* No sweep, and no other writer, ever touches the temp of a writer that is
\* between create's return and its rename.
THEOREM LiveTempSafe == Spec => []LiveTempKept
<1>1. Ownership => LiveTempKept
  BY SMT, SMTT(30) DEF Ownership, TempsKept, LiveTempKept, Publishing, Progress
<1>2. QED BY <1>1, OwnershipHolds, PTL

\* Two live writers never share a temp, whatever names they pick.
THEOREM Exclusive == Spec => []OneWriterPerTemp
<1>1. Ownership => OneWriterPerTemp
  BY SMT DEF Ownership, OwnersLocked, OneWriterPerTemp, Publishing, Owns
<1>2. QED BY <1>1, OwnershipHolds, PTL

\* A reader of the target never sees a file that is not complete on disk.
THEOREM CompleteTarget == Spec => []TargetComplete
<1>1. Ownership => TargetComplete
  BY DEF Ownership
<1>2. QED BY <1>1, OwnershipHolds, PTL

\* A rename publishes the renaming writer's own file, complete and fsynced.
THEOREM OwnPublication == Spec => PublishesOwn
<1> DEFINE Own == target' # target =>
                    \E w \in Writers :
                      pc[w] = "rename" /\ target' = [by |-> w, data |-> "synced"]
<1>1. Ownership /\ [Next]_vars => [Own]_vars
  <2> SUFFICES ASSUME Ownership, Next, target' # target
               PROVE  \E w \in Writers :
                        pc[w] = "rename" /\ target' = [by |-> w, data |-> "synced"]
    BY ZenonT(60)
  <2>1. PICK w \in Writers : Rename(w)
    BY ZenonT(60) DEF Next, Save, Sweep, CreateEnter, CreateOpenCompanion,
           CreateOpenCompanionFails, CreateTryLock, CreateOpenTemp,
           CreateOpenTempFails, CreateLeave, WriteAll, Fsync, DirSync,
           DropEnter, DropTemp, DropCompanion, DropLeave, DropLock,
           SweepStart, ReadEntry, ScanDone, RemoveEnter, OrphanEnter,
           OrphanExists, OpenCompanion, TryLock, Unlock, UnlinkCompanion,
           UnlinkTemp, Leave, SweepDone, Die, files
  <2>2. temp[name[w]] = [by |-> w, data |-> "synced"]
    BY <2>1 DEF Rename, Ownership, TempsKept
  <2>3. pc[w] = "rename" /\ target' = temp[name[w]]
    BY <2>1 DEF Rename, files
  <2>4. target' = [by |-> w, data |-> "synced"]
    BY <2>2, <2>3
  <2>5. QED BY <2>3, <2>4, ZenonT(60)
<1>2. QED BY <1>1, OwnershipHolds, PTL DEF Spec, PublishesOwn

\* A companion's name never leaves an inode that somebody else has locked.
THEOREM NoLockSubstitution == Spec => NoSubstitution
<1> DEFINE Kept == \A n \in Names :
          (companion[n] # NoInode /\ companion'[n] # companion[n]) =>
              \/ owner[companion[n]] = NoProc
              \/ \E w \in Writers : /\ owner[companion[n]] = w
                                    /\ pc[w] \in {"opentemp", "dropcomp"}
<1>1. Ownership /\ [Next]_vars => [Kept]_vars
  <2> SUFFICES ASSUME Ownership, Next,
                      NEW n \in Names, companion[n] # NoInode,
                      companion'[n] # companion[n]
               PROVE  \/ owner[companion[n]] = NoProc
                      \/ \E w \in Writers :
                            /\ owner[companion[n]] = w
                            /\ pc[w] \in {"opentemp", "dropcomp"}
    BY DEF vars
  <2>1. \/ \E w \in Writers : \/ CreateOpenCompanion(w)
                              \/ CreateOpenTempFails(w)
                              \/ DropCompanion(w)
        \/ \E c \in Cleaners : UnlinkCompanion(c)
    BY ZenonT(60) DEF Next, Save, Sweep, CreateEnter, CreateOpenCompanionFails,
           CreateTryLock, CreateOpenTemp, CreateLeave, WriteAll, Fsync,
           Rename, DirSync, DropEnter, DropTemp, DropLeave, DropLock,
           SweepStart, ReadEntry, ScanDone, RemoveEnter, OrphanEnter,
           OrphanExists, OpenCompanion, TryLock, Unlock, UnlinkTemp, Leave,
           SweepDone, Die, locks
  <2>2. ASSUME NEW w \in Writers, CreateOpenCompanion(w) PROVE FALSE
    BY <2>2 DEF CreateOpenCompanion, Ownership, TypeOK
  <2>3. ASSUME NEW w \in Writers, CreateOpenTempFails(w) \/ DropCompanion(w)
        PROVE  owner[companion[n]] = w /\ pc[w] \in {"opentemp", "dropcomp"}
    BY <2>3, SMTT(30) DEF CreateOpenTempFails, DropCompanion, Ownership, TypeOK,
                OwnersLocked, Owns
  <2>4. ASSUME NEW c \in Cleaners, UnlinkCompanion(c)
        PROVE  owner[companion[n]] = NoProc
    BY <2>4, SMT DEF UnlinkCompanion, Ownership, TypeOK, SweepsKnow
  <2>5. QED BY <2>1, <2>2, <2>3, <2>4
<1>2. QED BY <1>1, OwnershipHolds, PTL DEF Spec, NoSubstitution

=============================================================================
