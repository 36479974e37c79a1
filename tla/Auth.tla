-------------------------------- MODULE Auth --------------------------------
(***************************************************************************)
(* Password logins and the users registry: AuthState                       *)
(* (packages/auth/src/state.rs), the registry file                         *)
(* (packages/auth/src/users_config.rs) and the `users` commands that edit  *)
(* it from other processes (apps/socks5-proxy/src/commands/users_cli).     *)
(*                                                                         *)
(* A registry maps account names to users.  Argon2id salts every hash, so  *)
(* a hash is identified by the login or the command that computed it and   *)
(* Secret gives the password inside; HMACs of the cache are as good as the *)
(* passwords they cover.  Saves are atomic (module TempFile) but may       *)
(* report an error after their rename.                                     *)
(***************************************************************************)
EXTENDS Naturals, FiniteSets, Functions

CONSTANTS
    Names,          \* account names
    StartHashes,    \* what the registry may start with: hashes of accounts
    Passwords,      \* non-empty passwords
    CmdPasswords,   \* the ones typed at the prompts of the commands
    Empty,          \* the empty password
    Attrs,          \* settings a login does not read: .onion access, an
                    \* "endpoint" for the SOCKS5 hops
    Logins,         \* calls of AuthState::verify
    Cmds,           \* `users` command processes
    MaxRestarts,    \* bound on restarts of the server
    Init_,          \* INIT_SENTINEL
    Seed,           \* the hash of accounts provisioned before the run
    SeedPassword,   \* and its password
    Nobody

ASSUME NamesAssumption == Names # {}
ASSUME ActorsAssumption ==
    /\ Logins \intersect Cmds = {}
    /\ {Init_, Seed, Nobody} \intersect (Logins \union Cmds) = {}
    /\ Init_ # Seed
ASSUME PasswordsAssumption ==
    Empty \notin Passwords /\ SeedPassword \in Passwords /\ CmdPasswords \subseteq Passwords
ASSUME StartAssumption ==
    StartHashes \subseteq UNION {[S -> {Init_, Seed}] : S \in SUBSET Names}
ASSUME RestartsAssumption == MaxRestarts \in Nat

VARIABLES
    disk,       \* the users file
    users,      \* AuthState.users, the registry in memory
    anonymous,  \* the server found an empty registry and runs without AuthState
    cache,      \* AuthState.cache
    file_lock,  \* holder of the registry's PathLock
    guard,      \* holder of the write half of the RwLock around users
    login,      \* per login: pc, name, password and the hash it is decided on
    current,    \* per login: the registry resolve_init works on
    cmd,        \* per command: pc, op, name, password and attributes
    snap,       \* per command: the registry it is about to save
    published,  \* logins and commands whose save renamed its file (history)
    restarts    \* restarts so far

memory == <<users, anonymous, cache>>
locks == <<file_lock, guard>>
logins == <<login, current>>
cmds == <<cmd, snap>>
vars == <<disk, memory, locks, logins, cmds, published, restarts>>

Actors == Logins \union Cmds
Hashes == Actors \union {Init_, Seed}
User == [hash : Hashes, is_enabled : BOOLEAN, attrs : SUBSET Attrs]
Registries == UNION {[S -> User] : S \in SUBSET Names}
Entry == [hash_snapshot : Hashes, hmac : Passwords]
Ops == {"add", "add_init", "remove", "set_password", "enable", "disable",
        "grant", "revoke"}

Secret(h) == IF h \in Logins THEN login[h].password
             ELSE IF h \in Cmds THEN cmd[h].password ELSE SeedPassword
Verifies(h, p) == h # Init_ /\ Secret(h) = p
Put(reg, n, u) == [m \in DOMAIN reg \union {n} |-> IF m = n THEN u ELSE reg[m]]

\* The shape of the registry file, of AuthState and of the logins and commands
\* at work on them.
TypeOK ==
    /\ disk \in Registries /\ users \in Registries
    /\ anonymous \in BOOLEAN
    /\ cache \in UNION {[S -> Entry] : S \in SUBSET Names}
    /\ file_lock \in Actors \union {Nobody} /\ guard \in Logins \union {Nobody}
    /\ login \in [Logins ->
         [pc : {"new", "lookup", "argon", "acquire", "write", "reload",
                "save", "commit", "insert", "accepted", "refused", "unsaved",
                "gone"},
          name : Names, password : Passwords \union {Empty}, hash : Hashes]]
    /\ current \in [Logins -> Registries]
    /\ cmd \in [Cmds -> [pc : {"new", "lock", "load", "save", "end"}, op : Ops,
                         name : Names, password : Passwords,
                         attrs : SUBSET Attrs]]
    /\ snap \in [Cmds -> Registries]
    /\ published \in SUBSET Actors
    /\ restarts \in 0..MaxRestarts

\* The registry as the commands leave it before the run: provisioned and init
\* accounts, enabled.  The server has just read it.
Init ==
    /\ \E h \in StartHashes :
         disk = [n \in DOMAIN h |-> [hash |-> h[n], is_enabled |-> TRUE, attrs |-> {}]]
    /\ users = disk /\ anonymous = (disk = <<>>)
    /\ cache = <<>>
    /\ file_lock = Nobody /\ guard = Nobody
    /\ login = [t \in Logins |-> [pc |-> "new", name |-> CHOOSE n \in Names : TRUE,
                                  password |-> Empty, hash |-> Init_]]
    /\ current = [t \in Logins |-> <<>>]
    /\ cmd = [c \in Cmds |-> [pc |-> "new", op |-> "add",
                              name |-> CHOOSE n \in Names : TRUE,
                              password |-> SeedPassword, attrs |-> {}]]
    /\ snap = [c \in Cmds |-> <<>>]
    /\ published = {}
    /\ restarts = 0

-----------------------------------------------------------------------------
(* A login: AuthState::verify.                                             *)

At(t, pc) == login[t].pc = pc
Name(t) == login[t].name
Goto(t, pc) == login' = [login EXCEPT ![t].pc = pc]

\* find and the is_enabled check.
Enabled(n, reg) == n \in DOMAIN reg /\ reg[n].is_enabled

\* verify: the decision under the read lock, which waits for a writer.  On an
\* init account resolve_init refuses an empty password or one it cannot hash.
Verify(t) ==
    /\ At(t, "new") /\ ~anonymous /\ guard = Nobody
    /\ \E n \in Names, p \in Passwords \union {Empty} :
         \/ /\ Enabled(n, users) => users[n].hash = Init_
            /\ Goto(t, "refused")
         \/ /\ Enabled(n, users)
            /\ users[n].hash = Init_ => p # Empty
            /\ login' = [login EXCEPT ![t] =
                 [pc |-> IF users[n].hash = Init_ THEN "acquire" ELSE "lookup",
                  name |-> n, password |-> p, hash |-> users[n].hash]]
    /\ UNCHANGED <<disk, memory, locks, current, cmds, published, restarts>>

CacheHitAnyHash(t) ==
    Name(t) \in DOMAIN cache /\ cache[Name(t)].hmac = login[t].password

CacheHit(t) ==
    /\ Name(t) \in DOMAIN cache
    /\ cache[Name(t)] = [hash_snapshot |-> login[t].hash, hmac |-> login[t].password]

\* verify_with_cache: the HMAC lookup ...
Lookup(t) ==
    /\ At(t, "lookup")
    /\ Goto(t, IF CacheHit(t) THEN "accepted" ELSE "argon")
    /\ UNCHANGED <<disk, memory, locks, current, cmds, published, restarts>>

CacheInsert(t, h) ==
    cache' = Put(cache, Name(t), [hash_snapshot |-> h, hmac |-> login[t].password])

ArgonRebinds(t) ==
    /\ At(t, "argon")
    /\ \/ /\ Verifies(login[t].hash, login[t].password)
          /\ CacheInsert(t, IF Name(t) \in DOMAIN users THEN users[Name(t)].hash
                            ELSE login[t].hash)
          /\ Goto(t, "accepted")
       \/ /\ ~Verifies(login[t].hash, login[t].password)
          /\ Goto(t, "refused") /\ UNCHANGED cache
    /\ UNCHANGED <<disk, users, anonymous, locks, current, cmds, published, restarts>>

\* ... and the Argon2id verify, whose success fills the cache.
Argon(t) ==
    /\ At(t, "argon")
    /\ \/ /\ Verifies(login[t].hash, login[t].password)
          /\ CacheInsert(t, login[t].hash)
          /\ Goto(t, "accepted")
       \/ /\ ~Verifies(login[t].hash, login[t].password)
          /\ Goto(t, "refused") /\ UNCHANGED cache
    /\ UNCHANGED <<disk, users, anonymous, locks, current, cmds, published, restarts>>

-----------------------------------------------------------------------------
(* resolve_init: trust on first use.                                       *)

AcquireSkipped(t) ==
    /\ At(t, "acquire") /\ Goto(t, "write")
    /\ UNCHANGED <<disk, memory, locks, current, cmds, published, restarts>>

\* PathLock::acquire blocks ...
Acquire(t) ==
    /\ At(t, "acquire") /\ file_lock = Nobody
    /\ file_lock' = t /\ Goto(t, "write")
    /\ UNCHANGED <<disk, memory, guard, current, cmds, published, restarts>>

\* ... and may fail to open or to lock its file.
AcquireFails(t) ==
    /\ At(t, "acquire") /\ Goto(t, "refused")
    /\ UNCHANGED <<disk, memory, locks, current, cmds, published, restarts>>

Write(t) ==
    /\ At(t, "write") /\ guard = Nobody
    /\ guard' = t /\ Goto(t, "reload")
    /\ UNCHANGED <<disk, memory, file_lock, current, cmds, published, restarts>>

Release(t) == guard' = Nobody /\ file_lock' = IF file_lock = t THEN Nobody ELSE file_lock

ReloadIgnoresRace(t) ==
    /\ At(t, "reload")
    /\ \/ /\ Release(t) /\ Goto(t, "refused") /\ UNCHANGED <<users, current>>
       \/ /\ Enabled(Name(t), disk)
          /\ current' = [current EXCEPT ![t] =
                           Put(disk, Name(t), [disk[Name(t)] EXCEPT !.hash = t])]
          /\ Goto(t, "save") /\ UNCHANGED <<locks, users>>
    /\ UNCHANGED <<disk, anonymous, cache, cmds, published, restarts>>

ReloadKeepsLock(t) ==
    /\ At(t, "reload")
    /\ \/ /\ Release(t) /\ Goto(t, "refused") /\ UNCHANGED <<users, current>>
       \/ /\ Enabled(Name(t), disk)
          /\ disk[Name(t)].hash # Init_
          /\ users' = disk /\ guard' = Nobody
          /\ login' = [login EXCEPT ![t].pc = "lookup", ![t].hash = disk[Name(t)].hash]
          /\ UNCHANGED <<current, file_lock>>
       \/ /\ Enabled(Name(t), disk)
          /\ disk[Name(t)].hash = Init_
          /\ current' = [current EXCEPT ![t] =
                           Put(disk, Name(t), [disk[Name(t)] EXCEPT !.hash = t])]
          /\ Goto(t, "save") /\ UNCHANGED <<locks, users>>
    /\ UNCHANGED <<disk, anonymous, cache, cmds, published, restarts>>

\* The authoritative re-read.  The load may fail, and an account that vanished
\* or was disabled is refused.  A lost race is decided against the winner's
\* hash, outside both locks; otherwise the transition is made on the snapshot.
Reload(t) ==
    /\ At(t, "reload")
    /\ \/ /\ Release(t) /\ Goto(t, "refused") /\ UNCHANGED <<users, current>>
       \/ /\ Enabled(Name(t), disk)
          /\ disk[Name(t)].hash # Init_
          /\ users' = disk /\ Release(t)
          /\ login' = [login EXCEPT ![t].pc = "lookup", ![t].hash = disk[Name(t)].hash]
          /\ UNCHANGED current
       \/ /\ Enabled(Name(t), disk)
          /\ disk[Name(t)].hash = Init_
          /\ current' = [current EXCEPT ![t] =
                           Put(disk, Name(t), [disk[Name(t)] EXCEPT !.hash = t])]
          /\ Goto(t, "save") /\ UNCHANGED <<locks, users>>
    /\ UNCHANGED <<disk, anonymous, cache, cmds, published, restarts>>

\* UsersConfig::save: atomic, and its error may come after the rename.
Publish(a, reg) ==
    \/ disk' = reg /\ published' = published \union {a}
    \/ UNCHANGED <<disk, published>>

\* Persist first; any error refuses the login.
Save(t) ==
    /\ At(t, "save") /\ Publish(t, current[t])
    /\ \/ /\ t \in published' /\ Goto(t, "commit") /\ UNCHANGED locks
          /\ UNCHANGED current
       \/ Goto(t, "unsaved") /\ Release(t) /\ current' = [current EXCEPT ![t] = <<>>]
    /\ UNCHANGED <<memory, cmds, restarts>>

Commit(t) ==
    /\ At(t, "commit")
    /\ users' = current[t] /\ Release(t)
    /\ login' = [login EXCEPT ![t].pc = "insert", ![t].hash = t]
    /\ current' = [current EXCEPT ![t] = <<>>]
    /\ UNCHANGED <<disk, anonymous, cache, cmds, published, restarts>>

Insert(t) ==
    /\ At(t, "insert")
    /\ CacheInsert(t, t) /\ Goto(t, "accepted")
    /\ UNCHANGED <<disk, users, anonymous, locks, current, cmds, published, restarts>>

LoginStep(t) ==
    \/ Verify(t) \/ Lookup(t) \/ Argon(t) \/ Acquire(t) \/ Write(t)
    \/ Reload(t) \/ Save(t) \/ Commit(t) \/ Insert(t)

-----------------------------------------------------------------------------
(* The `users` commands, each a process of its own.                        *)

\* What the command finds missing or in its way, before and under the lock.
Conflict(o, n, reg) == (o \in {"add", "add_init"}) = (n \in DOMAIN reg)

\* What a command makes of a registry; the hash is its own.
Edit(c, reg) ==
    LET o == cmd[c].op
        n == cmd[c].name
        u == [hash |-> IF o = "add_init" THEN Init_ ELSE c,
              is_enabled |-> TRUE, attrs |-> cmd[c].attrs]
    IN CASE o \in {"add", "add_init"} -> Put(reg, n, u)
         [] o = "remove" -> Restrict(reg, DOMAIN reg \ {n})
         [] o = "set_password" -> Put(reg, n, [reg[n] EXCEPT !.hash = c])
         [] o = "enable" -> Put(reg, n, [reg[n] EXCEPT !.is_enabled = TRUE])
         [] o = "disable" -> Put(reg, n, [reg[n] EXCEPT !.is_enabled = FALSE])
         [] o = "grant" -> Put(reg, n, [reg[n] EXCEPT !.attrs = @ \union cmd[c].attrs])
         [] o = "revoke" -> Put(reg, n, [reg[n] EXCEPT !.attrs = @ \ cmd[c].attrs])

\* add and set-password look at the file before they prompt.  A command that
\* stops there, or on a mistyped password, has no effect and is no step.
CmdStart(c) ==
    /\ cmd[c].pc = "new"
    /\ \E o \in Ops, n \in Names, as \in SUBSET Attrs,
          p \in CmdPasswords \union {SeedPassword} :
         /\ o \in {"grant", "revoke"} => Cardinality(as) = 1
         /\ as # {} => o \in {"add", "add_init", "grant", "revoke"}
         /\ IF o \in {"add", "set_password"} THEN p \in CmdPasswords ELSE p = SeedPassword
         /\ o \in {"add", "set_password"} => ~Conflict(o, n, disk)
         /\ cmd' = [cmd EXCEPT ![c] = [pc |-> "lock", op |-> o, name |-> n,
                                       password |-> p, attrs |-> as]]
    /\ UNCHANGED <<disk, memory, locks, logins, snap, published, restarts>>

\* lock_and_load: PathLock::acquire_bounded gives up on a held lock ...
CmdLock(c) ==
    /\ cmd[c].pc = "lock"
    /\ \/ /\ file_lock = Nobody /\ file_lock' = c
          /\ cmd' = [cmd EXCEPT ![c].pc = "load"]
       \/ cmd' = [cmd EXCEPT ![c].pc = "end"] /\ UNCHANGED file_lock
    /\ UNCHANGED <<disk, memory, guard, logins, snap, published, restarts>>

\* ... the registry is read under it, checked again and edited ...
CmdLoad(c) ==
    /\ cmd[c].pc = "load"
    /\ \/ /\ ~Conflict(cmd[c].op, cmd[c].name, disk)
          /\ snap' = [snap EXCEPT ![c] = Edit(c, disk)]
          /\ cmd' = [cmd EXCEPT ![c].pc = "save"]
          /\ UNCHANGED file_lock
       \/ /\ cmd' = [cmd EXCEPT ![c].pc = "end"]
          /\ file_lock' = Nobody /\ UNCHANGED snap
    /\ UNCHANGED <<disk, memory, guard, logins, published, restarts>>

\* ... and saved, whatever save reports.
CmdSave(c) ==
    /\ cmd[c].pc = "save" /\ Publish(c, snap[c])
    /\ file_lock' = Nobody /\ cmd' = [cmd EXCEPT ![c].pc = "end"]
    /\ snap' = [snap EXCEPT ![c] = <<>>]
    /\ UNCHANGED <<memory, guard, logins, restarts>>

\* The process dies in its transaction; the kernel releases its lock.
CmdDie(c) ==
    /\ cmd[c].pc \in {"load", "save"}
    /\ cmd' = [cmd EXCEPT ![c].pc = "end"]
    /\ file_lock' = Nobody
    /\ snap' = [snap EXCEPT ![c] = <<>>]
    /\ UNCHANGED <<disk, memory, guard, logins, published, restarts>>

CmdStep(c) == CmdLock(c) \/ CmdLoad(c) \/ CmdSave(c)

\* The server dies, between any two steps, and starts on what the file holds:
\* no AuthState for an empty registry, no start at all when an enabled account
\* has an endpoint.  Logins of the old process are gone.
Restart ==
    /\ restarts < MaxRestarts
    /\ \A n \in DOMAIN disk : disk[n].is_enabled => "endpoint" \notin disk[n].attrs
    /\ users' = disk /\ anonymous' = (disk = <<>>) /\ cache' = <<>>
    /\ login' = [t \in Logins |->
                   IF At(t, "new") \/ At(t, "accepted") \/ At(t, "refused")
                      \/ At(t, "unsaved")
                   THEN login[t] ELSE [login[t] EXCEPT !.pc = "gone"]]
    /\ guard' = Nobody
    /\ file_lock' = IF file_lock \in Logins THEN Nobody ELSE file_lock
    /\ current' = [t \in Logins |-> <<>>]
    /\ restarts' = restarts + 1
    /\ UNCHANGED <<disk, cmds, published>>

Next ==
    \/ \E t \in Logins : LoginStep(t) \/ AcquireFails(t)
    \/ \E c \in Cmds : CmdStart(c) \/ CmdStep(c) \/ CmdDie(c)
    \/ Restart

Spec == Init /\ [][Next]_vars

\* The blocking pool runs every login, and a command that has started goes on.
\* No login is answered by counting on a lock file that cannot be opened.
Fairness ==
    /\ \A t \in Logins : WF_vars(LoginStep(t))
    /\ \A c \in Cmds : WF_vars(CmdStep(c))
FairSpec == Spec /\ Fairness

-----------------------------------------------------------------------------
Accepted(t) == At(t, "accepted")

\* Registry transactions are serial: whatever replaces the users file is one
\* login's provisioning of an enabled init account, or one command's edit, of
\* the registry the file held at that moment (resolve_init's and the commands'
\* read-modify-writes under the PathLock); no published edit is ever buried.
\* And the registry in memory is only ever replaced by what the file holds at
\* that moment, so it never moves back to an older one ("syncs memory to the
\* newer disk state", state.rs).
Serial ==
    [][/\ disk' # disk =>
            \/ \E t \in Logins :
                 /\ Enabled(Name(t), disk)
                 /\ disk[Name(t)].hash = Init_
                 /\ disk' = Put(disk, Name(t), [disk[Name(t)] EXCEPT !.hash = t])
            \/ \E c \in Cmds : /\ ~Conflict(cmd[c].op, cmd[c].name, disk)
                               /\ disk' = Edit(c, disk)
       /\ users' # users => users' = disk']_vars

\* Every cache entry is bound to the hash whose password it holds, so a login
\* that hits the cache would also pass the Argon2id verify, whatever rotated
\* the hash meanwhile (CacheEntry, state.rs).
CacheSound ==
    /\ TypeOK
    /\ \A n \in DOMAIN cache : Verifies(cache[n].hash_snapshot, cache[n].hmac)

\* First use wins: two logins are accepted to one account with different
\* passwords only after a command changed its password or removed it.
FirstWins ==
    \A t, u \in Logins :
        /\ Accepted(t) /\ Accepted(u) /\ Name(t) = Name(u)
        /\ login[t].password # login[u].password
        => \E c \in Cmds : /\ c \in published /\ cmd[c].name = Name(t)
                           /\ cmd[c].op \in {"set_password", "remove"}

\* A login is accepted only on a hash that the users file has held, and only
\* with the password inside it ("persisted ... and only then is the login
\* accepted", state.rs).
AcceptedPersisted ==
    \A t \in Logins : Accepted(t) =>
        /\ login[t].hash \in published \union {Seed}
        /\ Verifies(login[t].hash, login[t].password)

\* Every login that starts is answered (each runs once, so in the end all are):
\* the file lock and the RwLock, taken in this order, never leave one waiting.
LoginReturns ==
    <>[](\A t \in Logins : login[t].pc \in {"new", "accepted", "refused", "unsaved",
                                             "gone"})

=============================================================================
