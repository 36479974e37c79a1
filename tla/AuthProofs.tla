----------------------------- MODULE AuthProofs -----------------------------
(***************************************************************************)
(* Proofs about Auth, for any accounts, passwords, logins, commands and    *)
(* restarts.                                                               *)
(*                                                                         *)
(* AuthInv is the inductive invariant.  Whoever is inside a registry       *)
(* transaction holds the PathLock (Locked), so what it is about to save is *)
(* its edit of the file as it stands (Planned).  A hash that a login, the  *)
(* cache or a registry carries was published before (Circulating), and the *)
(* password of a published hash never changes (Settled); so a cache entry  *)
(* stays true and an acceptance stays justified.  Until a command changes  *)
(* an account's password or removes it, one hash serves all its logins     *)
(* (OneHash).                                                              *)
(***************************************************************************)
EXTENDS Auth, TLAPS

(* The leaves are first-order and go to Zenon; those about numbers, records *)
(* or sequences say SMT.                                                   *)
USE Zenon

InTransaction(t) == login[t].pc \in {"write", "reload", "save", "commit"}

(* A registry transaction runs under the PathLock.                         *)
Locked ==
    /\ \A t \in Logins : InTransaction(t) => file_lock = t
    /\ \A c \in Cmds : cmd[c].pc \in {"load", "save"} => file_lock = c

Claimed(t) == Put(disk, Name(t), [disk[Name(t)] EXCEPT !.hash = t])

(* What is about to be saved is the one edit of what the file holds now,   *)
(* and what is about to be committed is what it holds now.                 *)
PlannedLogin(t) ==
    /\ At(t, "save") => /\ Enabled(Name(t), disk) /\ disk[Name(t)].hash = Init_
                        /\ current[t] = Claimed(t)
    /\ At(t, "commit") => /\ t \in published /\ current[t] = disk
                          /\ Name(t) \in DOMAIN disk /\ disk[Name(t)].hash = t
    /\ At(t, "insert") => t \in published /\ login[t].hash = t
PlannedCmd(c) ==
    cmd[c].pc = "save" => /\ ~Conflict(cmd[c].op, cmd[c].name, disk)
                          /\ snap[c] = Edit(c, disk)
Planned == (\A t \in Logins : PlannedLogin(t)) /\ (\A c \in Cmds : PlannedCmd(c))

Known == published \union {Init_, Seed}

(* Only published hashes circulate.                                        *)
Circulating ==
    /\ \A n \in DOMAIN disk : disk[n].hash \in Known
    /\ \A n \in DOMAIN users : users[n].hash \in Known
    /\ \A n \in DOMAIN cache : cache[n].hash_snapshot \in Known
    /\ \A t \in Logins : login[t].hash \in Known

(* Whoever published a hash has its password behind it.                    *)
Settled ==
    /\ \A t \in Logins : t \in published =>
         login[t].pc \in {"commit", "insert", "accepted", "unsaved", "gone"}
    /\ \A t \in Logins : t \in published \/ InTransaction(t) \/ At(t, "acquire")
                            \/ At(t, "insert") => login[t].password # Empty
    /\ \A c \in Cmds : c \in published => cmd[c].pc = "end"

(* A command changed the account's password or removed it.                 *)
Changed(n) == \E c \in Cmds : /\ c \in published /\ cmd[c].name = n
                              /\ cmd[c].op \in {"set_password", "remove"}

(* Until then an account has one hash other than the sentinel.             *)
OneHash ==
    \A n \in Names : ~Changed(n) =>
        /\ n \in DOMAIN users /\ users[n].hash # Init_
             => n \in DOMAIN disk /\ disk[n].hash = users[n].hash
        /\ \A t \in Logins : Name(t) = n /\ login[t].hash # Init_
             => n \in DOMAIN disk /\ disk[n].hash = login[t].hash

AuthInv ==
    /\ CacheSound /\ AcceptedPersisted
    /\ Locked /\ Planned /\ Circulating /\ Settled /\ OneHash

-----------------------------------------------------------------------------
(* Registries and what the operations make of them.                        *)

\* A registry is a function from some of the names to users.
LEMMA RegistryIs ==
    ASSUME NEW r
    PROVE  r \in Registries <=> /\ DOMAIN r \subseteq Names
                                /\ r \in [DOMAIN r -> User]
BY DEF Registries

\* No account at all is a registry.
LEMMA EmptyRegistry == <<>> \in Registries
<1>1. <<>> \in [{} -> User]
  BY SMT
<1>2. QED BY <1>1 DEF Registries

\* Writing one account keeps a registry a registry.
LEMMA PutRegistry ==
    ASSUME NEW r \in Registries, NEW n \in Names, NEW u \in User
    PROVE  /\ Put(r, n, u) \in Registries
           /\ \A m : m \in DOMAIN Put(r, n, u) <=> m \in DOMAIN r \/ m = n
           /\ Put(r, n, u)[n] = u
           /\ \A m \in DOMAIN r : m # n => Put(r, n, u)[m] = r[m]
<1>1. DOMAIN r \subseteq Names /\ r \in [DOMAIN r -> User]
  BY RegistryIs
<1>2. Put(r, n, u) \in [DOMAIN r \union {n} -> User]
  BY <1>1 DEF Put
<1>3. Put(r, n, u) \in Registries
  BY <1>1, <1>2 DEF Registries
<1>4. QED BY <1>1, <1>3 DEF Put

\* An account's fields are of their types.
LEMMA UserFields ==
    ASSUME NEW r \in Registries, NEW n \in DOMAIN r
    PROVE  /\ n \in Names /\ r[n] \in User
           /\ r[n].hash \in Hashes
           /\ \A h \in Hashes : [r[n] EXCEPT !.hash = h] \in User
           /\ \A h \in Hashes : [r[n] EXCEPT !.hash = h].hash = h
           /\ \A b \in BOOLEAN : [r[n] EXCEPT !.is_enabled = b] \in User
           /\ \A b \in BOOLEAN : [r[n] EXCEPT !.is_enabled = b].hash = r[n].hash
           /\ \A a \in SUBSET Attrs : [r[n] EXCEPT !.attrs = @ \union a] \in User
           /\ \A a \in SUBSET Attrs : [r[n] EXCEPT !.attrs = @ \union a].hash = r[n].hash
           /\ \A a \in SUBSET Attrs : [r[n] EXCEPT !.attrs = @ \ a] \in User
           /\ \A a \in SUBSET Attrs : [r[n] EXCEPT !.attrs = @ \ a].hash = r[n].hash
<1>1. DOMAIN r \subseteq Names /\ r \in [DOMAIN r -> User]
  BY RegistryIs
<1>2. n \in Names /\ r[n] \in User
  BY <1>1
<1>3. QED BY <1>2 DEF User

\* A command's edit of a registry it has no conflict with: whatever account
\* it keeps has a hash it had before, the sentinel or the command's own; an
\* account it neither adds, removes nor gives a password keeps its hash.
LEMMA EditRegistry ==
    ASSUME TypeOK, NEW c \in Cmds, NEW r \in Registries,
           ~Conflict(cmd[c].op, cmd[c].name, r)
    PROVE  /\ Edit(c, r) \in Registries
           /\ \A n \in DOMAIN Edit(c, r) :
                \/ Edit(c, r)[n].hash \in {c, Init_}
                \/ n \in DOMAIN r /\ Edit(c, r)[n].hash = r[n].hash
           /\ \A n \in DOMAIN r :
                \/ n = cmd[c].name /\ cmd[c].op \in {"set_password", "remove"}
                \/ n \in DOMAIN Edit(c, r) /\ Edit(c, r)[n].hash = r[n].hash
<1> DEFINE o == cmd[c].op
           n == cmd[c].name
           u == [hash |-> IF o = "add_init" THEN Init_ ELSE c,
                 is_enabled |-> TRUE, attrs |-> cmd[c].attrs]
           P(e) == /\ e \in Registries
                   /\ \A m \in DOMAIN e : \/ e[m].hash \in {c, Init_}
                                          \/ m \in DOMAIN r /\ e[m].hash = r[m].hash
                   /\ \A m \in DOMAIN r :
                        \/ m = n /\ o \in {"set_password", "remove"}
                        \/ m \in DOMAIN e /\ e[m].hash = r[m].hash
<1>1. o \in Ops /\ n \in Names /\ cmd[c].attrs \in SUBSET Attrs
  BY DEF TypeOK
<1>2. u \in User /\ u.hash \in {c, Init_}
  BY <1>1 DEF User, Hashes, Actors
<1>3. o \notin {"add", "add_init"} => n \in DOMAIN r
  BY SMT DEF Conflict
<1>4. o \in {"add", "add_init"} => n \notin DOMAIN r
  BY SMT DEF Conflict
<1>5. c \in Hashes
  BY DEF Hashes, Actors
<1> SUFFICES P(Edit(c, r))
  OBVIOUS
<1> HIDE DEF o, n, u
<1>6. ASSUME NEW v \in User,
             \/ n \notin DOMAIN r /\ v.hash \in {c, Init_}
             \/ n \in DOMAIN r /\ v.hash = r[n].hash
             \/ o = "set_password" /\ v.hash = c
      PROVE  P(Put(r, n, v))
  <2> DEFINE e == Put(r, n, v)
  <2>1. /\ e \in Registries /\ e[n] = v
        /\ \A m : m \in DOMAIN e <=> m \in DOMAIN r \/ m = n
        /\ \A m \in DOMAIN r : m # n => e[m] = r[m]
    BY <1>1, PutRegistry, SMT
  <2> HIDE DEF e
  <2>2. P(e)
    BY <1>6, <2>1
  <2>3. QED BY <2>2 DEF e
<1> HIDE DEF P
<1>7. CASE o \in {"add", "add_init"}
  <2>1. Edit(c, r) = Put(r, n, u)
    BY <1>7 DEF Edit, o, n, u
  <2>2. QED BY <1>2, <1>4, <1>6, <1>7, <2>1
<1>8. CASE o = "remove"
  <2>1. Edit(c, r) = Restrict(r, DOMAIN r \ {n})
    BY <1>8 DEF Edit, o, n, u
  <2>2. Restrict(r, DOMAIN r \ {n}) \in [DOMAIN r \ {n} -> User]
    BY RegistryIs DEF Restrict
  <2>3. Restrict(r, DOMAIN r \ {n}) \in Registries
    BY <2>2, RegistryIs DEF Registries
  <2>4. P(Restrict(r, DOMAIN r \ {n}))
    BY <1>8, <2>3 DEF P, Restrict
  <2>5. QED BY <2>1, <2>4
<1>9. CASE o = "set_password"
  <2>1. Edit(c, r) = Put(r, n, [r[n] EXCEPT !.hash = c])
    BY <1>9 DEF Edit, o, n, u
  <2>2. [r[n] EXCEPT !.hash = c] \in User /\ [r[n] EXCEPT !.hash = c].hash = c
    BY <1>3, <1>5, <1>9, UserFields, SMT
  <2>3. QED BY <1>6, <1>9, <2>1, <2>2
<1>10. CASE o = "enable" \/ o = "disable"
  <2>1. PICK b \in BOOLEAN : Edit(c, r) = Put(r, n, [r[n] EXCEPT !.is_enabled = b])
    BY <1>10 DEF Edit, o, n, u
  <2> DEFINE v == [r[n] EXCEPT !.is_enabled = b]
  <2>2. n \in DOMAIN r /\ v \in User /\ v.hash = r[n].hash
    BY <1>3, <1>10, UserFields, SMT
  <2> HIDE DEF v
  <2>3. P(Put(r, n, v))
    BY <1>6, <2>2
  <2>4. QED BY <2>1, <2>3 DEF v
<1>11. CASE o = "grant"
  <2>1. Edit(c, r) = Put(r, n, [r[n] EXCEPT !.attrs = @ \union cmd[c].attrs])
    BY <1>11 DEF Edit, o, n, u
  <2> DEFINE v == [r[n] EXCEPT !.attrs = @ \union cmd[c].attrs]
  <2>2. n \in DOMAIN r /\ v \in User /\ v.hash = r[n].hash
    BY <1>1, <1>3, <1>11, UserFields, SMTT(30)
  <2> HIDE DEF v
  <2>3. P(Put(r, n, v))
    BY <1>6, <2>2
  <2>4. QED BY <2>1, <2>3 DEF v
<1>12. CASE o = "revoke"
  <2>1. Edit(c, r) = Put(r, n, [r[n] EXCEPT !.attrs = @ \ cmd[c].attrs])
    BY <1>12 DEF Edit, o, n, u
  <2> DEFINE v == [r[n] EXCEPT !.attrs = @ \ cmd[c].attrs]
  <2>2. n \in DOMAIN r /\ v \in User /\ v.hash = r[n].hash
    BY <1>1, <1>3, <1>12, UserFields, SMTT(30)
  <2> HIDE DEF v
  <2>3. P(Put(r, n, v))
    BY <1>6, <2>2
  <2>4. QED BY <2>1, <2>3 DEF v
<1>13. QED BY <1>1, <1>7, <1>8, <1>9, <1>10, <1>11, <1>12 DEF Ops

-----------------------------------------------------------------------------
(* Types.                                                                  *)

LoginPc == {"new", "lookup", "argon", "acquire", "write", "reload", "save", "commit",
            "insert", "accepted", "refused", "unsaved", "gone"}
LoginRec == [pc : LoginPc, name : Names, password : Passwords \union {Empty}, hash : Hashes]
CmdRec == [pc : {"new", "lock", "load", "save", "end"}, op : Ops, name : Names,
           password : Passwords, attrs : SUBSET Attrs]
Caches == UNION {[S -> Entry] : S \in SUBSET Names}

\* A cache is a function from some of the names to entries, and so is one
\* with another entry.
LEMMA PutCache ==
    ASSUME NEW e \in Caches, NEW n \in Names, NEW v \in Entry
    PROVE  /\ Put(e, n, v) \in Caches
           /\ \A m : m \in DOMAIN Put(e, n, v) <=> m \in DOMAIN e \/ m = n
           /\ Put(e, n, v)[n] = v
           /\ \A m \in DOMAIN e : m # n => Put(e, n, v)[m] = e[m]
<1>1. PICK S \in SUBSET Names : e \in [S -> Entry]
  BY DEF Caches
<1>2. Put(e, n, v) \in [S \union {n} -> Entry]
  BY <1>1 DEF Put
<1>3. Put(e, n, v) \in Caches
  BY <1>1, <1>2, ZenonT(60) DEF Caches
<1>4. QED BY <1>1, <1>3 DEF Put

LEMMA EmptyCache == <<>> \in Caches
<1>1. <<>> \in [{} -> Entry]
  BY SMT
<1>2. QED BY <1>1 DEF Caches

\* A step writes well-formed logins, and only a login that has not started
\* gets a name and a password.
LEMMA LoginWrites ==
    ASSUME AuthInv, [Next]_vars
    PROVE  /\ login' \in [Logins -> LoginRec]
           /\ \A t \in Logins : ~At(t, "new") =>
                /\ login'[t].name = login[t].name
                /\ login'[t].password = login[t].password
                /\ login'[t].pc # "new"
<1> DEFINE P == /\ login' \in [Logins -> LoginRec]
                /\ \A t \in Logins : ~At(t, "new") =>
                     /\ login'[t].name = login[t].name
                     /\ login'[t].password = login[t].password
                     /\ login'[t].pc # "new"
<1>1. /\ login \in [Logins -> LoginRec] /\ users \in Registries /\ disk \in Registries
  BY DEF AuthInv, CacheSound, TypeOK, LoginRec, LoginPc
<1>2. ASSUME login' = login PROVE P
  BY <1>1, <1>2 DEF At
<1>3. ASSUME NEW t \in Logins, NEW pc \in LoginPc \ {"new"}, Goto(t, pc) PROVE P
  BY <1>1, <1>3 DEF Goto, At, LoginRec
<1>4. ASSUME NEW t \in Logins, NEW pc \in LoginPc \ {"new"}, NEW h \in Hashes,
             login' = [login EXCEPT ![t].pc = pc, ![t].hash = h]
      PROVE  P
  BY <1>1, <1>4, ZenonT(60) DEF At, LoginRec
<1>5. ASSUME NEW t \in Logins, Verify(t) PROVE P
  <2>1. CASE Goto(t, "refused")
    BY <1>3, <2>1 DEF LoginPc
  <2>2. CASE \E n \in Names, p \in Passwords \union {Empty} :
               /\ Enabled(n, users)
               /\ login' = [login EXCEPT ![t] =
                    [pc |-> IF users[n].hash = Init_ THEN "acquire" ELSE "lookup",
                     name |-> n, password |-> p, hash |-> users[n].hash]]
    <3>1. PICK n \in Names, p \in Passwords \union {Empty} :
               /\ Enabled(n, users)
               /\ login' = [login EXCEPT ![t] =
                    [pc |-> IF users[n].hash = Init_ THEN "acquire" ELSE "lookup",
                     name |-> n, password |-> p, hash |-> users[n].hash]]
      BY <2>2
    <3>2. users[n].hash \in Hashes
      BY <1>1, <3>1, UserFields DEF Enabled
    <3> DEFINE r == [pc |-> IF users[n].hash = Init_ THEN "acquire" ELSE "lookup",
                     name |-> n, password |-> p, hash |-> users[n].hash]
    <3>3. r \in LoginRec /\ r.pc # "new"
      BY <3>2 DEF LoginRec, LoginPc
    <3>4. login' = [login EXCEPT ![t] = r] /\ At(t, "new")
      BY <1>5, <3>1 DEF Verify
    <3> HIDE DEF r
    <3>5. QED BY <1>1, <3>3, <3>4 DEF At
  <2>3. QED BY <1>5, <2>1, <2>2 DEF Verify
<1>6. ASSUME NEW t \in Logins, Reload(t) PROVE P
  <2>1. CASE Goto(t, "refused") \/ Goto(t, "save")
    BY <1>3, <2>1 DEF LoginPc
  <2>2. CASE /\ Enabled(Name(t), disk)
             /\ login' = [login EXCEPT ![t].pc = "lookup", ![t].hash = disk[Name(t)].hash]
    <3>1. disk[Name(t)].hash \in Hashes
      BY <1>1, <2>2, UserFields DEF Enabled
    <3>2. QED BY <1>4, <2>2, <3>1 DEF LoginPc
  <2>3. QED BY <1>6, <2>1, <2>2 DEF Reload
<1>7. ASSUME NEW t \in Logins, Commit(t) PROVE P
  <2>1. t \in Hashes
    BY DEF Hashes, Actors
  <2>2. QED BY <1>4, <1>7, <2>1 DEF Commit, LoginPc
<1>8. ASSUME Restart PROVE P
  BY <1>1, <1>8, SMT DEF Restart, At, LoginRec, LoginPc
<1> SUFFICES P
  OBVIOUS
<1> HIDE DEF P
<1>9. ASSUME NEW t \in Logins,
             \/ Lookup(t) \/ Argon(t) \/ Acquire(t) \/ AcquireFails(t) \/ Write(t)
             \/ Save(t) \/ Insert(t)
      PROVE  P
  BY <1>3, <1>9 DEF Lookup, Argon, Acquire, AcquireFails, Write, Save, Insert, LoginPc
<1>10. CASE (\E c \in Cmds : CmdStart(c) \/ CmdStep(c) \/ CmdDie(c)) \/ UNCHANGED vars
  BY <1>2, <1>10 DEF CmdStart, CmdStep, CmdLock, CmdLoad, CmdSave, CmdDie, logins, vars
<1>11. QED BY <1>5, <1>6, <1>7, <1>8, <1>9, <1>10 DEF Next, LoginStep

\* A step writes well-formed commands, and only a command that has not
\* started gets its arguments.
LEMMA CmdWrites ==
    ASSUME AuthInv, [Next]_vars
    PROVE  /\ cmd' \in [Cmds -> CmdRec]
           /\ \A c \in Cmds : cmd[c].pc # "new" =>
                /\ cmd'[c].name = cmd[c].name /\ cmd'[c].op = cmd[c].op
                /\ cmd'[c].password = cmd[c].password /\ cmd'[c].attrs = cmd[c].attrs
                /\ cmd'[c].pc # "new"
<1> DEFINE P == /\ cmd' \in [Cmds -> CmdRec]
                /\ \A c \in Cmds : cmd[c].pc # "new" =>
                     /\ cmd'[c].name = cmd[c].name /\ cmd'[c].op = cmd[c].op
                     /\ cmd'[c].password = cmd[c].password /\ cmd'[c].attrs = cmd[c].attrs
                     /\ cmd'[c].pc # "new"
<1>1. cmd \in [Cmds -> CmdRec]
  BY DEF AuthInv, CacheSound, TypeOK, CmdRec
<1>2. ASSUME cmd' = cmd PROVE P
  BY <1>1, <1>2
<1>3. ASSUME NEW c \in Cmds, NEW pc \in {"load", "save", "end"},
             cmd' = [cmd EXCEPT ![c].pc = pc]
      PROVE  P
  BY <1>1, <1>3, ZenonT(60) DEF CmdRec
<1>4. ASSUME NEW c \in Cmds, CmdStart(c) PROVE P
  <2>1. PICK o \in Ops, n \in Names, as \in SUBSET Attrs,
             p \in CmdPasswords \union {SeedPassword} :
          /\ o \in {"grant", "revoke"} => Cardinality(as) = 1
          /\ as # {} => o \in {"add", "add_init", "grant", "revoke"}
          /\ IF o \in {"add", "set_password"} THEN p \in CmdPasswords ELSE p = SeedPassword
          /\ o \in {"add", "set_password"} => ~Conflict(o, n, disk)
          /\ cmd' = [cmd EXCEPT ![c] = [pc |-> "lock", op |-> o, name |-> n,
                                        password |-> p, attrs |-> as]]
    BY <1>4 DEF CmdStart
  <2>2. p \in Passwords
    BY PasswordsAssumption
  <2> DEFINE r == [pc |-> "lock", op |-> o, name |-> n, password |-> p, attrs |-> as]
  <2>3. r \in CmdRec /\ r.pc # "new"
    BY <2>2 DEF CmdRec
  <2>4. cmd' = [cmd EXCEPT ![c] = r] /\ cmd[c].pc = "new"
    BY <1>4, <2>1 DEF CmdStart
  <2> HIDE DEF r
  <2>5. QED BY <1>1, <2>3, <2>4
<1> SUFFICES P
  OBVIOUS
<1> HIDE DEF P
<1>5. ASSUME NEW c \in Cmds, CmdStep(c) \/ CmdDie(c) PROVE P
  BY <1>3, <1>5 DEF CmdStep, CmdLock, CmdLoad, CmdSave, CmdDie
<1>6. CASE (\E t \in Logins : LoginStep(t) \/ AcquireFails(t)) \/ Restart \/ UNCHANGED vars
  BY <1>2, <1>6, ZenonT(60) DEF LoginStep, Verify, Lookup, Argon, Acquire, AcquireFails, Write, Reload,
     Save, Commit, Insert, Restart, cmds, vars
<1>7. QED BY <1>4, <1>5, <1>6 DEF Next

\* Only a save publishes, and only the hash of the login or command it is of.
LEMMA PublishedWrites ==
    ASSUME [Next]_vars
    PROVE  \/ published' = published
           \/ \E t \in Logins : Save(t) /\ published' = published \union {t}
           \/ \E c \in Cmds : CmdSave(c) /\ published' = published \union {c}
<1> DEFINE P == \/ published' = published
                \/ \E t \in Logins : Save(t) /\ published' = published \union {t}
                \/ \E c \in Cmds : CmdSave(c) /\ published' = published \union {c}
<1> SUFFICES P
  OBVIOUS
<1>1. ASSUME NEW t \in Logins, Save(t) PROVE P
  <2>1. published' = published \/ published' = published \union {t}
    BY <1>1 DEF Save, Publish
  <2>2. QED BY <1>1, <2>1
<1>2. ASSUME NEW c \in Cmds, CmdSave(c) PROVE P
  <2>1. published' = published \/ published' = published \union {c}
    BY <1>2 DEF CmdSave, Publish
  <2>2. QED BY <1>2, <2>1
<1>3. CASE \/ \E t \in Logins : \/ Verify(t) \/ Lookup(t) \/ Argon(t) \/ Acquire(t) \/ Write(t)
                                \/ Reload(t) \/ Commit(t) \/ Insert(t) \/ AcquireFails(t)
           \/ \E c \in Cmds : CmdStart(c) \/ CmdLock(c) \/ CmdLoad(c) \/ CmdDie(c)
           \/ Restart \/ UNCHANGED vars
  <2>1. published' = published
    BY <1>3 DEF Verify, Lookup, Argon, Acquire, AcquireFails, Write, Reload, Commit, Insert,
       CmdStart, CmdLock, CmdLoad, CmdDie, Restart, vars
  <2>2. QED BY <2>1
<1>4. QED BY <1>1, <1>2, <1>3 DEF Next, LoginStep, CmdStep

\* What was published stays published, and its password stays what it was.
LEMMA KnownStable ==
    ASSUME AuthInv, [Next]_vars
    PROVE  /\ published \subseteq published' /\ published' \subseteq Actors
           /\ Known \subseteq Known'
           /\ \A h \in Known : Secret(h)' = Secret(h)
<1>1. \/ published' = published
      \/ \E a \in Actors : published' = published \union {a}
  BY PublishedWrites DEF Actors
<1>2. published \subseteq published' /\ published' \subseteq Actors /\ Known \subseteq Known'
  BY <1>1 DEF AuthInv, CacheSound, TypeOK, Known
<1>3. ASSUME NEW h \in Known PROVE Secret(h)' = Secret(h)
  <2>1. CASE h \in Logins
    <3>1. h \in published
      BY <2>1, ActorsAssumption DEF Known
    <3>2. ~At(h, "new")
      BY <2>1, <3>1 DEF AuthInv, Settled, At
    <3>3. login'[h].password = login[h].password
      BY <2>1, <3>2, LoginWrites
    <3>4. QED BY <2>1, <3>3 DEF Secret
  <2>2. CASE h \in Cmds
    <3>1. h \in published
      BY <2>2, ActorsAssumption DEF Known
    <3>2. cmd[h].pc # "new"
      BY <2>2, <3>1 DEF AuthInv, Settled
    <3>3. cmd'[h].password = cmd[h].password
      BY <2>2, <3>2, CmdWrites
    <3>4. h \notin Logins
      BY <2>2, ActorsAssumption
    <3>5. QED BY <2>2, <3>3, <3>4 DEF Secret
  <2>3. CASE h \notin Logins /\ h \notin Cmds
    BY <2>3 DEF Secret
  <2>4. QED BY <2>1, <2>2, <2>3
<1>4. QED BY <1>2, <1>3

\* The password of a published hash is not empty.
LEMMA KnownPassword ==
    ASSUME AuthInv, NEW h \in Known
    PROVE  Secret(h) \in Passwords
BY PasswordsAssumption, ActorsAssumption DEF AuthInv, CacheSound, TypeOK, Settled, Known, Secret

-----------------------------------------------------------------------------
(* The transactions.                                                       *)

\* A step of a login leaves the other logins alone.
LEMMA LoginAlone ==
    ASSUME AuthInv, NEW t \in Logins, LoginStep(t) \/ AcquireFails(t)
    PROVE  \A u \in Logins \ {t} : login'[u] = login[u] /\ current'[u] = current[u]
<1>1. login \in [Logins -> LoginRec] /\ current \in [Logins -> Registries]
  BY DEF AuthInv, CacheSound, TypeOK, LoginRec, LoginPc
<1>2. \A u \in Logins \ {t} : login'[u] = login[u]
  <2>1. CASE Verify(t)
    BY <1>1, <2>1 DEF Verify, Goto
  <2>2. CASE Reload(t)
    BY <1>1, <2>2 DEF Reload, Goto
  <2>3. CASE \/ Lookup(t) \/ Argon(t) \/ Acquire(t) \/ AcquireFails(t) \/ Write(t)
             \/ Save(t) \/ Commit(t) \/ Insert(t)
    BY <1>1, <2>3 DEF Lookup, Argon, Acquire, AcquireFails, Write, Save, Commit, Insert, Goto
  <2>4. QED BY <2>1, <2>2, <2>3 DEF LoginStep
<1>3. \A u \in Logins \ {t} : current'[u] = current[u]
  BY <1>1 DEF LoginStep, Verify, Lookup, Argon, Acquire, AcquireFails, Write, Reload,
     Save, Commit, Insert
<1>4. QED BY <1>2, <1>3

\* Who is inside a transaction holds the PathLock, after every step.
LEMMA LockedStep ==
    ASSUME AuthInv, [Next]_vars
    PROVE  Locked'
<1> USE DEF AuthInv
<1>1. login \in [Logins -> LoginRec] /\ cmd \in [Cmds -> CmdRec]
  BY DEF CacheSound, TypeOK, LoginRec, LoginPc, CmdRec
<1>2. ASSUME NEW t \in Logins, LoginStep(t) \/ AcquireFails(t) PROVE Locked'
  <2>1. \A u \in Logins \ {t} : login'[u] = login[u]
    BY <1>2, LoginAlone
  <2>2. cmd' = cmd
    BY <1>2 DEF LoginStep, Verify, Lookup, Argon, Acquire, AcquireFails, Write, Reload,
       Save, Commit, Insert, cmds
  <2>3. ASSUME UNCHANGED file_lock, InTransaction(t)' => InTransaction(t) PROVE Locked'
    BY <2>1, <2>2, <2>3 DEF Locked, InTransaction
  <2>4. CASE Verify(t)
    BY <1>1, <2>3, <2>4, SMT DEF LoginRec, Verify, Goto, InTransaction, locks
  <2>5. CASE Lookup(t) \/ Argon(t) \/ AcquireFails(t) \/ Insert(t) \/ Write(t)
    BY <1>1, <2>3, <2>5, SMT DEF LoginRec, Lookup, Argon, AcquireFails, Insert, Write, Goto, At, InTransaction,
       locks
  <2>6. CASE Acquire(t)
    <3>1. file_lock = Nobody /\ file_lock' = t
      BY <2>6 DEF Acquire
    <3>2. Nobody \notin Logins \union Cmds
      BY ActorsAssumption
    <3>3. (\A u \in Logins : ~InTransaction(u)) /\ (\A c \in Cmds : cmd[c].pc \notin {"load", "save"})
      BY <3>1, <3>2 DEF Locked
    <3>4. QED BY <2>1, <2>2, <3>1, <3>3 DEF Locked, InTransaction
  <2>7. ASSUME InTransaction(t), ~InTransaction(t)', Release(t) PROVE Locked'
    <3>1. file_lock = t
      BY <2>7 DEF Locked
    <3>2. \A u \in Logins \ {t} : ~InTransaction(u)
      BY <3>1 DEF Locked
    <3>3. \A c \in Cmds : cmd[c].pc \notin {"load", "save"}
      BY <3>1, ActorsAssumption DEF Locked
    <3>4. \A u \in Logins : ~InTransaction(u)'
      BY <2>1, <2>7, <3>2 DEF InTransaction
    <3>5. QED BY <2>2, <3>3, <3>4 DEF Locked
  <2>8. CASE Reload(t) \/ Save(t) \/ Commit(t)
    <3>1. InTransaction(t)
      BY <2>8 DEF Reload, Save, Commit, At, InTransaction
    <3>2. UNCHANGED file_lock \/ (Release(t) /\ ~InTransaction(t)')
      BY <1>1, <2>8, SMT DEF LoginRec, Reload, Save, Commit, Goto, InTransaction, locks
    <3>3. QED BY <2>3, <2>7, <3>1, <3>2
  <2>9. QED BY <1>2, <2>4, <2>5, <2>6, <2>8 DEF LoginStep
<1>3. ASSUME NEW c \in Cmds, CmdStart(c) \/ CmdStep(c) \/ CmdDie(c) PROVE Locked'
  <2>1. login' = login
    BY <1>3 DEF CmdStart, CmdStep, CmdLock, CmdLoad, CmdSave, CmdDie, logins
  <2>2. \A d \in Cmds \ {c} : cmd'[d] = cmd[d]
    BY <1>1, <1>3 DEF CmdStart, CmdStep, CmdLock, CmdLoad, CmdSave, CmdDie
  <2>3. ASSUME UNCHANGED file_lock, cmd'[c].pc \in {"load", "save"} => cmd[c].pc \in {"load", "save"}
        PROVE  Locked'
    BY <2>1, <2>2, <2>3 DEF Locked, InTransaction
  <2>4. ASSUME cmd[c].pc \in {"load", "save"}, cmd'[c].pc \notin {"load", "save"}
        PROVE  Locked'
    <3>1. file_lock = c
      BY <2>4 DEF Locked
    <3>2. \A t \in Logins : ~InTransaction(t)
      BY <3>1, ActorsAssumption DEF Locked
    <3>3. \A d \in Cmds : cmd'[d].pc \notin {"load", "save"}
      BY <2>2, <2>4, <3>1 DEF Locked
    <3>4. QED BY <2>1, <3>2, <3>3 DEF Locked, InTransaction
  <2>5. CASE CmdStart(c)
    BY <1>1, <2>3, <2>5, SMT DEF CmdStart, locks
  <2>6. CASE CmdLock(c)
    <3>1. CASE file_lock = Nobody /\ file_lock' = c
      <4>1. (\A u \in Logins : ~InTransaction(u)) /\ (\A d \in Cmds : cmd[d].pc \notin {"load", "save"})
        BY <3>1, ActorsAssumption DEF Locked
      <4>2. QED BY <2>1, <2>2, <3>1, <4>1 DEF Locked, InTransaction
    <3>2. CASE cmd' = [cmd EXCEPT ![c].pc = "end"] /\ UNCHANGED file_lock
      BY <1>1, <2>3, <3>2, SMT
    <3>3. QED BY <2>6, <3>1, <3>2 DEF CmdLock
  <2>7. CASE CmdLoad(c) \/ CmdSave(c) \/ CmdDie(c)
    BY <1>1, <2>3, <2>4, <2>7, SMT DEF CmdRec, CmdLoad, CmdSave, CmdDie
  <2>8. QED BY <1>3, <2>5, <2>6, <2>7 DEF CmdStep
<1>4. CASE Restart
  <2>1. \A t \in Logins : ~InTransaction(t)'
    BY <1>1, <1>4, SMT DEF Restart, InTransaction, At
  <2>2. \A c \in Cmds : file_lock = c => file_lock' = c
    BY <1>4, ActorsAssumption DEF Restart
  <2>3. QED BY <1>4, <2>1, <2>2 DEF Restart, cmds, Locked
<1>5. CASE UNCHANGED vars
  BY <1>5 DEF vars, locks, logins, cmds, Locked, InTransaction
<1>6. QED BY <1>2, <1>3, <1>4, <1>5 DEF Next

\* While the file is not replaced, the plans of those who do not move hold.
LEMMA PlanKept ==
    ASSUME disk' = disk, published \subseteq published'
    PROVE  /\ \A u \in Logins : /\ PlannedLogin(u)
                                /\ login'[u] = login[u] /\ current'[u] = current[u]
                                => PlannedLogin(u)'
           /\ \A c \in Cmds : PlannedCmd(c) /\ cmd'[c] = cmd[c] /\ snap'[c] = snap[c]
                              => PlannedCmd(c)'
<1>1. ASSUME NEW u \in Logins, PlannedLogin(u), login'[u] = login[u], current'[u] = current[u]
      PROVE  PlannedLogin(u)'
  BY <1>1, SMT DEF PlannedLogin, At, Name, Enabled, Claimed, Put
<1>2. ASSUME NEW c \in Cmds, PlannedCmd(c), cmd'[c] = cmd[c], snap'[c] = snap[c]
      PROVE  PlannedCmd(c)'
  <2>1. Edit(c, disk)' = Edit(c, disk)
    BY <1>2 DEF Edit
  <2>2. QED BY <1>2, <2>1 DEF PlannedCmd, Conflict
<1>3. QED BY <1>1, <1>2

\* When the holder of the PathLock replaces the file, nobody else has a plan.
LEMMA NoOtherPlan ==
    ASSUME Locked, NEW a \in Actors, file_lock = a
    PROVE  /\ \A u \in Logins \ {a} : ~At(u, "save") /\ ~At(u, "commit")
           /\ \A c \in Cmds \ {a} : cmd[c].pc # "save"
BY DEF Locked, InTransaction, At

\* The transition of an init account sets the account's hash, and no other.
LEMMA ClaimedIs ==
    ASSUME TypeOK, NEW t \in Logins, Enabled(Name(t), disk)
    PROVE  /\ Claimed(t) \in Registries
           /\ \A m : m \in DOMAIN Claimed(t) <=> m \in DOMAIN disk
           /\ Claimed(t)[Name(t)].hash = t
           /\ \A m \in DOMAIN disk : m # Name(t) => Claimed(t)[m] = disk[m]
<1> DEFINE u == [disk[Name(t)] EXCEPT !.hash = t]
<1>1. disk \in Registries /\ Name(t) \in DOMAIN disk /\ t \in Hashes
  BY DEF TypeOK, Enabled, Hashes, Actors
<1>2. Name(t) \in Names /\ u \in User /\ u.hash = t
  BY <1>1, UserFields, SMT
<1>3. Claimed(t) = Put(disk, Name(t), u)
  BY DEF Claimed
<1> HIDE DEF u
<1>4. /\ Put(disk, Name(t), u) \in Registries
      /\ \A m : m \in DOMAIN Put(disk, Name(t), u) <=> m \in DOMAIN disk \/ m = Name(t)
      /\ Put(disk, Name(t), u)[Name(t)] = u
      /\ \A m \in DOMAIN disk : m # Name(t) => Put(disk, Name(t), u)[m] = disk[m]
  BY <1>1, <1>2, PutRegistry, SMT
<1>5. QED BY <1>1, <1>2, <1>3, <1>4

LEMMA PlannedStep ==
    ASSUME AuthInv, [Next]_vars
    PROVE  Planned'
<1> USE DEF AuthInv
<1>1. /\ login \in [Logins -> LoginRec] /\ cmd \in [Cmds -> CmdRec]
      /\ current \in [Logins -> Registries] /\ snap \in [Cmds -> Registries]
  BY DEF CacheSound, TypeOK, LoginRec, LoginPc, CmdRec
<1>2. published \subseteq published'
  BY KnownStable
<1>3. ASSUME NEW t \in Logins, LoginStep(t) \/ AcquireFails(t) PROVE Planned'
  <2>1. \A u \in Logins \ {t} : login'[u] = login[u] /\ current'[u] = current[u]
    BY <1>3, LoginAlone
  <2>2. cmd' = cmd /\ snap' = snap
    BY <1>3 DEF LoginStep, Verify, Lookup, Argon, Acquire, AcquireFails, Write, Reload,
       Save, Commit, Insert, cmds
  <2>3. ASSUME disk' = disk, PlannedLogin(t)' PROVE Planned'
    BY <1>2, <2>1, <2>2, <2>3, PlanKept DEF Planned
  <2>4. ASSUME login'[t].pc \notin {"save", "commit", "insert"} PROVE PlannedLogin(t)'
    BY <2>4 DEF PlannedLogin, At
  <2>5. CASE Verify(t)
    <3>1. login'[t].pc \in {"refused", "acquire", "lookup"}
      BY <1>1, <2>5, SMT DEF Verify, Goto, LoginRec
    <3>2. QED BY <2>3, <2>4, <2>5, <3>1 DEF Verify
  <2>6. CASE Lookup(t) \/ Argon(t) \/ Acquire(t) \/ AcquireFails(t) \/ Write(t) \/ Insert(t)
    <3>1. login'[t].pc \in {"accepted", "refused", "argon", "write", "reload"}
      BY <1>1, <2>6, ZenonT(60) DEF Lookup, Argon, Acquire, AcquireFails, Write, Insert, Goto, LoginRec
    <3>2. disk' = disk
      BY <2>6 DEF Lookup, Argon, Acquire, AcquireFails, Write, Insert
    <3>3. QED BY <2>3, <2>4, <3>1, <3>2
  <2>7. CASE Reload(t)
    <3>1. disk' = disk
      BY <2>7 DEF Reload
    <3>2. CASE Goto(t, "refused")
      BY <1>1, <2>3, <2>4, <3>1, <3>2 DEF Goto, LoginRec
    <3>3. CASE login' = [login EXCEPT ![t].pc = "lookup", ![t].hash = disk[Name(t)].hash]
      BY <1>1, <2>3, <2>4, <3>1, <3>3 DEF LoginRec
    <3>4. CASE /\ Enabled(Name(t), disk) /\ disk[Name(t)].hash = Init_
               /\ current' = [current EXCEPT ![t] = Claimed(t)]
               /\ Goto(t, "save")
      <4>1. login'[t].pc = "save" /\ login'[t].name = login[t].name /\ current'[t] = Claimed(t)
        BY <1>1, <3>4 DEF Goto, LoginRec
      <4>2. Claimed(t)' = Claimed(t)
        BY <3>1, <4>1 DEF Claimed, Name, Put
      <4>3. PlannedLogin(t)'
        BY <3>1, <3>4, <4>1, <4>2 DEF PlannedLogin, At, Name, Enabled
      <4>4. QED BY <2>3, <3>1, <4>3
    <3>5. QED BY <2>7, <3>2, <3>3, <3>4 DEF Reload, Claimed
  <2>8. CASE Save(t)
    <3>1. At(t, "save") /\ file_lock = t
      BY <2>8 DEF Save, Locked, InTransaction, At
    <3>2. /\ Enabled(Name(t), disk) /\ disk[Name(t)].hash = Init_
          /\ current[t] = Claimed(t)
      BY <3>1 DEF Planned, PlannedLogin
    <3>3. PlannedLogin(t)'
      <4>1. CASE Goto(t, "commit") /\ t \in published' /\ UNCHANGED current
        <5>1. t \notin published
          BY <3>1 DEF Settled, At
        <5>2. disk' = current[t]
          BY <2>8, <4>1, <5>1 DEF Save, Publish
        <5>3. login'[t].pc = "commit" /\ login'[t].name = login[t].name
          BY <1>1, <4>1 DEF Goto, LoginRec
        <5>4. Name(t) \in DOMAIN disk' /\ disk'[Name(t)].hash = t
          BY <3>2, <5>2, ClaimedIs DEF Enabled, CacheSound
        <5>5. QED BY <4>1, <5>2, <5>3, <5>4 DEF PlannedLogin, At, Name
      <4>2. CASE Goto(t, "unsaved")
        BY <1>1, <2>4, <4>2 DEF Goto, LoginRec
      <4>3. QED BY <2>8, <4>1, <4>2 DEF Save
    <3>4. \A u \in Logins \ {t} : PlannedLogin(u)'
      BY <1>2, <2>1, <3>1, NoOtherPlan, SMT DEF PlannedLogin, Planned, At, Actors
    <3>5. \A c \in Cmds : PlannedCmd(c)'
      BY <2>2, <3>1, NoOtherPlan, ActorsAssumption DEF PlannedCmd, Actors
    <3>6. QED BY <3>3, <3>4, <3>5 DEF Planned
  <2>9. CASE Commit(t)
    <3>1. t \in published /\ login'[t].pc = "insert" /\ login'[t].hash = t
      BY <1>1, <2>9, SMT DEF Commit, Planned, PlannedLogin, LoginRec
    <3>2. PlannedLogin(t)' /\ disk' = disk
      BY <1>2, <2>9, <3>1 DEF PlannedLogin, At, Commit
    <3>3. QED BY <2>3, <3>2
  <2>10. QED BY <1>3, <2>5, <2>6, <2>7, <2>8, <2>9 DEF LoginStep
<1>4. ASSUME NEW c \in Cmds, CmdStart(c) \/ CmdStep(c) \/ CmdDie(c) PROVE Planned'
  <2>1. login' = login /\ current' = current
    BY <1>4 DEF CmdStart, CmdStep, CmdLock, CmdLoad, CmdSave, CmdDie, logins
  <2>2. \A d \in Cmds \ {c} : cmd'[d] = cmd[d] /\ snap'[d] = snap[d]
    BY <1>1, <1>4 DEF CmdStart, CmdStep, CmdLock, CmdLoad, CmdSave, CmdDie
  <2>3. ASSUME disk' = disk, PlannedCmd(c)' PROVE Planned'
    BY <1>2, <2>1, <2>2, <2>3, PlanKept DEF Planned
  <2>4. ASSUME cmd'[c].pc # "save" PROVE PlannedCmd(c)'
    BY <2>4 DEF PlannedCmd
  <2>5. CASE CmdStart(c) \/ CmdLock(c) \/ CmdDie(c)
    BY <1>1, <2>3, <2>4, <2>5, SMT DEF CmdStart, CmdLock, CmdDie, CmdRec
  <2>6. CASE CmdLoad(c)
    <3>1. disk' = disk
      BY <2>6 DEF CmdLoad
    <3>2. CASE cmd' = [cmd EXCEPT ![c].pc = "end"]
      BY <1>1, <2>3, <2>4, <3>1, <3>2 DEF CmdRec
    <3>3. CASE /\ ~Conflict(cmd[c].op, cmd[c].name, disk)
               /\ snap' = [snap EXCEPT ![c] = Edit(c, disk)]
               /\ cmd' = [cmd EXCEPT ![c].pc = "save"]
      <4>1. /\ cmd'[c].op = cmd[c].op /\ cmd'[c].name = cmd[c].name
            /\ cmd'[c].attrs = cmd[c].attrs /\ snap'[c] = Edit(c, disk)
        BY <1>1, <3>3 DEF CmdRec
      <4>2. Edit(c, disk)' = Edit(c, disk)
        BY <3>1, <4>1 DEF Edit
      <4>3. PlannedCmd(c)'
        BY <3>1, <3>3, <4>1, <4>2 DEF PlannedCmd
      <4>4. QED BY <2>3, <3>1, <4>3
    <3>4. QED BY <2>6, <3>2, <3>3 DEF CmdLoad
  <2>7. CASE CmdSave(c)
    <3>1. file_lock = c /\ cmd'[c].pc # "save"
      BY <1>1, <2>7 DEF CmdSave, Locked, CmdRec
    <3>2. \A u \in Logins : PlannedLogin(u)'
      BY <1>2, <2>1, <3>1, NoOtherPlan, ActorsAssumption, SMT DEF PlannedLogin, Planned, At, Actors
    <3>3. \A d \in Cmds : PlannedCmd(d)'
      BY <2>2, <3>1, NoOtherPlan DEF PlannedCmd, Actors
    <3>4. QED BY <3>2, <3>3 DEF Planned
  <2>8. QED BY <1>4, <2>5, <2>6, <2>7 DEF CmdStep
<1>5. CASE Restart
  <2>1. \A t \in Logins : login'[t].pc \notin {"save", "commit", "insert"}
    BY <1>1, <1>5 DEF Restart, At, LoginRec
  <2>2. \A t \in Logins : PlannedLogin(t)'
    BY <2>1 DEF PlannedLogin, At
  <2>3. \A c \in Cmds : PlannedCmd(c)'
    BY <1>2, <1>5, PlanKept DEF Restart, cmds, Planned
  <2>4. QED BY <2>2, <2>3 DEF Planned
<1>6. CASE UNCHANGED vars
  BY <1>2, <1>6, PlanKept DEF vars, logins, cmds, Planned
<1>7. QED BY <1>3, <1>4, <1>5, <1>6 DEF Next

-----------------------------------------------------------------------------
(* The hashes.                                                             *)

\* What a step does to the users file: nothing, or the holder of the lock
\* publishes its plan.
LEMMA DiskWrites ==
    ASSUME AuthInv, [Next]_vars
    PROVE  \/ disk' = disk
           \/ \E t \in Logins :
                /\ At(t, "save") /\ t \in published'
                /\ Enabled(Name(t), disk) /\ disk[Name(t)].hash = Init_
                /\ disk' = Claimed(t) /\ users' = users
                /\ \A u \in Logins : login'[u].name = login[u].name /\ login'[u].hash = login[u].hash
           \/ \E c \in Cmds :
                /\ c \in published' /\ ~Conflict(cmd[c].op, cmd[c].name, disk)
                /\ cmd[c].pc = "save" /\ disk' = Edit(c, disk) /\ users' = users /\ login' = login
<1> DEFINE P == \/ disk' = disk
                \/ \E t \in Logins :
                     /\ At(t, "save") /\ t \in published'
                     /\ Enabled(Name(t), disk) /\ disk[Name(t)].hash = Init_
                     /\ disk' = Claimed(t) /\ users' = users
                     /\ \A u \in Logins : login'[u].name = login[u].name /\ login'[u].hash = login[u].hash
                \/ \E c \in Cmds :
                     /\ c \in published' /\ ~Conflict(cmd[c].op, cmd[c].name, disk)
                     /\ cmd[c].pc = "save" /\ disk' = Edit(c, disk) /\ users' = users /\ login' = login
<1> SUFFICES P
  OBVIOUS
<1>1. login \in [Logins -> LoginRec]
  BY DEF AuthInv, CacheSound, TypeOK, LoginRec, LoginPc
<1>2. ASSUME NEW t \in Logins, Save(t) PROVE P
  <2>1. CASE disk' = disk
    BY <2>1
  <2>2. CASE disk' = current[t] /\ t \in published'
    <3>1. At(t, "save") /\ Enabled(Name(t), disk) /\ disk[Name(t)].hash = Init_
          /\ disk' = Claimed(t) /\ users' = users
      BY <1>2, <2>2 DEF Save, AuthInv, Planned, PlannedLogin, memory
    <3>2. \A u \in Logins : login'[u].name = login[u].name /\ login'[u].hash = login[u].hash
      BY <1>1, <1>2, SMT DEF Save, Goto, LoginRec
    <3>3. QED BY <2>2, <3>1, <3>2
  <2>3. QED BY <1>2, <2>1, <2>2 DEF Save, Publish
<1>3. ASSUME NEW c \in Cmds, CmdSave(c) PROVE P
  <2>1. CASE disk' = disk
    BY <2>1
  <2>2. CASE disk' = snap[c] /\ c \in published'
    <3>1. /\ ~Conflict(cmd[c].op, cmd[c].name, disk) /\ snap[c] = Edit(c, disk)
          /\ cmd[c].pc = "save" /\ users' = users /\ login' = login
      BY <1>3 DEF CmdSave, AuthInv, Planned, PlannedCmd, memory, logins
    <3>2. QED BY <2>2, <3>1
  <2>3. QED BY <1>3, <2>1, <2>2 DEF CmdSave, Publish
<1>4. CASE \/ \E t \in Logins : \/ Verify(t) \/ Lookup(t) \/ Argon(t) \/ Acquire(t) \/ Write(t)
                                \/ Reload(t) \/ Commit(t) \/ Insert(t) \/ AcquireFails(t)
           \/ \E c \in Cmds : CmdStart(c) \/ CmdLock(c) \/ CmdLoad(c) \/ CmdDie(c)
           \/ Restart \/ UNCHANGED vars
  <2>1. disk' = disk
    BY <1>4 DEF Verify, Lookup, Argon, Acquire, AcquireFails, Write, Reload, Commit, Insert,
       CmdStart, CmdLock, CmdLoad, CmdDie, Restart, vars
  <2>2. QED BY <2>1
<1>5. QED BY <1>2, <1>3, <1>4 DEF Next, LoginStep, CmdStep

\* Memory takes over what the file holds, and nothing else.
LEMMA UsersWrites ==
    ASSUME AuthInv, [Next]_vars
    PROVE  users' = users \/ users' = disk'
<1>1. ASSUME NEW t \in Logins, Commit(t) PROVE users' = disk'
  BY <1>1 DEF Commit, AuthInv, Planned, PlannedLogin
<1>2. ASSUME NEW t \in Logins, Reload(t) PROVE users' = users \/ users' = disk'
  BY <1>2 DEF Reload
<1>3. CASE Restart
  BY <1>3 DEF Restart
<1>4. CASE \/ \E t \in Logins : \/ Verify(t) \/ Lookup(t) \/ Argon(t) \/ Acquire(t) \/ Write(t)
                                \/ Save(t) \/ Insert(t) \/ AcquireFails(t)
           \/ \E c \in Cmds : CmdStart(c) \/ CmdStep(c) \/ CmdDie(c)
           \/ UNCHANGED vars
  BY <1>4 DEF Verify, Lookup, Argon, Acquire, AcquireFails, Write, Save, Insert,
     CmdStart, CmdStep, CmdLock, CmdLoad, CmdSave, CmdDie, memory, vars
<1>5. QED BY <1>1, <1>2, <1>3, <1>4 DEF Next, LoginStep

\* A login's hash is the one it had, the account's in one of the registries,
\* or its own once that is what the file holds.
LEMMA HashWrites ==
    ASSUME AuthInv, [Next]_vars, NEW t \in Logins
    PROVE  \/ login'[t].hash = login[t].hash /\ login'[t].name = login[t].name
           \/ /\ login'[t].name \in DOMAIN users /\ users' = users /\ disk' = disk
              /\ login'[t].hash = users[login'[t].name].hash
           \/ /\ login'[t].name \in DOMAIN disk' /\ disk' = disk
              /\ login'[t].hash = disk[login'[t].name].hash
<1> DEFINE P == \/ login'[t].hash = login[t].hash /\ login'[t].name = login[t].name
                \/ /\ login'[t].name \in DOMAIN users /\ users' = users /\ disk' = disk
                   /\ login'[t].hash = users[login'[t].name].hash
                \/ /\ login'[t].name \in DOMAIN disk' /\ disk' = disk
                   /\ login'[t].hash = disk[login'[t].name].hash
<1> SUFFICES P
  OBVIOUS
<1>1. login \in [Logins -> LoginRec]
  BY DEF AuthInv, CacheSound, TypeOK, LoginRec, LoginPc
<1>2. ASSUME NEW u \in Logins, NEW pc, Goto(u, pc) PROVE P
  BY <1>1, <1>2 DEF Goto, LoginRec
<1>3. ASSUME login'[t] = login[t] PROVE P
  BY <1>3
<1>4. CASE Verify(t)
  <2>1. CASE Goto(t, "refused")
    BY <1>2, <2>1
  <2>2. CASE \E n \in Names, p \in Passwords \union {Empty} :
               /\ Enabled(n, users)
               /\ login' = [login EXCEPT ![t] =
                    [pc |-> IF users[n].hash = Init_ THEN "acquire" ELSE "lookup",
                     name |-> n, password |-> p, hash |-> users[n].hash]]
    <3>1. PICK n \in Names : Enabled(n, users) /\ login'[t].name = n /\ login'[t].hash = users[n].hash
      BY <1>1, <2>2, SMT
    <3>2. QED BY <1>4, <3>1 DEF Verify, Enabled, memory
  <2>3. QED BY <1>4, <2>1, <2>2 DEF Verify
<1>5. CASE Reload(t)
  <2>1. CASE Goto(t, "refused") \/ Goto(t, "save")
    BY <1>2, <2>1
  <2>2. CASE /\ Enabled(Name(t), disk)
             /\ login' = [login EXCEPT ![t].pc = "lookup", ![t].hash = disk[Name(t)].hash]
    BY <1>1, <1>5, <2>2, SMT DEF Reload, Enabled, Name, LoginRec
  <2>3. QED BY <1>5, <2>1, <2>2 DEF Reload
<1>6. CASE Commit(t)
  BY <1>1, <1>6, SMT DEF Commit, AuthInv, Planned, PlannedLogin, Name, LoginRec
<1>7. CASE Lookup(t) \/ Argon(t) \/ Acquire(t) \/ Write(t) \/ Save(t) \/ Insert(t) \/ AcquireFails(t)
  BY <1>2, <1>7 DEF Lookup, Argon, Acquire, AcquireFails, Write, Save, Insert
<1>8. ASSUME NEW u \in Logins, u # t, LoginStep(u) \/ AcquireFails(u) PROVE P
  BY <1>3, <1>8, LoginAlone
<1>9. CASE Restart
  BY <1>1, <1>9 DEF Restart, LoginRec
<1>10. CASE (\E c \in Cmds : CmdStart(c) \/ CmdStep(c) \/ CmdDie(c)) \/ UNCHANGED vars
  <2>1. login' = login
    BY <1>10 DEF CmdStart, CmdStep, CmdLock, CmdLoad, CmdSave, CmdDie, logins, vars
  <2>2. QED BY <1>3, <2>1
<1>11. QED BY <1>4, <1>5, <1>6, <1>7, <1>8, <1>9, <1>10 DEF Next, LoginStep

\* Every hash of the users file is published, after every step.
LEMMA DiskKnown ==
    ASSUME AuthInv, [Next]_vars
    PROVE  disk' \in Registries /\ \A n \in DOMAIN disk' : disk'[n].hash \in Known'
<1> USE DEF AuthInv, CacheSound
<1>1. disk \in Registries /\ \A n \in DOMAIN disk : disk[n].hash \in Known'
  BY KnownStable DEF TypeOK, Circulating
<1>2. ASSUME NEW t \in Logins, t \in published', Enabled(Name(t), disk), disk' = Claimed(t)
      PROVE  disk' \in Registries /\ \A n \in DOMAIN disk' : disk'[n].hash \in Known'
  BY <1>1, <1>2, ClaimedIs, SMT DEF Known
<1>3. ASSUME NEW c \in Cmds, c \in published', ~Conflict(cmd[c].op, cmd[c].name, disk),
             disk' = Edit(c, disk)
      PROVE  disk' \in Registries /\ \A n \in DOMAIN disk' : disk'[n].hash \in Known'
  <2>1. /\ Edit(c, disk) \in Registries
        /\ \A n \in DOMAIN Edit(c, disk) :
             \/ Edit(c, disk)[n].hash \in {c, Init_}
             \/ n \in DOMAIN disk /\ Edit(c, disk)[n].hash = disk[n].hash
    BY <1>1, <1>3, EditRegistry
  <2>2. QED BY <1>1, <1>3, <2>1 DEF Known
<1>4. QED BY <1>1, <1>2, <1>3, DiskWrites

\* Whoever publishes has a password and has left the start behind.
LEMMA SettledStep ==
    ASSUME AuthInv, [Next]_vars
    PROVE  Settled'
<1> USE DEF AuthInv
<1>1. login \in [Logins -> LoginRec] /\ cmd \in [Cmds -> CmdRec]
  BY DEF CacheSound, TypeOK, LoginRec, LoginPc, CmdRec
<1> DEFINE Past == {"commit", "insert", "accepted", "unsaved", "gone"}
           Bound(t) == t \in published \/ InTransaction(t) \/ At(t, "acquire") \/ At(t, "insert")
<1>2. ASSUME NEW t \in Logins, t \in published' PROVE login'[t].pc \in Past
  <2>1. CASE t \in published
    <3>1. login[t].pc \in Past
      BY <2>1 DEF Settled
    <3>2. ASSUME NEW u \in Logins, u # t, LoginStep(u) \/ AcquireFails(u)
          PROVE  login'[t].pc \in Past
      BY <3>1, <3>2, LoginAlone
    <3>3. CASE LoginStep(t) \/ AcquireFails(t)
      BY <1>1, <3>1, <3>3, ZenonT(60) DEF LoginStep, Verify, Lookup, Argon, Acquire, AcquireFails, Write, Reload,
         Save, Commit, Insert, Goto, At, LoginRec
    <3>4. CASE Restart
      BY <1>1, <3>1, <3>4 DEF Restart, At, LoginRec
    <3>5. CASE (\E c \in Cmds : CmdStart(c) \/ CmdStep(c) \/ CmdDie(c)) \/ UNCHANGED vars
      BY <3>1, <3>5 DEF CmdStart, CmdStep, CmdLock, CmdLoad, CmdSave, CmdDie, logins, vars
    <3>6. QED BY <3>2, <3>3, <3>4, <3>5 DEF Next
  <2>2. CASE t \notin published
    <3>1. Save(t)
      BY <1>2, <2>2, PublishedWrites, ActorsAssumption
    <3>2. QED BY <1>1, <3>1 DEF Save, Goto, LoginRec
  <2>3. QED BY <2>1, <2>2
<1>3. ASSUME NEW t \in Logins, Bound(t)' PROVE login'[t].password # Empty
  <2>1. CASE Bound(t)
    <3>1. login[t].password # Empty /\ ~At(t, "new")
      BY <2>1 DEF Settled, InTransaction, At
    <3>2. QED BY <3>1, LoginWrites
  <2>2. CASE ~Bound(t)
    <3>1. Verify(t)
      <4>1. ASSUME NEW u \in Logins, u # t, LoginStep(u) \/ AcquireFails(u) PROVE FALSE
        <5>1. login'[t] = login[t]
          BY <4>1, LoginAlone
        <5>2. t \in published' => t \in published
          BY <4>1 DEF LoginStep, Verify, Lookup, Argon, Acquire, AcquireFails, Write, Reload,
             Save, Commit, Insert, Publish
        <5>3. QED BY <1>3, <2>2, <5>1, <5>2 DEF InTransaction, At
      <4>2. CASE Restart
        BY <1>1, <1>3, <2>2, <4>2 DEF Restart, InTransaction, At, LoginRec
      <4>3. ASSUME NEW c \in Cmds, CmdStart(c) \/ CmdStep(c) \/ CmdDie(c) PROVE FALSE
        <5>1. login' = login /\ (t \in published' => t \in published)
          BY <4>3, ActorsAssumption DEF CmdStart, CmdStep, CmdLock, CmdLoad, CmdSave, CmdDie,
             logins, Publish
        <5>2. QED BY <1>3, <2>2, <5>1 DEF InTransaction, At
      <4>4. CASE UNCHANGED vars
        BY <1>3, <2>2, <4>4 DEF vars, logins, InTransaction, At
      <4>5. CASE Lookup(t) \/ Argon(t)
        BY <1>1, <1>3, <2>2, <4>5, SMT DEF Lookup, Argon, Goto, InTransaction, At, LoginRec
      <4>6. ~(\/ Acquire(t) \/ AcquireFails(t) \/ Write(t) \/ Reload(t) \/ Save(t)
              \/ Commit(t) \/ Insert(t))
        BY <2>2 DEF Acquire, AcquireFails, Write, Reload, Save, Commit, Insert, InTransaction, At
      <4>7. QED BY <4>1, <4>2, <4>3, <4>4, <4>5, <4>6 DEF Next, LoginStep
    <3>2. t \notin published'
      BY <2>2, <3>1 DEF Verify
    <3>3. login'[t].pc \in {"refused", "lookup"} \/ login'[t].password # Empty
      BY <1>1, <3>1, SMT DEF Verify, Goto, LoginRec
    <3>4. QED BY <1>3, <3>2, <3>3 DEF InTransaction, At
  <2>3. QED BY <2>1, <2>2
<1>4. ASSUME NEW c \in Cmds, c \in published' PROVE cmd'[c].pc = "end"
  <2>1. CASE c \in published
    <3>1. cmd[c].pc = "end"
      BY <2>1 DEF Settled
    <3>2. ASSUME NEW d \in Cmds, CmdStart(d) \/ CmdStep(d) \/ CmdDie(d) PROVE cmd'[c] = cmd[c]
      <4>1. d # c
        BY <3>1, <3>2 DEF CmdStart, CmdStep, CmdLock, CmdLoad, CmdSave, CmdDie
      <4>2. QED BY <1>1, <3>2, <4>1 DEF CmdStart, CmdStep, CmdLock, CmdLoad, CmdSave, CmdDie
    <3>3. CASE Restart \/ UNCHANGED vars \/ \E t \in Logins : LoginStep(t) \/ AcquireFails(t)
      BY <3>1, <3>3 DEF LoginStep, Verify, Lookup, Argon, Acquire, AcquireFails, Write, Reload,
         Save, Commit, Insert, Restart, cmds, vars
    <3>4. QED BY <3>1, <3>2, <3>3 DEF Next
  <2>2. CASE c \notin published
    <3>1. CmdSave(c)
      BY <1>4, <2>2, PublishedWrites, ActorsAssumption, SMT
    <3>2. QED BY <1>1, <3>1 DEF CmdSave, CmdRec
  <2>3. QED BY <2>1, <2>2
<1>5. QED BY <1>2, <1>3, <1>4 DEF Settled

\* The cache holds what a verify of the password against its hash would say.
LEMMA CacheStep ==
    ASSUME AuthInv, [Next]_vars
    PROVE  /\ cache' \in Caches
           /\ \A n \in DOMAIN cache' : /\ cache'[n].hash_snapshot \in Known'
                                       /\ Verifies(cache[n].hash_snapshot, cache[n].hmac)'
<1> DEFINE P == /\ cache' \in Caches
                /\ \A n \in DOMAIN cache' : /\ cache'[n].hash_snapshot \in Known'
                                            /\ Verifies(cache[n].hash_snapshot, cache[n].hmac)'
<1> SUFFICES P
  OBVIOUS
<1> USE DEF AuthInv, CacheSound
<1>1. cache \in Caches /\ login \in [Logins -> LoginRec]
  BY DEF TypeOK, Caches, LoginRec, LoginPc
<1>2. \A n \in DOMAIN cache : /\ cache[n].hash_snapshot \in Known
                              /\ Verifies(cache[n].hash_snapshot, cache[n].hmac)
  BY DEF Circulating
<1>3. \A h \in Known : \A p : h \in Known' /\ (Verifies(h, p) => h # Init_ /\ Secret(h)' = p)
  BY KnownStable DEF Verifies
<1>4. ASSUME cache' = cache PROVE P
  BY <1>1, <1>2, <1>3, <1>4 DEF Verifies
<1>5. ASSUME NEW t \in Logins, NEW h \in Known, Verifies(h, login[t].password), CacheInsert(t, h)
      PROVE  P
  <2> DEFINE v == [hash_snapshot |-> h, hmac |-> login[t].password]
  <2>1. login[t].password \in Passwords
    BY <1>5, KnownPassword DEF Verifies
  <2>2. v \in Entry /\ v.hash_snapshot = h /\ v.hmac = login[t].password
    BY <2>1 DEF Entry, Hashes, Known, TypeOK
  <2>3. Name(t) \in Names
    BY <1>1 DEF Name, LoginRec
  <2>4. cache' = Put(cache, Name(t), v)
    BY <1>5 DEF CacheInsert
  <2> HIDE DEF v
  <2>5. /\ cache' \in Caches /\ cache'[Name(t)] = v
        /\ \A n : n \in DOMAIN cache' <=> n \in DOMAIN cache \/ n = Name(t)
        /\ \A n \in DOMAIN cache : n # Name(t) => cache'[n] = cache[n]
    BY <1>1, <2>2, <2>3, <2>4, PutCache, ZenonT(60)
  <2>6. ASSUME NEW n \in DOMAIN cache'
        PROVE  /\ cache'[n].hash_snapshot \in Known'
               /\ Verifies(cache[n].hash_snapshot, cache[n].hmac)'
    <3>1. CASE n = Name(t)
      BY <1>3, <1>5, <2>2, <2>5, <3>1 DEF Verifies
    <3>2. CASE n # Name(t)
      BY <1>2, <1>3, <2>5, <2>6, <3>2, SMT DEF Verifies
    <3>3. QED BY <3>1, <3>2
  <2>7. QED BY <2>5, <2>6
<1>6. ASSUME NEW t \in Logins, Argon(t) PROVE P
  <2>1. login[t].hash \in Known
    BY DEF Circulating
  <2>2. QED BY <1>4, <1>5, <1>6, <2>1 DEF Argon
<1>7. ASSUME NEW t \in Logins, Insert(t) PROVE P
  <2>1. t \in Known
    BY <1>7 DEF Insert, Planned, PlannedLogin, Known
  <2>2. Verifies(t, login[t].password)
    BY ActorsAssumption DEF Verifies, Secret
  <2>3. QED BY <1>5, <1>7, <2>1, <2>2 DEF Insert
<1>8. CASE Restart
  <2>1. cache' = <<>>
    BY <1>8 DEF Restart
  <2>2. QED BY <2>1, EmptyCache, SMT
<1>9. CASE \/ \E t \in Logins : \/ Verify(t) \/ Lookup(t) \/ Acquire(t) \/ Write(t)
                                \/ Reload(t) \/ Save(t) \/ Commit(t) \/ AcquireFails(t)
           \/ \E c \in Cmds : CmdStart(c) \/ CmdStep(c) \/ CmdDie(c)
           \/ UNCHANGED vars
  <2>1. cache' = cache
    BY <1>9 DEF Verify, Lookup, Acquire, AcquireFails, Write, Reload, Save, Commit,
       CmdStart, CmdStep, CmdLock, CmdLoad, CmdSave, CmdDie, memory, vars
  <2>2. QED BY <1>4, <2>1
<1>10. QED BY <1>6, <1>7, <1>8, <1>9 DEF Next, LoginStep

\* Every login is decided on a published hash, every registry holds some.
LEMMA CirculatingStep ==
    ASSUME AuthInv, [Next]_vars
    PROVE  Circulating'
<1> USE DEF AuthInv
<1>1. \A n \in DOMAIN disk' : disk'[n].hash \in Known'
  BY DiskKnown
<1>2. \A n \in DOMAIN users' : users'[n].hash \in Known'
  BY <1>1, UsersWrites, KnownStable DEF Circulating
<1>3. \A n \in DOMAIN cache' : cache'[n].hash_snapshot \in Known'
  BY CacheStep
<1>4. ASSUME NEW t \in Logins PROVE login'[t].hash \in Known'
  <2>1. Known \subseteq Known'
    BY KnownStable
  <2>2. QED BY <1>1, <2>1, HashWrites DEF Circulating
<1>5. QED BY <1>1, <1>2, <1>3, <1>4 DEF Circulating

\* An accepted login was decided on a published hash and its password.
LEMMA AcceptedStep ==
    ASSUME AuthInv, [Next]_vars
    PROVE  AcceptedPersisted'
<1> USE DEF AuthInv
<1>1. login \in [Logins -> LoginRec]
  BY DEF CacheSound, TypeOK, LoginRec, LoginPc
<1> SUFFICES ASSUME NEW t \in Logins, Accepted(t)'
             PROVE  /\ login'[t].hash \in published' \union {Seed}
                    /\ Verifies(login[t].hash, login[t].password)'
  BY DEF AcceptedPersisted
<1>2. ASSUME NEW h \in Known, NEW p, Verifies(h, p), login'[t].hash = h, login'[t].password = p
      PROVE  /\ login'[t].hash \in published' \union {Seed}
             /\ Verifies(login[t].hash, login[t].password)'
  <2>1. h # Init_ /\ h \in published' \union {Seed} /\ Secret(h)' = Secret(h)
    BY <1>2, KnownStable DEF Verifies, Known
  <2>2. QED BY <1>2, <2>1 DEF Verifies
<1>3. CASE login'[t] = login[t]
  <2>1. login[t].hash \in Known /\ Verifies(login[t].hash, login[t].password)
    BY <1>3 DEF AcceptedPersisted, Accepted, At, Known
  <2>2. QED BY <1>2, <1>3, <2>1
<1>4. ASSUME NEW pc, Goto(t, pc)
      PROVE  login'[t].hash = login[t].hash /\ login'[t].password = login[t].password /\ pc = "accepted"
  BY <1>1, <1>4 DEF Goto, Accepted, At, LoginRec
<1>5. login[t].hash \in Known
  BY DEF Circulating
<1>6. CASE Lookup(t)
  <2>1. Goto(t, "accepted") /\ CacheHit(t)
    BY <1>4, <1>6, SMT DEF Lookup
  <2>2. Verifies(login[t].hash, login[t].password)
    BY <2>1, SMT DEF CacheHit, CacheSound
  <2>3. QED BY <1>2, <1>4, <1>5, <2>1, <2>2
<1>7. CASE Argon(t)
  <2>1. Goto(t, "accepted") /\ Verifies(login[t].hash, login[t].password)
    BY <1>4, <1>7, SMT DEF Argon
  <2>2. QED BY <1>2, <1>4, <1>5, <2>1
<1>8. CASE Insert(t)
  <2>1. Goto(t, "accepted") /\ login[t].hash = t
    BY <1>8 DEF Insert, Planned, PlannedLogin
  <2>2. Verifies(login[t].hash, login[t].password)
    BY <2>1, ActorsAssumption DEF Verifies, Secret
  <2>3. QED BY <1>2, <1>4, <1>5, <2>1, <2>2
<1>9. ~(\/ Verify(t) \/ Acquire(t) \/ AcquireFails(t) \/ Write(t) \/ Reload(t) \/ Save(t) \/ Commit(t))
  BY <1>1, SMT DEF Verify, Acquire, AcquireFails, Write, Reload, Save, Commit, Goto, Accepted, At, LoginRec
<1>10. ASSUME NEW u \in Logins, u # t, LoginStep(u) \/ AcquireFails(u)
       PROVE  login'[t] = login[t]
  BY <1>10, LoginAlone
<1>11. CASE Restart \/ (\E c \in Cmds : CmdStart(c) \/ CmdStep(c) \/ CmdDie(c)) \/ UNCHANGED vars
  <2>1. login'[t] = login[t]
    BY <1>1, <1>11, ZenonT(60) DEF Restart, CmdStart, CmdStep, CmdLock, CmdLoad, CmdSave, CmdDie, logins, vars,
       Accepted, At, LoginRec
  <2>2. QED BY <1>3, <2>1
<1>12. QED BY <1>3, <1>6, <1>7, <1>8, <1>9, <1>10, <1>11 DEF Next, LoginStep

\* Until a command changes an account's password or removes it, its logins
\* are all decided on one hash.
LEMMA OneHashStep ==
    ASSUME AuthInv, [Next]_vars
    PROVE  OneHash'
<1> USE DEF AuthInv
<1> SUFFICES ASSUME NEW n \in Names, ~Changed(n)'
             PROVE  /\ n \in DOMAIN users' /\ users'[n].hash # Init_
                         => n \in DOMAIN disk' /\ disk'[n].hash = users'[n].hash
                    /\ \A t \in Logins : login'[t].name = n /\ login'[t].hash # Init_
                         => n \in DOMAIN disk' /\ disk'[n].hash = login'[t].hash
  BY DEF OneHash, Name
<1>1. ~Changed(n)
  <2>1. \A c \in Cmds : c \in published => cmd'[c].name = cmd[c].name /\ cmd'[c].op = cmd[c].op
    BY CmdWrites DEF Settled
  <2>2. published \subseteq published'
    BY KnownStable
  <2>3. QED BY <2>1, <2>2 DEF Changed
<1>2. /\ n \in DOMAIN users /\ users[n].hash # Init_
           => n \in DOMAIN disk /\ disk[n].hash = users[n].hash
      /\ \A t \in Logins : login[t].name = n /\ login[t].hash # Init_
           => n \in DOMAIN disk /\ disk[n].hash = login[t].hash
  BY <1>1 DEF OneHash, Name
<1>3. CASE disk' = disk
  <2>1. n \in DOMAIN users' /\ users'[n].hash # Init_
           => n \in DOMAIN disk' /\ disk'[n].hash = users'[n].hash
    BY <1>2, <1>3, UsersWrites
  <2>2. ASSUME NEW t \in Logins, login'[t].name = n, login'[t].hash # Init_
        PROVE  n \in DOMAIN disk' /\ disk'[n].hash = login'[t].hash
    BY <1>2, <1>3, <2>2, HashWrites
  <2>3. QED BY <2>1, <2>2
<1>4. ASSUME NEW t \in Logins, Enabled(Name(t), disk), disk[Name(t)].hash = Init_,
             disk' = Claimed(t), users' = users,
             \A u \in Logins : login'[u].name = login[u].name /\ login'[u].hash = login[u].hash
      PROVE  /\ n \in DOMAIN users' /\ users'[n].hash # Init_
                  => n \in DOMAIN disk' /\ disk'[n].hash = users'[n].hash
             /\ \A u \in Logins : login'[u].name = n /\ login'[u].hash # Init_
                  => n \in DOMAIN disk' /\ disk'[n].hash = login'[u].hash
  <2>1. CASE n = Name(t)
    BY <1>2, <1>4, <2>1
  <2>2. CASE n # Name(t)
    BY <1>2, <1>4, <2>2, ClaimedIs, SMTT(30) DEF CacheSound
  <2>3. QED BY <2>1, <2>2
<1>5. ASSUME NEW c \in Cmds, c \in published', ~Conflict(cmd[c].op, cmd[c].name, disk),
             cmd[c].pc = "save", disk' = Edit(c, disk), users' = users, login' = login
      PROVE  /\ n \in DOMAIN users' /\ users'[n].hash # Init_
                  => n \in DOMAIN disk' /\ disk'[n].hash = users'[n].hash
             /\ \A t \in Logins : login'[t].name = n /\ login'[t].hash # Init_
                  => n \in DOMAIN disk' /\ disk'[n].hash = login'[t].hash
  <2>1. cmd'[c].name = cmd[c].name /\ cmd'[c].op = cmd[c].op
    BY <1>5, CmdWrites
  <2>2. ~(n = cmd[c].name /\ cmd[c].op \in {"set_password", "remove"})
    BY <1>5, <2>1 DEF Changed
  <2>3. n \in DOMAIN disk => n \in DOMAIN disk' /\ disk'[n].hash = disk[n].hash
    <3>1. TypeOK /\ disk \in Registries
      BY DEF CacheSound, TypeOK
    <3>2. QED BY <1>5, <2>2, <3>1, EditRegistry
  <2>4. QED BY <1>2, <1>5, <2>3
<1>6. QED BY <1>3, <1>4, <1>5, DiskWrites

\* Every step keeps the state well formed.
LEMMA TypeStep ==
    ASSUME AuthInv, [Next]_vars
    PROVE  TypeOK'
<1> USE DEF AuthInv, CacheSound
<1>1. disk' \in Registries /\ users' \in Registries
  BY DiskKnown, UsersWrites DEF TypeOK
<1>2. cache' \in UNION {[S -> Entry] : S \in SUBSET Names}
  BY CacheStep DEF Caches
<1>3. login' \in [Logins -> LoginRec] /\ cmd' \in [Cmds -> CmdRec]
  BY LoginWrites, CmdWrites
<1>4. published' \in SUBSET Actors
  BY KnownStable
<1>5. anonymous' \in BOOLEAN /\ restarts' \in 0..MaxRestarts
  <2>1. anonymous \in BOOLEAN /\ restarts \in 0..MaxRestarts
    BY DEF TypeOK
  <2>2. CASE Restart
    <3>1. anonymous' \in BOOLEAN
      BY <2>2 DEF Restart
    <3>2. restarts' \in 0..MaxRestarts
      BY <2>1, <2>2, RestartsAssumption, SMT DEF Restart
    <3>3. QED BY <3>1, <3>2
  <2>3. CASE ~Restart
    <3>1. anonymous' = anonymous /\ restarts' = restarts
      BY <2>3 DEF Next, LoginStep, Verify, Lookup, Argon, Acquire, AcquireFails, Write, Reload,
         Save, Commit, Insert, CmdStart, CmdStep, CmdLock, CmdLoad, CmdSave, CmdDie, memory, vars
    <3>2. QED BY <2>1, <3>1
  <2>4. QED BY <2>2, <2>3
<1>6. file_lock' \in Actors \union {Nobody} /\ guard' \in Logins \union {Nobody}
  <2>1. file_lock \in Actors \union {Nobody} /\ guard \in Logins \union {Nobody}
    BY DEF TypeOK
  <2>2. ASSUME NEW t \in Logins, LoginStep(t) \/ AcquireFails(t)
        PROVE  /\ file_lock' \in {file_lock, t, Nobody}
               /\ guard' \in {guard, t, Nobody}
    BY <2>2 DEF LoginStep, Verify, Lookup, Argon, Acquire, AcquireFails, Write, Reload,
       Save, Commit, Insert, Release, locks
  <2>3. ASSUME NEW c \in Cmds, CmdStart(c) \/ CmdStep(c) \/ CmdDie(c)
        PROVE  file_lock' \in {file_lock, c, Nobody} /\ guard' = guard
    BY <2>3 DEF CmdStart, CmdStep, CmdLock, CmdLoad, CmdSave, CmdDie, locks
  <2>4. CASE Restart
    BY <2>1, <2>4 DEF Restart
  <2>5. CASE UNCHANGED vars
    BY <2>1, <2>5 DEF vars, locks
  <2>6. QED BY <2>1, <2>2, <2>3, <2>4, <2>5 DEF Next, Actors
<1>7. current' \in [Logins -> Registries]
  <2>1. current \in [Logins -> Registries] /\ TypeOK
    BY DEF TypeOK
  <2>2. ASSUME NEW t \in Logins, Reload(t) PROVE current' \in [Logins -> Registries]
    <3>1. CASE current' = current
      BY <2>1, <3>1
    <3>2. CASE Enabled(Name(t), disk) /\ current' = [current EXCEPT ![t] = Claimed(t)]
      BY <2>1, <3>2, ClaimedIs
    <3>3. QED BY <2>2, <3>1, <3>2 DEF Reload, Claimed
  <2>3. ASSUME NEW t \in Logins, Save(t) \/ Commit(t) PROVE current' \in [Logins -> Registries]
    BY <2>1, <2>3, EmptyRegistry DEF Save, Commit
  <2>4. CASE Restart
    BY <2>4, EmptyRegistry DEF Restart
  <2>5. CASE \/ \E t \in Logins : \/ Verify(t) \/ Lookup(t) \/ Argon(t) \/ Acquire(t)
                                  \/ AcquireFails(t) \/ Write(t) \/ Insert(t)
             \/ \E c \in Cmds : CmdStart(c) \/ CmdStep(c) \/ CmdDie(c)
             \/ UNCHANGED vars
    <3>1. current' = current
      BY <2>5 DEF Verify, Lookup, Argon, Acquire, AcquireFails, Write, Insert,
         CmdStart, CmdStep, CmdLock, CmdLoad, CmdSave, CmdDie, logins, vars
    <3>2. QED BY <2>1, <3>1
  <2>6. QED BY <2>2, <2>3, <2>4, <2>5 DEF Next, LoginStep
<1>8. snap' \in [Cmds -> Registries]
  <2>1. snap \in [Cmds -> Registries] /\ disk \in Registries /\ TypeOK
    BY DEF TypeOK
  <2>2. ASSUME NEW c \in Cmds, CmdLoad(c) PROVE snap' \in [Cmds -> Registries]
    <3>1. CASE snap' = snap
      BY <2>1, <3>1
    <3>2. CASE /\ ~Conflict(cmd[c].op, cmd[c].name, disk)
               /\ snap' = [snap EXCEPT ![c] = Edit(c, disk)]
      BY <2>1, <3>2, EditRegistry
    <3>3. QED BY <2>2, <3>1, <3>2 DEF CmdLoad
  <2>3. ASSUME NEW c \in Cmds, CmdSave(c) \/ CmdDie(c) PROVE snap' \in [Cmds -> Registries]
    BY <2>1, <2>3, EmptyRegistry DEF CmdSave, CmdDie
  <2>4. CASE \/ \E t \in Logins : LoginStep(t) \/ AcquireFails(t)
             \/ \E c \in Cmds : CmdStart(c) \/ CmdLock(c)
             \/ Restart \/ UNCHANGED vars
    <3>1. snap' = snap
      BY <2>4 DEF LoginStep, Verify, Lookup, Argon, Acquire, AcquireFails, Write, Reload, Save,
         Commit, Insert, CmdStart, CmdLock, Restart, cmds, vars
    <3>2. QED BY <2>1, <3>1
  <2>5. QED BY <2>2, <2>3, <2>4 DEF Next, CmdStep
<1>9. QED BY <1>1, <1>2, <1>3, <1>4, <1>5, <1>6, <1>7, <1>8
  DEF TypeOK, LoginRec, LoginPc, CmdRec

-----------------------------------------------------------------------------
\* The server starts on whatever provisioned and init accounts the file holds.
LEMMA AuthInvInit == Init => AuthInv
<1> SUFFICES ASSUME Init PROVE AuthInv
  OBVIOUS
<1>1. PICK h \in StartHashes :
        disk = [n \in DOMAIN h |-> [hash |-> h[n], is_enabled |-> TRUE, attrs |-> {}]]
  BY DEF Init
<1>2. PICK S \in SUBSET Names : h \in [S -> {Init_, Seed}]
  BY StartAssumption
<1>3. disk \in [S -> User] /\ \A n \in DOMAIN disk : disk[n].hash \in {Init_, Seed}
  BY <1>1, <1>2 DEF User, Hashes
<1>4. disk \in Registries /\ users = disk
  BY <1>3 DEF Registries, Init
<1>5. cache \in Caches /\ DOMAIN cache = {}
  <2>1. cache = <<>>
    BY DEF Init
  <2>2. QED BY <2>1, EmptyCache, SMT
<1>6. (CHOOSE n \in Names : TRUE) \in Names
  BY NamesAssumption
<1>7. /\ login \in [Logins -> LoginRec]
      /\ \A t \in Logins : login[t].pc = "new" /\ login[t].hash = Init_
  BY <1>6 DEF Init, LoginRec, LoginPc, Hashes
<1>8. cmd \in [Cmds -> CmdRec] /\ \A c \in Cmds : cmd[c].pc = "new"
  BY <1>6, PasswordsAssumption DEF Init, CmdRec, Ops
<1>9. TypeOK
  <2>1. current \in [Logins -> Registries] /\ snap \in [Cmds -> Registries]
    BY EmptyRegistry DEF Init
  <2>2. anonymous \in BOOLEAN
    BY DEF Init
  <2>3. restarts \in 0..MaxRestarts
    <3>1. restarts = 0
      BY DEF Init
    <3>2. QED BY <3>1, RestartsAssumption, SMT
  <2>4. published \in SUBSET Actors /\ file_lock = Nobody /\ guard = Nobody
    BY DEF Init
  <2>5. QED BY <1>4, <1>5, <1>7, <1>8, <2>1, <2>2, <2>3, <2>4
    DEF TypeOK, LoginRec, LoginPc, CmdRec, Caches
<1>10. CacheSound
  BY <1>5, <1>9 DEF CacheSound
<1>11. AcceptedPersisted /\ Locked /\ Planned
  BY <1>7, <1>8 DEF AcceptedPersisted, Accepted, At, Locked, InTransaction, Planned,
     PlannedLogin, PlannedCmd
<1>12. Circulating
  BY <1>3, <1>4, <1>5, <1>7 DEF Circulating, Known
<1>13. published = {}
  BY DEF Init
<1>14. Settled
  BY <1>7, <1>8, <1>13 DEF Settled, InTransaction, At
<1>15. OneHash
  BY <1>4, <1>7 DEF OneHash
<1>16. QED BY <1>10, <1>11, <1>12, <1>14, <1>15 DEF AuthInv

\* Every step of every login, command and restart preserves it.
LEMMA AuthInvStep == AuthInv /\ [Next]_vars => AuthInv'
<1> SUFFICES ASSUME AuthInv, [Next]_vars PROVE AuthInv'
  OBVIOUS
<1>1. CacheSound'
  BY TypeStep, CacheStep DEF CacheSound
<1>2. AcceptedPersisted' /\ Locked' /\ Planned'
  BY AcceptedStep, LockedStep, PlannedStep
<1>3. Circulating' /\ Settled' /\ OneHash'
  BY CirculatingStep, SettledStep, OneHashStep
<1>4. QED BY <1>1, <1>2, <1>3 DEF AuthInv

\* So it holds at every moment of a run of AuthState and the commands.
LEMMA AuthInvariant == Spec => []AuthInv
BY AuthInvInit, AuthInvStep, PTL DEF Spec

\* verify_with_cache never answers what the Argon2id verify would not: whatever
\* rotates, removes or recreates the account, an entry of the cache holds the
\* password of the very hash it is bound to.
THEOREM CacheIsSound == Spec => []CacheSound
<1>1. AuthInv => CacheSound
  BY DEF AuthInv
<1>2. QED BY <1>1, AuthInvariant, PTL

\* verify and resolve_init accept a login only on a hash the users file has
\* held, with its password, also when a save reports an error or the server
\* restarts in the middle.
THEOREM AcceptedIsPersisted == Spec => []AcceptedPersisted
<1>1. AuthInv => AcceptedPersisted
  BY DEF AuthInv
<1>2. QED BY <1>1, AuthInvariant, PTL

\* Trust on first use, whatever the number of racing logins, commands and
\* restarts: one account is entered with two passwords only after set-password
\* or remove.
THEOREM FirstUseWins == Spec => []FirstWins
<1>1. AuthInv => FirstWins
  <2> SUFFICES ASSUME AuthInv, NEW t \in Logins, NEW u \in Logins,
                      Accepted(t), Accepted(u), Name(t) = Name(u), ~Changed(Name(t))
               PROVE  login[t].password = login[u].password
    BY DEF FirstWins, Changed
  <2>1. Name(t) \in Names
    BY DEF AuthInv, CacheSound, TypeOK, Name
  <2>2. /\ login[t].hash # Init_ /\ Secret(login[t].hash) = login[t].password
        /\ login[u].hash # Init_ /\ Secret(login[u].hash) = login[u].password
    BY DEF AuthInv, AcceptedPersisted, Verifies
  <2>3. login[t].hash = disk[Name(t)].hash /\ login[u].hash = disk[Name(t)].hash
    BY <2>1, <2>2 DEF AuthInv, OneHash
  <2>4. QED BY <2>2, <2>3
<1>2. QED BY <1>1, AuthInvariant, PTL

\* The users file changes only by one login's provisioning or one command's
\* edit of what it holds at that moment, and memory only to what the file holds:
\* no read-modify-write of UsersConfig is lost or buried.
THEOREM TransactionsAreSerial == Spec => Serial
<1> DEFINE Step ==
       /\ disk' # disk =>
            \/ \E t \in Logins :
                 /\ Enabled(Name(t), disk)
                 /\ disk[Name(t)].hash = Init_
                 /\ disk' = Put(disk, Name(t), [disk[Name(t)] EXCEPT !.hash = t])
            \/ \E c \in Cmds : /\ ~Conflict(cmd[c].op, cmd[c].name, disk)
                               /\ disk' = Edit(c, disk)
       /\ users' # users => users' = disk'
<1>1. AuthInv /\ [Next]_vars => [Step]_vars
  <2> SUFFICES ASSUME AuthInv, [Next]_vars PROVE Step
    OBVIOUS
  <2>1. users' # users => users' = disk'
    BY UsersWrites
  <2>2. disk' # disk =>
            \/ \E t \in Logins :
                 /\ Enabled(Name(t), disk)
                 /\ disk[Name(t)].hash = Init_
                 /\ disk' = Put(disk, Name(t), [disk[Name(t)] EXCEPT !.hash = t])
            \/ \E c \in Cmds : /\ ~Conflict(cmd[c].op, cmd[c].name, disk)
                               /\ disk' = Edit(c, disk)
    BY DiskWrites DEF Claimed
  <2>3. QED BY <2>1, <2>2
<1>2. QED BY <1>1, AuthInvariant, PTL DEF Spec, Serial

=============================================================================
