-------------------------- MODULE StoreWriterProofs --------------------------
(***************************************************************************)
(* Proofs about StoreWriter, for any number of callers, closers, CLI       *)
(* processes and crashes, and any channel capacity.                        *)
(*                                                                         *)
(* StoreInv is the inductive invariant.  The argument: whoever has read    *)
(* the file and not yet written it back holds the PathLock (Locked), so    *)
(* the file is part of every snapshot somebody will publish (Fresh) and a  *)
(* publish only ever adds; an op is answered once (OpsOnce), so what is in *)
(* the file or in memory was acknowledged (Landed), and what was           *)
(* acknowledged stays in one of the two (AckedKept).                       *)
(***************************************************************************)
EXTENDS StoreWriter, TLAPS

(* The leaves are first-order and go to Zenon; those about numbers, records *)
(* or sequences say SMT.                                                   *)
USE Zenon

\* A fresh actor beside an empty file satisfies the inductive invariant.
LEMMA StoreInvInit == Init => StoreInv
<1> SUFFICES ASSUME Init PROVE StoreInv
  OBVIOUS
<1> USE DisjointAssumption, BoundsAssumption DEF Init, NoJob, All, publishing
<1>1. chan \in Seq(Angel \union Closers) /\ Len(chan) = 0
  BY SMT
<1>2. job \in Job
  BY DEF Job
<1>3. TypeOK
  <2>1. chan \in Seq(Angel \union Closers) /\ Len(chan) <= ChannelCap
    BY <1>1, SMT
  <2>2. crashes \in 0..MaxCrashes
    BY SMT
  <2>3. /\ loaded \in BOOLEAN /\ dirty \in BOOLEAN /\ tail \in BOOLEAN
        /\ handle \in BOOLEAN
    OBVIOUS
  <2>4. QED BY <1>2, <2>1, <2>2, <2>3 DEF TypeOK
<1>4. OpsOnce
  BY <1>1, SMT DEF OpsOnce
<1>5. Locked /\ Fresh /\ Landed /\ AckedKept
  BY DEF Locked, Fresh, Landed, AckedKept
<1>6. QED BY <1>3, <1>4, <1>5 DEF StoreInv

\* try_start_publish leaves a well-formed publish job and backlog flag.
LEMMA TryStartType ==
    ASSUME NEW b \in BOOLEAN, NEW d, NEW l, NEW s \in SUBSET All, NEW r,
           NEW t \in BOOLEAN, job \in Job, TryStartPublish(b, d, l, s, r, t)
    PROVE  job' \in Job /\ tail' \in BOOLEAN
<1> DEFINE start == ~b /\ d /\ l /\ r # "future"
<1>1. CASE start
  <2>1. job' = [snapshot |-> s, result |-> "running"] /\ tail' = FALSE
    BY <1>1 DEF TryStartPublish
  <2>2. QED BY <2>1 DEF Job
<1>2. CASE ~start
  <2>1. job' \in {job, NoJob} /\ tail' = t
    BY <1>2 DEF TryStartPublish
  <2>2. NoJob \in Job
    BY DEF NoJob, Job
  <2>3. QED BY <2>1, <2>2
<1>3. QED BY <1>1, <1>2

\* Every step preserves the types.
LEMMA TypeStep ==
    ASSUME StoreInv, [Next]_vars
    PROVE  TypeOK'
<1> USE DisjointAssumption, BoundsAssumption DEF StoreInv, callers, memory,
           retry, clis, ghosts, publishing, All, TypeOK, OpsOnce
<1>1. CASE Recv
  BY <1>1, SMT DEF Recv
<1>2. CASE Acquire
  BY <1>2, SMT DEF Acquire, Refuse
<1>3. CASE Load
  <2>1. loaded' \in BOOLEAN /\ store' \in SUBSET All
    BY <1>3 DEF Load
  <2>2. ack' \in [Angel -> {"new", "sent", "ok", "err", "gone"}]
    BY <1>3, SMTT(30) DEF Load, Refuse
  <2>3. QED BY <1>3, <2>1, <2>2, SMT DEF Load, Refuse
<1>4. CASE Mutate
  <2>1. store' \in SUBSET All
    BY <1>4 DEF Mutate
  <2>2. job' \in Job /\ tail' \in BOOLEAN
    BY <1>4, <2>1, TryStartType DEF Mutate
  <2>3. QED BY <1>4, <2>1, <2>2 DEF Mutate
<1>5. CASE MutatePanics
  BY <1>5, ZenonT(60) DEF MutatePanics, Refuse
<1>6. CASE PublishDone
  <2>1. store' \in SUBSET All /\ dirty' \in BOOLEAN /\ loaded' \in BOOLEAN
    BY <1>6 DEF PublishDone, RecordFailure
  <2>2. job' \in Job /\ tail' \in BOOLEAN
    BY <1>6, <2>1, TryStartType DEF PublishDone
  <2>3. QED BY <1>6, <2>1, <2>2 DEF PublishDone, RecordFailure
<1>7. CASE RetryTimer
  <2>1. job' \in {[snapshot |-> store, result |-> "running"], NoJob}
    BY <1>7 DEF RetryTimer, TryStartPublish
  <2>2. job' \in Job
    BY <2>1, SMT DEF Job, NoJob
  <2>3. tail' \in BOOLEAN
    BY <1>7 DEF RetryTimer, TryStartPublish
  <2>4. QED BY <1>7, <2>2, <2>3 DEF RetryTimer
<1>8. CASE Drained
  BY <1>8, SMT DEF Drained
<1>9. CASE Flush
  BY <1>9 DEF Flush, Save, RecordFailure
<1>10. CASE Exit
  <2>1. chan' \in Seq(Angel \union Closers) /\ Len(chan') <= ChannelCap
    BY <1>10, SMT DEF Exit
  <2>2. ack' \in [Angel -> {"new", "sent", "ok", "err", "gone"}]
    BY <1>10 DEF Exit
  <2>3. closed' \in [Closers -> {"new", "sent", "replied", "dropped", "late",
                               "ok", "err", "gone"}]
    BY <1>10 DEF Exit
  <2>4. QED BY <1>10, <2>1, <2>2, <2>3 DEF Exit
<1>11. CASE PublishJob
  <2>1. job' \in Job
    BY <1>11, ZenonT(60) DEF PublishJob, Job
  <2>2. disk' \in SUBSET All
    BY <1>11 DEF PublishJob, Save, Job
  <2>3. QED BY <1>11, <2>1, <2>2, SMT DEF PublishJob
<1>12. CASE Elapse
  BY <1>12, SMT DEF Elapse
<1>13. CASE Crash
  <2>1. job' \in Job
    BY <1>13 DEF Crash, Job, NoJob
  <2>2. chan' \in Seq(Angel \union Closers) /\ Len(chan') <= ChannelCap
    BY <1>13, SMT DEF Crash
  <2>3. crashes' \in 0..MaxCrashes
    BY <1>13, SMT DEF Crash
  <2>4. ack' \in [Angel -> {"new", "sent", "ok", "err", "gone"}]
    BY <1>13 DEF Crash
  <2>5. closed' \in [Closers -> {"new", "sent", "replied", "dropped", "late",
                               "ok", "err", "gone"}]
    BY <1>13 DEF Crash
  <2>6. lost' \in SUBSET Angel
    BY <1>13 DEF Crash
  <2>7. QED BY <1>13, <2>1, <2>2, <2>3, <2>4, <2>5, <2>6 DEF Crash
<1>14. ASSUME NEW m \in Angel, Send(m) PROVE TypeOK'
  <2>1. chan' \in Seq(Angel \union Closers) /\ Len(chan') <= ChannelCap
    BY <1>14, SMT, SMTT(30) DEF Send
  <2>2. ack' \in [Angel -> {"new", "sent", "ok", "err", "gone"}]
    BY <1>14, SMT, SMTT(30) DEF Send
  <2>3. QED BY <1>14, <2>1, <2>2, SMT DEF Send
<1>15. ASSUME NEW c \in Closers, CloseSend(c) PROVE TypeOK'
  <2>1. chan' \in Seq(Angel \union Closers) /\ Len(chan') <= ChannelCap
    <3>1. CASE chan' = Append(chan, c) /\ Len(chan) < ChannelCap
      BY <3>1, SMT
    <3>2. CASE UNCHANGED chan
      BY <3>2
    <3>3. QED BY <1>15, <3>1, <3>2 DEF CloseSend
  <2>2. closed' \in [Closers -> {"new", "sent", "replied", "dropped", "late",
                               "ok", "err", "gone"}]
    BY <1>15, SMT DEF CloseSend
  <2>3. QED BY <1>15, <2>1, <2>2, SMT DEF CloseSend
<1>16. ASSUME NEW c \in Closers, CloseJoin(c) PROVE TypeOK'
  <2>1. closed' \in [Closers -> {"new", "sent", "replied", "dropped", "late",
                               "ok", "err", "gone"}]
    BY <1>16 DEF CloseJoin
  <2>2. handle' \in BOOLEAN
    BY <1>16 DEF CloseJoin
  <2>3. QED BY <1>16, <2>1, <2>2, SMT DEF CloseJoin
<1>17. ASSUME NEW m \in Cli, CliLock(m) PROVE TypeOK'
  BY <1>17, SMTT(30) DEF CliLock
<1>18. ASSUME NEW m \in Cli, CliLoad(m) PROVE TypeOK'
  BY <1>18, SMTT(30) DEF CliLoad
<1>19. ASSUME NEW m \in Cli, CliSave(m) PROVE TypeOK'
  BY <1>19, SMTT(30) DEF CliSave, Save
<1>20. ASSUME NEW m \in Cli, CliEnd(m) PROVE TypeOK'
  BY <1>20, SMT, SMTT(30) DEF CliEnd
<1>21. CASE UNCHANGED vars
  BY <1>21, SMTT(30) DEF vars
<1>22. QED BY <1>1, <1>2, <1>3, <1>4, <1>5, <1>6, <1>7, <1>8, <1>9, <1>10,
      <1>11, <1>12, <1>13, <1>14, <1>15, <1>16, <1>17, <1>18, <1>19, <1>20,
      <1>21
      DEF Next, Caller, Actor, CliStep

\* Only Send, CloseSend and Recv move ops; each is answered where it ends.
LEMMA OpsStep ==
    ASSUME StoreInv, [Next]_vars
    PROVE  OpsOnce'
<1> USE DisjointAssumption, BoundsAssumption DEF StoreInv, callers, memory,
           retry, clis, ghosts, publishing, All, TypeOK, OpsOnce
<1>1. CASE Recv
  <2>1. /\ 1 \in 1..Len(chan) /\ op' = chan[1]
        /\ Len(chan') = Len(chan) - 1
        /\ \A i \in 1..Len(chan') : i + 1 \in 1..Len(chan) /\ chan'[i] = chan[i + 1]
    BY <1>1, SMT DEF Recv
  <2>2. op' \in Angel \union Closers
    BY <2>1, SMT
  <2>3. op' \in Angel <=> pc' \in {"acquire", "load", "mutate"}
    BY <1>1, <2>2 DEF Recv
  <2>4. ASSUME NEW i \in 1..Len(chan')
        PROVE  /\ chan'[i] \in Angel => ack'[chan'[i]] = "sent"
               /\ chan'[i] # op'
               /\ \A j \in 1..Len(chan') : i # j => chan'[i] # chan'[j]
    BY <1>1, <2>1, SMTT(30) DEF Recv
  <2>5. op' \in Angel => ack'[op'] = "sent"
    BY <1>1, <2>1, SMT, SMTT(30) DEF Recv
  <2>6. ASSUME NEW c \in Closers, closed'[c] = "new"
        PROVE  c # op' /\ \A i \in 1..Len(chan') : chan'[i] # c
    BY <1>1, <2>1, <2>6, SMT DEF Recv
  <2>7. QED BY <2>3, <2>4, <2>5, <2>6
<1>2. CASE Acquire
  BY <1>2, SMT DEF Acquire, Refuse
<1>3. CASE Load
  BY <1>3, SMT, SMTT(30) DEF Load, Refuse
<1>4. CASE Mutate
  BY <1>4, SMT DEF Mutate, TryStartPublish, NoJob
<1>5. CASE MutatePanics
  BY <1>5, SMT, SMTT(30) DEF MutatePanics, Refuse
<1>6. CASE PublishDone
  BY <1>6, SMT DEF PublishDone, TryStartPublish, RecordFailure, NoJob
<1>7. CASE RetryTimer
  BY <1>7 DEF RetryTimer, TryStartPublish, NoJob
<1>8. CASE Drained
  BY <1>8, ZenonT(60) DEF Drained
<1>9. CASE Flush
  BY <1>9 DEF Flush, Save, RecordFailure
<1>10. CASE Exit
  BY <1>10, SMT DEF Exit
<1>11. CASE PublishJob
  BY <1>11, SMT DEF PublishJob, Save
<1>12. CASE Elapse
  BY <1>12 DEF Elapse
<1>13. CASE Crash
  BY <1>13, SMT DEF Crash, NoJob
<1>14. ASSUME NEW m \in Angel, Send(m) PROVE OpsOnce'
  <2>1. CASE UNCHANGED chan
    BY <1>14, <2>1, SMT DEF Send
  <2>2. CASE chan' = Append(chan, m)
    <3>1. /\ Len(chan') = Len(chan) + 1 /\ chan'[Len(chan) + 1] = m
          /\ \A i \in 1..Len(chan) : chan'[i] = chan[i]
      BY <2>2, SMT, SMTT(30)
    <3>2. m # op /\ \A i \in 1..Len(chan) : chan[i] # m
      BY <1>14, SMT DEF Send
    <3>3. ASSUME NEW i \in 1..Len(chan')
          PROVE  /\ chan'[i] \in Angel => ack'[chan'[i]] = "sent"
                 /\ chan'[i] # op'
                 /\ \A j \in 1..Len(chan') : i # j => chan'[i] # chan'[j]
      <4>1. ack'[m] = "sent" /\ \A v \in Angel : v # m => ack'[v] = ack[v]
        BY <1>14, <2>2, SMT DEF Send
      <4>2. \A k \in 1..Len(chan') : k \in 1..Len(chan) \/ k = Len(chan) + 1
        BY <3>1, SMT
      <4>3. op' = op
        BY <1>14 DEF Send
      <4>4. chan'[i] \in Angel => ack'[chan'[i]] = "sent"
        BY <3>1, <3>2, <4>1, <4>2, SMT, SMTT(30)
      <4>5. chan'[i] # op'
        BY <3>1, <3>2, <4>2, <4>3
      <4>6. ASSUME NEW j \in 1..Len(chan'), i # j PROVE chan'[i] # chan'[j]
        <5>1. CASE i \in 1..Len(chan) /\ j \in 1..Len(chan)
          BY <3>1, <4>6, <5>1, ZenonT(60)
        <5>2. CASE i = Len(chan) + 1 \/ j = Len(chan) + 1
          BY <3>1, <3>2, <4>2, <4>6, <5>2
        <5>3. QED BY <4>2, <5>1, <5>2
      <4>7. QED BY <4>4, <4>5, <4>6
    <3>4. ASSUME NEW c \in Closers, closed'[c] = "new"
          PROVE  c # op' /\ \A i \in 1..Len(chan') : chan'[i] # c
      BY <1>14, <3>1, <3>4, SMT, SMTT(30) DEF Send
    <3>5. /\ op' \in Angel <=> pc' \in {"acquire", "load", "mutate"}
          /\ op' \in Angel => ack'[op'] = "sent"
      BY <1>14, <3>2, SMT DEF Send
    <3>6. QED BY <3>3, <3>4, <3>5
  <2>3. QED BY <1>14, <2>1, <2>2 DEF Send
<1>15. ASSUME NEW c \in Closers, CloseSend(c) PROVE OpsOnce'
  <2>1. CASE UNCHANGED chan
    BY <1>15, <2>1, SMT DEF CloseSend
  <2>2. CASE chan' = Append(chan, c)
    <3>1. /\ Len(chan') = Len(chan) + 1 /\ chan'[Len(chan) + 1] = c
          /\ \A i \in 1..Len(chan) : chan'[i] = chan[i]
      BY <2>2, SMT
    <3>2. c # op /\ \A i \in 1..Len(chan) : chan[i] # c
      BY <1>15 DEF CloseSend
    <3>3. ASSUME NEW i \in 1..Len(chan')
          PROVE  /\ chan'[i] \in Angel => ack'[chan'[i]] = "sent"
                 /\ chan'[i] # op'
                 /\ \A j \in 1..Len(chan') : i # j => chan'[i] # chan'[j]
      <4>1. \A k \in 1..Len(chan') : k \in 1..Len(chan) \/ k = Len(chan) + 1
        BY <3>1, SMT
      <4>2. op' = op /\ ack' = ack
        BY <1>15 DEF CloseSend
      <4>3. chan'[i] \in Angel => ack'[chan'[i]] = "sent"
        BY <3>1, <4>1, <4>2
      <4>4. chan'[i] # op'
        BY <3>1, <3>2, <4>1, <4>2
      <4>5. \A j \in 1..Len(chan') : i # j => chan'[i] # chan'[j]
        BY <3>1, <3>2, <4>1, SMT, SMTT(30)
      <4>6. QED BY <4>3, <4>4, <4>5
    <3>4. ASSUME NEW x \in Closers, closed'[x] = "new"
          PROVE  x # op' /\ \A i \in 1..Len(chan') : chan'[i] # x
      BY <1>15, <2>2, <3>1, <3>4, SMT DEF CloseSend
    <3>5. /\ op' \in Angel <=> pc' \in {"acquire", "load", "mutate"}
          /\ op' \in Angel => ack'[op'] = "sent"
      BY <1>15 DEF CloseSend
    <3>6. QED BY <3>3, <3>4, <3>5
  <2>3. QED BY <1>15, <2>1, <2>2 DEF CloseSend
<1>16. ASSUME NEW c \in Closers, CloseJoin(c) PROVE OpsOnce'
  BY <1>16, ZenonT(60) DEF CloseJoin
<1>17. ASSUME NEW m \in Cli, CliLock(m) PROVE OpsOnce'
  BY <1>17, ZenonT(60) DEF CliLock
<1>18. ASSUME NEW m \in Cli, CliLoad(m) PROVE OpsOnce'
  BY <1>18, ZenonT(60) DEF CliLoad
<1>19. ASSUME NEW m \in Cli, CliSave(m) PROVE OpsOnce'
  BY <1>19, ZenonT(60) DEF CliSave, Save
<1>20. ASSUME NEW m \in Cli, CliEnd(m) PROVE OpsOnce'
  BY <1>20 DEF CliEnd
<1>21. CASE UNCHANGED vars
  BY <1>21, ZenonT(60) DEF vars
<1>22. QED BY <1>1, <1>2, <1>3, <1>4, <1>5, <1>6, <1>7, <1>8, <1>9, <1>10,
      <1>11, <1>12, <1>13, <1>14, <1>15, <1>16, <1>17, <1>18, <1>19, <1>20,
      <1>21, ZenonT(60)
      DEF Next, Caller, Actor, CliStep

\* The lock changes hands only when it is free.
LEMMA LockedStep ==
    ASSUME StoreInv, [Next]_vars
    PROVE  Locked'
<1> USE DisjointAssumption, BoundsAssumption DEF StoreInv, callers, memory,
           retry, clis, ghosts, publishing, All, TypeOK, Locked, OpsOnce,
           Fresh, Job
<1>1. CASE Recv
  BY <1>1, SMT, SMTT(30) DEF Recv
<1>2. CASE Acquire
  BY <1>2, SMT, SMTT(30) DEF Acquire, Refuse
<1>3. CASE Load
  BY <1>3, SMT DEF Load, Refuse
<1>4. CASE Mutate
  BY <1>4 DEF Mutate, TryStartPublish, NoJob
<1>5. CASE MutatePanics
  BY <1>5 DEF MutatePanics, Refuse
<1>6. CASE PublishDone
  <2>1. CASE job.result = "ok" /\ tail
    BY <1>6, <2>1, ZenonT(60) DEF PublishDone, TryStartPublish, NoJob
  <2>2. CASE job.result = "ok" /\ ~tail
    BY <1>6, <2>2, SMT DEF PublishDone, TryStartPublish, NoJob
  <2>3. CASE job.result = "err"
    BY <1>6, <2>3, SMT DEF PublishDone, TryStartPublish, RecordFailure, NoJob
  <2>4. QED BY <1>6, <2>1, <2>2, <2>3 DEF PublishDone, RecordFailure
<1>7. CASE RetryTimer
  BY <1>7 DEF RetryTimer, TryStartPublish, NoJob
<1>8. CASE Drained
  BY <1>8 DEF Drained
<1>9. CASE Flush
  BY <1>9, SMTT(30) DEF Flush, Save, RecordFailure
<1>10. CASE Exit
  BY <1>10, SMT DEF Exit
<1>11. CASE PublishJob
  BY <1>11, SMT DEF PublishJob, Save
<1>12. CASE Elapse
  BY <1>12 DEF Elapse
<1>13. CASE Crash
  BY <1>13, SMT DEF Crash, NoJob
<1>14. ASSUME NEW m \in Angel, Send(m) PROVE Locked'
  BY <1>14 DEF Send
<1>15. ASSUME NEW c \in Closers, CloseSend(c) PROVE Locked'
  BY <1>15 DEF CloseSend
<1>16. ASSUME NEW c \in Closers, CloseJoin(c) PROVE Locked'
  BY <1>16 DEF CloseJoin
<1>17. ASSUME NEW m \in Cli, CliLock(m) PROVE Locked'
  BY <1>17, SMTT(30) DEF CliLock
<1>18. ASSUME NEW m \in Cli, CliLoad(m) PROVE Locked'
  BY <1>18, SMT, SMTT(30) DEF CliLoad
<1>19. ASSUME NEW m \in Cli, CliSave(m) PROVE Locked'
  BY <1>19, SMT, SMTT(30) DEF CliSave, Save
<1>20. ASSUME NEW m \in Cli, CliEnd(m) PROVE Locked'
  BY <1>20, SMT DEF CliEnd
<1>21. CASE UNCHANGED vars
  BY <1>21 DEF vars
<1>22. QED BY <1>1, <1>2, <1>3, <1>4, <1>5, <1>6, <1>7, <1>8, <1>9, <1>10,
      <1>11, <1>12, <1>13, <1>14, <1>15, <1>16, <1>17, <1>18, <1>19, <1>20,
      <1>21, ZenonT(60)
      DEF Next, Caller, Actor, CliStep

\* Nobody writes the file while the actor holds a snapshot of it.
LEMMA FreshStep ==
    ASSUME StoreInv, [Next]_vars
    PROVE  Fresh'
<1> USE DisjointAssumption, BoundsAssumption DEF StoreInv, callers, memory,
           retry, clis, ghosts, publishing, All, TypeOK, Locked, OpsOnce,
           Fresh, Job
<1>1. CASE Recv
  BY <1>1 DEF Recv
<1>2. CASE Acquire
  BY <1>2 DEF Acquire, Refuse
<1>3. CASE Load
  BY <1>3, SMT, SMTT(30) DEF Load, Refuse
<1>4. CASE Mutate
  BY <1>4, SMT DEF Mutate, TryStartPublish, NoJob
<1>5. CASE MutatePanics
  BY <1>5 DEF MutatePanics, Refuse
<1>6. CASE PublishDone
  <2>1. CASE job.result = "ok" /\ tail
    BY <1>6, <2>1, SMTT(30) DEF PublishDone, TryStartPublish, NoJob
  <2>2. CASE job.result = "ok" /\ ~tail
    BY <1>6, <2>2, SMT, SMTT(30) DEF PublishDone, TryStartPublish, NoJob
  <2>3. CASE job.result = "err"
    BY <1>6, <2>3, SMT, SMTT(30) DEF PublishDone, TryStartPublish, RecordFailure, NoJob
  <2>4. QED BY <1>6, <2>1, <2>2, <2>3 DEF PublishDone, RecordFailure
<1>7. CASE RetryTimer
  BY <1>7, SMT DEF RetryTimer, TryStartPublish, NoJob
<1>8. CASE Drained
  BY <1>8 DEF Drained
<1>9. CASE Flush
  BY <1>9, SMT DEF Flush, Save, RecordFailure
<1>10. CASE Exit
  BY <1>10 DEF Exit
<1>11. CASE PublishJob
  BY <1>11, SMT DEF PublishJob, Save
<1>12. CASE Elapse
  BY <1>12 DEF Elapse
<1>13. CASE Crash
  BY <1>13 DEF Crash, NoJob
<1>14. ASSUME NEW m \in Angel, Send(m) PROVE Fresh'
  BY <1>14 DEF Send
<1>15. ASSUME NEW c \in Closers, CloseSend(c) PROVE Fresh'
  BY <1>15 DEF CloseSend
<1>16. ASSUME NEW c \in Closers, CloseJoin(c) PROVE Fresh'
  BY <1>16 DEF CloseJoin
<1>17. ASSUME NEW m \in Cli, CliLock(m) PROVE Fresh'
  BY <1>17 DEF CliLock
<1>18. ASSUME NEW m \in Cli, CliLoad(m) PROVE Fresh'
  BY <1>18 DEF CliLoad
<1>19. ASSUME NEW m \in Cli, CliSave(m) PROVE Fresh'
  BY <1>19, SMT DEF CliSave, Save
<1>20. ASSUME NEW m \in Cli, CliEnd(m) PROVE Fresh'
  BY <1>20 DEF CliEnd
<1>21. CASE UNCHANGED vars
  BY <1>21 DEF vars
<1>22. QED BY <1>1, <1>2, <1>3, <1>4, <1>5, <1>6, <1>7, <1>8, <1>9, <1>10,
      <1>11, <1>12, <1>13, <1>14, <1>15, <1>16, <1>17, <1>18, <1>19, <1>20,
      <1>21, ZenonT(60)
      DEF Next, Caller, Actor, CliStep

\* Mutate is the only step that adds a mutation of the angel to memory.
LEMMA LandedStep ==
    ASSUME StoreInv, [Next]_vars
    PROVE  Landed'
<1> USE DisjointAssumption, BoundsAssumption DEF StoreInv, callers, memory,
           retry, clis, ghosts, publishing, All, TypeOK, Locked, OpsOnce,
           Fresh, Landed, Job
<1>1. CASE Recv
  BY <1>1 DEF Recv
<1>2. CASE Acquire
  BY <1>2, SMT, SMTT(30) DEF Acquire, Refuse
<1>3. CASE Load
  BY <1>3, SMTT(30) DEF Load, Refuse
<1>4. CASE Mutate
  BY <1>4, SMT, SMTT(30) DEF Mutate, TryStartPublish, NoJob
<1>5. CASE MutatePanics
  BY <1>5, SMT DEF MutatePanics, Refuse
<1>6. CASE PublishDone
  BY <1>6 DEF PublishDone, TryStartPublish, RecordFailure, NoJob
<1>7. CASE RetryTimer
  BY <1>7 DEF RetryTimer, TryStartPublish, NoJob
<1>8. CASE Drained
  BY <1>8 DEF Drained
<1>9. CASE Flush
  BY <1>9 DEF Flush, Save, RecordFailure
<1>10. CASE Exit
  BY <1>10 DEF Exit
<1>11. CASE PublishJob
  BY <1>11, SMT DEF PublishJob, Save
<1>12. CASE Elapse
  BY <1>12 DEF Elapse
<1>13. CASE Crash
  BY <1>13 DEF Crash, NoJob
<1>14. ASSUME NEW m \in Angel, Send(m) PROVE Landed'
  BY <1>14, SMT DEF Send
<1>15. ASSUME NEW c \in Closers, CloseSend(c) PROVE Landed'
  BY <1>15 DEF CloseSend
<1>16. ASSUME NEW c \in Closers, CloseJoin(c) PROVE Landed'
  BY <1>16 DEF CloseJoin
<1>17. ASSUME NEW m \in Cli, CliLock(m) PROVE Landed'
  BY <1>17 DEF CliLock
<1>18. ASSUME NEW m \in Cli, CliLoad(m) PROVE Landed'
  BY <1>18 DEF CliLoad
<1>19. ASSUME NEW m \in Cli, CliSave(m) PROVE Landed'
  BY <1>19, SMT DEF CliSave, Save
<1>20. ASSUME NEW m \in Cli, CliEnd(m) PROVE Landed'
  BY <1>20 DEF CliEnd
<1>21. CASE UNCHANGED vars
  BY <1>21, ZenonT(60) DEF vars
<1>22. QED BY <1>1, <1>2, <1>3, <1>4, <1>5, <1>6, <1>7, <1>8, <1>9, <1>10,
      <1>11, <1>12, <1>13, <1>14, <1>15, <1>16, <1>17, <1>18, <1>19, <1>20,
      <1>21, ZenonT(60)
      DEF Next, Caller, Actor, CliStep

\* A snapshot is dropped only once it is in the file, by Exit or by Crash.
LEMMA AckedStep ==
    ASSUME StoreInv, [Next]_vars
    PROVE  AckedKept'
<1> USE DisjointAssumption, BoundsAssumption DEF StoreInv, callers, memory,
           retry, clis, ghosts, publishing, All, TypeOK, Locked, OpsOnce,
           Fresh, AckedKept, Job
<1>1. CASE Recv
  BY <1>1 DEF Recv
<1>2. CASE Acquire
  BY <1>2, SMT, SMTT(30) DEF Acquire, Refuse
<1>3. CASE Load
  BY <1>3, SMTT(30) DEF Load, Refuse
<1>4. CASE Mutate
  BY <1>4, SMT, SMTT(30) DEF Mutate, TryStartPublish, NoJob
<1>5. CASE MutatePanics
  BY <1>5, SMT DEF MutatePanics, Refuse
<1>6. CASE PublishDone
  BY <1>6 DEF PublishDone, TryStartPublish, RecordFailure, NoJob
<1>7. CASE RetryTimer
  BY <1>7 DEF RetryTimer, TryStartPublish, NoJob
<1>8. CASE Drained
  BY <1>8 DEF Drained
<1>9. CASE Flush
  BY <1>9 DEF Flush, Save, RecordFailure
<1>10. CASE Exit
  BY <1>10 DEF Exit
<1>11. CASE PublishJob
  BY <1>11 DEF PublishJob, Save
<1>12. CASE Elapse
  BY <1>12 DEF Elapse
<1>13. CASE Crash
  BY <1>13 DEF Crash, NoJob
<1>14. ASSUME NEW m \in Angel, Send(m) PROVE AckedKept'
  BY <1>14, SMT DEF Send
<1>15. ASSUME NEW c \in Closers, CloseSend(c) PROVE AckedKept'
  BY <1>15 DEF CloseSend
<1>16. ASSUME NEW c \in Closers, CloseJoin(c) PROVE AckedKept'
  BY <1>16 DEF CloseJoin
<1>17. ASSUME NEW m \in Cli, CliLock(m) PROVE AckedKept'
  BY <1>17 DEF CliLock
<1>18. ASSUME NEW m \in Cli, CliLoad(m) PROVE AckedKept'
  BY <1>18, ZenonT(60) DEF CliLoad
<1>19. ASSUME NEW m \in Cli, CliSave(m) PROVE AckedKept'
  BY <1>19, SMT DEF CliSave, Save
<1>20. ASSUME NEW m \in Cli, CliEnd(m) PROVE AckedKept'
  BY <1>20 DEF CliEnd
<1>21. CASE UNCHANGED vars
  BY <1>21 DEF vars
<1>22. QED BY <1>1, <1>2, <1>3, <1>4, <1>5, <1>6, <1>7, <1>8, <1>9, <1>10,
      <1>11, <1>12, <1>13, <1>14, <1>15, <1>16, <1>17, <1>18, <1>19, <1>20,
      <1>21, ZenonT(60)
      DEF Next, Caller, Actor, CliStep

\* Every step of the actor, its handles and the CLI keeps the invariant.
LEMMA StoreInvStep ==
    ASSUME StoreInv, [Next]_vars
    PROVE  StoreInv'
BY TypeStep, OpsStep, LockedStep, FreshStep, LandedStep, AckedStep DEF StoreInv

-----------------------------------------------------------------------------
(* The results.                                                            *)

\* The writer's invariant holds in every execution, for any number of callers,
\* closers, CLI processes and crashes, and any channel capacity.
THEOREM StoreInvHolds == Spec => []StoreInv
<1>1. Init => StoreInv
  BY StoreInvInit
<1>2. StoreInv /\ [Next]_vars => StoreInv'
  BY StoreInvStep
<1>3. QED BY <1>1, <1>2, PTL DEF Spec

\* No acknowledged mutation is dropped while the angel lives, until its final
\* flush reports an error.
THEOREM AckedSafe == Spec => []AckedKept
<1>1. StoreInv => AckedKept
  BY DEF StoreInv
<1>2. QED BY <1>1, StoreInvHolds, PTL

\* A mutation that apply reported as failed is neither in memory nor on disk.
THEOREM FailedAbsent == Spec => []FailedNeverLands
<1>1. StoreInv => FailedNeverLands
  BY DEF StoreInv, Landed, FailedNeverLands
<1>2. QED BY <1>1, StoreInvHolds, PTL

\* The file and the retained snapshot implement UpdateLog: angel and CLI never
\* bury each other's updates.
THEOREM Refinement == Spec => LogSpec
<1> DEFINE step == [Log!Next]_(<<disk, store \ disk>>)
<1>1. Init => Log!Init
  BY DEF Init, Log!Init
<1>2. StoreInv /\ [Next]_vars => step
  <2> SUFFICES ASSUME StoreInv, [Next]_vars PROVE step
    OBVIOUS
  <2> USE DEF StoreInv, publishing, All
  <2>1. CASE Mutate
    <3>1. /\ op \in Angel /\ op \notin disk /\ op \notin store
          /\ disk' = disk /\ store' = store \union {op}
      BY <2>1 DEF Mutate, OpsOnce, Landed, clis, ghosts
    <3>2. Log!Absorb(op)
      BY <3>1 DEF Log!Absorb
    <3>3. QED BY <3>1, <3>2 DEF Log!Next
  <2>2. CASE PublishJob
    <3>1. store' = store /\ disk' \in {disk, job.snapshot}
      BY <2>2 DEF PublishJob, Save, memory
    <3>2. CASE disk' = disk
      BY <3>1, <3>2
    <3>3. CASE disk' = job.snapshot
      <4> DEFINE s == job.snapshot \ disk
      <4>1. disk \subseteq job.snapshot /\ job.snapshot \subseteq store
        BY <2>2 DEF PublishJob, Fresh
      <4>2. s \in SUBSET (store \ disk)
        BY <4>1
      <4>3. Log!Publish(s)
        BY <3>1, <3>3, <4>1 DEF Log!Publish
      <4>4. QED BY <4>2, <4>3 DEF Log!Next
    <3>4. QED BY <3>1, <3>2, <3>3
  <2>3. CASE Flush
    <3>1. store' = store /\ disk' \in {disk, store}
      BY <2>3 DEF Flush, Save, memory
    <3>2. CASE disk' = disk
      BY <3>1, <3>2
    <3>3. CASE disk' = store
      <4> DEFINE s == store \ disk
      <4>1. disk \subseteq store
        BY <2>3 DEF Flush, Fresh, Locked
      <4>2. s \in SUBSET (store \ disk)
        OBVIOUS
      <4>3. Log!Publish(s)
        BY <3>1, <3>3, <4>1 DEF Log!Publish
      <4>4. QED BY <4>2, <4>3 DEF Log!Next
    <3>4. QED BY <3>1, <3>2, <3>3
  <2>4. CASE Exit \/ Crash
    <3>1. store' = {} /\ disk' = disk
      BY <2>4 DEF Exit, Crash
    <3>2. Log!Lose
      BY <3>1 DEF Log!Lose
    <3>3. QED BY <3>2 DEF Log!Next
  <2>5. ASSUME NEW m \in Cli, CliSave(m) PROVE step
    <3>1. store = {} /\ store' = {}
      BY <2>5, DisjointAssumption DEF CliSave, Locked, Fresh, memory
    <3>2. disk' = disk \/ disk' = disk \union {m}
      BY <2>5 DEF CliSave, Save, Locked
    <3>3. CASE disk' = disk
      BY <3>1, <3>3
    <3>4. CASE disk' = disk \union {m}
      <4>1. Log!Commit(m)
        BY <3>1, <3>4 DEF Log!Commit
      <4>2. QED BY <4>1 DEF Log!Next
    <3>5. QED BY <3>2, <3>3, <3>4
  <2>6. CASE PublishDone
    <3>1. disk' = disk
      BY <2>6 DEF PublishDone
    <3>2. store' = store \/ (store' = {} /\ store \subseteq disk)
      <4>1. CASE job.result = "ok" /\ ~tail
        BY <2>6, <4>1 DEF PublishDone, Fresh
      <4>2. CASE job.result = "ok" /\ tail
        BY <2>6, <4>2 DEF PublishDone
      <4>3. CASE job.result = "err"
        BY <2>6, <4>3 DEF PublishDone, memory
      <4>4. QED BY <2>6, <4>1, <4>2, <4>3 DEF PublishDone
    <3>3. (store \ disk)' = store \ disk
      BY <3>1, <3>2
    <3>4. QED BY <3>1, <3>3
  <2>7. CASE Load
    <3>1. disk' = disk /\ store' \in {store, disk} /\ store = {}
      BY <2>7 DEF Load, Locked, Fresh, memory
    <3>2. QED BY <3>1
  <2>8. ASSUME disk' = disk, store' = store PROVE step
    BY <2>8
  <2>9. CASE \/ Recv \/ Acquire \/ MutatePanics \/ RetryTimer \/ Drained
             \/ Elapse \/ Caller \/ UNCHANGED vars
    BY <2>8, <2>9 DEF Recv, Acquire, MutatePanics, RetryTimer, Drained,
          Elapse, Caller, Send, CloseSend, CloseJoin, vars, memory
  <2>10. ASSUME NEW m \in Cli, CliLock(m) \/ CliLoad(m) \/ CliEnd(m) PROVE step
    BY <2>8, <2>10 DEF CliLock, CliLoad, CliEnd, memory
  <2>11. QED BY <2>1, <2>2, <2>3, <2>4, <2>5, <2>6, <2>7, <2>9, <2>10
            DEF Next, Actor, CliStep
<1>3. QED BY <1>1, <1>2, StoreInvHolds, PTL DEF Spec, LogSpec, Log!Spec

=============================================================================
