-------------------------- MODULE SupervisorProofs --------------------------
(***************************************************************************)
(* Proofs about Supervisor, for any length of the day, timeout, grace and  *)
(* backoff, and any number of children.                                    *)
(***************************************************************************)
EXTENDS Supervisor, Integers, TLAPS

(* A quotient and a remainder in range are the quotient of the division.   *)
LEMMA DivUnique ==
  ASSUME NEW D \in Nat \ {0}, NEW q \in Nat, NEW r \in 0..(D - 1)
  PROVE  (D * q + r) \div D = q
<1> DEFINE n == D * q + r
           k == n \div D
           m == n % D
<1>1. n \in Nat /\ D * q \in Nat
  OBVIOUS
<1>2. n = D * k + m /\ m \in 0..(D - 1) /\ k \in Int
  BY <1>1
<1> HIDE DEF n, k, m
<1>3. ~(k < q)
  BY <1>1, <1>2 DEF n
<1>4. ~(k > q)
  BY <1>1, <1>2 DEF n
<1> QED BY <1>2, <1>3, <1>4 DEF n, k

(* Every day has its tick.                                                 *)
LEMMA DayHasTick ==
  ASSUME NEW q \in Nat
  PROVE  IsTick(Day * q + At)
<1>1. Day \in Nat \ {0} /\ At \in Nat
  BY SupervisorConstants
<1>2. Day * q = q + (Day - 1) * q /\ (Day - 1) * q \in Nat
  BY <1>1
<1>3. q \in 0..(Day * q + At)
  BY <1>1, <1>2
<1> QED BY <1>3 DEF IsTick

(* The tick the loop sleeps for is one, and lies ahead.                    *)
LEMMA NextTickLater ==
  ASSUME NEW t \in Nat
  PROVE  NextTick(t) \in Nat /\ NextTick(t) > t /\ IsTick(NextTick(t))
<1> DEFINE q == t \div Day
           m == t % Day
<1>1. t = Day * q + m /\ m \in 0..(Day - 1) /\ q \in Nat
  BY SupervisorConstants
<1>2. TickOf(t) = Day * q + At /\ TickOf(t) + Day = Day * (q + 1) + At
  BY <1>1, SupervisorConstants DEF TickOf
<1>3. q + 1 \in Nat /\ Day * q \in Nat /\ At \in Nat /\ Day \in Nat /\ At < Day
  BY <1>1, SupervisorConstants
<1> HIDE DEF q, m
<1>4. IsTick(TickOf(t)) /\ IsTick(TickOf(t) + Day)
  BY <1>1, <1>2, <1>3, DayHasTick
<1>5. TickOf(t) \in Nat /\ TickOf(t) + Day > t
  BY <1>1, <1>2, <1>3
<1> QED BY <1>3, <1>4, <1>5 DEF NextTick

(* A day has one tick.                                                     *)
LEMMA TicksOfOneDay ==
  ASSUME NEW s \in Nat, NEW t \in Nat, IsTick(s), IsTick(t), s \div Day = t \div Day
  PROVE  s = t
<1>1. PICK q \in Nat : s = Day * q + At
  BY DEF IsTick
<1>2. PICK p \in Nat : t = Day * p + At
  BY DEF IsTick
<1>3. s \div Day = q /\ t \div Day = p
  BY <1>1, <1>2, DivUnique, SupervisorConstants
<1> QED BY <1>1, <1>2, <1>3

(* Ranges that start at a number.                                          *)
LEMMA RangeGrows ==
  ASSUME NEW t \in Nat, NEW a \in Nat, NEW b \in Nat, a <= b
  PROVE  \A k \in t..(t + a) : k \in t..(t + b)
OBVIOUS

LEMMA RangeEnd ==
  ASSUME NEW t \in Nat, NEW a \in Nat, NEW k \in Nat, t + a = k
  PROVE  k \in t..(t + a)
OBVIOUS

(* Set ahead by p - o, the clock is ahead of a start by that much more.    *)
LEMMA SetAhead ==
  ASSUME NEW n \in Nat, NEW s \in Nat, NEW l \in Nat, NEW o \in Nat, NEW p \in Nat, n + o = s + l
  PROVE  n + p = s + (l + (p - o))
OBVIOUS

(* Both clocks are numbers.                                                *)
LEMMA UTCKnown ==
  TypeOK => now \in Nat /\ offset \in Nat /\ offset <= MaxAhead /\ UTC \in Nat /\ UTC = now + offset
<1>1. \A x \in 0..MaxAhead : x \in Nat /\ x <= MaxAhead
  BY SupervisorConstants
<1>2. TypeOK => now \in Nat /\ offset \in Nat /\ offset <= MaxAhead
  BY <1>1 DEF TypeOK
<1> QED BY <1>2 DEF UTC

LEMMA UTCKnownNext ==
  (TypeOK => now \in Nat /\ offset \in Nat /\ offset <= MaxAhead /\ UTC \in Nat /\ UTC = now + offset)'
BY UTCKnown, PTL

(* What a step that starts no child has to do for LockLasts: it works for  *)
(* nobody new, and leaves the lock to whom it names, unless it may be      *)
(* taken or the one it names stops.                                        *)
LEMMA LockLastsKept ==
  ASSUME TypeOK, TypeOK', LockLasts, ~SetBack => UTC <= UTC', UNCHANGED spawned,
         \A c \in Children : (Watched(c) /\ child[c] = "working")' =>
           Watched(c) /\ child[c] = "working",
         UNCHANGED lock \/ Available \/ (lock # None /\ lock.owner \notin Inside')
  PROVE  LockLasts'
<1> SUFFICES ASSUME ~SetBack, NEW c \in Children, (Watched(c) /\ child[c] = "working")'
             PROVE  ((HasLock(c) /\ lock.started >= spawned[c]) \/ UTC > spawned[c] + Timeout)'
  BY DEF LockLasts
<1>0. UTC \in Nat /\ UTC' \in Nat /\ spawned[c] \in Nat /\ Timeout \in Nat
  BY UTCKnown, UTCKnownNext, SupervisorConstants DEF TypeOK
<1>1. CASE UTC > spawned[c] + Timeout
  BY <1>0, <1>1
<1>2. CASE HasLock(c) /\ lock.started >= spawned[c]
  <2>1. c \in Inside'
    BY DEF Inside
  <2>2. CASE Available
    <3>1. lock.started \in Nat /\ c # Other
      BY <1>2, LockFileConstants, SupervisorConstants DEF TypeOK, Locks, HasLock
    <3>2. Alive(c)
      BY DEF Alive
    <3>3. UTC > lock.started + Timeout
      BY <1>2, <2>2, <3>1, <3>2 DEF Available, Stale, HasLock
    <3> QED BY <1>0, <1>2, <3>1, <3>3
  <2> QED BY <1>2, <2>1, <2>2 DEF HasLock
<1> QED BY <1>1, <1>2 DEF LockLasts

(* And for TicksApart, if clocks run forward: where it waits for a tick,   *)
(* or has waited for one, that tick is later than all that were started.   *)
LEMMA TicksApartKept ==
  ASSUME TypeOK, TypeOK', TicksApart, UNCHANGED spawned,
         ~SetBack => now <= now' /\ offset <= offset',
         \A c \in Children : child[c] = "new" => child'[c] = "new",
         ~SetBack /\ loop' = "sleep" => AtTickOf(until') /\ now' <= until',
         ~SetBack /\ (loop' \in {"reconcile", "spawn"} \/ (loop' = "woken" /\ ~requested'))
           => AtTickOf(now')
  PROVE  TicksApart'
<1> SUFFICES ASSUME ~SetBack PROVE TicksApart'
  BY DEF TicksApart
<1>1. ASSUME NEW t \in Nat, AtTickOf(t) PROVE AtTickOf(t)'
  <2>1. offset \in Nat /\ offset' \in Nat /\ offset <= offset'
    BY UTCKnown, UTCKnownNext
  <2>2. \A tick \in t..(t + offset) : tick \in t..(t + offset')
    BY <2>1, RangeGrows
  <2> QED BY <1>1, <2>2 DEF AtTickOf, StartedBefore
<1>2. \A c \in Children : child'[c] # "new" =>
        spawned'[c] <= UTC' /\ \E tick \in 0..spawned'[c] : IsTick(tick) /\ spawned'[c] <= tick + MaxAhead
  <2>1. UTC <= UTC'
    BY UTCKnown, UTCKnownNext
  <2> QED BY <2>1, UTCKnown, UTCKnownNext DEF TypeOK, TicksApart
<1>3. OncePerDay'
  BY DEF OncePerDay, TicksApart
<1>4. loop' = "sleep" => AtTickOf(until)' /\ now' <= until'
  BY <1>1 DEF TypeOK
<1>5. loop' \in {"reconcile", "spawn"} \/ (loop' = "woken" /\ ~requested') => AtTickOf(now)'
  BY <1>1 DEF TypeOK
<1> QED BY <1>2, <1>3, <1>4, <1>5 DEF TicksApart

(* A sleep starts that ends at a tick to come.                             *)
LEMMA SleepToTick ==
  ASSUME TypeOK, TicksApart, StartSleep
  PROVE  until' \in Nat /\ until' > now /\ (~SetBack => AtTickOf(until'))
<1>1. now \in Nat /\ offset \in Nat /\ UTC \in Nat /\ UTC = now + offset
  BY UTCKnown
<1>2. PICK tick \in Nat : tick = NextTick(UTC) /\ tick > UTC /\ IsTick(tick)
  BY <1>1, NextTickLater
<1>3. until' = now + (tick - UTC)
  BY <1>2 DEF StartSleep
<1>4. until' \in Nat /\ until' > now /\ until' + offset = tick
  BY <1>1, <1>2, <1>3
<1>5. ASSUME ~SetBack PROVE AtTickOf(until')
  <2>1. StartedBefore(tick)
    BY <1>1, <1>2, <1>5 DEF TicksApart, StartedBefore, TypeOK
  <2>2. tick \in until'..(until' + offset)
    BY <1>1, <1>4, RangeEnd
  <2> QED BY <1>2, <2>1, <2>2 DEF AtTickOf
<1> QED BY <1>4, <1>5

(* A child that starts within MaxAhead of a tick starts on its day.        *)
LEMMA DayOfTick ==
  ASSUME NEW tick \in Nat, IsTick(tick), NEW t \in tick..(tick + MaxAhead)
  PROVE  t \div Day = tick \div Day
<1>1. PICK q \in Nat : tick = Day * q + At
  BY DEF IsTick
<1>2. Day \in Nat \ {0} /\ At \in 0..(Day - 1) /\ MaxAhead \in Nat /\ Day * q \in Nat
  BY SupervisorConstants
<1>3. PICK r \in 0..(Day - 1) : t = Day * q + r
  <2>1. t - Day * q \in 0..(Day - 1)
    BY <1>1, <1>2, SetWithinDay
  <2>2. t = Day * q + (t - Day * q)
    BY <1>1, <1>2
  <2> QED BY <2>1, <2>2
<1>4. tick \div Day = q
  BY <1>1, <1>2, DivUnique
<1>5. t \div Day = q
  BY <1>2, <1>3, DivUnique
<1> QED BY <1>4, <1>5

(* A child that starts at a later tick than all before it starts on        *)
(* another day.                                                            *)
LEMMA SpawnApart ==
  ASSUME TypeOK, TypeOK', TicksApart, NEW c \in Children, Spawn(c)
  PROVE  TicksApart'
<1> SUFFICES ASSUME ~SetBack PROVE TicksApart'
  BY DEF TicksApart
<1>0. now \in Nat /\ offset \in Nat /\ offset <= MaxAhead /\ MaxAhead \in Nat /\ UTC = now + offset
  BY UTCKnown, SupervisorConstants
<1>1. PICK tick \in now..(now + offset) : IsTick(tick) /\ StartedBefore(tick)
  BY DEF Spawn, TicksApart, AtTickOf
<1>2. tick \in Nat /\ tick \in 0..UTC /\ UTC <= tick + MaxAhead
  BY <1>0, <1>1
<1>3. \A d \in Children : child'[d] # "new" => d = c \/ child[d] # "new"
  BY DEF Spawn, TypeOK
<1>4. spawned'[c] = UTC /\ \A d \in Children : d # c => spawned'[d] = spawned[d]
  BY DEF Spawn, TypeOK
<1>5. UTC' = UTC
  BY DEF Spawn, UTC, clocks
<1>6. \A d \in Children : child'[d] # "new" =>
        spawned'[d] <= UTC' /\ \E s \in 0..spawned'[d] : IsTick(s) /\ spawned'[d] <= s + MaxAhead
  <2> SUFFICES ASSUME NEW d \in Children, child'[d] # "new"
               PROVE  spawned'[d] <= UTC' /\ \E s \in 0..spawned'[d] : IsTick(s) /\ spawned'[d] <= s + MaxAhead
    OBVIOUS
  <2>1. CASE d = c
    BY <1>0, <1>1, <1>2, <1>4, <1>5, <2>1
  <2>2. CASE d # c
    BY <1>3, <1>4, <1>5, <2>2 DEF TicksApart
  <2> QED BY <2>1, <2>2
<1>7. ASSUME NEW d \in Children, child[d] # "new"
      PROVE  spawned[d] \div Day # UTC \div Day
  <2>1. PICK s \in 0..spawned[d] : IsTick(s) /\ spawned[d] <= s + MaxAhead
    BY <1>7 DEF TicksApart
  <2>2. s \in Nat /\ spawned[d] \in Nat /\ s < tick
    BY <1>1, <1>2, <1>7, <2>1 DEF StartedBefore, TypeOK
  <2>3. spawned[d] \in s..(s + MaxAhead) /\ UTC \in tick..(tick + MaxAhead)
    BY <1>0, <1>1, <1>2, <2>1, <2>2
  <2>4. spawned[d] \div Day = s \div Day /\ UTC \div Day = tick \div Day
    BY <1>1, <1>2, <2>1, <2>2, <2>3, DayOfTick
  <2> QED BY <1>1, <1>2, <2>1, <2>2, <2>4, TicksOfOneDay
<1>8. OncePerDay'
  <2> SUFFICES ASSUME NEW d \in Children, NEW e \in Children, d # e, child'[d] # "new", child'[e] # "new"
               PROVE  spawned'[d] \div Day # spawned'[e] \div Day
    BY DEF OncePerDay
  <2>1. CASE d = c
    BY <1>3, <1>4, <1>7, <2>1
  <2>2. CASE e = c
    BY <1>3, <1>4, <1>7, <2>2
  <2>3. CASE d # c /\ e # c
    BY <1>3, <1>4, <2>3 DEF TicksApart, OncePerDay
  <2> QED BY <2>1, <2>2, <2>3
<1> QED BY <1>6, <1>8 DEF TicksApart, Spawn

(* Every step preserves the inductive invariant.                           *)
LEMMA LoopInvStep == LoopInv /\ [Next]_vars => LoopInv'
<1> SUFFICES ASSUME LoopInv, [Next]_vars PROVE LoopInv'
  OBVIOUS
<1> USE SupervisorConstants DEF UTC, clocks, loopVars, childVars
<1>0. TypeOK /\ WaitKnown /\ LockLasts /\ OnlyWatched /\ TicksApart
  BY DEF LoopInv
<1>1. CASE CheckFlag
  <2>1. TypeOK'
    BY <1>0, <1>1 DEF CheckFlag, End, TypeOK, Locks, LoopStates, ChildStates
  <2>2. WaitKnown'
    BY <1>0, <1>1, <2>1 DEF CheckFlag, End, TypeOK, WaitKnown
  <2>3. LockLasts'
    BY <1>0, <1>1, <2>1, LockLastsKept DEF CheckFlag, End, Watched, TypeOK
  <2>4. OnlyWatched'
    BY <1>0, <1>1 DEF CheckFlag, End, TypeOK, WaitKnown, OnlyWatched, Alive
  <2>5. TicksApart'
    BY <1>0, <1>1, <2>1, TicksApartKept DEF CheckFlag, End, TypeOK, TicksApart
  <2> QED BY <2>1, <2>2, <2>3, <2>4, <2>5 DEF LoopInv
<1>2. CASE StartWaiting
  <2>1. TypeOK'
    <3>1. CASE StartSleep
      BY <1>0, <3>1, SleepToTick DEF StartSleep, TypeOK, Locks, LoopStates, ChildStates
    <3>2. CASE loop' = "backoff" /\ UNCHANGED <<clocks, failures, requested, current, childVars, other, lock>>
      BY <1>0, <3>2 DEF TypeOK, Locks, LoopStates, ChildStates
    <3> QED BY <1>2, <3>1, <3>2 DEF StartWaiting
  <2>2. WaitKnown'
    BY <1>0, <1>2, <2>1 DEF StartWaiting, StartSleep, TypeOK, WaitKnown
  <2>3. LockLasts'
    <3>1. UNCHANGED <<clocks, spawned, child, current, lock>> /\ loop' \in {"sleep", "backoff"}
      BY <1>2 DEF StartWaiting, StartSleep
    <3> QED BY <1>0, <2>1, <3>1, LockLastsKept DEF Watched, TypeOK
  <2>4. OnlyWatched'
    BY <1>0, <1>2 DEF StartWaiting, StartSleep, TypeOK, WaitKnown, OnlyWatched, Alive
  <2>5. TicksApart'
    BY <1>0, <1>2, <2>1, SleepToTick, TicksApartKept DEF StartWaiting, StartSleep, TypeOK
  <2> QED BY <2>1, <2>2, <2>3, <2>4, <2>5 DEF LoopInv
<1>3. CASE EndBackoff
  <2>1. TypeOK'
    BY <1>0, <1>3, SleepToTick DEF EndBackoff, StartSleep, TypeOK, Locks, LoopStates, ChildStates
  <2>2. WaitKnown'
    BY <1>0, <1>3, <2>1 DEF EndBackoff, StartSleep, TypeOK, WaitKnown
  <2>3. LockLasts'
    BY <1>0, <1>3, <2>1, LockLastsKept DEF EndBackoff, StartSleep, Watched, TypeOK
  <2>4. OnlyWatched'
    BY <1>0, <1>3 DEF EndBackoff, StartSleep, TypeOK, WaitKnown, OnlyWatched, Alive
  <2>5. TicksApart'
    BY <1>0, <1>3, <2>1, SleepToTick, TicksApartKept DEF EndBackoff, StartSleep, TypeOK
  <2> QED BY <2>1, <2>2, <2>3, <2>4, <2>5 DEF LoopInv
<1>4. CASE EndSleep
  <2>1. TypeOK'
    BY <1>0, <1>4 DEF EndSleep, TypeOK, Locks, LoopStates, ChildStates
  <2>2. WaitKnown'
    BY <1>0, <1>4, <2>1 DEF EndSleep, TypeOK, WaitKnown
  <2>3. LockLasts'
    BY <1>0, <1>4, <2>1, LockLastsKept DEF EndSleep, Watched, TypeOK
  <2>4. OnlyWatched'
    BY <1>0, <1>4 DEF EndSleep, TypeOK, WaitKnown, OnlyWatched, Alive
  <2>5. TicksApart'
    BY <1>0, <1>4, <2>1, TicksApartKept DEF EndSleep, TypeOK, TicksApart
  <2> QED BY <2>1, <2>2, <2>3, <2>4, <2>5 DEF LoopInv
<1>5. CASE StartRun
  <2>1. TypeOK'
    BY <1>0, <1>5 DEF StartRun, TypeOK, Locks, LoopStates, ChildStates
  <2>2. WaitKnown'
    BY <1>0, <1>5, <2>1 DEF StartRun, TypeOK, WaitKnown
  <2>3. LockLasts'
    BY <1>0, <1>5, <2>1, LockLastsKept DEF StartRun, Watched, TypeOK
  <2>4. OnlyWatched'
    BY <1>0, <1>5 DEF StartRun, TypeOK, WaitKnown, OnlyWatched, Alive
  <2>5. TicksApart'
    BY <1>0, <1>5, <2>1, TicksApartKept DEF StartRun, TypeOK, TicksApart
  <2> QED BY <2>1, <2>2, <2>3, <2>4, <2>5 DEF LoopInv
<1>6. CASE Reconcile
  <2>1. TypeOK'
    BY <1>0, <1>6 DEF Reconcile, TypeOK, Locks, LoopStates, ChildStates
  <2>2. WaitKnown'
    BY <1>0, <1>6, <2>1 DEF Reconcile, TypeOK, WaitKnown
  <2>3. LockLasts'
    BY <1>0, <1>6, <2>1, LockLastsKept DEF Reconcile, Watched, TypeOK
  <2>4. OnlyWatched'
    BY <1>0, <1>6 DEF Reconcile, TypeOK, WaitKnown, OnlyWatched, Alive
  <2>5. TicksApart'
    BY <1>0, <1>6, <2>1, TicksApartKept DEF Reconcile, TypeOK, TicksApart
  <2> QED BY <2>1, <2>2, <2>3, <2>4, <2>5 DEF LoopInv
<1>7. ASSUME NEW c \in Children, Spawn(c) PROVE LoopInv'
  <2>1. TypeOK'
    BY <1>0, <1>7 DEF Spawn, TypeOK, Locks, LoopStates, ChildStates
  <2>2. WaitKnown'
    BY <1>0, <1>7, <2>1 DEF Spawn, TypeOK, WaitKnown
  <2>3. LockLasts'
    BY <1>0, <1>7, <2>1 DEF Spawn, LockLasts, Watched, TypeOK
  <2>4. OnlyWatched'
    BY <1>0, <1>7 DEF Spawn, TypeOK, WaitKnown, OnlyWatched, Alive
  <2>5. TicksApart'
    BY <1>0, <1>7, <2>1, SpawnApart
  <2> QED BY <2>1, <2>2, <2>3, <2>4, <2>5 DEF LoopInv
<1>8. CASE TakeDeadline
  <2>1. TypeOK'
    BY <1>0, <1>8 DEF TakeDeadline, TypeOK, Locks, LoopStates, ChildStates
  <2>2. WaitKnown'
    BY <1>0, <1>8, <2>1 DEF TakeDeadline, TypeOK, WaitKnown
  <2>3. LockLasts'
    BY <1>0, <1>8, <2>1, LockLastsKept DEF TakeDeadline, Watched, TypeOK
  <2>4. OnlyWatched'
    BY <1>0, <1>8 DEF TakeDeadline, TypeOK, WaitKnown, OnlyWatched, Alive
  <2>5. TicksApart'
    BY <1>0, <1>8, <2>1, TicksApartKept DEF TakeDeadline, TypeOK, TicksApart
  <2> QED BY <2>1, <2>2, <2>3, <2>4, <2>5 DEF LoopInv
<1>9. CASE ObserveExit
  <2>1. TypeOK'
    BY <1>0, <1>9 DEF ObserveExit, FinishRun, TypeOK, Locks, LoopStates, ChildStates
  <2>2. WaitKnown'
    BY <1>0, <1>9, <2>1 DEF ObserveExit, FinishRun, TypeOK, WaitKnown
  <2>3. LockLasts'
    BY <1>0, <1>9, <2>1, LockLastsKept DEF ObserveExit, FinishRun, Watched, TypeOK
  <2>4. OnlyWatched'
    BY <1>0, <1>9 DEF ObserveExit, FinishRun, TypeOK, WaitKnown, OnlyWatched, Alive
  <2>5. TicksApart'
    BY <1>0, <1>9, <2>1, TicksApartKept DEF ObserveExit, FinishRun, TypeOK, TicksApart
  <2> QED BY <2>1, <2>2, <2>3, <2>4, <2>5 DEF LoopInv
<1>10. CASE Interrupt
  <2>1. TypeOK'
    BY <1>0, <1>10 DEF Interrupt, TypeOK, Locks, LoopStates, ChildStates
  <2>2. WaitKnown'
    BY <1>0, <1>10, <2>1 DEF Interrupt, TypeOK, WaitKnown
  <2>3. LockLasts'
    BY <1>0, <1>10, <2>1, LockLastsKept DEF Interrupt, Watched, TypeOK
  <2>4. OnlyWatched'
    BY <1>0, <1>10 DEF Interrupt, TypeOK, WaitKnown, OnlyWatched, Alive
  <2>5. TicksApart'
    BY <1>0, <1>10, <2>1, TicksApartKept DEF Interrupt, TypeOK, TicksApart
  <2> QED BY <2>1, <2>2, <2>3, <2>4, <2>5 DEF LoopInv
<1>11. CASE KillStopping
  <2>1. TypeOK'
    <3>1. child' \in [Children -> ChildStates]
      BY <1>0, <1>11 DEF KillStopping, TypeOK, ChildStates
    <3>2. failures' \in {0, failures + 1}
      BY <1>11 DEF KillStopping, FinishRun
    <3> QED BY <1>0, <1>11, <3>1, <3>2 DEF KillStopping, FinishRun, TypeOK, LoopStates
  <2>2. WaitKnown'
    BY <1>0, <1>11, <2>1 DEF KillStopping, FinishRun, TypeOK, WaitKnown
  <2>3. LockLasts'
    BY <1>0, <1>11, <2>1, LockLastsKept DEF KillStopping, FinishRun, Watched, TypeOK
  <2>4. OnlyWatched'
    BY <1>0, <1>11 DEF KillStopping, FinishRun, TypeOK, WaitKnown, OnlyWatched, Alive
  <2>5. TicksApart'
    BY <1>0, <1>11, <2>1, TicksApartKept DEF KillStopping, FinishRun, Alive, TypeOK, TicksApart
  <2> QED BY <2>1, <2>2, <2>3, <2>4, <2>5 DEF LoopInv
<1>12. CASE KillOverdue
  <2>1. TypeOK'
    BY <1>0, <1>12 DEF KillOverdue, TypeOK, Locks, LoopStates, ChildStates
  <2>2. WaitKnown'
    BY <1>0, <1>12, <2>1 DEF KillOverdue, TypeOK, WaitKnown
  <2>3. LockLasts'
    BY <1>0, <1>12, <2>1, LockLastsKept DEF KillOverdue, Watched, TypeOK
  <2>4. OnlyWatched'
    BY <1>0, <1>12 DEF KillOverdue, TypeOK, WaitKnown, OnlyWatched, Alive
  <2>5. TicksApart'
    BY <1>0, <1>12, <2>1, TicksApartKept DEF KillOverdue, Alive, TypeOK, TicksApart
  <2> QED BY <2>1, <2>2, <2>3, <2>4, <2>5 DEF LoopInv
<1>13. CASE HandleTimeout
  <2>1. TypeOK'
    BY <1>0, <1>13 DEF HandleTimeout, FinishRun, TypeOK, Locks, LoopStates, ChildStates
  <2>2. WaitKnown'
    BY <1>0, <1>13, <2>1 DEF HandleTimeout, FinishRun, TypeOK, WaitKnown
  <2>3. LockLasts'
    BY <1>0, <1>13, <2>1, LockLastsKept DEF HandleTimeout, FinishRun, Watched, TypeOK
  <2>4. OnlyWatched'
    BY <1>0, <1>13 DEF HandleTimeout, FinishRun, TypeOK, WaitKnown, OnlyWatched, Alive
  <2>5. TicksApart'
    BY <1>0, <1>13, <2>1, TicksApartKept DEF HandleTimeout, FinishRun, TypeOK, TicksApart
  <2> QED BY <2>1, <2>2, <2>3, <2>4, <2>5 DEF LoopInv
<1>14. CASE Fail
  <2>1. TypeOK'
    BY <1>0, <1>14 DEF Fail, End, TypeOK, Locks, LoopStates, ChildStates
  <2>2. WaitKnown'
    BY <1>0, <1>14, <2>1 DEF Fail, End, TypeOK, WaitKnown
  <2>3. LockLasts'
    BY <1>0, <1>14, <2>1, LockLastsKept DEF Fail, End, Watched, TypeOK
  <2>4. OnlyWatched'
    BY <1>0, <1>14 DEF Fail, End, TypeOK, WaitKnown, OnlyWatched, Alive
  <2>5. TicksApart'
    BY <1>0, <1>14, <2>1, TicksApartKept DEF Fail, End, TypeOK, TicksApart
  <2> QED BY <2>1, <2>2, <2>3, <2>4, <2>5 DEF LoopInv
<1>15. CASE FailLaunch
  <2>1. TypeOK'
    BY <1>0, <1>15 DEF FailLaunch, TypeOK, WaitKnown, LoopStates
  <2>2. WaitKnown'
    BY <1>0, <1>15, <2>1 DEF FailLaunch, TypeOK, WaitKnown
  <2>3. LockLasts'
    BY <1>0, <1>15, <2>1, LockLastsKept DEF FailLaunch, Watched, TypeOK
  <2>4. OnlyWatched'
    BY <1>0, <1>15 DEF FailLaunch, TypeOK, WaitKnown, OnlyWatched, Alive
  <2>5. TicksApart'
    BY <1>0, <1>15, <2>1, TicksApartKept DEF FailLaunch, TypeOK, TicksApart
  <2> QED BY <2>1, <2>2, <2>3, <2>4, <2>5 DEF LoopInv
<1>16. CASE Request
  <2>1. TypeOK'
    BY <1>0, <1>16 DEF Request, TypeOK, Locks, LoopStates, ChildStates
  <2>2. WaitKnown'
    BY <1>0, <1>16, <2>1 DEF Request, TypeOK, WaitKnown
  <2>3. LockLasts'
    BY <1>0, <1>16, <2>1, LockLastsKept DEF Request, Watched, TypeOK
  <2>4. OnlyWatched'
    BY <1>0, <1>16 DEF Request, TypeOK, WaitKnown, OnlyWatched, Alive
  <2>5. TicksApart'
    BY <1>0, <1>16, <2>1, TicksApartKept DEF Request, TypeOK, TicksApart
  <2> QED BY <2>1, <2>2, <2>3, <2>4, <2>5 DEF LoopInv
<1>17. CASE Kill
  <2>1. TypeOK'
    <3>1. child' \in [Children -> ChildStates] /\ orphans' \subseteq Children
      BY <1>0, <1>17 DEF Kill, TypeOK, ChildStates
    <3> QED BY <1>0, <1>17, <3>1 DEF Kill, TypeOK, LoopStates
  <2>2. WaitKnown'
    BY <1>0, <1>17, <2>1 DEF Kill, TypeOK, WaitKnown
  <2>3. LockLasts'
    BY <1>0, <1>17, <2>1, LockLastsKept DEF Kill, Watched, TypeOK
  <2>4. OnlyWatched'
    BY <1>0, <1>17 DEF Kill, TypeOK, WaitKnown, OnlyWatched, Alive
  <2>5. TicksApart'
    BY <1>0, <1>17, <2>1, TicksApartKept DEF Kill, Alive, TypeOK, TicksApart
  <2> QED BY <2>1, <2>2, <2>3, <2>4, <2>5 DEF LoopInv
<1>18. CASE Restart
  <2>1. TypeOK'
    <3>1. lock' \in Locks \cup {None}
      BY <1>0, <1>18 DEF Restart, TypeOK
    <3> QED BY <1>0, <1>18, <3>1 DEF Restart, TypeOK, LoopStates
  <2>2. WaitKnown'
    BY <1>0, <1>18, <2>1 DEF Restart, TypeOK, WaitKnown
  <2>3. LockLasts'
    BY <1>0, <1>18, <2>1, LockLastsKept DEF Restart, Watched, TypeOK
  <2>4. OnlyWatched'
    BY <1>0, <1>18 DEF Restart, TypeOK, WaitKnown, OnlyWatched, Alive
  <2>5. TicksApart'
    BY <1>0, <1>18, <2>1, TicksApartKept DEF Restart, TypeOK, TicksApart
  <2> QED BY <2>1, <2>2, <2>3, <2>4, <2>5 DEF LoopInv
<1>19. ASSUME NEW c \in Children, ChildStep(c) PROVE LoopInv'
  <2>1. TypeOK'
    <3>1. (\E t \in StartTimes(c) : Take(c, t)) \/ lock' \in {None, lock}
      BY <1>19 DEF ChildStep, Release
    <3>2. StartTimes(c) \subseteq Nat
      BY <1>0 DEF StartTimes, TypeOK
    <3>3. lock' \in Locks \cup {None}
      BY <1>0, <3>1, <3>2 DEF Take, TypeOK, Locks
    <3>4. PICK s \in ChildStates : Become(c, s)
      BY <1>19 DEF ChildStep, ChildStates
    <3> QED BY <1>0, <3>3, <3>4 DEF Become, TypeOK
  <2>2. WaitKnown'
    BY <1>0, <1>19, <2>1 DEF ChildStep, Become, TypeOK, WaitKnown
  <2>3. LockLasts'
    <3>1. CASE child[c] = "starting" /\ Available /\ (\E t \in StartTimes(c) : Take(c, t)) /\ Become(c, "working")
      <4> SUFFICES ASSUME ~SetBack, NEW d \in Children, (Watched(d) /\ child[d] = "working")'
                   PROVE  ((HasLock(d) /\ lock.started >= spawned[d]) \/ UTC > spawned[d] + Timeout)'
        BY DEF LockLasts
      <4>1. CASE d = c
        <5>1. spawned[c] \in Nat /\ spawned[c] <= UTC /\ UTC \in Nat
          BY <1>0, <3>1 DEF TicksApart, TypeOK
        <5>2. PICK t \in StartTimes(c) : Take(c, t)
          BY <3>1
        <5>3. t >= spawned[c] /\ lock' = [owner |-> c, started |-> t] /\ lock' # None
          BY <2>1, <5>1, <5>2, LockFileConstants DEF StartTimes, Take, Locks, TypeOK
        <5> QED BY <3>1, <4>1, <5>3 DEF HasLock, Become
      <4>2. CASE d # c
        <5>1. Watched(d) /\ child[d] = "working" /\ Alive(d) /\ d # Other
          BY <1>0, <3>1, <4>2 DEF Become, Watched, TypeOK, Alive
        <5>2. CASE HasLock(d) /\ lock.started >= spawned[d]
          <6>1. lock.started \in Nat /\ UTC > lock.started + Timeout
            BY <1>0, <3>1, <5>1, <5>2, LockFileConstants DEF Available, Stale, HasLock, TypeOK, Locks
          <6> QED BY <1>0, <3>1, <5>2, <6>1 DEF Become, TypeOK
        <5> QED BY <1>0, <3>1, <5>1, <5>2 DEF LockLasts, Become
      <4> QED BY <4>1, <4>2
    <3>2. CASE child[c] = "working" /\ Release(c) /\ Become(c, "released")
      <4>1. c \notin Inside'
        BY <1>0, <3>2 DEF Become, Inside, TypeOK
      <4>2. UNCHANGED lock \/ (lock # None /\ lock.owner \notin Inside')
        BY <3>2, <4>1 DEF Release
      <4> QED BY <1>0, <2>1, <3>2, <4>2, LockLastsKept DEF Become, Watched, TypeOK
    <3>3. ASSUME NEW s \in {"failed", "succeeded"}, Become(c, s), UNCHANGED lock PROVE LockLasts'
      BY <1>0, <2>1, <3>3, LockLastsKept DEF Become, Watched, TypeOK
    <3> QED BY <1>19, <3>1, <3>2, <3>3 DEF ChildStep
  <2>4. OnlyWatched'
    BY <1>0, <1>19 DEF ChildStep, Become, TypeOK, WaitKnown, OnlyWatched, Alive
  <2>5. TicksApart'
    BY <1>0, <1>19, <2>1, TicksApartKept DEF ChildStep, Become, Alive, TypeOK, TicksApart
  <2> QED BY <2>1, <2>2, <2>3, <2>4, <2>5 DEF LoopInv
<1>20. CASE OtherStep
  <2>1. TypeOK'
    BY <1>0, <1>20 DEF OtherStep, Take, Release, TypeOK, Locks, LoopStates, ChildStates
  <2>2. WaitKnown'
    BY <1>0, <1>20, <2>1 DEF OtherStep, TypeOK, WaitKnown
  <2>3. LockLasts'
    <3>1. UNCHANGED lock \/ Available \/ (lock # None /\ lock.owner \notin Inside')
      BY <1>0, <1>20 DEF OtherStep, Release, Inside
    <3> QED BY <1>0, <1>20, <2>1, <3>1, LockLastsKept DEF OtherStep, Watched, TypeOK
  <2>4. OnlyWatched'
    BY <1>0, <1>20 DEF OtherStep, Release, Take, TypeOK, WaitKnown, OnlyWatched, Alive
  <2>5. TicksApart'
    BY <1>0, <1>20, <2>1, TicksApartKept DEF OtherStep, TypeOK, TicksApart
  <2> QED BY <2>1, <2>2, <2>3, <2>4, <2>5 DEF LoopInv
<1>21. CASE Tick
  <2>1. TypeOK'
    BY <1>0, <1>21 DEF Tick, TypeOK, Locks, LoopStates, ChildStates
  <2>2. WaitKnown'
    BY <1>0, <1>21, <2>1 DEF Tick, Waiting, TypeOK, WaitKnown, Alive
  <2>3. LockLasts'
    BY <1>0, <1>21, <2>1, LockLastsKept DEF Tick, Watched, TypeOK
  <2>4. OnlyWatched'
    BY <1>0, <1>21 DEF Tick, TypeOK, WaitKnown, OnlyWatched, Alive
  <2>5. TicksApart'
    BY <1>0, <1>21, <2>1, TicksApartKept DEF Tick, Waiting, TypeOK, TicksApart
  <2> QED BY <2>1, <2>2, <2>3, <2>4, <2>5 DEF LoopInv
<1>22. CASE SetClock
  <2>1. TypeOK'
    BY <1>0, <1>22 DEF SetClock, TypeOK, Locks, LoopStates, ChildStates
  <2>2. WaitKnown'
    <3>1. UNCHANGED <<now, loop, until, current, spawned>>
      BY <1>22 DEF SetClock
    <3>2. ASSUME ~SetBack, loop \in {"launched", "wait"} PROVE slip' = slip + (offset' - offset)
      BY <1>0, <1>22, <3>2 DEF SetClock, WaitKnown
    <3>3. until \in Nat \/ loop = "backoff"
      BY <1>0 DEF TypeOK
    <3>4. loop \in {"launched", "wait"} => spawned[current] \in Nat
      BY <1>0 DEF TypeOK, WaitKnown
    <3>5. slip \in Nat /\ slip' \in Nat /\ now \in Nat /\ offset \in Nat /\ offset' \in Nat
      BY <1>0, <2>1, UTCKnown, UTCKnownNext DEF TypeOK
    <3>6. ASSUME ~SetBack, loop = "launched" PROVE UTC' = spawned[current] + slip'
      <4>1. now + offset = spawned[current] + slip
        BY <1>0, <3>6 DEF WaitKnown
      <4>2. spawned[current] \in Nat
        BY <3>4, <3>6
      <4>3. now + offset' = spawned[current] + (slip + (offset' - offset))
        BY <3>5, <4>1, <4>2, SetAhead
      <4> QED BY <3>1, <3>2, <3>6, <4>3
    <3>7. ASSUME ~SetBack, loop = "wait" PROVE until + offset' = spawned[current] + Timeout + slip'
      <4>1. until + offset = (spawned[current] + Timeout) + slip
        BY <1>0, <3>7 DEF WaitKnown
      <4>2. until \in Nat /\ spawned[current] + Timeout \in Nat
        BY <3>3, <3>4, <3>7
      <4>3. until + offset' = (spawned[current] + Timeout) + (slip + (offset' - offset))
        BY <3>5, <4>1, <4>2, SetAhead
      <4> QED BY <3>2, <3>7, <4>3
    <3> QED BY <1>0, <3>1, <3>6, <3>7 DEF WaitKnown
  <2>3. LockLasts'
    <3>1. ~SetBack => UTC <= UTC'
      BY <1>0, <1>22, <2>1, UTCKnown, UTCKnownNext DEF SetClock
    <3> QED BY <1>0, <1>22, <2>1, <3>1, LockLastsKept DEF SetClock, Watched
  <2>4. OnlyWatched'
    BY <1>0, <1>22 DEF SetClock, TypeOK, WaitKnown, OnlyWatched, Alive
  <2>5. TicksApart'
    <3>1. ~SetBack => now <= now' /\ offset <= offset'
      BY <1>0, <1>22, <2>1, UTCKnown, UTCKnownNext DEF SetClock
    <3> QED BY <1>0, <1>22, <2>1, <3>1, TicksApartKept DEF SetClock, TicksApart
  <2> QED BY <2>1, <2>2, <2>3, <2>4, <2>5 DEF LoopInv
<1>23. CASE UNCHANGED vars
  <2>1. TypeOK' /\ WaitKnown' /\ OnlyWatched'
    BY <1>0, <1>23 DEF vars, TypeOK, WaitKnown, OnlyWatched, Alive
  <2>2. LockLasts'
    BY <1>0, <1>23, <2>1, LockLastsKept DEF vars, Watched, TypeOK
  <2>3. TicksApart'
    BY <1>0, <1>23, <2>1, TicksApartKept DEF vars, TicksApart, TypeOK
  <2> QED BY <2>1, <2>2, <2>3 DEF LoopInv
<1> QED BY <1>1, <1>2, <1>3, <1>4, <1>5, <1>6, <1>7, <1>8, <1>9, <1>10, <1>11, <1>12, <1>13, <1>14, <1>15, <1>16, <1>17, <1>18, <1>19, <1>20, <1>21, <1>22, <1>23 DEF Next, LoopStep

(* The scheduler's inductive invariant: the loop has a child and a         *)
(* deadline for it, any other living child is an orphan, and, unless UTC   *)
(* is set back, the child has its lock as long as its time lasts, and      *)
(* children start at ticks.                                                *)
THEOREM LoopInvariant == Spec => []LoopInv
<1> SUFFICES ASSUME Init PROVE LoopInv
  BY LoopInvStep, PTL DEF Spec
<1>1. TypeOK
  <2>1. now \in Nat /\ offset \in 0..MaxAhead /\ until \in Nat /\ failures \in Nat /\ slip \in Nat
    BY SupervisorConstants DEF Init
  <2>2. child \in [Children -> ChildStates] /\ spawned \in [Children -> Nat]
    BY DEF Init, ChildStates
  <2>3. loop \in LoopStates /\ requested \in BOOLEAN /\ other \in BOOLEAN
    BY DEF Init, LoopStates
  <2> QED BY <2>1, <2>2, <2>3 DEF Init, TypeOK
<1>2. WaitKnown /\ LockLasts /\ OnlyWatched /\ TicksApart
  BY DEF Init, WaitKnown, LockLasts, Watched, OnlyWatched, TicksApart, OncePerDay, Alive
<1> QED BY <1>1, <1>2 DEF LoopInv

(* A child that works while the loop watches it has its lock, or is past   *)
(* its timeout by no more than its deadline lags behind, whatever time the *)
(* launch takes and however far UTC is set ahead                           *)
(* (streaming_subprocess.py:35-58, archive_lock.py:88-101).                *)
THEOREM WatchedChildHasLockHolds == ASSUME ~SetBack PROVE Spec => []WatchedChildHasLock
<1>1. ASSUME LoopInv PROVE WatchedChildHasLock
  <2> SUFFICES ASSUME NEW c \in Children, Watched(c), child[c] = "working", ~HasLock(c)
               PROVE  UTC \in (spawned[c] + Timeout + 1)..(spawned[c] + Timeout + slip)
    BY DEF WatchedChildHasLock
  <2>1. UTC > spawned[c] + Timeout
    BY <1>1 DEF LoopInv, LockLasts
  <2>2. now \in Nat /\ offset \in Nat /\ UTC = now + offset /\ spawned[c] \in Nat /\ slip \in Nat
        /\ Timeout \in Nat
    BY <1>1, UTCKnown, SupervisorConstants DEF LoopInv, TypeOK
  <2>3. CASE loop = "launched"
    BY <1>1, <2>1, <2>2, <2>3 DEF LoopInv, WaitKnown, Watched
  <2>4. CASE loop = "wait"
    <3>1. until \in Nat /\ now <= until /\ until + offset = spawned[c] + Timeout + slip
      BY <1>1, <2>4 DEF LoopInv, TypeOK, WaitKnown, Watched
    <3> QED BY <2>1, <2>2, <3>1
  <2> QED BY <2>3, <2>4 DEF Watched
<1> QED BY <1>1, LoopInvariant, PTL

(* A loop that ended by itself left no child behind but one whose output   *)
(* it could not relay (streaming_subprocess.py:43-75).                     *)
THEOREM NoChildLeftHolds == Spec => []NoChildLeft
<1>1. LoopInv => NoChildLeft
  BY DEF LoopInv, OnlyWatched, NoChildLeft
<1> QED BY <1>1, LoopInvariant, PTL

(* One child a day (main.py:104, scheduled_archive.py:64-97), unless UTC   *)
(* is set back: children start at ticks, or as much later as the clock was *)
(* set ahead, at most one at each, and a day has one tick.                 *)
THEOREM OncePerDayHolds == ASSUME ~SetBack PROVE Spec => []OncePerDay
<1>1. LoopInv => OncePerDay
  BY DEF LoopInv, TicksApart
<1> QED BY <1>1, LoopInvariant, PTL

-----------------------------------------------------------------------------
(* The lock as a lease                                                     *)

Holder == IF lock = None THEN None ELSE lock.owner
Excused == {p \in Inside : ~InTime(p)}

(* Whoever works in its time is named by the lock.                         *)
LEMMA InTimeHolds == ASSUME NEW p \in Inside, p \notin Excused PROVE Holder = p
BY DEF Holder, Excused, InTime, HasLock

(* A lock that may be taken is free as a lease, and all inside excused.    *)
LEMMA AvailableIsFree ==
  ASSUME TypeOK, Available
  PROVE  Holder \notin Inside \ Excused /\ Excused = Inside
<1>1. None \notin Inside
  BY SupervisorConstants DEF Inside
<1>2. ASSUME Stale PROVE lock.owner \notin Inside \ Excused
  <2>1. lock # None /\ lock.owner \in Children \cup {Other} /\ lock.started \in Nat
    BY <1>2, LockFileConstants DEF Stale, TypeOK, Locks
  <2>2. CASE UTC > lock.started + Timeout
    BY <2>1, <2>2, SupervisorConstants DEF Excused, InTime, UTC, TypeOK
  <2>3. CASE IF lock.owner = Other THEN ~other ELSE ~Alive(lock.owner)
    BY <2>1, <2>3, SupervisorConstants DEF Inside, Alive
  <2> QED BY <1>2, <2>2, <2>3 DEF Stale
<1>3. Holder \notin Inside \ Excused
  BY <1>1, <1>2 DEF Available, Holder, Stale
<1> QED BY <1>3, InTimeHolds DEF Excused

(* The lock is taken by one that did not work before.                      *)
LEMMA LeaseTaken ==
  ASSUME TypeOK, Available, NEW p \in Children \cup {Other}, NEW t \in Nat, Take(p, t),
         UNCHANGED clocks, p \notin Inside, Inside' = Inside \cup {p}
  PROVE  Lease!Acquire(p)
<1>1. Holder \notin Inside \ Excused /\ Excused = Inside
  BY AvailableIsFree
<1>2. lock' = [owner |-> p, started |-> t]
  BY DEF Take
<1>3. lock' # None /\ lock'.owner = p /\ Holder' = p
  <2>1. lock' \in Locks
    BY <1>2 DEF Locks
  <2> QED BY <1>2, <2>1, LockFileConstants DEF Holder
<1>4. \A q \in Inside : ~InTime(q)'
  BY <1>3 DEF InTime, HasLock
<1>5. Excused' = Excused \/ Excused' = Excused \cup {p}
  BY <1>1, <1>4 DEF Excused
<1> QED BY <1>1, <1>3, <1>5 DEF Lease!Acquire, Lease!Free, Holder, Excused

(* Some stop to work; the lock is removed if it names one of them.         *)
LEMMA LeaseLeft ==
  ASSUME NEW users \in SUBSET Inside, Inside' = Inside \ users, UNCHANGED clocks,
         lock' = lock \/ (lock # None /\ lock.owner \in users /\ lock' = None)
  PROVE  Lease!LeaseNext
<1>1. \A p \in Inside \ users : InTime(p)' <=> InTime(p)
  BY DEF InTime, HasLock, UTC, clocks
<1>2. Excused' = Excused \ users
  BY <1>1 DEF Excused
<1>3. Holder' = Holder \/ (Holder \in users /\ Holder' = None)
  BY DEF Holder
<1>4. Lease!Leave(users)
  BY <1>2, <1>3 DEF Lease!Leave, Holder, Excused
<1>5. users \in SUBSET (Children \cup {Other})
  BY DEF Inside
<1> QED BY <1>4, <1>5 DEF Lease!LeaseNext

(* The lock is removed where it may be taken.                              *)
LEMMA LeaseFreed ==
  ASSUME TypeOK, Available, lock' = None, UNCHANGED <<clocks, child, other>>
  PROVE  Lease!LeaseNext
<1>1. Holder \notin Inside \ Excused /\ Excused = Inside
  BY AvailableIsFree
<1>2. Inside' = Inside
  BY DEF Inside
<1>3. Excused' = Inside
  BY <1>2 DEF Excused, InTime, HasLock
<1>4. Lease!Dispose
  BY <1>1, <1>2, <1>3 DEF Lease!Dispose, Lease!Free, Holder, Excused
<1> QED BY <1>4 DEF Lease!LeaseNext

LEMMA LeaseUntouched ==
  ASSUME UNCHANGED <<clocks, child, other, lock>>
  PROVE  UNCHANGED Lease!leaseVars
BY DEF Lease!leaseVars, Inside, InTime, HasLock, UTC, clocks

(* UTC goes on, or is set ahead.                                           *)
LEMMA LeaseExcused ==
  ASSUME TypeOK, TypeOK', UTC <= UTC', UNCHANGED <<child, other, lock>>
  PROVE  Lease!LeaseNext
<1>1. lock' = lock /\ Inside' = Inside
  BY DEF Inside
<1>2. \A p \in Inside : InTime(p)' => InTime(p)
  <2>1. lock # None => lock.started \in Nat
    BY DEF TypeOK, Locks
  <2>2. UTC \in Nat /\ UTC' \in Nat
    BY UTCKnown, UTCKnownNext
  <2> QED BY <1>1, <2>1, <2>2, SupervisorConstants DEF InTime, HasLock
<1>3. Excused \subseteq Excused' /\ Excused' \subseteq Inside
  BY <1>1, <1>2 DEF Excused
<1>4. Lease!Excuse(Excused')
  BY <1>1, <1>3 DEF Lease!Excuse, Excused
<1>5. Excused' \in SUBSET (Children \cup {Other})
  BY <1>3 DEF Inside
<1> QED BY <1>4, <1>5 DEF Lease!LeaseNext

(* Every step is one of the lease, or leaves it as it is.                  *)
LEMMA LeaseStep ==
  ASSUME ~SetBack
  PROVE  LoopInv /\ LoopInv' /\ [Next]_vars => [Lease!LeaseNext]_Lease!leaseVars
<1> SUFFICES ASSUME LoopInv, LoopInv', [Next]_vars
             PROVE  Lease!LeaseNext \/ UNCHANGED Lease!leaseVars
  OBVIOUS
<1> USE DEF childVars
<1>0. TypeOK /\ TypeOK'
  BY DEF LoopInv
<1>1. ASSUME LoopStep PROVE Lease!LeaseNext \/ UNCHANGED Lease!leaseVars
  <2>1. CASE CheckFlag \/ StartWaiting \/ EndBackoff \/ EndSleep \/ StartRun \/ TakeDeadline \/ Interrupt
             \/ ObserveExit
    BY <2>1, LeaseUntouched
       DEF CheckFlag, End, StartWaiting, StartSleep, EndBackoff, EndSleep, StartRun, TakeDeadline,
           Interrupt, ObserveExit, FinishRun
  <2>2. CASE Reconcile
    BY <1>0, <2>2, LeaseFreed, LeaseUntouched DEF Reconcile
  <2>3. ASSUME NEW c \in Children, Spawn(c) PROVE UNCHANGED Lease!leaseVars
    <3>1. Inside' = Inside
      BY <1>0, <2>3 DEF Spawn, Inside, TypeOK
    <3> QED BY <2>3, <3>1 DEF Spawn, Lease!leaseVars, InTime, HasLock, UTC, clocks
  <2>4. CASE KillStopping \/ KillOverdue
    <3>1. child' = [child EXCEPT ![current] = "failed"] \/ child' = child
      BY <1>0, <2>4 DEF KillStopping, KillOverdue, TypeOK
    <3>2. UNCHANGED <<clocks, other, lock>>
      BY <2>4 DEF KillStopping, KillOverdue, FinishRun
    <3>3. current # Other
      BY <1>0, SupervisorConstants DEF TypeOK
    <3>4. Inside' = Inside \ (Inside \cap {current}) \/ Inside' = Inside
      BY <1>0, <3>1, <3>2, <3>3 DEF Inside, TypeOK
    <3>5. CASE Inside' = Inside
      BY <3>2, <3>5 DEF Lease!leaseVars, InTime, HasLock, UTC, clocks
    <3> QED BY <3>2, <3>4, <3>5, LeaseLeft
  <2>5. CASE HandleTimeout
    BY <1>0, <2>5, LeaseFreed, LeaseUntouched DEF HandleTimeout, FinishRun
  <2> QED BY <1>1, <2>1, <2>2, <2>3, <2>4, <2>5 DEF LoopStep
<1>2. CASE Fail \/ FailLaunch \/ Request
  BY <1>2, LeaseUntouched DEF Fail, FailLaunch, Request, End
<1>3. CASE Kill
  <2>1. UNCHANGED <<clocks, other, lock>>
    BY <1>3 DEF Kill
  <2>2. CASE child' = child
    BY <2>1, <2>2, LeaseUntouched
  <2>3. CASE child' = [c \in Children |-> IF Alive(c) THEN "failed" ELSE child[c]]
    <3>1. Inside' = Inside \ (Inside \cap Children)
      BY <2>1, <2>3, SupervisorConstants DEF Inside, Alive
    <3> QED BY <2>1, <3>1, LeaseLeft
  <2> QED BY <1>3, <2>2, <2>3 DEF Kill
<1>4. CASE Restart
  BY <1>0, <1>4, LeaseFreed, LeaseUntouched DEF Restart
<1>5. CASE OtherStep
  <2>1. CASE ~other /\ Available /\ Take(Other, UTC)
    <3>1. Other \notin Inside /\ Inside' = Inside \cup {Other}
      BY <1>5, <2>1, SupervisorConstants DEF OtherStep, Inside
    <3>2. Lease!Acquire(Other)
      <4>1. UTC \in Nat
        BY <1>0, UTCKnown
      <4> QED BY <1>0, <1>5, <2>1, <3>1, <4>1, LeaseTaken DEF OtherStep
    <3> QED BY <3>2 DEF Lease!LeaseNext
  <2>2. CASE other /\ (Release(Other) \/ UNCHANGED lock)
    <3>1. Inside' = Inside \ {Other} /\ {Other} \in SUBSET Inside
      BY <1>5, <2>2, SupervisorConstants DEF OtherStep, Inside
    <3>2. lock' = lock \/ (lock # None /\ lock.owner \in {Other} /\ lock' = None)
      BY <2>2 DEF Release
    <3> QED BY <1>5, <3>1, <3>2, LeaseLeft DEF OtherStep
  <2> QED BY <1>5, <2>1, <2>2 DEF OtherStep
<1>6. CASE Tick \/ SetClock
  <2>1. UTC <= UTC'
    BY <1>0, <1>6, UTCKnown, UTCKnownNext DEF Tick, SetClock
  <2> QED BY <1>0, <1>6, <2>1, LeaseExcused DEF Tick, SetClock
<1>7. ASSUME NEW c \in Children, ChildStep(c)
      PROVE  Lease!LeaseNext \/ UNCHANGED Lease!leaseVars
  <2>0. UNCHANGED clocks /\ other' = other /\ c # Other
    BY <1>7, SupervisorConstants DEF ChildStep, Become
  <2>1. ASSUME child[c] = "starting", Available, NEW t \in StartTimes(c), Take(c, t), Become(c, "working")
        PROVE  Lease!LeaseNext
    <3>1. c \notin Inside /\ Inside' = Inside \cup {c}
      BY <1>0, <2>0, <2>1 DEF Become, Inside, TypeOK
    <3>2. Lease!Acquire(c)
      <4>1. t \in Nat
        BY <1>0, UTCKnown DEF StartTimes, TypeOK
      <4> QED BY <1>0, <2>0, <2>1, <3>1, <4>1, LeaseTaken
    <3> QED BY <3>2 DEF Lease!LeaseNext
  <2>2. CASE child[c] = "working" /\ Release(c) /\ Become(c, "released")
    <3>1. Inside' = Inside \ {c} /\ {c} \in SUBSET Inside
      BY <1>0, <2>0, <2>2 DEF Become, Inside, TypeOK
    <3>2. lock' = lock \/ (lock # None /\ lock.owner \in {c} /\ lock' = None)
      BY <2>2 DEF Release
    <3> QED BY <2>0, <3>1, <3>2, LeaseLeft
  <2>3. ASSUME NEW s \in {"failed", "succeeded"}, Become(c, s), UNCHANGED lock
        PROVE  Lease!LeaseNext
    <3>1. Inside' = Inside \ (Inside \cap {c})
      BY <1>0, <2>0, <2>3 DEF Become, Inside, TypeOK
    <3> QED BY <2>0, <2>3, <3>1, LeaseLeft
  <2> QED BY <1>7, <2>1, <2>2, <2>3 DEF ChildStep
<1>8. CASE UNCHANGED vars
  BY <1>8, LeaseUntouched DEF vars
<1> QED BY <1>1, <1>2, <1>3, <1>4, <1>5, <1>6, <1>7, <1>8 DEF Next

(* The scheduler, its children and a manual cleanup take, keep and give    *)
(* back the lock as the lease allows, whoever is killed, unless UTC is set *)
(* back                                                                    *)
(* (scheduled_archive.py:184, 226, archive_lock.py:32-59).                 *)
THEOREM ChildrenObeyLease == ASSUME ~SetBack PROVE Spec => ObeysLease
<1>1. Init => Lease!LeaseInit
  BY DEF Init, Lease!LeaseInit, Inside
<1>2. LoopInv /\ LoopInv' /\ [Next]_vars => [Lease!LeaseNext]_Lease!leaseVars
  BY LeaseStep
<1> QED BY <1>1, <1>2, LoopInvariant, PTL DEF Spec, ObeysLease, Lease!LeaseSpec
=============================================================================
