------------------------------- MODULE TickProof -------------------------------
(* Theorems about TickLoop, for every tick time, catch-up and threshold. *)
EXTENDS TickLoop, TLAPS

\* When the next tick is due, seen from each point of the loop.
DueInv ==
  /\ pc \in {"tick", "check", "restart"} => now >= NextStart
  /\ pc \in {"sleep", "nap"} => NextStart <= now + TickTime
  /\ pc = "nap" => nap <= NextStart

LoopInv == TickTypeOK /\ DueInv

\* The product is kept out of the arithmetic of the steps.
LEMMA NextStartNat ==
  ASSUME TickTypeOK
  PROVE  NextStart \in Nat
BY TickAssumption DEF TickAssumption, TickTypeOK, NextStart

\* Counting one more tick moves the due time by one TickTime.
LEMMA NextStartMoves ==
  ASSUME TickTypeOK, base' = base, ticks' = ticks + 1
  PROVE  NextStart' = NextStart + TickTime
<1>1. TickTime \in Nat /\ ticks \in Nat /\ base \in Nat
  BY TickAssumption DEF TickAssumption, TickTypeOK
<1>2. TickTime * (ticks + 1) = TickTime * ticks + TickTime
  BY <1>1
<1>3. TickTime * ticks \in Nat
  BY <1>1
<1>4. QED
  BY <1>1, <1>2, <1>3 DEF NextStart

\* Rounding down to whole milliseconds never makes a nap longer.
LEMMA HalfFits ==
  ASSUME NEW x \in Nat, NEW u \in Nat \ {0}
  PROVE  u * (x \div (2 * u)) \in Nat /\ u * (x \div (2 * u)) <= x
<1> DEFINE d == 2 * u
           q == x \div d
<1>1. d \in Nat /\ d > 0 /\ u \in Nat
  OBVIOUS
<1>2. q \in Nat /\ d * q <= x
  <2> HIDE DEF d
  <2>1. x \div d \in Nat /\ x = d * (x \div d) + (x % d) /\ x % d \in 0 .. d - 1
    BY <1>1, SMTT(20)
  <2>2. QED
    BY <1>1, <2>1 DEF d
<1>3. u * q \in Nat /\ d * q = u * q + u * q
  BY <1>1, <1>2
<1>4. QED
  <2> HIDE DEF q, d
  <2>1. u * q <= x
    BY <1>1, <1>2, <1>3
  <2>2. QED
    BY <1>3, <2>1 DEF q, d

LEMMA LoopInit == TickInit => LoopInv
BY TickAssumption DEF TickInit, LoopInv, TickTypeOK, DueInv, NextStart, TickAssumption, Burst

\* The history keeps its length.
LEMMA RememberBounded ==
  ASSUME TickTypeOK
  PROVE  /\ Remember(Append(recent, now)) \in Seq(Nat)
         /\ Len(Remember(Append(recent, now))) <= Burst + 1
<1>1. recent \in Seq(Nat) /\ Len(recent) <= Burst + 1 /\ now \in Nat /\ Burst \in Nat
  BY TickAssumption DEF TickTypeOK, TickAssumption, Burst
<1>2. Append(recent, now) \in Seq(Nat) /\ Len(Append(recent, now)) = Len(recent) + 1
  BY <1>1
<1>3. CASE Len(Append(recent, now)) > Burst + 1
  <2>1. Append(recent, now) # << >>
    BY <1>1, <1>2
  <2>2. Tail(Append(recent, now)) \in Seq(Nat) /\ Len(Tail(Append(recent, now))) = Len(recent)
    BY <1>2, <2>1
  <2>3. QED
    BY <1>1, <1>3, <2>2 DEF Remember
<1>4. CASE ~ (Len(Append(recent, now)) > Burst + 1)
  BY <1>1, <1>2, <1>4 DEF Remember
<1>5. QED
  BY <1>3, <1>4

LEMMA LoopStep == LoopInv /\ [TickNext]_vars => LoopInv'
<1>1. SUFFICES ASSUME LoopInv, [TickNext]_vars PROVE LoopInv'
  OBVIOUS
<1>2. TickTypeOK /\ DueInv /\ NextStart \in Nat /\ TickTime \in Nat /\ CatchUp \in Nat
  BY <1>1, NextStartNat, TickAssumption DEF LoopInv, TickAssumption
<1>3. CASE Elapse
  <2>1. now' \in Nat /\ now' > now /\ NextStart' = NextStart
    BY <1>2, <1>3, TickAssumption DEF Elapse, TickAssumption, TickTypeOK, NextStart
  <2>2. TickTypeOK'
    BY <1>2, <1>3, <2>1 DEF Elapse, TickTypeOK
  <2>3. DueInv'
    BY <1>2, <1>3, <2>1 DEF Elapse, DueInv, TickTypeOK
  <2>4. QED
    BY <2>2, <2>3 DEF LoopInv
<1>4. CASE Tick
  <2>1. NextStart' = NextStart + TickTime /\ now' = now /\ now >= NextStart /\ pc' = "sleep"
    BY <1>2, <1>4, NextStartMoves DEF Tick, DueInv
  <2>2. TickTypeOK'
    BY <1>2, <1>4, RememberBounded DEF Tick, TickTypeOK
  <2>3. DueInv'
    BY <1>2, <2>1 DEF DueInv, TickTypeOK
  <2>4. QED
    BY <2>2, <2>3 DEF LoopInv
<1>5. CASE Restart
  <2>1. NextStart' = now'
    BY <1>2, <1>5 DEF Restart, NextStart, TickTypeOK
  <2>2. TickTypeOK'
    BY <1>2, <1>5 DEF Restart, TickTypeOK
  <2>3. DueInv'
    BY <1>2, <1>5, <2>1, <2>2 DEF Restart, DueInv, TickTypeOK
  <2>4. QED
    BY <2>2, <2>3 DEF LoopInv
<1>6. CASE Sleep
  <2>1. NextStart' = NextStart /\ now' = now /\ pc' = "nap" /\ nap' = now + NapTime
    BY <1>6 DEF Sleep, NextStart
  <2>2. NapTime \in Nat /\ now + NapTime <= NextStart
    <3>1. NextStart - now \in Nat /\ NapUnit \in Nat \ {0} /\ now \in Nat
      BY <1>2, <1>6, TickAssumption DEF Sleep, TickTypeOK, TickAssumption
    <3>2. NapTime \in Nat /\ NapTime <= NextStart - now
      BY <3>1, HalfFits DEF NapTime
    <3>3. QED
      BY <1>2, <3>1, <3>2
  <2>3. TickTypeOK'
    BY <1>2, <1>6, <2>1, <2>2 DEF Sleep, TickTypeOK
  <2>4. DueInv'
    BY <1>2, <1>6, <2>1, <2>2 DEF Sleep, DueInv
  <2>5. QED
    BY <2>3, <2>4 DEF LoopInv
<1>7. CASE Stop \/ Leave \/ Wake \/ EndSleep \/ Check \/ UNCHANGED vars
  <2>1. NextStart' = NextStart /\ now' = now
    BY <1>7 DEF Stop, Leave, Wake, EndSleep, Check, vars, NextStart
  <2>2. TickTypeOK'
    BY <1>2, <1>7 DEF Stop, Leave, Wake, EndSleep, Check, vars, TickTypeOK
  <2>3. DueInv'
    BY <1>2, <1>7, <2>1 DEF Stop, Leave, Wake, EndSleep, SleptEnough, Check, vars, DueInv
  <2>4. QED
    BY <2>2, <2>3 DEF LoopInv
<1>8. QED
  BY <1>1, <1>3, <1>4, <1>5, <1>6, <1>7 DEF TickNext, Loop

\* The loop of server.cpp keeps its variables in their types and knows at each
\* point when the next tick is due.
THEOREM LoopInvariant == TickSpec => []LoopInv
<1>1. TickInit => LoopInv
  BY LoopInit
<1>2. LoopInv /\ [TickNext]_vars => LoopInv'
  BY LoopStep
<1>3. QED
  BY <1>1, <1>2, PTL DEF TickSpec

\* Type correctness, at every point of the loop.
THEOREM TickTypeCorrect == TickSpec => []TickTypeOK
<1>1. LoopInv => TickTypeOK
  BY DEF LoopInv
<1>2. QED
  BY <1>1, LoopInvariant, PTL

\* No tick starts before its time, however long ticks, sleeps and preemptions
\* take.
THEOREM TicksNeverEarly == TickSpec => []NeverEarly
<1>1. LoopInv => NeverEarly
  BY DEF LoopInv, DueInv, NeverEarly
<1>2. QED
  BY <1>1, LoopInvariant, PTL

\* The sleeps that sleep() asks for end before the tick they wait for.
THEOREM NapsNeverTooLong == TickSpec => []NapsAreShort
<1>1. LoopInv => NapsAreShort
  BY DEF LoopInv, DueInv, NapsAreShort
<1>2. QED
  BY <1>1, LoopInvariant, PTL

\* A restart never pushes the next tick further away than one TickTime.
THEOREM NextTickNear == TickSpec => []NeverFarAhead
<1>1. LoopInv => NeverFarAhead
  BY DEF LoopInv, DueInv, NeverFarAhead
<1>2. QED
  BY <1>1, LoopInvariant, PTL
------------------------------------------------------------------------------
(* Bursts. *)

\* How far past the due time a tick that started k ticks ago may have started.
Slack(k) == TickTime * (CatchUp - k)

\* A past tick started before the present epoch, or within the catch-up.
Accounted(j) ==
  \/ recent[j] + TickTime <= base
  \/ recent[j] <= NextStart + Slack(Len(recent) - j)

BurstInv ==
  /\ LoopInv
  /\ base <= now
  /\ \A j \in 1 .. Len(recent) :
       /\ recent[j] <= now
       /\ j < Len(recent) \/ pc = "tick" => Accounted(j)
  /\ pc = "restart" => now > NextStart + Slack(0)
  /\ BurstBounded

LEMMA SlackZero == Slack(0) \in Nat /\ Slack(0) = TickTime * CatchUp
<1>1. TickTime \in Nat /\ CatchUp \in Nat
  BY TickAssumption DEF TickAssumption
<1>2. TickTime * CatchUp \in Nat /\ CatchUp - 0 = CatchUp
  BY <1>1
<1>3. QED
  BY <1>2 DEF Slack

LEMMA SlackFacts ==
  ASSUME NEW k \in Int
  PROVE  /\ Slack(k) \in Int
         /\ Slack(k + 1) = Slack(k) - TickTime
         /\ k >= 1 => Slack(k) <= Slack(0) - TickTime
         /\ Slack(0) = TickTime * CatchUp /\ Slack(0) >= 0
<1>1. TickTime \in Nat /\ CatchUp \in Nat
  BY TickAssumption DEF TickAssumption
<1>2. TickTime * (CatchUp - (k + 1)) = TickTime * (CatchUp - k) - TickTime
  BY <1>1
<1>3. Slack(k) \in Int /\ Slack(k + 1) = Slack(k) - TickTime
  BY <1>1, <1>2 DEF Slack
<1>4. Slack(0) = TickTime * CatchUp /\ Slack(0) >= 0
  BY <1>1 DEF Slack
<1>5. ASSUME k >= 1 PROVE Slack(k) <= Slack(0) - TickTime
  <2>1. TickTime * (k - 1) >= 0
    BY <1>1, <1>5
  <2>2. TickTime * (CatchUp - k) = TickTime * CatchUp - TickTime - TickTime * (k - 1)
    BY <1>1
  <2>3. TickTime * (k - 1) \in Int /\ TickTime * CatchUp \in Int
    BY <1>1
  <2>4. QED
    BY <1>1, <1>4, <2>1, <2>2, <2>3 DEF Slack
<1>6. QED
  BY <1>3, <1>4, <1>5

LEMMA BurstFacts ==
  ASSUME BurstInv
  PROVE  /\ recent \in Seq(Nat) /\ Len(recent) \in Nat /\ Len(recent) <= Burst + 1
         /\ now \in Nat /\ base \in Nat /\ NextStart \in Nat /\ base <= NextStart
         /\ TickTime \in Nat /\ TickTime >= 1 /\ CatchUp \in Nat /\ Burst = CatchUp + 2
         /\ \A j \in 1 .. Len(recent) : recent[j] \in Nat
<1>1. TickTypeOK
  BY DEF BurstInv, LoopInv
<1>2. TickTime \in Nat /\ TickTime >= 1 /\ CatchUp \in Nat
  BY TickAssumption DEF TickAssumption
<1>3. TickTime * ticks >= 0 /\ TickTime * ticks \in Int
  BY <1>1, <1>2 DEF TickTypeOK
<1>4. QED
  BY <1>1, <1>2, <1>3, NextStartNat DEF TickTypeOK, NextStart, Burst

LEMMA BurstInit == TickInit => BurstInv
<1>1. TickInit => LoopInv
  BY LoopInit
<1>2. SUFFICES ASSUME TickInit PROVE BurstInv
  OBVIOUS
<1>3. recent = << >> /\ Len(recent) = 0 /\ base = 0 /\ now = 0 /\ pc = "tick"
  BY <1>2 DEF TickInit
<1>4. Burst + 1 # 0
  BY TickAssumption DEF TickAssumption, Burst
<1>5. BurstBounded
  BY <1>3, <1>4 DEF BurstBounded
<1>6. \A j \in 1 .. Len(recent) : FALSE
  BY <1>3
<1>7. QED
  BY <1>1, <1>2, <1>3, <1>5, <1>6 DEF BurstInv

\* Steps that change neither the due time nor the history.
LEMMA BurstUntouched ==
  ASSUME BurstInv, LoopInv', now' \in Nat, now' >= now,
         UNCHANGED <<base, ticks, recent>>,
         pc' = "tick" => pc = "tick",
         pc' = "restart" => pc = "restart"
  PROVE  BurstInv'
<1>1. NextStart' = NextStart
  BY DEF NextStart
<1>2. \A j \in 1 .. Len(recent) : Accounted(j)' <=> Accounted(j)
  BY <1>1 DEF Accounted, Slack
<1>3. base' <= now'
  BY BurstFacts DEF BurstInv
<1>4. ASSUME NEW j \in 1 .. Len(recent')
      PROVE  recent'[j] <= now' /\ (j < Len(recent') \/ pc' = "tick" => Accounted(j)')
  <2>1. recent'[j] = recent[j] /\ recent[j] \in Nat /\ j \in 1 .. Len(recent)
    BY BurstFacts
  <2>2. recent[j] <= now /\ (j < Len(recent) \/ pc = "tick" => Accounted(j))
    BY <2>1 DEF BurstInv
  <2>3. recent[j] <= now'
    BY <2>1, <2>2, BurstFacts
  <2>4. QED
    BY <1>2, <2>1, <2>2, <2>3
<1>5. pc' = "restart" => now' > NextStart' + Slack(0)'
  <2>1. SUFFICES ASSUME pc' = "restart" PROVE now' > NextStart + Slack(0)
    BY <1>1 DEF Slack
  <2>2. now > NextStart + Slack(0)
    BY <2>1 DEF BurstInv
  <2>3. QED
    BY <2>2, BurstFacts, SlackZero
<1>6. BurstBounded'
  BY DEF BurstInv, BurstBounded, Burst
<1>7. QED
  BY <1>3, <1>4, <1>5, <1>6 DEF BurstInv

\* The new history: the old one, perhaps without its first entry, and now.
LEMMA TickHistory ==
  ASSUME BurstInv, Tick
  PROVE  /\ Len(recent') \in Nat /\ Len(recent') >= 1
         /\ Len(recent') <= Burst + 1
         /\ recent'[Len(recent')] = now
         /\ \A j \in 1 .. Len(recent') - 1 :
               \E i \in 1 .. Len(recent) :
                 recent'[j] = recent[i] /\ Len(recent) - i = Len(recent') - 1 - j
<1> DEFINE s == Append(recent, now)
<1>1. /\ s \in Seq(Nat) /\ Len(s) = Len(recent) + 1 /\ s[Len(s)] = now
      /\ \A i \in 1 .. Len(recent) : s[i] = recent[i]
  BY BurstFacts
<1>2. recent' = IF Len(s) > Burst + 1 THEN Tail(s) ELSE s
  BY DEF Tick, Remember
<1>3. CASE Len(s) > Burst + 1
  <2>1. recent' = Tail(s)
    BY <1>2, <1>3
  <2>2. Len(recent) \in Nat /\ Burst \in Nat /\ Len(recent) = Burst + 1
    BY <1>1, <1>3, BurstFacts
  <2>3. s # << >>
    BY <1>1, <2>2
  <2>4. Len(Tail(s)) = Len(recent) /\ \A j \in 1 .. Len(recent) : Tail(s)[j] = s[j + 1]
    BY <1>1, <2>2, <2>3
  <2>5. Len(recent') = Len(recent) /\ \A j \in 1 .. Len(recent) : recent'[j] = s[j + 1]
    BY <2>1, <2>4
  <2>6. recent'[Len(recent')] = now
    BY <1>1, <2>2, <2>5
  <2>7. ASSUME NEW j \in 1 .. Len(recent') - 1
        PROVE  \E i \in 1 .. Len(recent) :
                 recent'[j] = recent[i] /\ Len(recent) - i = Len(recent') - 1 - j
    <3>1. j + 1 \in 1 .. Len(recent) /\ recent'[j] = recent[j + 1]
      BY <1>1, <2>2, <2>5
    <3>2. Len(recent) - (j + 1) = Len(recent') - 1 - j
      BY <2>2, <2>5
    <3>3. QED
      BY <3>1, <3>2
  <2>8. QED
    BY <2>2, <2>5, <2>6, <2>7
<1>4. CASE ~ (Len(s) > Burst + 1)
  <2>1. recent' = s /\ Len(recent) \in Nat /\ Burst \in Nat
    BY <1>2, <1>4, BurstFacts
  <2>2. ASSUME NEW j \in 1 .. Len(recent') - 1
        PROVE  \E i \in 1 .. Len(recent) :
                 recent'[j] = recent[i] /\ Len(recent) - i = Len(recent') - 1 - j
    <3>1. j \in 1 .. Len(recent) /\ recent'[j] = recent[j]
      BY <1>1, <2>1, <2>2
    <3>2. Len(recent) - j = Len(recent') - 1 - j
      BY <1>1, <2>1
    <3>3. QED
      BY <3>1, <3>2
  <2>3. QED
    BY <1>1, <1>4, <2>1, <2>2
<1>5. QED
  BY <1>3, <1>4

LEMMA BurstTick ==
  ASSUME BurstInv, LoopInv', Tick
  PROVE  BurstInv'
<1>1. /\ pc = "tick" /\ pc' = "sleep" /\ now' = now /\ base' = base /\ ticks' = ticks + 1
      /\ now >= NextStart
  BY DEF Tick, BurstInv, LoopInv, DueInv
<1>2. NextStart' = NextStart + TickTime
  BY <1>1, NextStartMoves DEF BurstInv, LoopInv
<1>3. ASSUME NEW j \in 1 .. Len(recent') - 1
      PROVE  /\ recent'[j] \in Nat /\ recent'[j] <= now
             /\ \/ recent'[j] + TickTime <= base
                \/ recent'[j] <= NextStart + Slack(Len(recent') - 1 - j)
  <2>1. PICK i \in 1 .. Len(recent) :
               recent'[j] = recent[i] /\ Len(recent) - i = Len(recent') - 1 - j
    BY TickHistory
  <2>2. recent[i] <= now /\ Accounted(i)
    BY <1>1, <2>1 DEF BurstInv
  <2>3. QED
    BY <2>1, <2>2, BurstFacts DEF Accounted
<1>4. ASSUME NEW j \in 1 .. Len(recent') - 1 PROVE Accounted(j)'
  <2>1. Len(recent') - 1 - j \in Int /\ (Len(recent') - 1 - j) + 1 = Len(recent') - j
    BY TickHistory
  <2>2. Slack(Len(recent') - j) = Slack(Len(recent') - 1 - j) - TickTime
        /\ Slack(Len(recent') - 1 - j) \in Int
    BY <2>1, SlackFacts
  <2>3. NextStart' + Slack(Len(recent') - j) = NextStart + Slack(Len(recent') - 1 - j)
    BY <1>2, <2>2, BurstFacts
  <2>4. recent'[j] + TickTime <= base' \/ recent'[j] <= NextStart' + Slack(Len(recent') - j)
    BY <1>1, <1>3, <2>3
  <2>5. QED
    BY <2>4 DEF Accounted, Slack
<1>5. BurstBounded'
  <2>1. SUFFICES ASSUME Len(recent') = Burst + 1
                 PROVE  recent'[Burst + 1] >= recent'[1] + TickTime
    BY DEF BurstBounded, Burst
  <2>2. recent'[Burst + 1] = now /\ 1 \in 1 .. Len(recent') - 1 /\ Len(recent') - 1 - 1 = CatchUp + 1
    BY <2>1, TickHistory, BurstFacts
  <2>3. Slack(CatchUp + 1) = 0 - TickTime
    <3>1. CatchUp \in Nat /\ TickTime \in Nat /\ CatchUp - (CatchUp + 1) = -1
      BY BurstFacts
    <3>2. QED
      BY <3>1 DEF Slack
  <2>4. recent'[1] + TickTime <= base \/ recent'[1] <= NextStart + (0 - TickTime)
    BY <1>3, <2>2, <2>3
  <2>5. recent'[1] \in Nat
    BY <1>3, <2>2
  <2>6. recent'[1] + TickTime <= now
    <3>1. base <= now /\ NextStart <= now
      BY <1>1, BurstFacts
    <3>2. QED
      BY <2>4, <2>5, <3>1, BurstFacts
  <2>7. QED
    BY <2>2, <2>6
<1>6. \A j \in 1 .. Len(recent') :
        recent'[j] <= now' /\ (j < Len(recent') \/ pc' = "tick" => Accounted(j)')
  <2>1. SUFFICES ASSUME NEW j \in 1 .. Len(recent')
                 PROVE  recent'[j] <= now' /\ (j < Len(recent') => Accounted(j)')
    BY <1>1
  <2>2. CASE j = Len(recent')
    BY <1>1, <2>2, TickHistory, BurstFacts
  <2>3. CASE j # Len(recent')
    <3>1. j \in 1 .. Len(recent') - 1
      BY <2>1, <2>3, TickHistory
    <3>2. QED
      BY <1>1, <1>3, <1>4, <3>1
  <2>4. QED
    BY <2>2, <2>3
<1>7. QED
  BY <1>1, <1>5, <1>6 DEF BurstInv

LEMMA BurstCheck ==
  ASSUME BurstInv, LoopInv', Check
  PROVE  BurstInv'
<1>1. /\ pc = "check" /\ pc' = IF TooFarBehind THEN "restart" ELSE "tick"
      /\ UNCHANGED <<now, base, ticks, recent>> /\ NextStart' = NextStart
  BY DEF Check, NextStart
<1>2. TooFarBehind <=> now > NextStart + Slack(0)
  BY SlackZero DEF TooFarBehind
<1>3. ASSUME NEW j \in 1 .. Len(recent), pc' = "tick" PROVE Accounted(j)
  <2>1. CASE j < Len(recent)
    BY <2>1 DEF BurstInv
  <2>2. CASE ~ (j < Len(recent))
    <3>1. Len(recent) - j = 0 /\ recent[j] <= now /\ recent[j] \in Nat
      BY <2>2, BurstFacts DEF BurstInv
    <3>2. now <= NextStart + Slack(0)
      BY <1>1, <1>2, <1>3, BurstFacts, SlackZero
    <3>3. recent[j] <= NextStart + Slack(0)
      BY <3>1, <3>2, BurstFacts, SlackZero
    <3>4. Slack(Len(recent) - j) = Slack(0)
      BY <3>1
    <3>5. QED
      BY <3>3, <3>4 DEF Accounted
  <2>3. QED
    BY <2>1, <2>2
<1>4. \A j \in 1 .. Len(recent) : Accounted(j)' <=> Accounted(j)
  BY <1>1 DEF Accounted, Slack
<1>5. pc' = "restart" => now' > NextStart' + Slack(0)'
  BY <1>1, <1>2 DEF Slack
<1>6. QED
  BY <1>1, <1>3, <1>4, <1>5 DEF BurstInv, BurstBounded

LEMMA BurstRestart ==
  ASSUME BurstInv, LoopInv', Restart
  PROVE  BurstInv'
<1>1. /\ pc = "restart" /\ pc' = "tick" /\ base' = now /\ ticks' = 0
      /\ now' = now /\ recent' = recent /\ now > NextStart + Slack(0)
  BY DEF Restart, BurstInv
<1>2. NextStart' = now
  BY <1>1, BurstFacts DEF NextStart
<1>3. ASSUME NEW j \in 1 .. Len(recent) PROVE Accounted(j)'
  <2>1. recent[j] \in Nat /\ recent[j] <= now
    BY BurstFacts DEF BurstInv
  <2>2. CASE j < Len(recent)
    <3>1. Accounted(j)
      BY <2>2 DEF BurstInv
    <3>2. Len(recent) - j \in Int /\ Len(recent) - j >= 1
      BY <2>2, BurstFacts
    <3>3. Slack(Len(recent) - j) \in Int /\ Slack(Len(recent) - j) <= Slack(0) - TickTime
          /\ Slack(0) \in Nat
      BY <3>2, SlackFacts, SlackZero
    <3>4. recent[j] + TickTime <= now
      <4>1. CASE recent[j] + TickTime <= base
        BY <2>1, <4>1, BurstFacts DEF BurstInv
      <4>2. CASE recent[j] <= NextStart + Slack(Len(recent) - j)
        <5>1. /\ NextStart \in Nat /\ TickTime \in Nat /\ now \in Nat
              /\ recent[j] \in Nat /\ now > NextStart + Slack(0)
          BY <1>1, <2>1, BurstFacts
        <5> DEFINE a == Slack(Len(recent) - j)
                   b == Slack(0)
                   r == recent[j]
        <5>2. r <= NextStart + a /\ a \in Int /\ b \in Nat /\ a <= b - TickTime /\ r \in Nat
              /\ now > NextStart + b
          BY <3>3, <4>2, <5>1
        <5> HIDE DEF a, b, r
        <5>3. r + TickTime <= now
          BY <5>1, <5>2
        <5>4. QED
          BY <5>3 DEF r
      <4>3. QED
        BY <3>1, <4>1, <4>2 DEF Accounted
    <3>5. QED
      BY <1>1, <3>4 DEF Accounted
  <2>3. CASE ~ (j < Len(recent))
    <3>1. Len(recent) - j = 0
      BY <2>3, BurstFacts
    <3>2. recent'[j] <= NextStart' + Slack(0)
      <4>1. recent'[j] = recent[j]
        BY <1>1
      <4>2. now \in Nat /\ Slack(0) \in Nat
        BY BurstFacts, SlackZero
      <4> HIDE DEF Slack
      <4>3. recent[j] <= now + Slack(0)
        BY <2>1, <4>2
      <4>4. QED
        BY <1>2, <4>1, <4>3
    <3>3. Slack(Len(recent') - j) = Slack(0)
      BY <1>1, <3>1
    <3>4. QED
      BY <3>2, <3>3 DEF Accounted, Slack
  <2>4. QED
    BY <2>2, <2>3
<1>4. QED
  BY <1>1, <1>3, BurstFacts DEF BurstInv, BurstBounded

LEMMA BurstStep == BurstInv /\ [TickNext]_vars => BurstInv'
<1>1. SUFFICES ASSUME BurstInv, [TickNext]_vars PROVE BurstInv'
  OBVIOUS
<1>2. LoopInv'
  BY <1>1, LoopStep DEF BurstInv
<1>3. now \in Nat
  BY <1>1, BurstFacts
<1>4. CASE Elapse
  <2>1. now' \in Nat /\ now' >= now
    BY <1>3, <1>4, TickAssumption DEF Elapse, TickAssumption
  <2>2. QED
    BY <1>1, <1>2, <1>4, <2>1, BurstUntouched DEF Elapse
<1>5. CASE Stop \/ Leave \/ Sleep \/ Wake \/ EndSleep \/ UNCHANGED vars
  <2>1. /\ now' \in Nat /\ now' >= now /\ UNCHANGED <<base, ticks, recent>>
        /\ pc' = "tick" => pc = "tick"
        /\ pc' = "restart" => pc = "restart"
    BY <1>3, <1>5 DEF Stop, Leave, Sleep, Wake, EndSleep, vars
  <2>2. QED
    BY <1>1, <1>2, <2>1, BurstUntouched
<1>6. CASE Tick
  BY <1>1, <1>2, <1>6, BurstTick
<1>7. CASE Check
  BY <1>1, <1>2, <1>7, BurstCheck
<1>8. CASE Restart
  BY <1>1, <1>2, <1>8, BurstRestart
<1>9. QED
  BY <1>1, <1>4, <1>5, <1>6, <1>7, <1>8 DEF TickNext, Loop

\* After falling behind by any amount, at most CatchUp + 2 ticks start within
\* one TickTime.
THEOREM BurstsAreBounded == TickSpec => []BurstBounded
<1>1. TickInit => BurstInv
  BY BurstInit
<1>2. BurstInv /\ [TickNext]_vars => BurstInv'
  BY BurstStep
<1>3. BurstInv => BurstBounded
  BY DEF BurstInv
<1>4. QED
  BY <1>1, <1>2, <1>3, PTL DEF TickSpec
==============================================================================
