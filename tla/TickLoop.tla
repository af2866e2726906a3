------------------------------- MODULE TickLoop -------------------------------
(***************************************************************************)
(* The tick scheduler of src/server.cpp: loop() and sleep().               *)
(*                                                                         *)
(* The clock is read at three places: to leave sleep(), to see whether the *)
(* server is too far behind, and to start over from the present.  Any      *)
(* amount of time may pass between two steps: tick() may be slow,          *)
(* sleep_for may oversleep, and the thread may be preempted.               *)
(***************************************************************************)
EXTENDS Integers, Sequences

CONSTANTS
  TickTime,   \* TICK_TIME_NANOS
  CatchUp,    \* SERVER_MAX_TICK_CATCH_UP
  Threshold,  \* SLEEP_THRESHOLD
  NapUnit,    \* the millisecond that sleep_for is asked for multiples of
  MaxTime     \* bound on the clock: the model ends there

ASSUME TickAssumption ==
  /\ TickTime \in Nat \ {0}
  /\ CatchUp \in Nat
  /\ Threshold \in Nat
  /\ NapUnit \in Nat \ {0}
  /\ MaxTime \in Nat

VARIABLES
  running,  \* the atomic flag, cleared by server_stop on another thread
  now,      \* the clock, as nanotime() returns it
  base,     \* base_time
  ticks,    \* ticks
  pc,       \* where the main thread is in loop()
  nap,      \* when the sleep_for in progress returns at the earliest
  recent    \* history: when the latest calls of tick() started

vars == <<running, now, base, ticks, pc, nap, recent>>

\* No more than this many ticks start within one TickTime: the CatchUp ones the
\* server may be behind, the one that was due, and the one that falls due.
Burst == CatchUp + 2

\* next_start = base_time + TICK_TIME_NANOS * ticks
NextStart == base + TickTime * ticks

TickInit ==
  /\ running = TRUE
  /\ now = 0
  /\ base = 0
  /\ ticks = 0
  /\ pc = "tick"
  /\ nap = 0
  /\ recent = << >>

\* Time passes.
Elapse ==
  /\ \E t \in now + 1 .. MaxTime : now' = t
  /\ UNCHANGED <<running, base, ticks, pc, nap, recent>>

\* server_stop
Stop ==
  /\ running
  /\ running' = FALSE
  /\ UNCHANGED <<now, base, ticks, pc, nap, recent>>

\* The history is kept just long enough to see one burst too many.
Remember(s) == IF Len(s) > Burst + 1 THEN Tail(s) ELSE s

\* Mutation: the loop forgets to look at the flag.
TickRegardless ==
  /\ pc = "tick"
  /\ recent' = Remember(Append(recent, now))
  /\ ticks' = ticks + 1
  /\ pc' = "sleep"
  /\ UNCHANGED <<running, now, base, nap>>

\* while (running) { tick(); ++ticks; ... }
Tick ==
  /\ pc = "tick"
  /\ running
  /\ recent' = Remember(Append(recent, now))
  /\ ticks' = ticks + 1
  /\ pc' = "sleep"
  /\ UNCHANGED <<running, now, base, nap>>

Leave ==
  /\ pc = "tick"
  /\ ~ running
  /\ pc' = "left"
  /\ UNCHANGED <<running, now, base, ticks, nap, recent>>

\* Mutation: the whole of what remains, rounded up.
NapTooLong == NextStart - now + 1

\* half_remaining_ms: half of what remains, rounded down to whole milliseconds.
NapTime == NapUnit * ((NextStart - now) \div (2 * NapUnit))

Sleep ==
  /\ pc = "sleep"
  /\ now < NextStart
  /\ NextStart - now >= Threshold
  /\ nap' = now + NapTime
  /\ pc' = "nap"
  /\ UNCHANGED <<running, now, base, ticks, recent>>

Wake ==
  /\ pc = "nap"
  /\ now >= nap
  /\ pc' = "sleep"
  /\ UNCHANGED <<running, now, base, ticks, nap, recent>>

\* Mutation: sleep() gives up once the threshold is reached.
CloseEnough == NextStart - now <= Threshold

\* while ((now = nanotime()) < until)
SleptEnough == now >= NextStart

EndSleep ==
  /\ pc = "sleep"
  /\ SleptEnough
  /\ pc' = "check"
  /\ UNCHANGED <<running, now, base, ticks, nap, recent>>

\* Mutation: the server is never thought to be too far behind.
NeverBehind == FALSE

TooFarBehind == now > NextStart + TickTime * CatchUp

Check ==
  /\ pc = "check"
  /\ pc' = IF TooFarBehind THEN "restart" ELSE "tick"
  /\ UNCHANGED <<running, now, base, ticks, nap, recent>>

\* Mutations of Restart: the trains missed are taken off the count, which may not
\* have got that far; ticks goes on counting.
RestartTakesOff ==
  /\ pc = "restart"
  /\ base' = now
  /\ ticks' = ticks - CatchUp
  /\ pc' = "tick"
  /\ UNCHANGED <<running, now, nap, recent>>

RestartBaseOnly ==
  /\ pc = "restart"
  /\ base' = now
  /\ pc' = "tick"
  /\ UNCHANGED <<running, now, ticks, nap, recent>>

\* base_time = nanotime(), a second reading; ticks = 0
Restart ==
  /\ pc = "restart"
  /\ base' = now
  /\ ticks' = 0
  /\ pc' = "tick"
  /\ UNCHANGED <<running, now, nap, recent>>

Loop == Tick \/ Leave \/ Sleep \/ Wake \/ EndSleep \/ Check \/ Restart

TickNext == Elapse \/ Stop \/ Loop

TickSpec == TickInit /\ [][TickNext]_vars

\* The clock goes on, and the main thread is scheduled.
TickFairSpec == TickSpec /\ WF_vars(Elapse) /\ WF_vars(Loop)
------------------------------------------------------------------------------
TickTypeOK ==
  /\ running \in BOOLEAN
  /\ now \in Nat /\ base \in Nat /\ ticks \in Nat /\ nap \in Nat
  /\ pc \in {"tick", "sleep", "nap", "check", "restart", "left"}
  /\ recent \in Seq(Nat) /\ Len(recent) <= Burst + 1

\* Tick number k since base_time never starts before base_time + k * TickTime,
\* however the sleeps turn out (sleep, loop).
NeverEarly == pc = "tick" => now >= NextStart

\* sleep_for is never asked to sleep past the next tick, so that a train is only
\* missed if the system oversleeps (sleep).
NapsAreShort == pc = "nap" => nap <= NextStart

\* A server that has fallen behind does not run too many ticks at once: at most
\* Burst of them start within one TickTime (the comment on the catch-up reset).
BurstBounded ==
  Len(recent) = Burst + 1 => recent[Burst + 1] >= recent[1] + TickTime

\* Only the present is started over from: at no time is the next tick due more
\* than TickTime from now (the reset of base_time and ticks).
NeverFarAhead == pc \in {"sleep", "nap"} => NextStart <= now + TickTime

\* Once the flag is cleared the loop ends, at the latest after the sleep it is
\* in; the condition keeps that sleep within the bound of the model.
StopLeaves ==
  ~ running /\ NextStart + TickTime <= MaxTime ~> pc = "left"
==============================================================================
