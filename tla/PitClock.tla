------------------------------ MODULE PitClock -------------------------------
(***************************************************************************)
(* The kernel's clock: pit_init programs channel 0 of the timer, every     *)
(* reload raises IRQ 0, handle_irq0 counts a tick, and                     *)
(* pit_get_microseconds interpolates inside the tick by latching the       *)
(* counter.  The interrupt may arrive at any point of that function.       *)
(***************************************************************************)
EXTENDS Naturals

CONSTANTS BaseFrequency,  \* PIT_BASE_FREQUENCY
          Frequency,      \* pit_init's argument
          DivisorMax,     \* 0xFFFF
          Micro,          \* microseconds in a second
          Attempts,       \* PIT_READ_ATTEMPTS
          WordMax,        \* the largest value of the 64-bit counters
          MaxNow          \* bound on the cycles that pass

ASSUME PitAssumption ==
    /\ BaseFrequency \in Nat \ {0} /\ Frequency \in Nat \ {0} /\ DivisorMax \in Nat \ {0}
    /\ Micro \in Nat \ {0} /\ Attempts \in Nat \ {0} /\ MaxNow \in Nat
    /\ WordMax \in Nat /\ BaseFrequency * Micro <= WordMax

VARIABLES divisor,                       \* pit_divisor_value; 0 before pit_init
          now,                           \* PIT cycles since pit_init
          pending,                       \* IRQ 0 is raised and not handled yet
          ticks,                         \* pit_tick_count
          pc, attempt, before, counter,  \* pit_get_microseconds and its locals
          reading                        \* the last result: the time and the ticks counted at its return

pitVars == <<divisor, now, pending, ticks, pc, attempt, before, counter, reading>>

Least(a, b) == IF a < b THEN a ELSE b
Greatest(a, b) == IF a > b THEN a ELSE b

\* The count that divides the base frequency, in the 16 bits the timer has.
DivisorFor(hz) == Least(Greatest(BaseFrequency \div hz, 1), DivisorMax)

PitInit ==
    /\ divisor = 0 /\ now = 0 /\ pending = FALSE /\ ticks = 0
    /\ pc = "idle" /\ attempt = 0 /\ before = 0 /\ counter = 0
    /\ reading = [us |-> 0, ticks |-> 0]

pit_init ==
    /\ divisor = 0 /\ divisor' = DivisorFor(Frequency)
    /\ UNCHANGED <<now, pending, ticks, pc, attempt, before, counter, reading>>

\* The timer in mode 3 (command 0x36): it counts down by two, twice a period.
\* Interrupts are handled before the next reload.
Channel0(t) == divisor - ((2 * t) % divisor)

Cycle ==
    /\ divisor # 0 /\ now < MaxNow
    /\ LET reload == (now + 1) % divisor = 0 IN
       /\ reload => ~pending
       /\ pending' = (pending \/ reload)
    /\ now' = now + 1
    /\ UNCHANGED <<divisor, ticks, pc, attempt, before, counter, reading>>

\* handle_irq0: pit_on_irq.
handle_irq0 ==
    /\ pending /\ pending' = FALSE /\ ticks' = ticks + 1
    /\ UNCHANGED <<divisor, now, pc, attempt, before, counter, reading>>

-----------------------------------------------------------------------------
\* Seconds and the rest of a second apart, so that no product overflows early.
pit_cycles_to_microseconds(cycles) ==
    ((((cycles \div BaseFrequency) * Micro) % (WordMax + 1))
     + ((((cycles % BaseFrequency) * Micro) % (WordMax + 1)) \div BaseFrequency)) % (WordMax + 1)

\* pit_get_microseconds begins an attempt; before pit_init it returns 0, which
\* is the reading at the start.
ReadTicks ==
    /\ pc = "idle" /\ divisor # 0
    /\ before' = ticks /\ pc' = "latch"
    /\ UNCHANGED <<divisor, now, pending, ticks, attempt, counter, reading>>

Latch ==
    /\ pc = "latch"
    /\ counter' = Channel0(now)
    /\ pc' = "compare"
    /\ UNCHANGED <<divisor, now, pending, ticks, attempt, before, reading>>

Return(cycles) ==
    /\ reading' = [us |-> pit_cycles_to_microseconds(cycles), ticks |-> ticks]
    /\ pc' = "idle" /\ attempt' = 0

\* Mutant: a tick that was counted meanwhile goes unnoticed.
SameTickAny == TRUE

SameTick == before = ticks

MoreAttempts == attempt + 1 < Attempts

\* The ticks are read again; if one was counted meanwhile, it tries again, and
\* after the last attempt it returns the ticks alone.
Compare ==
    /\ pc = "compare"
    /\ IF SameTick
       THEN Return(ticks * divisor + (IF counter > divisor THEN 0 ELSE divisor - counter))
       ELSE IF MoreAttempts
       THEN attempt' = attempt + 1 /\ pc' = "idle" /\ UNCHANGED reading
       ELSE pc' = "ticks" /\ UNCHANGED <<attempt, reading>>
    /\ UNCHANGED <<divisor, now, pending, ticks, before, counter>>

ReturnTicks ==
    /\ pc = "ticks" /\ Return(ticks * divisor)
    /\ UNCHANGED <<divisor, now, pending, ticks, before, counter>>

PitNext == pit_init \/ Cycle \/ handle_irq0 \/ ReadTicks \/ Latch \/ Compare \/ ReturnTicks

PitSpec == PitInit /\ [][PitNext]_pitVars

-----------------------------------------------------------------------------
PitTypeOK ==
    /\ divisor \in 0..DivisorMax /\ now \in 0..MaxNow /\ ticks \in 0..MaxNow
    /\ pc \in {"idle", "latch", "compare", "ticks"} /\ attempt \in 0..Attempts - 1
    /\ counter \in 0..divisor /\ reading.us \in 0..WordMax

\* The time between two cycle counts, in microseconds.
Micros(cycles) == (cycles * Micro) \div BaseFrequency

\* A reading lies inside the tick it was taken in: what interrupts the function
\* and how often it tries again never mixes the counter of one tick with the
\* count of another (pit_get_microseconds), and the conversion does not overflow
\* (pit_cycles_to_microseconds).  So readings of different ticks are in order.
ReadingInItsTick ==
    divisor # 0 => /\ Micros(reading.ticks * divisor) <= reading.us
                   /\ reading.us <= Micros((reading.ticks + 1) * divisor)

\* A tick counted while the counter is read never puts the clock ahead of the
\* true time by half a tick or more (pit_get_microseconds reads the count on
\* both sides of the latch).
NotAhead == reading.us <= Micros(now + (divisor + 1) \div 2)

\* A reading of the clock belongs to one tick and is not ahead of the time.
ClockSound == PitTypeOK /\ ReadingInItsTick /\ NotAhead
=============================================================================
