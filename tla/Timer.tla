------------------------------- MODULE Timer -------------------------------
(***************************************************************************)
(* The 100 Hz tick and the delay loops (timer.c).  The timer asks for an   *)
(* interrupt every period, the controller keeps one request while          *)
(* interrupts are off, and an enabled processor takes it before anything   *)
(* else.  A polling loop runs many times in a period.  _next_preempt,      *)
(* which nothing but the handler itself reads, is left out.                *)
(***************************************************************************)
EXTENDS Integers

CONSTANTS U32,                \* values of an unsigned int, 2^32
          Hz,                 \* _timer_hz
          Second              \* milliseconds in a second, 1000

ASSUME TimerAssumption == {U32, Hz, Second} \subseteq Nat \ {0}

VARIABLES iflag, pending,           \* interrupts enabled; a request waits
          timer_ticks,
          eticks,                   \* the running delay's end, NoDelay if none
          polled,                   \* the loop has looked since the last tick
          since, wanted,            \* history of the running delay: periods
                                    \* passed, and asked for
          overrun                   \* history: how many more the last one took

timervars == <<iflag, pending, timer_ticks, eticks, polled, since, wanted,
               overrun>>
NoDelay == -1

TimerInit == /\ iflag = FALSE /\ pending = FALSE
             /\ timer_ticks = 0 /\ eticks = NoDelay /\ polled = TRUE
             /\ since = 0 /\ wanted = 0 /\ overrun = 0

Delaying == eticks # NoDelay
Runs == ~(iflag /\ pending)   \* what is not an interrupt routine has its turn

Period == /\ iflag => ~pending /\ polled
          /\ pending' = TRUE
          /\ since' = IF Delaying THEN since + 1 ELSE since
          /\ UNCHANGED <<iflag, timer_ticks, eticks, polled, wanted, overrun>>

\* mutant of timer_handler: the counter does not wrap
TickNoWrap == /\ iflag /\ pending
              /\ pending' = FALSE /\ polled' = ~Delaying
              /\ timer_ticks' = timer_ticks + 1
              /\ UNCHANGED <<iflag, eticks, since, wanted, overrun>>
timer_handler == /\ iflag /\ pending
                 /\ pending' = FALSE /\ polled' = ~Delaying
                 /\ timer_ticks' = (timer_ticks + 1) % U32
                 /\ UNCHANGED <<iflag, eticks, since, wanted, overrun>>

SetIf(on) == /\ iflag' = on
             /\ UNCHANGED <<pending, timer_ticks, eticks, polled, since, wanted,
                            overrun>>

ticks_from_ms(ms) == ((ms * Hz) % U32) \div Second

\* No more is expected of a delay whose end is beyond the last u32.
DelayBegin(ms) ==
    LET ticks == ticks_from_ms(ms)
    IN /\ ~Delaying
       /\ eticks' = (timer_ticks + ticks) % U32
       /\ since' = 0
       /\ wanted' = IF timer_ticks + ticks < U32 THEN ticks ELSE 0
       /\ UNCHANGED <<iflag, pending, timer_ticks, polled, overrun>>

\* mutant of Reached: the loop goes on at equality
ReachedAfter == timer_ticks > eticks
Reached == timer_ticks >= eticks

DelayPoll == /\ Delaying /\ polled' = TRUE
             /\ IF Reached
                THEN /\ eticks' = NoDelay /\ since' = 0 /\ wanted' = 0
                     /\ overrun' = IF wanted = 0 THEN 0 ELSE since - wanted
                ELSE UNCHANGED <<eticks, since, wanted, overrun>>
             /\ UNCHANGED <<iflag, pending, timer_ticks>>
=============================================================================
