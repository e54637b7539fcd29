-------------------------------- MODULE Sleep --------------------------------
(***************************************************************************)
(* The sleep mode of AVR nodes: sleepNode() and its two interrupts, the    *)
(* watchdog, which counts the cycles, and the pin the radio pulls low when *)
(* a payload arrives.  They share sleep_cycles_remaining, a byte, and      *)
(* wasInterrupted.  One action per access of sleepNode() to what it shares *)
(* with them, since an interrupt may come between any two.                 *)
(*                                                                         *)
(* Hardware (external): an interrupt that is pending runs before the next  *)
(* instruction, the pin before the watchdog; after it one instruction of   *)
(* the program runs even if the pin is still low.  The period of the       *)
(* watchdog, 16 ms or more, is long against the code between two sleeps,   *)
(* so at most one tick falls there.                                        *)
(***************************************************************************)
EXTENDS Naturals

CONSTANTS ByteSize,   \* values of the volatile byte sleep_cycles_remaining: 256
          MaxCycles,  \* bound: the largest argument of sleepNode()
          Modes       \* the INTERRUPT_MODEs the sketch uses

LOW     == 0
FALLING == 2
NoPin   == 255

ASSUME SleepAssumption == /\ ByteSize \in Nat \ {0, 1}
                          /\ MaxCycles \in Nat
                          /\ Modes \subseteq { LOW, FALLING }

VARIABLES pc,            \* where the program is; "sketch" outside of sleepNode()
          sleep_cycles_remaining,
          wasInterrupted,
          cycles, interruptPin, mode,   \* the arguments of sleepNode()
          WDIE,          \* the watchdog interrupts
          attached,      \* wakeUp() is attached to the pin
          low,           \* the pin is low: a payload waits in the radio
          edge,          \* a falling edge the processor has latched
          stepDue,       \* an instruction of the program is due before an interrupt
          tickDue,       \* the watchdog may tick before the next sleep
          \* History of this call, never read by the code:
          slept,         \* ticks until it left its loop
          woken,         \* wakeUp() has run
          raced,         \* wakeUp() or a tick came where the counter does not expect it
          sleptAfter     \* a tick found the node asleep after wakeUp() had run

sleepVars == << pc, sleep_cycles_remaining, wasInterrupted, cycles, interruptPin, mode,
                WDIE, attached, low, edge, stepDue, tickDue, slept, woken, raced, sleptAfter >>

shared  == << sleep_cycles_remaining, wasInterrupted >>
args    == << cycles, interruptPin, mode >>
history == << slept, woken, raced, sleptAfter >>

FlagTypes == /\ wasInterrupted \in BOOLEAN
             /\ WDIE \in BOOLEAN /\ attached \in BOOLEAN
             /\ low \in BOOLEAN /\ edge \in BOOLEAN
             /\ stepDue \in BOOLEAN /\ tickDue \in BOOLEAN
             /\ woken \in BOOLEAN /\ raced \in BOOLEAN /\ sleptAfter \in BOOLEAN

TypeOK == /\ pc \in { "sketch", "attach", "enable", "test", "sleep", "asleep",
                      "disable", "stop", "return" }
          /\ sleep_cycles_remaining \in 0..(ByteSize - 1)
          /\ cycles \in 0..MaxCycles
          /\ interruptPin \in { 0, NoPin }
          /\ mode \in { LOW, FALLING }
          /\ slept \in Nat
          /\ FlagTypes

SleepInit == /\ pc = "sketch"
             /\ sleep_cycles_remaining = 0 /\ wasInterrupted = FALSE
             /\ cycles = 0 /\ interruptPin = NoPin /\ mode = LOW
             /\ WDIE = FALSE /\ attached = FALSE
             /\ low = FALSE /\ edge = FALSE
             /\ stepDue = FALSE /\ tickDue = FALSE
             /\ slept = 0 /\ woken = FALSE /\ raced = FALSE /\ sleptAfter = FALSE

-----------------------------------------------------------------------------
\* The pin asks for its interrupt; it is about to run.
Requested == attached /\ IF mode = LOW THEN low ELSE edge
Pending   == Requested /\ ~stepDue

\* The program is at this place, and its next instruction runs.
At(here) == pc = here /\ ~Pending
Goto(next) == pc' = next /\ stepDue' = FALSE

\* setup_watchdog(): from then on the watchdog interrupts.
setup_watchdog ==
  /\ At("sketch")
  /\ WDIE' = TRUE
  /\ UNCHANGED << pc, stepDue, shared, args, attached, low, edge, tickDue, history >>

\* The assignment an unsigned int undergoes that is stored in a byte.
\* MUTATION: the counter has the width of the argument.
Truncate_Not(c) == c
Truncate(c) == c % ByteSize

\* sleepNode() is called.
sleepNode(c, pin, m) ==
  /\ At("sketch")
  /\ sleep_cycles_remaining' = Truncate(c)
  /\ cycles' = c /\ interruptPin' = pin /\ mode' = m
  /\ tickDue' = TRUE
  /\ slept' = 0 /\ woken' = FALSE /\ raced' = FALSE /\ sleptAfter' = FALSE
  /\ Goto("attach")
  /\ UNCHANGED << wasInterrupted, WDIE, attached, low, edge >>

\* The flag is reset and wakeUp() attached, unless the pin is 255.
\* MUTATION: the flag is not reset.
AttachInterrupt_KeepsFlag ==
  /\ At("attach")
  /\ attached' = (interruptPin # NoPin)
  /\ Goto("enable")
  /\ UNCHANGED << shared, args, WDIE, low, edge, tickDue, history >>
AttachInterrupt ==
  /\ At("attach")
  /\ attached' = (interruptPin # NoPin)
  /\ wasInterrupted' = IF interruptPin # NoPin THEN FALSE ELSE wasInterrupted
  /\ Goto("enable")
  /\ UNCHANGED << sleep_cycles_remaining, args, WDIE, low, edge, tickDue, history >>

EnableWatchdog ==
  /\ At("enable")
  /\ WDIE' = TRUE
  /\ Goto("test")
  /\ UNCHANGED << shared, args, attached, low, edge, tickDue, history >>

\* while (sleep_cycles_remaining)
\* MUTATION: one cycle is left out.
Remaining_OneLess == sleep_cycles_remaining > 1
Remaining == sleep_cycles_remaining > 0

Test ==
  /\ At("test")
  /\ IF Remaining THEN Goto("sleep") ELSE Goto("disable")
  /\ UNCHANGED << shared, args, WDIE, attached, low, edge, tickDue, history >>

\* sleep_mode(): the processor stops until an interrupt, at once if one is pending.
Sleep ==
  /\ At("sleep")
  /\ tickDue' = (tickDue \/ ~Requested)
  /\ Goto("asleep")
  /\ UNCHANGED << shared, args, WDIE, attached, low, edge, history >>

\* detachInterrupt(), which does nothing for the pin 255.
Detach ==
  /\ At("disable")
  /\ attached' = FALSE
  /\ Goto("stop")
  /\ UNCHANGED << shared, args, WDIE, low, edge, tickDue, history >>

DisableWatchdog ==
  /\ At("stop")
  /\ WDIE' = FALSE
  /\ Goto("return")
  /\ UNCHANGED << shared, args, attached, low, edge, tickDue, history >>

\* What sleepNode() returns.
result == ~wasInterrupted

Return ==
  /\ At("return")
  /\ Goto("sketch")
  /\ UNCHANGED << shared, args, WDIE, attached, low, edge, tickDue, history >>

\* An interrupt wakes the processor; afterwards the loop tests again.
Wake == pc' = IF pc = "asleep" THEN "test" ELSE pc

\* wakeUp().
\* MUTATION: the counter is left as it is.
wakeUp_FlagOnly ==
  /\ Pending
  /\ wasInterrupted' = TRUE
  /\ edge' = FALSE /\ stepDue' = TRUE
  /\ Wake
  /\ woken' = TRUE
  /\ raced' = (raced \/ pc = "sleep")
  /\ UNCHANGED << sleep_cycles_remaining, args, WDIE, attached, low, tickDue, slept, sleptAfter >>
wakeUp ==
  /\ Pending
  /\ wasInterrupted' = TRUE
  /\ sleep_cycles_remaining' = 0
  /\ edge' = FALSE /\ stepDue' = TRUE
  /\ Wake
  /\ woken' = TRUE
  /\ raced' = (raced \/ pc = "sleep")
  /\ UNCHANGED << args, WDIE, attached, low, tickDue, slept, sleptAfter >>

\* --sleep_cycles_remaining, in a byte.
Decremented == IF sleep_cycles_remaining = 0 THEN ByteSize - 1 ELSE sleep_cycles_remaining - 1

\* sleepNode() has not left its loop yet.
InLoop == pc \in { "attach", "enable", "test", "sleep", "asleep" }

\* ISR(WDT_vect).  Outside of sleepNode() its time does not matter.
WDT_vect ==
  /\ WDIE /\ ~Pending /\ ~stepDue
  /\ pc # "sketch" => tickDue
  /\ sleep_cycles_remaining' = Decremented
  /\ tickDue' = FALSE
  /\ Wake
  /\ IF ~InLoop THEN UNCHANGED history
     ELSE /\ slept' = slept + 1
          /\ sleptAfter' = (sleptAfter \/ (woken /\ pc = "asleep"))
          /\ raced' = (raced \/ sleep_cycles_remaining = 0)
          /\ UNCHANGED woken
  /\ UNCHANGED << wasInterrupted, args, WDIE, attached, low, edge, stepDue >>

\* A payload arrives: the pin goes low.  The edge is latched if the interrupt is
\* attached; before that it depends on what the pin was configured for last.
PinFalls ==
  /\ ~low
  /\ low' = TRUE
  /\ edge' \in IF attached THEN {TRUE} ELSE BOOLEAN
  /\ UNCHANGED << pc, shared, args, WDIE, attached, stepDue, tickDue, history >>

\* The sketch calls update(), which empties the radio.
PinRises ==
  /\ At("sketch") /\ low
  /\ low' = FALSE
  /\ UNCHANGED << pc, shared, args, WDIE, attached, edge, stepDue, tickDue, history >>

Program == AttachInterrupt \/ EnableWatchdog \/ Test \/ Sleep \/ Detach
             \/ DisableWatchdog \/ Return

SleepNext == \/ setup_watchdog \/ PinFalls \/ PinRises \/ wakeUp \/ WDT_vect \/ Program
             \/ \E c \in 0..MaxCycles, pin \in {0, NoPin}, m \in Modes : sleepNode(c, pin, m)

SleepSpec == SleepInit /\ [][SleepNext]_sleepVars

\* The processor executes; a watchdog that is enabled ticks.
SleepFairSpec == /\ SleepSpec
                 /\ WF_sleepVars(Program) /\ WF_sleepVars(wakeUp) /\ WF_sleepVars(WDT_vect)
-----------------------------------------------------------------------------
\* With an interrupt pin sleepNode() returns false exactly if the pin interrupted
\* this call, not an earlier one (RF24Network.h:693).
InterruptReported ==
  (pc = "return" /\ interruptPin # NoPin) => (result <=> ~woken)

\* A call that no pin interrupted sleeps the number of cycles it was given, neither
\* less nor more, or a full round of the byte more: if the watchdog takes the counter
\* to 0 between the test and the sleep, or below 0 before the test.  That happens at
\* most once in a call (sleepNode(), ISR(WDT_vect)).
SleepsAsAsked ==
  (pc = "return" /\ ~woken) =>
     slept = Truncate(cycles) + (IF raced THEN ByteSize ELSE 0)

\* Once the pin has interrupted, the node sleeps no further cycle; unless the
\* interrupt was that of an edge, and either came between the test of the counter
\* and the sleep, or a tick came behind it and took the counter below 0.
NoSleepAfterWakeUp == sleptAfter => mode # LOW /\ raced

\* sleepNode() returns, whatever the interrupts do to its counter.
Returns == pc = "attach" ~> pc = "sketch"
=============================================================================
