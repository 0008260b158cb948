--------------------------- MODULE RetransmitTimer --------------------------
(***************************************************************************)
(* The retransmission timer of one packet in the sender's window, with the *)
(* clock it reads: get_time_ms is the time of day, which may be set while  *)
(* the packet waits, and the difference of two readings is unsigned.       *)
(* SelectiveRepeat lets any pending packet time out at any moment; this    *)
(* module is about when.                                                   *)
(***************************************************************************)
EXTENDS Integers

CONSTANTS
  TIMEOUT_MS,
  MAX_RETRIES,
  WORD,         \* number of values of uint64_t
  MaxTime,      \* bound on the time of day
  MaxAge,       \* bound on the time a packet is watched
  MaxSet        \* bound on how often the clock is set

ASSUME TimerAssumption ==
  /\ TIMEOUT_MS \in Nat \ {0} /\ MAX_RETRIES \in Nat
  /\ MaxTime \in Nat /\ WORD \in Nat /\ MaxTime + TIMEOUT_MS < WORD
  /\ MaxAge \in Nat /\ MaxSet \in Nat

VARIABLES
  state,         \* of the window entry; "failed" once the transfer is aborted
  send_time_ms,
  retries,
  clock,         \* the time of day
  age,           \* true time since the packet was first sent
  waited,        \* true time since it was last sent
  early,         \* it has been sent again before its time
  sets           \* how often the clock has been set

entry == <<state, send_time_ms, retries>>
timerVars == <<entry, clock, age, waited, early, sets>>

\* The packet has just been sent by sr_sender_send_window.
TimerInit ==
  /\ clock \in 0 .. MaxTime
  /\ state = "PKT_PENDING" /\ send_time_ms = clock /\ retries = 0
  /\ age = 0 /\ waited = 0 /\ early = FALSE /\ sets = 0

Tick ==
  /\ clock < MaxTime /\ age < MaxAge
  /\ clock' = clock + 1 /\ age' = age + 1 /\ waited' = waited + 1
  /\ UNCHANGED <<entry, early, sets>>

SetClock ==
  /\ sets < MaxSet
  /\ clock' \in (0 .. MaxTime) \ {clock}
  /\ sets' = sets + 1
  /\ UNCHANGED <<entry, age, waited, early>>

\* Mutant: whole units of TIMEOUT_MS are compared.
TimedOut_rounded(now_ms) ==
  (now_ms \div TIMEOUT_MS - send_time_ms \div TIMEOUT_MS) % WORD >= 1

TimedOut(now_ms) == (now_ms - send_time_ms) % WORD >= TIMEOUT_MS

\* Mutant: send_time_ms keeps the time of the first sending.
Retransmit_keeps_time(now_ms) ==
  /\ retries' = retries + 1
  /\ waited' = 0
  /\ early' = (early \/ waited < TIMEOUT_MS)
  /\ UNCHANGED <<state, send_time_ms>>

Retransmit(now_ms) ==
  /\ send_time_ms' = now_ms
  /\ retries' = retries + 1
  /\ waited' = 0
  /\ early' = (early \/ waited < TIMEOUT_MS)
  /\ UNCHANGED state

check_timeouts ==
  /\ state = "PKT_PENDING"
  /\ TimedOut(clock)
  /\ \/ /\ retries >= MAX_RETRIES
        /\ state' = "failed"
        /\ UNCHANGED <<send_time_ms, retries, waited, early>>
     \/ retries < MAX_RETRIES /\ Retransmit(clock)
  /\ UNCHANGED <<clock, age, sets>>

handle_ack ==
  /\ state = "PKT_PENDING"
  /\ state' = "PKT_ACKED"
  /\ UNCHANGED <<send_time_ms, retries, clock, age, waited, early, sets>>

TimerNext == Tick \/ SetClock \/ check_timeouts \/ handle_ack

TimerSpec == TimerInit /\ [][TimerNext]_timerVars

-----------------------------------------------------------------------------
\* How often the packet has timed out.
Timeouts == retries + (IF state = "failed" THEN 1 ELSE 0)

\* Each setting of the clock, in either direction, costs at most one timeout:
\* all others are TIMEOUT_MS of true time apart, although a clock that is set
\* back makes the unsigned difference wrap to a huge one.
TimeoutsPaced == (Timeouts - sets) * TIMEOUT_MS <= age

\* Only packets that have timed out are sent again, unless the clock was set.
OnlyTimedOutSent == early => sets > 0
=============================================================================
