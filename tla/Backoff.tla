------------------------------ MODULE Backoff -------------------------------
(***************************************************************************)
(* The reconnection loop of the client (proxy/client.rs: run, with the     *)
(* timeouts of connect and session).  Times are seconds, waits             *)
(* milliseconds.                                                           *)
(***************************************************************************)
EXTENDS Integers

CONSTANTS
  Intervals,   \* values of retry_interval
  SETUP,       \* timeout of each step of a set-up (10)
  DRAIN,       \* timeout of endpoint.wait_idle() (2)
  Stable,      \* a connection that lasts longer resets the delay (60)
  SetupTimes, DrainTimes,   \* durations of those
  Lifetimes,   \* times from "tunnel ready" to the end of the session
  Jitters,     \* milliseconds drawn by rand::random_range
  MaxRetries   \* bound: retries that are counted

ASSUME IntervalAssumption == \A i \in Intervals : i \in Nat /\ i <= 86400

ASSUME JitterAssumption == \A j \in Jitters : j \in Nat /\ j <= 1000

ASSUME TimeAssumption ==
  /\ SETUP \in Nat /\ DRAIN \in Nat /\ Stable \in Nat
  /\ SETUP + SETUP + SETUP + DRAIN <= Stable
  /\ SetupTimes \subseteq 0 .. SETUP /\ DrainTimes \subseteq 0 .. DRAIN
  /\ Lifetimes \subseteq Nat

ASSUME BoundAssumption == MaxRetries \in Nat

VARIABLES
  base,      \* cfg.retry_interval
  delay,
  phase,        \* "connect" or "sleep"
  wait,      \* of the sleep
  ready,     \* the last attempt got as far as the log line "tunnel ready"
  retries    \* waits since the start or since the delay was reset

backoff == <<base, delay, phase, wait, ready, retries>>

Larger(a, b) == IF a < b THEN b ELSE a

Smaller(a, b) == IF a < b THEN a ELSE b

BackoffInit ==
  /\ base \in Intervals
  /\ delay = 1
  /\ phase = "connect"
  /\ wait = 0
  /\ ready = FALSE
  /\ retries = 0

\* resolve, endpoint.connect and the registration each end within SETUP (0 for
\* one that is not reached); behind "tunnel ready" the local addresses are
\* resolved one after the other, each within SETUP, and the session serves; the
\* endpoint is drained
Attempts ==
  [resolve : SetupTimes, connect : SetupTimes, register : SetupTimes,
   ready : {-1} \cup Lifetimes, drain : DrainTimes]

\* the set-up is over: the server has registered the services and "tunnel ready"
\* is logged
IsReady(a) == a.ready # -1

\* began.elapsed()
Elapsed(a) ==
  a.resolve + a.connect + a.register + (IF IsReady(a) THEN a.ready ELSE 0) + a.drain

\* mutant: a set-up that timed out counts as a stable connection
IsStable_Short(a) == Elapsed(a) > 2 * SETUP

IsStable(a) == Elapsed(a) > Stable

\* mutant: the interval replaces the delay
Pause_Interval(d) == base

\* delay.max(base)
Pause(d) == Larger(d, base)

\* connect returns; the delay is reset if it lasted, and the wait is chosen
Returns ==
  /\ phase = "connect"
  /\ \E a \in Attempts :
       /\ ready' = IsReady(a)
       /\ delay' = IF IsStable(a) THEN 1 ELSE delay
       /\ retries' = IF IsStable(a) THEN 0 ELSE retries
  /\ IF base = 0 THEN wait' = 100
     ELSE \E j \in Jitters : wait' = Pause(delay') * 1000 + j
  /\ phase' = "sleep"
  /\ UNCHANGED base

\* the sleep is over: the delay doubles up to its cap
Wakes ==
  /\ phase = "sleep"
  /\ retries < MaxRetries
  /\ delay' = Smaller(Pause(delay) * 2, Larger(30, base))
  /\ retries' = retries + 1
  /\ phase' = "connect"
  /\ UNCHANGED <<base, wait, ready>>

BackoffNext == Returns \/ Wakes

BackoffSpec == BackoffInit /\ [][BackoffNext]_backoff

-----------------------------------------------------------------------------
(* Properties *)

\* The wait before the n-th retry since the delay was last reset is the interval
\* doubled n times, capped at 30 seconds or the interval, with a second of
\* jitter; an interval of 0 waits a tenth of a second every time.
GrowsToCap ==
  phase = "sleep" =>
    LET ideal == Smaller(base * 2 ^ retries, Larger(30, base)) * 1000
    IN  IF base = 0 THEN wait = 100 ELSE wait \in ideal .. ideal + 1000

\* Every wait is at least a tenth of a second and the configured interval, and
\* at most 30 seconds or that interval, and a second of jitter.
WaitBounded ==
  phase = "sleep" =>
    /\ wait >= 100 /\ wait >= base * 1000
    /\ wait <= Larger(30, base) * 1000 + 1000

\* Only an attempt that got to "tunnel ready" resets the delay: those that fail
\* before, one after the other and each after all of its timeouts, never look
\* like a connection that lasted.  One that fails behind that line, in a slow
\* resolve_local, may.
ResetOnlyWhenReady ==
  [][delay' < delay => ready']_backoff
=============================================================================
