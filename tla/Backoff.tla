------------------------------- MODULE Backoff -------------------------------
(***************************************************************************)
(* The durations of package transport and of the errors it returns, in Go's *)
(* 64-bit arithmetic: RetryPolicy.backoff and the Retry-After header.       *)
(*                                                                         *)
(* Durations are integers up to MaxDuration, the largest the type holds.   *)
(* backoff doubles in floating point, where a product of this form is      *)
(* exact, and converts; what a float64 that does not fit converts to is    *)
(* left open by the language.  Integer products wrap.                      *)
(***************************************************************************)
EXTENDS Integers

CONSTANTS
  MaxDuration,   \* math.MaxInt64 nanoseconds
  Second,        \* time.Second
  DefaultBase,   \* 200 ms
  DefaultMax     \* 2 s

ASSUME DurationAssumption ==
  /\ MaxDuration \in Nat /\ Second \in Nat \ {0}
  /\ DefaultBase \in 1..MaxDuration /\ DefaultMax \in 1..MaxDuration

Durations == (-MaxDuration - 1)..MaxDuration

\* time.Duration(f): the value if it fits, else whatever the build gives: the
\* smallest integer or the largest one.
Converted(f) ==
  IF f \in Durations THEN {f} ELSE {-MaxDuration - 1, MaxDuration}

BaseDelay(base) == IF base <= 0 THEN DefaultBase ELSE base
MaxDelay(max) == IF max <= 0 THEN DefaultMax ELSE max

\* Faulty variant of Capped: a negative duration is not caught.
CapAbove(d, max) == IF d > max THEN max ELSE d

Capped(d, max) == IF d > max \/ d <= 0 THEN max ELSE d

\* The delays before the given attempt, counting from 1.
Delays(base, max, attempt) ==
  {Capped(d, MaxDelay(max)) : d \in Converted(BaseDelay(base) * 2 ^ (attempt - 1))}

\* Signed wrap-around.
WrapAround(n) == ((n + MaxDuration + 1) % (2 * (MaxDuration + 1))) - (MaxDuration + 1)

\* Faulty variant of RetryAfter: the header is taken as a Duration already.
InNanoseconds(header, now) ==
  CASE header.kind = "seconds" -> WrapAround(header.value)
    [] header.kind = "date" /\ header.value > now -> header.value - now
    [] OTHER -> 0

\* retryAfterOf: a number of seconds or a date; 0 if there is none, if it cannot
\* be read or does not fit an int, if it is negative, or if the date has passed.
RetryAfter(header, now) ==
  CASE header.kind = "seconds" /\ header.value \in 0..MaxDuration -> WrapAround(header.value * Second)
    [] header.kind = "date" /\ header.value > now -> header.value - now
    [] OTHER -> 0

-----------------------------------------------------------------------------
(* Properties. *)

\* Whatever the policy, a backoff waits, and no longer than its cap: neither an
\* overflow of the doubled delay nor a zero or negative setting makes the retry
\* immediate or endless.
DelayBounded(bases, maxes, attempts) ==
  \A base \in bases, max \in maxes, n \in attempts :
    \A d \in Delays(base, max, n) : 0 < d /\ d <= MaxDelay(max)

\* The delays never shrink from one attempt to the next, also past the overflow.
DelayGrows(bases, maxes, attempts) ==
  \A base \in bases, max \in maxes, n \in attempts :
    n + 1 \in attempts =>
      \A d \in Delays(base, max, n), e \in Delays(base, max, n + 1) : d <= e

\* RetryAfter is "the delay Webull asked the caller to wait": the seconds of the
\* header, as long as they fit a Duration.
RetryAfterIsWhatWasAsked(seconds) ==
  \A s \in seconds :
    s * Second <= MaxDuration => RetryAfter([kind |-> "seconds", value |-> s], 0) = s * Second

=============================================================================
