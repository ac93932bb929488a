----------------------------- MODULE ChannelHopper -----------------------------
(***************************************************************************)
(* The channel hopper (internal/capture/channel.go): NewChannelHopper's    *)
(* list of channels with their dwell times, Next, and the loop of Run with *)
(* its back-off.  The switch itself (setFn) is a command of the operating  *)
(* system, in flight while hop = "set"; the context that ends the loop is  *)
(* the pipeline's.  failures counts no further than the threshold, beyond  *)
(* which Run tells no two counts apart.                                    *)
(***************************************************************************)
EXTENDS Naturals, Sequences

CONSTANTS
  Dwells,           \* dwell time of each entry of h.chs, in order
  FailureThreshold, \* consecutiveFailuresThreshold (5)
  MaxBackoff        \* maxBackoffDwell (30s)

ASSUME HopperAssumption ==
  /\ Dwells \in Seq(Nat \ {0}) /\ Dwells # << >>
  /\ FailureThreshold \in Nat \ {0} /\ MaxBackoff \in Nat \ {0}

VARIABLES
  hop,       \* where Run is
  idx,       \* h.idx, the entry Next returns
  chosen,    \* the entry Next returned last, 0 before the first
  failures,  \* consecutiveFailures
  backoff,   \* 0 while none is active
  wait       \* duration of the timer Run waits on

hopper == <<hop, idx, chosen, failures, backoff, wait>>

Entries == 1..Len(Dwells)

Lesser(a, b) == IF a < b THEN a ELSE b

Greatest(S) == CHOOSE d \in S : \A e \in S : e <= d

\* Neither the back-off nor a configured dwell is exceeded.
LongestWait == Greatest({MaxBackoff} \cup {Dwells[e] : e \in Entries})

HopperTypeOK ==
  /\ hop \in {"off", "next", "set", "refused", "dwell", "done"}
  /\ idx \in Entries /\ chosen \in Entries \cup {0}
  /\ failures \in 0..FailureThreshold
  /\ backoff \in 0..LongestWait /\ wait \in 0..LongestWait

HopperInit ==
  /\ hop = "off" /\ idx = 1 /\ chosen = 0
  /\ failures = 0 /\ backoff = 0 /\ wait = 0

\* Run starts with Reset.
HopperRun ==
  /\ hop = "off"
  /\ hop' = "next" /\ idx' = 1
  /\ UNCHANGED <<chosen, failures, backoff, wait>>

\* Next moves idx on; the switch to the channel is begun, or refused.
HopBegin(cancelled) ==
  /\ hop = "next"
  /\ chosen' = idx /\ idx' = (idx % Len(Dwells)) + 1
  /\ hop' = IF cancelled THEN "refused" ELSE "set"
  /\ UNCHANGED <<failures, backoff, wait>>

\* Mutant: the back-off starts over from the channel's own dwell each time.
DoubledAfresh == Lesser(2 * Dwells[chosen], MaxBackoff)

\* The first back-off doubles the dwell of the channel at hand, each later one
\* the back-off before.
Doubled ==
  Lesser(2 * (IF backoff = 0 THEN Dwells[chosen] ELSE backoff), MaxBackoff)

\* setFn returns an error.
HopFailed ==
  /\ hop \in {"set", "refused"}
  /\ failures' = Lesser(failures + 1, FailureThreshold)
  /\ backoff' = IF failures' < FailureThreshold THEN backoff ELSE Doubled
  /\ wait' = IF failures' < FailureThreshold THEN Dwells[chosen] ELSE backoff'
  /\ hop' = "dwell"
  /\ UNCHANGED <<idx, chosen>>

\* The first switch that succeeds ends the back-off.
HopSucceeded ==
  /\ hop = "set"
  /\ failures' = 0 /\ backoff' = 0
  /\ wait' = Dwells[chosen]
  /\ hop' = "dwell"
  /\ UNCHANGED <<idx, chosen>>

\* case <-timer.C
HopTimer ==
  /\ hop = "dwell"
  /\ hop' = "next"
  /\ UNCHANGED <<idx, chosen, failures, backoff, wait>>

\* case <-ctx.Done()
HopExit ==
  /\ hop = "dwell"
  /\ hop' = "done"
  /\ UNCHANGED <<idx, chosen, failures, backoff, wait>>

--------------------------------------------------------------------------------
(* Properties. *)

\* On an interface that is broken for good the waits grow up to the limit: once
\* backing off, a failure never makes the next wait shorter, whichever channel is
\* next and however long its own dwell is.
WaitsGrow ==
  [][backoff > 0 /\ backoff' > 0 => wait' >= wait]_hopper
================================================================================
