------------------------------ MODULE EventLog ------------------------------
(***************************************************************************)
(* What the ingest of monitoring events promises of one delegate's events, *)
(* however they are delayed, repeated or handled at the same time: an      *)
(* event that has been sent is stored at most once and never removed, and  *)
(* an event that calls for a warning raises at most one, after it has been *)
(* stored.                                                                 *)
(***************************************************************************)
EXTENDS Naturals

CONSTANT Events

VARIABLES
  alarming,   \* the events sent so far, and whether each calls for a warning
  stored,     \* the rows of monitoring_events
  warnings    \* the rows of warnings that each event has raised

vars == <<alarming, stored, warnings>>

Init ==
  /\ alarming = << >>
  /\ stored = {}
  /\ warnings = [n \in Events |-> 0]

\* The delegate's application reports one event, or two at once.
Send ==
  /\ DOMAIN alarming # DOMAIN alarming'
  /\ DOMAIN alarming \subseteq DOMAIN alarming'
  /\ \A n \in DOMAIN alarming : alarming'[n] = alarming[n]
  /\ UNCHANGED <<stored, warnings>>

Store(n) ==
  /\ n \in DOMAIN alarming \ stored
  /\ stored' = stored \union {n}
  /\ UNCHANGED <<alarming, warnings>>

Warn(n) ==
  /\ n \in stored
  /\ alarming[n]
  /\ warnings[n] = 0
  /\ warnings' = [warnings EXCEPT ![n] = 1]
  /\ UNCHANGED <<alarming, stored>>

Next == Send \/ \E n \in Events : Store(n) \/ Warn(n)

Spec == Init /\ [][Next]_vars
=============================================================================
