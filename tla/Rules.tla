--------------------------------- MODULE Rules ---------------------------------
(***************************************************************************)
(* How the detection rules get from the admin's window to the engine of a  *)
(* delegate's window: monitoring/routes.ts and rules.ts on the server,     *)
(* backend.ts and engine.ts on the delegate's side.                        *)
(*                                                                         *)
(* An edit is written, then audited, and then the rules are read back into *)
(* the cache and pushed, with other edits in between.  A login answers     *)
(* with the rules of the database; a hello is answered with those of the   *)
(* cache.  refreshSession reads the rules that the window has before its   *)
(* request, and puts them back after it.  The socket that it leaves open   *)
(* beside the new one, and which gets the same pushes, is left out.        *)
(*                                                                         *)
(* An operator that nothing uses is a faulty variant of the one after it.  *)
(***************************************************************************)
EXTENDS Naturals, Sequences

CONSTANTS
  RuleIds,   \* the rules there may be
  Edits,     \* edits under way at one time (a bound)
  MaxWire,   \* bound: pushes on the way to the window
  NoRules    \* the window has no refresh under way

ASSUME RulesConstants == MaxWire \in Nat

VARIABLES
  rules,    \* ai_detection_rules: the rules that are enabled
  cache,    \* rules.ts: cache
  edits,    \* the edits under way
  link,     \* the window: signed out, without a connection, subscribed or welcomed
  wire,     \* the pushes on the way to it
  engine,   \* the rules its engine uses
  inHand,   \* the rules that its refreshSession has read
  inOrder   \* no two edits have overlapped since the cache was last the table

rulesVars == <<rules, cache, edits, link, wire, engine, inHand, inOrder>>

Done == [at |-> "done", read |-> {}, alone |-> TRUE]
Editing == {e \in Edits : edits[e] # Done}

RulesInit ==
  /\ rules = {} /\ cache = {} /\ edits = [e \in Edits |-> Done]
  /\ link = "out" /\ wire = <<>> /\ engine = {} /\ inHand = NoRules
  /\ inOrder = TRUE

\* The routes of the rules tab: a rule is added, switched on or switched off.
\* Which of the two is what the tab last listed, not what the table holds.
EditRule(e, r) ==
  /\ edits[e] = Done
  /\ rules' \in {rules \union {r}, rules \ {r}}
  /\ edits' = [i \in Edits |->
       IF i = e THEN [at |-> "select", read |-> {}, alone |-> Editing = {}]
       ELSE [at |-> edits[i].at, read |-> edits[i].read, alone |-> i \notin Editing]]
  /\ inOrder' = (inOrder /\ Editing = {})
  /\ UNCHANGED <<cache, link, wire, engine, inHand>>

\* The edit is audited; loadRules asks the database.
SelectRules(e) ==
  /\ edits[e].at = "select"
  /\ edits' = [edits EXCEPT ![e] = [at |-> "set", read |-> rules, alone |-> @.alone]]
  /\ UNCHANGED <<rules, cache, link, wire, engine, inHand, inOrder>>

\* loadRules is answered: the cache is set, and pushed to every sink.
SetAndBroadcast(e) ==
  /\ edits[e].at = "set"
  /\ Len(wire) < MaxWire
  /\ cache' = edits[e].read
  /\ wire' = IF link \in {"subscribed", "welcomed"} THEN Append(wire, edits[e].read) ELSE wire
  /\ edits' = [edits EXCEPT ![e] = Done]
  /\ inOrder' = (inOrder \/ edits[e].alone)
  /\ UNCHANGED <<rules, link, engine, inHand>>

\* The server is started again.
Restart ==
  /\ cache' = rules
  /\ edits' = [e \in Edits |-> Done] /\ inOrder' = TRUE
  /\ link' = IF link = "out" THEN "out" ELSE "down"
  /\ wire' = <<>>
  /\ UNCHANGED <<rules, engine, inHand>>

-----------------------------------------------------------------------------
\* The delegate's window.

\* completeAuth.
Login ==
  /\ link = "out"
  /\ link' = "down" /\ engine' = rules
  /\ UNCHANGED <<rules, cache, edits, wire, inHand, inOrder>>

\* handleHello: broker.subscribe, before the queries of the welcome.
Hello ==
  /\ link = "down"
  /\ link' = "subscribed"
  /\ UNCHANGED <<rules, cache, edits, wire, engine, inHand, inOrder>>

\* A welcome without the rules.
BareWelcome ==
  /\ link = "subscribed" /\ Len(wire) < MaxWire
  /\ link' = "welcomed"
  /\ UNCHANGED <<rules, cache, edits, wire, engine, inHand, inOrder>>

\* handleHello: welcome, and the rules of the cache after it.
Welcome ==
  /\ link = "subscribed" /\ Len(wire) < MaxWire
  /\ link' = "welcomed" /\ wire' = Append(wire, cache)
  /\ UNCHANGED <<rules, cache, edits, engine, inHand, inOrder>>

\* rules_updated.
ReadRules ==
  /\ wire # <<>>
  /\ engine' = Head(wire) /\ wire' = Tail(wire)
  /\ UNCHANGED <<rules, cache, edits, link, inHand, inOrder>>

ConnectionLost ==
  /\ link \in {"subscribed", "welcomed"}
  /\ link' = "down" /\ wire' = <<>>
  /\ UNCHANGED <<rules, cache, edits, engine, inHand, inOrder>>

\* refreshSession, as far as its request.
Refresh ==
  /\ link # "out" /\ inHand = NoRules
  /\ inHand' = engine
  /\ UNCHANGED <<rules, cache, edits, link, wire, engine, inOrder>>

\* refreshSession after its answer: connect, and the rules it had read.
Refreshed ==
  /\ inHand # NoRules /\ link # "out"
  /\ link' = "down" /\ wire' = <<>>
  /\ engine' = inHand /\ inHand' = NoRules
  /\ UNCHANGED <<rules, cache, edits, inOrder>>

\* logout, or a refresh that was refused.
Logout ==
  /\ link # "out"
  /\ link' = "out" /\ wire' = <<>> /\ inHand' = NoRules
  /\ UNCHANGED <<rules, cache, edits, engine, inOrder>>

RulesNext ==
  \/ \E e \in Edits : (\E r \in RuleIds : EditRule(e, r)) \/ SelectRules(e) \/ SetAndBroadcast(e)
  \/ Restart
  \/ Login \/ Hello \/ Welcome \/ ReadRules \/ ConnectionLost \/ Refresh \/ Refreshed \/ Logout

-----------------------------------------------------------------------------
\* Properties.

RulesTypeOK ==
  /\ {rules, cache, engine} \subseteq SUBSET RuleIds
  /\ link \in {"out", "down", "subscribed", "welcomed"}
  /\ Len(wire) <= MaxWire /\ inOrder \in BOOLEAN

\* A window that was welcomed and has read its messages detects by the rules
\* of the server's cache, whatever happened while it was away, and the cache
\* is the table once edits that did not overlap are done ("Rules sync to every
\* delegate instantly.", pages/Admin.tsx RulesTab).
RulesFollow ==
  /\ link = "welcomed" /\ wire = <<>> => engine = cache
  /\ inOrder /\ Editing = {} => cache = rules
=============================================================================
