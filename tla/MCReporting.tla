----------------------------- MODULE MCReporting -----------------------------
(* Small instances of Reporting: our own window, an editor, and three      *)
(* pages of a browser, of which two match a rule each and one matches a    *)
(* rule that is switched off.                                              *)
EXTENDS Reporting

CONSTANTS Editor, Browser

MCScreens ==
  {[app |-> Self, topic |-> "own"], [app |-> Editor, topic |-> "text"]}
    \union [app : {Browser}, topic : {"chat", "search", "mail"}]

MCRules ==
  <<[topic |-> "mail", enabled |-> FALSE],
    [topic |-> "chat", enabled |-> TRUE], [topic |-> "search", enabled |-> TRUE]>>
=============================================================================
