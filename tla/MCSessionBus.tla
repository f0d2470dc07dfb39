---------------------------- MODULE MCSessionBus ----------------------------
(***************************************************************************)
(* Instances of the session bus for TLC.                                   *)
(***************************************************************************)
EXTENDS SessionBusProps

CONSTANTS here, there, main, panel, red, blue, s1, s2

\* A main session with a panel and two sub-agents; an IM bridge with two
\* channels.
Channels == {red, blue}
MCHome == [i \in Ids |-> IF i \in Channels THEN there ELSE here]
MCKind == [i \in Ids |->
  CASE i \in Subs -> "Subagent"
    [] i \in Channels -> "Im"
    [] i = panel -> "Ide"
    [] OTHER -> "Main"]

\* session_bus.allow = ["ide:subagent"]
MCGranted == {<<"Ide", "Subagent">>}

MCWatchable == {main} \X Subs
=============================================================================
