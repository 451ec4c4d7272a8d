---------------------------- MODULE MCNodeDial ----------------------------
(* The feed lines and the dial memo, checked side by side: the memo's      *)
(* threads work while one given line waits to be parsed, so the two state  *)
(* spaces add up instead of multiplying.                                   *)
EXTENDS NodeDial, DialMemo

WaitingLine ==
    [scheme |-> "https", user |-> "none", host |-> "name", port |-> "given",
     transport |-> "absent", security |-> "absent", sni |-> "absent", options |-> {},
     body |-> "plain", method |-> "absent", plugin |-> "absent"]
Waiting == stage = "scraped" /\ line = WaitingLine
Quiet == memo = <<>> /\ clock = 0 /\ \A t \in Threads : call[t] = Idle

MCInit == DialInit /\ MemoInit /\ (Waiting \/ Quiet)
MCNext ==
    \/ Quiet /\ DialNext /\ UNCHANGED memoVars
    \/ Waiting /\ MemoNext /\ UNCHANGED dialVars
MCSpec == MCInit /\ [][MCNext]_<<dialVars, memoVars>>
===========================================================================
