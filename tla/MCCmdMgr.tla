------------------------------- MODULE MCCmdMgr -------------------------------
(***************************************************************************)
(* Small instances of CmdMgr for TLC.                                      *)
(***************************************************************************)
EXTENDS CmdMgr, TLC

CONSTANTS id1, id2, c1, c2, c3

\* bl_send_scanu_req, bl_send_me_rate_config_req, and two confirmed requests.
Scan    == [nonblock |-> FALSE, reqcfm |-> FALSE, reqid |-> id1]
SetRate == [nonblock |-> TRUE,  reqcfm |-> FALSE, reqid |-> id1]
Cfm1    == [nonblock |-> FALSE, reqcfm |-> TRUE,  reqid |-> id1]
Cfm2    == [nonblock |-> FALSE, reqcfm |-> TRUE,  reqid |-> id2]

MCIds == {id1, id2}
AllKinds == {Scan, SetRate, Cfm1, Cfm2}
FairKinds == {Scan, SetRate, Cfm1}

MCCmds == {c1, c2, c3}

\* The allocator gives the blocks out in this order.  Blocks that were never
\* used are interchangeable, so a run with a temporal property, which cannot
\* use the symmetry set, loses nothing by it.
Blocks == <<c1, c2, c3>>
InOrder ==
  \A i, j \in 1 .. Len(Blocks) :
    i < j /\ heap[Blocks[j]] = "unused" /\ heap'[Blocks[j]] = "live"
      => heap[Blocks[i]] # "unused"
MCNext == Next /\ InOrder

MCFairSpec == Init /\ [][MCNext]_vars /\ SchedFairness

Symmetry == Permutations(Tasks) \cup Permutations(MCCmds)
===============================================================================
