------------------------------ MODULE NodesPage ------------------------------
(***************************************************************************)
(* The terminal UI's page of nodes (ui/nodes.go) with the manager's        *)
(* handlers it calls (manager_api.go) and the core behind them.            *)
(*                                                                         *)
(* What the page shows changes in the UI's event loop only, one function   *)
(* at a time; requests are made by goroutines of their own, which leave    *)
(* such a function behind when the answer has come.  Any number of loads   *)
(* and of tests of different nodes may be under way, but one selection.    *)
(* Answers are drawn in any order.  The manager handles selections under   *)
(* actionMu, sets the core and reads back what it has done.  The client    *)
(* gives a request up after 60 s, and the manager carries on with it.      *)
(*                                                                         *)
(* Left out: the order, the filter and the pages of the table, the regions *)
(* of names, the candidate (the user may choose any node), how long a      *)
(* delay is, and changes of the set of groups and nodes.  A page is        *)
(* modelled from its first load.                                           *)
(***************************************************************************)
EXTENDS FiniteSets

CONSTANTS
  Groups,
  Automatic,  \* the groups in which the core chooses by itself as well
  Nodes,
  Keys,       \* the group and node pairs whose delay is looked at
  Loads,      \* loads under way at once
  Selects     \* selections the manager works on at once

ASSUME NodesPageConstantsOK ==
  /\ Groups # {} /\ Nodes # {} /\ Automatic \subseteq Groups
  /\ Keys \subseteq Groups \X Nodes
  /\ IsFiniteSet(Loads) /\ IsFiniteSet(Selects)

VARIABLES
  now,     \* the core: the node each group uses
  mark,    \* the page: the node shown as current in each group
  delay,   \* the page: the delay shown
  group,   \* the page: the group looked at
  load,    \* the goroutines that load
  select,  \* selections, from the button to the manager's answer
  test,    \* testingNodes, with the answer and the delay to restore
  had,     \* the nodes the core has used, or the page first shown, in each group
  agreed   \* the groups in which the core still holds to the last switch confirmed

core     == <<now, had>>
page     == <<mark, delay, group>>
calls    == <<load, select, test>>
pageVars == <<core, page, calls, agreed>>

Delays   == {"untested", "measured"}
Idle     == [at |-> "idle"]

PageInit ==
  /\ now \in [Groups -> Nodes] /\ mark = now
  /\ delay = [k \in Keys |-> "untested"]
  /\ group \in Groups
  /\ load = [l \in Loads |-> Idle]
  /\ select = [s \in Selects |-> Idle]
  /\ test = [k \in Keys |-> Idle]
  /\ had = [g \in Groups |-> {now[g]}]
  /\ agreed = {}

-----------------------------------------------------------------------------
(* The core *)

Uses(g, n) ==
  /\ now' = [now EXCEPT ![g] = n]
  /\ had' = [had EXCEPT ![g] = @ \cup {n}]
  /\ agreed' = IF n = now[g] THEN agreed ELSE agreed \ {g}

CoreSwitches ==
  /\ \E g \in Automatic, n \in Nodes : Uses(g, n)
  /\ UNCHANGED <<page, calls>>

-----------------------------------------------------------------------------
(* Loading *)

Load(l) ==
  /\ load[l].at = "idle"
  /\ load' = [load EXCEPT ![l] = [at |-> "asked"]]
  /\ UNCHANGED <<core, page, select, test, agreed>>

\* handleManagerProxyGroups
LoadAnswered(l) ==
  /\ load[l].at = "asked"
  /\ load' = [load EXCEPT ![l] = [at |-> "read", now |-> now]]
  /\ UNCHANGED <<core, page, select, test, agreed>>

\* An error, or the client has waited long enough: the page stays as it is.
LoadFailed(l) ==
  /\ load[l].at = "asked"
  /\ load' = [load EXCEPT ![l] = Idle]
  /\ UNCHANGED <<core, page, select, test, agreed>>

\* Any delays may have been read: the core measures by itself as well, and one whose
\* provider nodes are listed apart leaves them untested when that list cannot be read.
LoadDrawn(l) ==
  /\ load[l].at = "read"
  /\ mark' = load[l].now
  /\ delay' \in [Keys -> Delays]
  /\ load' = [load EXCEPT ![l] = Idle]
  /\ UNCHANGED <<core, group, select, test, agreed>>

ChooseGroup ==
  /\ group' \in Groups
  /\ UNCHANGED <<core, mark, delay, calls, agreed>>

-----------------------------------------------------------------------------
(* Selecting a node *)

\* The selection the page waits for.
Awaited(s) == select[s].at # "idle" /\ select[s].heard
pendingSelection == \E s \in Selects : Awaited(s)

\* selectCurrent
Select(s) ==
  /\ ~pendingSelection /\ select[s].at = "idle"
  /\ \E n \in Nodes :
       select' = [select EXCEPT ![s] =
         [at |-> "asked", group |-> group, node |-> n, heard |-> TRUE]]
  /\ UNCHANGED <<core, page, load, test, agreed>>

\* The handler's answer; nobody hears that of a request given up.
Answered(s, answer) ==
  select' = [select EXCEPT ![s] = IF @.heard THEN [@ EXCEPT !.at = answer] ELSE Idle]

\* handleManagerProxyGroupDetail.  actionMu is held from setting to reading back.
\* The core may do nothing and say nothing, or do it and the answer be lost.
SetProxy(s) ==
  /\ select[s].at = "asked" /\ \A t \in Selects : select[t].at # "sent"
  /\ \E n \in {now[select[s].group], select[s].node} : Uses(select[s].group, n)
  /\ select' = [select EXCEPT ![s].at = "sent"] \/ Answered(s, "failed")
  /\ UNCHANGED <<page, load, test>>

\* Mutant: the answer is what was asked for, not what was read back.
ReadBackUnread(s) ==
  /\ select[s].at = "sent"
  /\ Answered(s, "ok") \/ Answered(s, "failed")
  /\ UNCHANGED <<core, page, load, test, agreed>>

ReadBack(s) ==
  /\ select[s].at = "sent"
  /\ \/ now[select[s].group] = select[s].node /\ Answered(s, "ok")
     \/ Answered(s, "failed")
  /\ UNCHANGED <<core, page, load, test, agreed>>

\* The client's 60 s are over; the page is told, and the manager carries on.
SelectGivenUp(s) ==
  /\ select[s].at \in {"asked", "sent"} /\ Awaited(s)
  /\ select' = [select EXCEPT ![s].heard = FALSE]
  /\ UNCHANGED <<core, page, load, test, agreed>>

MarkMoved(g, n) == [mark EXCEPT ![g] = n]

\* The group read back replaces the one shown, its delays as well; if another one is
\* shown by now, nothing changes.
SelectDrawn(s) ==
  LET g == select[s].group
      n == select[s].node
  IN  /\ select[s].at = "ok"
      /\ select' = [select EXCEPT ![s] = Idle]
      /\ IF g = group
         THEN /\ mark' = MarkMoved(g, n)
              /\ agreed' = IF now[g] = n /\ \A l \in Loads : load[l].at = "idle"
                           THEN agreed \cup {g} ELSE agreed \ {g}
              /\ \E d \in [Keys -> Delays] :
                   delay' = [k \in Keys |-> IF k[1] = g THEN d[k] ELSE delay[k]]
         ELSE UNCHANGED <<mark, agreed, delay>>
      /\ UNCHANGED <<core, group, load, test>>

\* The mark stays where it is.
ErrorDrawn(s) ==
  /\ select[s].at = "failed"
  /\ select' = [select EXCEPT ![s] = Idle]
  /\ UNCHANGED <<core, page, load, test, agreed>>

-----------------------------------------------------------------------------
(* Testing a node *)

\* Mutant: the delay to restore is read after the node is shown as being tested.
TestReadLate(k) ==
  /\ k[1] = group /\ test[k].at = "idle"
  /\ test' = [test EXCEPT ![k] = [at |-> "asked", restore |-> "testing"]]
  /\ delay' = [delay EXCEPT ![k] = "testing"]
  /\ UNCHANGED <<core, mark, group, load, select, agreed>>

\* testNode
Test(k) ==
  /\ k[1] = group /\ test[k].at = "idle"
  /\ test' = [test EXCEPT ![k] = [at |-> "asked", restore |-> delay[k]]]
  /\ delay' = [delay EXCEPT ![k] = "testing"]
  /\ UNCHANGED <<core, mark, group, load, select, agreed>>

\* handleManagerProxyDelay, one at a time under delayMu.
TestAnswered(k) ==
  /\ test[k].at = "asked"
  /\ test' = [test EXCEPT ![k] = [at |-> "done", delay |-> "measured"]]
  /\ UNCHANGED <<core, page, load, select, agreed>>

\* An error, or the request is given up.
TestFailed(k) ==
  /\ test[k].at = "asked"
  /\ test' = [test EXCEPT ![k] = [at |-> "done", delay |-> @.restore]]
  /\ UNCHANGED <<core, page, load, select, agreed>>

TestDrawn(k) ==
  /\ test[k].at = "done"
  /\ delay' = [delay EXCEPT ![k] = test[k].delay]
  /\ test' = [test EXCEPT ![k] = Idle]
  /\ UNCHANGED <<core, mark, group, load, select, agreed>>

PageNext ==
  \/ CoreSwitches \/ ChooseGroup
  \/ \E l \in Loads : Load(l) \/ LoadAnswered(l) \/ LoadFailed(l) \/ LoadDrawn(l)
  \/ \E s \in Selects :
       \/ Select(s) \/ SetProxy(s) \/ ReadBack(s)
       \/ SelectGivenUp(s) \/ SelectDrawn(s) \/ ErrorDrawn(s)
  \/ \E k \in Keys : Test(k) \/ TestAnswered(k) \/ TestFailed(k) \/ TestDrawn(k)

PageSpec == PageInit /\ [][PageNext]_pageVars

-----------------------------------------------------------------------------
(* Properties *)

\* The page marks as current only what the core has really used in that group: neither
\* a selection that the core has silently refused nor one whose request failed or was
\* given up moves the mark.  And a switch the page has confirmed stays shown for as long
\* as the core holds to it, unless a load was under way when it was confirmed.
MarkIsTrue ==
  /\ \A g \in Groups : mark[g] \in had[g]
  /\ \A g \in agreed : mark[g] = now[g]

\* A node shown as being tested has a test under way that will end it, whatever loads
\* and other tests are drawn in between: a delay restored after a failure is never the
\* sign of an earlier test.
NoStuckTesting == \A k \in Keys : delay[k] = "testing" => test[k].at # "idle"
=============================================================================
