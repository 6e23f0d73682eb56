--------------------------- MODULE Subscriptions ---------------------------
(***************************************************************************)
(* Subscriptions in pools (daemon_handlers_subscription.go,                *)
(* daemon_handlers_pool.go, subscription_pool.go,                          *)
(* subscription_scheduler.go, daemon_handlers_ruleprovider.go).            *)
(*                                                                         *)
(* A pool has one active member, or merges all of them; a subscription     *)
(* that fails to download Threshold times gives way to the next member of  *)
(* its pool.  Downloads take place outside the configuration's mutex, so   *)
(* that the subscription, its pool and the choice of the active member may *)
(* be others when the result comes.  What the core loads is decided when a *)
(* request for applying is executed (module Reconciler, whose promise is   *)
(* taken as one step here); not every change makes such a request.         *)
(*                                                                         *)
(* A worker refreshes one subscription at a time: the members of a pool,   *)
(* or those the scheduler finds due, are refreshed one after the other,    *)
(* each looked up anew, and what happens to one decides nothing about the  *)
(* next.  It waits for an application at most 20 s, so that what is left   *)
(* of its request is that one is due.  A subscription that nobody can      *)
(* download is one whose downloads fail.  Names, addresses and quotas are  *)
(* left out, a pool keeps its mode, and a cache's content is known only by *)
(* whether the core has read it since it was written.                      *)
(***************************************************************************)
EXTENDS FiniteSets, SequencesExt

CONSTANTS
  Subs,
  Pools,
  Merging,    \* the pools whose Mode is merge; the others fail over
  Workers,    \* refreshing handlers and the scheduler at once
  Threshold   \* subscriptionFailureThreshold, 3 in the program

ASSUME SubscriptionsConstantsOK ==
  /\ IsFiniteSet(Subs) /\ Subs \cap {"none", "gone"} = {}
  /\ Merging \subseteq Pools /\ IsFiniteSet(Workers)
  /\ Threshold \in Nat \ {0}

VARIABLES
  sub,     \* Subscriptions: present, with a cache, FailureCount up to Threshold
  list,    \* the pools in their order
  pool,    \* members, active member, whether it is enabled
  loaded,  \* what the core has read of each subscription's cache; Unknown while it
           \* need not follow: from a request for applying, or a change that the
           \* program does not apply, to the next application that works
  job,     \* each worker's step, and the subscription it refreshes
  asked    \* an application is due

subscriptionsVars == <<sub, list, pool, loaded, job, asked>>

Absent  == [here |-> FALSE, cached |-> FALSE, fails |-> 0]
NewPool == [members |-> <<>>, active |-> "none", enabled |-> FALSE]
Unassigned == [at |-> "idle", of |-> "none"]
Unknown == [s \in Subs |-> "unknown"]

SubscriptionsInit ==
  /\ sub = [s \in Subs |-> Absent]
  /\ list = <<>> /\ pool = [p \in Pools |-> NewPool]
  /\ loaded = [s \in Subs |-> "none"]
  /\ job = [w \in Workers |-> Unassigned]
  /\ asked = FALSE

Here == {s \in Subs : sub[s].here}
Listed == ToSet(list)

\* What is left of a list without the members of S, in the same order.
Without(l, S) ==
  LET kept    == {i \in DOMAIN l : l[i] \notin S}
      rank(i) == Cardinality({j \in kept : j <= i})
  IN  [k \in 1 .. Cardinality(kept) |-> l[CHOOSE i \in kept : rank(i) = k]]

\* The lists of members a request may name.
MemberLists == {l \in SeqOf(Here, Cardinality(Here)) : IsInjective(l)}

-----------------------------------------------------------------------------
(* What a configuration selects, and when it is valid *)

Enabled == {p \in Listed : pool[p].enabled}

\* activePoolSubscriptions
SelectedOf(p) ==
  IF p \in Merging THEN {s \in ToSet(pool[p].members) : sub[s].cached}
  ELSE {s \in {pool[p].active} \cap Subs : sub[s].cached}
Selected   == UNION {SelectedOf(p) : p \in Enabled}
Selectable == Enabled # {} /\ \A p \in Enabled : SelectedOf(p) # {}

\* Validate: members exist and belong to one pool once, the active member is one of
\* them, an enabled pool has some.
Valid(S, P, L) ==
  \A p \in ToSet(L) :
    LET members == ToSet(P[p].members)
    IN  /\ IsInjective(P[p].members)
        /\ \A s \in members : S[s].here
        /\ \A q \in ToSet(L) \ {p} : members \cap ToSet(P[q].members) = {}
        /\ P[p].active \in members \cup {"none"}
        /\ P[p].enabled => members # {}

UpdateGlobalConfig(S, P, L) ==
  /\ Valid(S, P, L)
  /\ sub' = S /\ pool' = P /\ list' = L

Unsaved == UNCHANGED <<sub, pool, list>>

-----------------------------------------------------------------------------
(* Changes of pools *)

FirstOrNone(members) == IF members = <<>> THEN "none" ELSE Head(members)

\* The pools after RemoveSubscription.
RemoveSubscription(s) ==
  [p \in Pools |->
    LET kept == Without(pool[p].members, {s})
    IN  [members |-> kept,
         active  |-> IF pool[p].active = s THEN FirstOrNone(kept) ELSE pool[p].active,
         enabled |-> pool[p].enabled /\ kept # <<>>]]

\* Mutant: a member is copied into its new pool and stays the active one of the old.
AssignKeepsActive(P, target, members) ==
  [p \in Pools |->
    IF p = target THEN P[p]
    ELSE [P[p] EXCEPT !.members = Without(@, ToSet(members))]]

\* assignPoolMembers: members move, a pool that has lost its active member takes the
\* next one, or is disabled.
AssignPoolMembers(P, target, members) ==
  [p \in Pools |->
    LET moved == ToSet(members)
        kept  == Without(P[p].members, moved)
        lost  == P[p].active \in moved
    IN  IF p = target THEN P[p]
        ELSE [members |-> kept,
              active  |-> IF lost THEN FirstOrNone(kept) ELSE P[p].active,
              enabled |-> P[p].enabled /\ ~(lost /\ kept = <<>>)]]

\* A pool as a request describes it; the first member is the default for the active one.
PoolOf(members, active, enabled) ==
  [members |-> members, enabled |-> enabled,
   active  |-> IF active = "none" THEN FirstOrNone(members) ELSE active]

PoolsWith(p, members, active, enabled) ==
  AssignPoolMembers([pool EXCEPT ![p] = PoolOf(members, active, enabled)], p, members)

\* reconcileLatest
Asks == asked' = TRUE /\ loaded' = Unknown

\* Both requests end with reconcileLatest, also when they change nothing the core
\* would notice.
CreatePool(p) ==
  /\ p \notin Listed
  /\ \E members \in MemberLists, enabled \in BOOLEAN :
       \E active \in IF members = <<>> THEN {"none"} ELSE ToSet(members) :
         UpdateGlobalConfig(sub, PoolsWith(p, members, active, enabled), Append(list, p))
  /\ Asks
  /\ UNCHANGED job

UpdatePool(p) ==
  /\ p \in Listed
  /\ \E members \in MemberLists, enabled \in BOOLEAN :
       \E active \in IF members = <<>> THEN {"none"} ELSE ToSet(members) :
         UpdateGlobalConfig(sub, PoolsWith(p, members, active, enabled), list)
  /\ Asks
  /\ UNCHANGED job

\* Nothing is applied.
DeletePool(p) ==
  /\ p \in Listed
  /\ UpdateGlobalConfig(sub, [pool EXCEPT ![p] = NewPool], Without(list, {p}))
  /\ loaded' = Unknown
  /\ UNCHANGED <<job, asked>>

-----------------------------------------------------------------------------
(* Subscriptions come and go *)

\* writeSubscriptionCache: the core has not read what is in the file now.
WriteCache(s) == loaded' = [loaded EXCEPT ![s] = IF @ = "current" THEN "old" ELSE @]

\* ensureDefaultPool: the first one, or a new one, which fails over.
WithDefaultPool(p) ==
  IF list = <<>> THEN [P |-> [pool EXCEPT ![p].enabled = TRUE], L |-> <<p>>]
  ELSE [P |-> pool, L |-> list]

Downloaded == [here |-> TRUE, cached |-> TRUE, fails |-> 0]

\* A subscription joins a pool.
Joined(P, p, s) ==
  [P EXCEPT ![p].members = IF s \in ToSet(@) THEN @ ELSE Append(@, s),
            ![p].active  = IF @ = "none" THEN s ELSE @]

AppliesImport(P, p, s) == P[p].active = s /\ P[p].enabled

\* importSubscriptionContent, of a new subscription or over one of that name.  The
\* cache is written before the configuration is validated and saved.
Import(s) ==
  /\ \E p0 \in Pools \ Merging :
       LET d == WithDefaultPool(p0)
           p == Head(d.L)
           S == [sub EXCEPT ![s] = Downloaded]
           P == Joined(d.P, p, s)
       IN  \/ /\ UpdateGlobalConfig(S, P, d.L)
              /\ IF AppliesImport(P, p, s)
                 THEN Asks
                 ELSE /\ IF p \in Merging THEN loaded' = Unknown ELSE WriteCache(s)
                      /\ UNCHANGED asked
           \/ Unsaved /\ loaded' = Unknown /\ UNCHANGED asked
  /\ UNCHANGED job

Created == [here |-> TRUE, cached |-> FALSE, fails |-> 0]

CreateManual(s) ==
  /\ s \notin Here
  /\ UpdateGlobalConfig([sub EXCEPT ![s] = Created], pool, list)
  /\ UNCHANGED <<loaded, job, asked>>

\* Nothing is applied.  A subscription of that name that comes later is another one:
\* workers that still refresh this one will not find it.
Delete(s) ==
  /\ s \in Here
  /\ UpdateGlobalConfig([sub EXCEPT ![s] = Absent], RemoveSubscription(s), list)
  /\ job' = [w \in Workers |-> IF job[w].of = s THEN [job[w] EXCEPT !.of = "gone"] ELSE job[w]]
  /\ loaded' = Unknown
  /\ UNCHANGED asked

\* POST apply sets the index of former versions; rule providers are committed.  Both
\* call reconcileLatest.
ApplyOnly ==
  /\ Here # {}
  /\ Asks
  /\ UNCHANGED <<sub, list, pool, job>>

-----------------------------------------------------------------------------
(* Refreshing *)

\* refreshSubscription looks it up, and the download starts.
LookUp(w, s) ==
  /\ job[w].at = "idle" /\ s \in Here
  /\ job' = [job EXCEPT ![w] = [at |-> "fetch", of |-> s]]
  /\ UNCHANGED <<sub, list, pool, loaded, asked>>

\* PUT of a subscription; POST refresh of a pool; the members the scheduler finds due.
Refresh(w, s)     == LookUp(w, s)
RefreshPool(w, p) == \E s \in ToSet(pool[p].members) : p \in Listed /\ LookUp(w, s)
RefreshDue(w)     == \E p \in Enabled : \E s \in ToSet(pool[p].members) : LookUp(w, s)

Goes(w, step) == job' = [job EXCEPT ![w].at = step]
Rests(w)      == job' = [job EXCEPT ![w] = Unassigned]

\* The subscription was deleted during the download.
Vanished(w) ==
  /\ job[w].at = "fetch" /\ job[w].of = "gone"
  /\ Rests(w)
  /\ UNCHANGED <<sub, list, pool, loaded, asked>>

FetchFails(w) ==
  LET s == job[w].of
  IN  /\ job[w].at = "fetch" /\ s \in Here
      /\ \/ /\ UpdateGlobalConfig(
                 [sub EXCEPT ![s].fails = IF @ < Threshold THEN @ + 1 ELSE @], pool, list)
            /\ Goes(w, "failover")
         \/ Unsaved /\ Rests(w)
      /\ UNCHANGED <<loaded, asked>>

ActiveSomewhere(s) == \E p \in Enabled : pool[p].active = s

\* Refreshing another member of a merging pool is not applied, nor is a refresh that
\* cannot be saved, though its cache is written.
Fetched(w) ==
  LET s == job[w].of
  IN  /\ job[w].at = "fetch" /\ s \in Here
      /\ Rests(w)
      /\ \/ /\ UpdateGlobalConfig([sub EXCEPT ![s] = Downloaded], pool, list)
            /\ IF ActiveSomewhere(s) THEN Asks
               ELSE /\ IF \E p \in Enabled \cap Merging : s \in ToSet(pool[p].members)
                       THEN loaded' = Unknown ELSE WriteCache(s)
                    /\ UNCHANGED asked
         \/ Unsaved /\ loaded' = Unknown /\ UNCHANGED asked

\* The members that may take over from s.
Candidates(p, s) ==
  Without(pool[p].members, {m \in Subs : m = s \/ ~sub[m].cached \/ sub[m].fails >= Threshold})

\* Pools that switch: s is still there, still active, and has failed often enough.
SwitchFrom(s) ==
  {p \in Enabled \ Merging :
     pool[p].active = s /\ sub[s].fails >= Threshold /\ Candidates(p, s) # <<>>}

\* Mutant: the switch is saved and nobody is told.
SwitchedQuietly(s) == UNCHANGED <<asked, loaded>>

\* Only a switch is applied.
Switched(s) == IF SwitchFrom(s) # {} THEN Asks ELSE UNCHANGED <<asked, loaded>>

\* failoverSubscription
Failover(w) ==
  LET s == job[w].of
  IN  /\ job[w].at = "failover"
      /\ Rests(w)
      /\ \/ /\ UpdateGlobalConfig(sub, [p \in Pools |->
                 IF p \in SwitchFrom(s) THEN [pool[p] EXCEPT !.active = Head(Candidates(p, s))]
                 ELSE pool[p]], list)
            /\ Switched(s)
         \/ Unsaved /\ UNCHANGED <<asked, loaded>>

-----------------------------------------------------------------------------
(* Applying *)

\* The newest configuration is generated and the core reads it.
Apply ==
  /\ asked /\ asked' = FALSE
  /\ Selectable
  /\ loaded' = [s \in Subs |-> IF s \in Selected THEN "current" ELSE "none"]
  /\ UNCHANGED <<sub, list, pool, job>>

\* One enabled pool without a usable source is enough; or the core refuses.
ApplyFails ==
  /\ asked /\ asked' = FALSE
  /\ UNCHANGED <<sub, list, pool, loaded, job>>

SubscriptionsNext ==
  \/ \E s \in Subs : Import(s) \/ CreateManual(s) \/ Delete(s)
  \/ \E p \in Pools : CreatePool(p) \/ UpdatePool(p) \/ DeletePool(p)
  \/ \E w \in Workers :
       \/ \E s \in Subs : Refresh(w, s)
       \/ \E p \in Pools : RefreshPool(w, p)
       \/ RefreshDue(w) \/ Vanished(w) \/ FetchFails(w) \/ Fetched(w) \/ Failover(w)
  \/ ApplyOnly \/ Apply \/ ApplyFails

SubscriptionsSpec == SubscriptionsInit /\ [][SubscriptionsNext]_subscriptionsVars

-----------------------------------------------------------------------------
(* Properties *)

\* When no application is due, the core has read the current cache of exactly the
\* subscriptions the pools select: no switch, refresh, import or change of a pool is
\* forgotten or overtaken by another's, whatever changes while a download runs.
\* (Deletions, refreshes of the other members of a merging pool and failures are
\* followed only by the next application.)
CoreFollowsPools ==
  loaded # Unknown =>
    \A s \in Subs : loaded[s] = IF s \in Selected THEN "current" ELSE "none"

\* Every subscription can be deleted, and every list of members be given to a pool, at
\* any time: what the other pools are left with is valid, so that no sequence of moves,
\* deletions, imports and switches ends in a configuration that can no longer be edited.
EditsAreLegal ==
  /\ \A s \in Here : Valid([sub EXCEPT ![s] = Absent], RemoveSubscription(s), list)
  /\ \A p \in Listed, members \in MemberLists :
       Valid(sub, PoolsWith(p, members, "none", FALSE), list)
=============================================================================
