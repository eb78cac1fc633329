---------------------------- MODULE AlertEngine ----------------------------
(***************************************************************************)
(* The alert engine's one-minute tick (server/src/alerts/engine.ts and the *)
(* interval of server/src/index.ts), the open rows of the alerts store     *)
(* (server/src/stores/alertsStore.ts), the rule store and the operator's   *)
(* routes.  Time is counted in ticks.  A resolved row never opens again    *)
(* and is never read by the engine, so only open rows are kept.            *)
(***************************************************************************)
EXTENDS Naturals, Sequences, SequencesExt

CONSTANTS
  Rule,          \* rule ids
  Entity,        \* sparks, and "_fleet" for the gateway rule
  ForTicks,      \* condition.forMs, in ticks
  NoBreach,      \* no breachSince entry
  MaxMute,       \* bound on the length of a mute, in ticks
  MaxRestarts    \* bound on dashboard restarts

ASSUME NoBreachAssumption == NoBreach \notin Nat
ASSUME AlertBounds == ForTicks \in Nat /\ MaxMute \in Nat \ {0} /\ MaxRestarts \in Nat

Pair == Rule \X Entity

VARIABLES
  rules,      \* AlertRulesStore: "absent", "off" or "on"
  listed,     \* entities the tick samples
  hot,        \* pairs whose condition holds now; missing data never does
  since,      \* breachSince: ticks since the entry was made (up to ForTicks), or NoBreach
  open,       \* open rows of each pair, oldest first
  clearFor,   \* history: ticks since an evaluation found the pair clear, or the start
  restarts

envVars == <<rules, listed, hot>>
alertVars == <<envVars, since, open, clearFor, restarts>>

Row == [state : {"firing", "acknowledged"}, muted : 0 .. MaxMute]

UpTo(limit, n) == IF n < limit THEN n + 1 ELSE limit
Less(n) == IF n = 0 THEN 0 ELSE n - 1

\* What the tick looks at: enabled rules on sampled entities.
Evaluated == {p \in Pair : rules[p[1]] = "on" /\ p[2] \in listed}

----------------------------------------------------------------------------
(* The tick.                                                               *)

\* Fault: a cleared condition keeps its first breach time.
BreachSinceSticky(p) ==
  IF since[p] # NoBreach THEN UpTo(ForTicks, since[p])
  ELSE IF p \in Evaluated \cap hot THEN 0 ELSE NoBreach

\* The breach clock of a pair after this tick.  That of a pair which is not
\* evaluated runs on.
BreachSince(p) ==
  IF p \in Evaluated \ hot THEN NoBreach
  ELSE IF since[p] # NoBreach THEN UpTo(ForTicks, since[p])
  ELSE IF p \in Evaluated THEN 0 ELSE NoBreach

\* openByRuleEntity: the newest open row, one tick later.
Newest(p) == [Last(open[p]) EXCEPT !.muted = Less(@)]

Older(p) == [i \in 1 .. Len(open[p]) - 1 |-> [open[p][i] EXCEPT !.muted = Less(@)]]

\* Fault: only a firing row counts as open.
BreachingFiringOnly(p) ==
  IF BreachSince(p) # ForTicks THEN IF open[p] = << >> THEN << >> ELSE Append(Older(p), Newest(p))
  ELSE IF open[p] = << >> \/ Last(open[p]).state # "firing"
       THEN Append(open[p], [state |-> "firing", muted |-> 0])
       ELSE Append(Older(p), Newest(p))

\* The rows of a breaching pair: once the breach is old enough a row is
\* inserted, or an acknowledged one that is not muted is re-fired.
Breaching(p) ==
  IF open[p] = << >>
  THEN IF BreachSince(p) = ForTicks THEN <<[state |-> "firing", muted |-> 0]>> ELSE << >>
  ELSE IF BreachSince(p) = ForTicks /\ Newest(p).muted = 0
       THEN Append(Older(p), [Newest(p) EXCEPT !.state = "firing"])
       ELSE Append(Older(p), Newest(p))

\* Fault: an acknowledged row is left for the operator to resolve.
RowsResolveFiring(p) ==
  IF p \in Evaluated \cap hot THEN Breaching(p)
  ELSE IF open[p] = << >> THEN << >>
  ELSE IF p \in Evaluated /\ Last(open[p]).state = "firing" THEN Older(p)
  ELSE Append(Older(p), Newest(p))

\* Fault: the breach of a pair without open row is not looked at again.
RowsNeverInserted(p) ==
  IF open[p] = << >> THEN << >>
  ELSE IF p \in Evaluated \cap hot THEN Breaching(p)
  ELSE IF p \in Evaluated THEN Older(p) ELSE Append(Older(p), Newest(p))

\* A clear pair's row is resolved.
Rows(p) ==
  IF p \in Evaluated \cap hot THEN Breaching(p)
  ELSE IF open[p] = << >> THEN << >>
  ELSE IF p \in Evaluated THEN Older(p) ELSE Append(Older(p), Newest(p))

\* Every row inserted or re-fired is delivered at once (toast and webhooks).
Tick ==
  /\ since' = [p \in Pair |-> BreachSince(p)]
  /\ open' = [p \in Pair |-> Rows(p)]
  /\ clearFor' = [p \in Pair |-> IF p \in Evaluated \ hot THEN 0 ELSE UpTo(ForTicks + 1, clearFor[p])]
  /\ UNCHANGED <<envVars, restarts>>

----------------------------------------------------------------------------
(* The operator and the environment.                                       *)

\* Conditions come and go, data may be missing (not hot).
Measure(p) ==
  /\ hot' = IF p \in hot THEN hot \ {p} ELSE hot \cup {p}
  /\ UNCHANGED <<rules, listed, since, open, clearFor, restarts>>

\* A node is added to, or removed from, the directory.
Directory(e) ==
  /\ listed' = IF e \in listed THEN listed \ {e} ELSE listed \cup {e}
  /\ UNCHANGED <<rules, hot, since, open, clearFor, restarts>>

\* PUT and DELETE of a rule.  (That seed rules cannot be deleted, and that there
\* is a cap, only takes behaviours away.)  A PUT may change what the rule measures
\* too: which of its pairs are hot then changes by Measure.
SetRule(r, st) ==
  /\ rules' = [rules EXCEPT ![r] = st]
  /\ UNCHANGED <<listed, hot, since, open, clearFor, restarts>>

Acknowledge(p, i) ==
  /\ open[p][i].state = "firing"
  /\ open' = [open EXCEPT ![p][i].state = "acknowledged"]
  /\ UNCHANGED <<envVars, since, clearFor, restarts>>

Resolve(p, i) ==
  /\ open' = [open EXCEPT ![p] = RemoveAt(@, i)]
  /\ UNCHANGED <<envVars, since, clearFor, restarts>>

\* mute, or unmute when k = 0, of one alert row.
Mute(p, i, k) ==
  /\ open' = [open EXCEPT ![p][i].muted = k]
  /\ UNCHANGED <<envVars, since, clearFor, restarts>>

\* What the operator may ask for, at any time and in any order.
Routes ==
  \/ \E r \in Rule, st \in {"absent", "off", "on"} : SetRule(r, st)
  \/ \E p \in Pair : \E i \in DOMAIN open[p] :
        Acknowledge(p, i) \/ Resolve(p, i) \/ \E k \in 0 .. MaxMute : Mute(p, i, k)

\* Rows and rules are on disk, the breach clocks are not.
AlertsRestart ==
  /\ restarts < MaxRestarts
  /\ restarts' = restarts + 1
  /\ since' = [p \in Pair |-> NoBreach]
  /\ clearFor' = [p \in Pair |-> 0]
  /\ UNCHANGED <<envVars, open>>

----------------------------------------------------------------------------
AlertInit ==
  /\ rules = [r \in Rule |-> "on"]
  /\ listed = Entity
  /\ hot = {}
  /\ since = [p \in Pair |-> NoBreach]
  /\ open = [p \in Pair |-> << >>]
  /\ clearFor = [p \in Pair |-> 0]
  /\ restarts = 0

AlertNext ==
  \/ Tick
  \/ \E p \in Pair : Measure(p)
  \/ \E e \in Entity : Directory(e)
  \/ Routes
  \/ AlertsRestart

AlertSpec == AlertInit /\ [][AlertNext]_alertVars

\* setInterval fires the tick.
FairAlertSpec == AlertSpec /\ WF_alertVars(Tick)

----------------------------------------------------------------------------
(* Properties.                                                             *)

AlertTypes ==
  /\ rules \in [Rule -> {"absent", "off", "on"}]
  /\ listed \subseteq Entity /\ hot \subseteq Pair
  /\ since \in [Pair -> 0 .. ForTicks \cup {NoBreach}]
  /\ open \in [Pair -> Seq(Row)]
  /\ clearFor \in [Pair -> 0 .. ForTicks + 1]
  /\ restarts \in 0 .. MaxRestarts

\* A rule never has two open alerts on one entity, although the table has no key
\* on the pair: acknowledging, muting, resolving by hand, disabling and restarts
\* between the ticks included.
OneOpenAlert == \A p \in Pair : Len(open[p]) <= 1

\* "A breach must hold for forMs continuously before an alert fires"
\* (engine.ts:4), as far as the code keeps it: no evaluation of the last ForTicks
\* ticks found the pair clear, and the dashboard ran that long.  A tick on which
\* the rule is disabled or the entity unlisted is no evaluation.
FiresOnlyAfterHold ==
  [][\A p \in Pair : Len(open'[p]) > Len(open[p]) => clearFor'[p] > ForTicks]_alertVars

\* Once its condition stays clear, no alert of an enabled rule on a listed entity
\* stays open, acknowledged or muted as it may be.
ClearedIsResolved ==
  \A p \in Pair :
    <>[](p \in Evaluated /\ p \notin hot) => <>[](open[p] = << >>)

\* A breach that stays is always reported again: neither a resolve by hand nor an
\* interruption of the evaluation leaves it without an open alert for ever.
PersistentBreachAlerts ==
  \A p \in Pair :
    <>[](p \in Evaluated /\ p \in hot) => []<>(open[p] # << >>)
=============================================================================
