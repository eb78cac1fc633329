------------------------------ MODULE Gateway ------------------------------
(***************************************************************************)
(* Requests to one served model with several targets: route resolution     *)
(* with healthy-first ranking and round robin (server/src/gateway/         *)
(* servedModels.ts), the bounded warm-up wait and the failover chain       *)
(* (gateway.ts).  A request comes over /v1 with a client key, or from the  *)
(* chat (Chat.tla), which watches the answer chunk by chunk.  Engines and  *)
(* their health are the environment; Serving.tla has one target's engine   *)
(* and its warm-up in detail.                                              *)
(***************************************************************************)
EXTENDS Naturals, Sequences, FiniteSets, Functions

CONSTANTS
  Target, NoTarget,
  Request,       \* requests over time; each is made at most once
  Chat,          \* those that the chat makes
  NoModel,
  Offered,       \* records the operator may give the alias
  FirstHealths,  \* what the targets' health may be in the beginning
  MaxFrames,     \* bound on the frames of one engine's answer
  MovesTo,       \* bound: the health that targets may come to
  MaxMoves       \* bound on health changes, edits and restarts

\* Best first; a target whose deployment is not known ranks before a dead one.
HealthOrder == <<"healthy", "degraded", "unknown", "down">>
Health == {HealthOrder[i] : i \in 1..4}

\* A target twice in one record, which the store does not refuse, is left out.
Chains == {s \in UNION {[1..n -> Target] : n \in 0..Cardinality(Target)} : IsInjective(s)}
Model == [targets : Chains, onDemand : BOOLEAN, vision : BOOLEAN]

ASSUME GatewayConstants ==
  /\ IsFiniteSet(Target) /\ NoTarget \notin Target /\ Chat \subseteq Request
  /\ FirstHealths \subseteq [Target -> Health] /\ Offered \subseteq Model /\ NoModel \notin Model
  /\ MovesTo \subseteq Health /\ MaxFrames \in Nat /\ MaxMoves \in Nat

\* Where a request is.  "lost": the dashboard restarted under it.
Phase == {"new", "warming", "asking", "waiting", "ok", "refused", "failed", "done", "lost"}
Reading == {"ok", "refused", "failed"}

VARIABLES
  served,        \* the alias's record in ServedModelsStore, or NoModel
  node,          \* per target: its deployment's health, and whether its node has a lanIp
  rr,            \* rrCounters of the alias
  at,            \* phase of each request
  route,         \* per request: the record it was given, the ranked chain still to try, ...
  tried,         \* per request: targets tried so far, in order
  heard,         \* per request: the chunks its onResponseChunk was given
  reply,         \* per request: status of the answer
  firsts,        \* history: how often each target headed the chain a request was
                 \* given at first, since the last change
  seconds,       \* history: how often, the one it was given after a warm-up
  moves

requestVars == <<at, route, tried, heard, reply>>
gatewayVars == <<served, node, rr, requestVars, firsts, seconds, moves>>

NoRoute == [model |-> NoModel, chain |-> <<>>, seen |-> <<>>]
Untouched == [t \in Target |-> 0]

----------------------------------------------------------------------------
(* Ranking.                                                                *)

\* The elements of s that are in S, in their order.
Only(s, S) ==
  LET upto[i \in 0..Len(s)] ==
        IF i = 0 THEN <<>> ELSE IF s[i] \in S THEN Append(upto[i - 1], s[i]) ELSE upto[i - 1]
  IN upto[Len(s)]

Rotate(list, k) ==
  LET shift == k % Len(list)
  IN IF list = <<>> THEN <<>> ELSE SubSeq(list, shift + 1, Len(list)) \o SubSeq(list, 1, shift)

RankTargets(targets, health, k) ==
  LET class(h) == Rotate(Only(targets, {t \in Target : health[t] = h}), k)
  IN class(HealthOrder[1]) \o class(HealthOrder[2]) \o class(HealthOrder[3]) \o class(HealthOrder[4])

Seen == [t \in Target |-> node[t].health]
Resolve(model, k) == [model |-> model, chain |-> RankTargets(model.targets, Seen, k), seen |-> Seen]
AllDown(chain) == \A i \in 1..Len(chain) : Seen[chain[i]] = "down"

----------------------------------------------------------------------------
(* One request.                                                            *)

Close(r, status) ==
  /\ at' = [at EXCEPT ![r] = "done"] /\ reply' = [reply EXCEPT ![r] = status]
  /\ UNCHANGED <<route, tried, heard>>

Headed(counts, chain) == IF chain = <<>> THEN counts ELSE [counts EXCEPT ![chain[1]] = @ + 1]

\* Fault: the round-robin counter is left for the end of the request.
BeginCountsLater(r) ==
  /\ served # NoModel /\ served.targets # <<>>
  /\ LET found == Resolve(served, rr)
     IN /\ at' = [at EXCEPT ![r] = "asking"] /\ route' = [route EXCEPT ![r] = found]
        /\ firsts' = [firsts EXCEPT ![found.chain[1]] = @ + 1]
  /\ UNCHANGED <<rr, tried, heard, reply, seconds>>

\* handleGatewayRequest up to its first await.
Begin(r) ==
  \/ served = NoModel /\ Close(r, "unknown") /\ UNCHANGED <<rr, firsts, seconds>>
  \/ /\ served # NoModel /\ served.targets = <<>> /\ ~served.onDemand
     /\ Close(r, "noTargets") /\ UNCHANGED <<rr, firsts, seconds>>
  \/ /\ served # NoModel /\ (served.targets # <<>> \/ served.onDemand)
     /\ LET found == Resolve(served, rr)
            warm == served.onDemand /\ AllDown(found.chain)
        IN /\ at' = [at EXCEPT ![r] = IF warm THEN "warming" ELSE "asking"]
           /\ route' = [route EXCEPT ![r] = found]
           /\ firsts' = Headed(firsts, found.chain)
     /\ rr' = rr + 1
     /\ UNCHANGED <<tried, heard, reply, seconds>>

\* A /v1 request; a bad or missing key and a body without a model end at once.
Arrive(r) ==
  /\ at[r] = "new" /\ r \notin Chat
  /\ \/ Begin(r)
     \/ \E status \in {"unauthorized", "badRequest"} : Close(r, status) /\ UNCHANGED <<rr, firsts, seconds>>
  /\ UNCHANGED <<served, node, moves>>

\* The wait for a spun-up engine: the route is resolved again until some target
\* is not down, or until the deadline; a start that was not possible, and a
\* deadline that has passed, leave the old route.  The counter is not advanced.
Warmed(r) ==
  /\ at[r] = "warming"
  /\ \/ LET fresh == Resolve(route[r].model, rr)
        IN /\ ~AllDown(fresh.chain) /\ route' = [route EXCEPT ![r] = fresh]
           /\ seconds' = Headed(seconds, fresh.chain)
     \/ UNCHANGED <<route, seconds>>
  /\ at' = [at EXCEPT ![r] = "asking"]
  /\ UNCHANGED <<served, node, rr, tried, heard, reply, firsts, moves>>

\* The next target of the chain; one without an address is skipped.
Try(r) ==
  /\ at[r] = "asking" /\ route[r].chain # <<>>
  /\ LET t == Head(route[r].chain)
     IN /\ tried' = [tried EXCEPT ![r] = Append(@, t)]
        /\ at' = [at EXCEPT ![r] = IF node[t].host THEN "waiting" ELSE "asking"]
  /\ route' = [route EXCEPT ![r].chain = Tail(@)]
  /\ UNCHANGED <<served, node, rr, heard, reply, firsts, seconds, moves>>

\* The whole chain has been tried.
NoUpstream(r) ==
  /\ at[r] = "asking" /\ route[r].chain = <<>> /\ Close(r, "noUpstream")
  /\ UNCHANGED <<served, node, rr, firsts, seconds, moves>>

Engine(r) == tried[r][Len(tried[r])]
FromEngine(r) == SelectSeq(heard[r], LAMBDA e : e.by = Engine(r))
Begun(r) == Len(SelectSeq(FromEngine(r), LAMBDA e : e.part # "last"))
MidLine(r) == FromEngine(r) # <<>> /\ FromEngine(r)[Len(FromEngine(r))].part = "first"

\* Headers of the engine's answer: 2xx, 4xx or 5xx.
Headers(r) ==
  /\ at[r] = "waiting" /\ \E s \in Reading : at' = [at EXCEPT ![r] = s]
  /\ UNCHANGED <<served, node, rr, route, tried, heard, reply, firsts, seconds, moves>>

\* A chunk: a whole event-stream frame with a piece of text, or the first or
\* last part of one; a 5xx body is one chunk, which may end inside a line.  A
\* 4xx body holds no frame and nothing follows it; the chunks of a /v1 answer
\* only feed its trace, and it is sent whole.
Chunk(r) ==
  /\ at[r] \in {"ok", "failed"}
  /\ \E part \in {"whole", "first", "last"} :
       /\ IF part = "last" THEN MidLine(r) /\ at[r] = "ok" ELSE ~MidLine(r) /\ Begun(r) < MaxFrames
       /\ heard' = [heard EXCEPT ![r] = Append(@, [by |-> Engine(r), status |-> at[r], part |-> part])]
  /\ UNCHANGED <<served, node, rr, at, route, tried, reply, firsts, seconds, moves>>

\* The end of the body: a 5xx goes on to the next target, anything else is the answer.
AnswerEnds(r) ==
  /\ at[r] \in Reading /\ (at[r] = "ok" => ~MidLine(r))
  /\ \/ at[r] = "failed" /\ at' = [at EXCEPT ![r] = "asking"] /\ UNCHANGED <<route, tried, heard, reply>>
     \/ at[r] # "failed" /\ Close(r, at[r])
  /\ UNCHANGED <<served, node, rr, firsts, seconds, moves>>

\* No connection, a broken body or the 300 s abort.
AnswerBreaks(r) ==
  /\ at[r] \in Reading \cup {"waiting"} /\ at' = [at EXCEPT ![r] = "asking"]
  /\ UNCHANGED <<served, node, rr, route, tried, heard, reply, firsts, seconds, moves>>

RequestStep(r) ==
  Warmed(r) \/ Try(r) \/ NoUpstream(r) \/ Headers(r) \/ AnswerEnds(r) \/ AnswerBreaks(r)

----------------------------------------------------------------------------
(* The environment and the operator.                                       *)

Counted == moves < MaxMoves /\ moves' = moves + 1
Change == Counted /\ firsts' = Untouched /\ seconds' = Untouched

\* Targets come to one health, several of them before anything else happens, or a
\* node's address comes or goes.
NodeMoves ==
  /\ \/ \E S \in SUBSET Target, h \in MovesTo :
          /\ S # {} /\ \A t \in S : node[t].health # h
          /\ node' = [t \in Target |-> IF t \in S THEN [node[t] EXCEPT !.health = h] ELSE node[t]]
     \/ \E t \in Target : node' = [node EXCEPT ![t].host = ~@]
  /\ Change /\ UNCHANGED <<served, rr, requestVars>>

\* POST /api/gateway/served-models; a request under way keeps the record it has.
SaveModel ==
  /\ served' \in Offered \ {served}
  /\ Change /\ UNCHANGED <<node, rr, requestVars>>

RemoveModel ==
  /\ served # NoModel /\ served' = NoModel
  /\ Change /\ UNCHANGED <<node, rr, requestVars>>

\* Requests under way and the counters are in memory; the served models are not.
GatewayRestart ==
  /\ rr' = 0 /\ Change
  /\ LET Kept(r) == at[r] \in {"new", "done"}
     IN /\ at' = [r \in Request |-> IF Kept(r) THEN at[r] ELSE "lost"]
        /\ route' = [r \in Request |-> IF Kept(r) THEN route[r] ELSE NoRoute]
        /\ tried' = [r \in Request |-> IF Kept(r) THEN tried[r] ELSE <<>>]
        /\ heard' = [r \in Request |-> IF Kept(r) THEN heard[r] ELSE <<>>]
  /\ UNCHANGED <<served, node, reply>>

GatewayInit ==
  /\ served \in Offered
  /\ \E health \in FirstHealths : node = [t \in Target |-> [health |-> health[t], host |-> TRUE]]
  /\ rr = 0 /\ firsts = Untouched /\ seconds = Untouched /\ moves = 0
  /\ at = [r \in Request |-> "new"]
  /\ route = [r \in Request |-> NoRoute]
  /\ tried = [r \in Request |-> <<>>] /\ heard = [r \in Request |-> <<>>]
  /\ reply = [r \in Request |-> "none"]
=============================================================================
