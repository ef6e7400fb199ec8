----------------------------- MODULE Local_proofs ----------------------------
(***************************************************************************)
(* The components of MCLocal for any number of requests, detectors, runs,  *)
(* links, scans, processes and checks.                                     *)
(***************************************************************************)
EXTENDS MCLocal, SumTheorems

-----------------------------------------------------------------------------
(* Agent runs and the links of requests (AgentRuns).                       *)

RunRows == [space : Spaces, parent : RunIds \cup {NoRun}]
RunChecked == [pc : {"checked"}, run : RunIds, space : Spaces,
               parent : RunIds \cup {NoRun}, stale : BOOLEAN]
LinkTargets == [LinkKinds -> EventIds \cup {NoEvent}]
RequestRows == [space : Spaces, links : LinkTargets]
LinkCalls == [pc : {"validate", "insert"}, event : EventIds, space : Spaces, links : LinkTargets]
Rollups == [pc : {"direct", "children", "done"}, root : RunIds, todo : SUBSET RunIds, total : Nat,
            space : Spaces, atLeast : Nat]

\* What the variables hold, field by field.
RunsShape ==
    /\ runs \in [RunIds -> RunRows \cup {NoRow}]
    /\ runWriters \in [RunWriters -> RunChecked \cup {AtRest}]
    /\ overtakenRun \in BOOLEAN
    /\ runSpend \in [RunIds -> 0..MaxRunSpend]
    /\ rollup \in Rollups \cup {AtRest}
LinksShape ==
    /\ requests \in [EventIds -> RequestRows \cup {NoRow}]
    /\ linkWriters \in [LinkWriters -> LinkCalls \cup {AtRest}]
    /\ writeLock = {} \/ \E w \in LinkWriters : writeLock = {w}

\* As long as no upsert followed stale lookups, trees are apart, and what a
\* caller looked up is still so unless another upsert came in between.
ApartInv ==
    ~overtakenRun =>
        /\ \A c \in RunIds : RunKnown(c) /\ runs[c].parent # NoRun =>
              SameSpace(runs[c].parent, runs[c].space)
        /\ \A w \in RunWriters : runWriters[w].pc = "checked" /\ ~runWriters[w].stale =>
              RunAllowed(runWriters[w].run, runWriters[w].space, runWriters[w].parent)

\* The runs whose spend a rollup has yet to add.
Left == IF rollup.pc = "direct" THEN rollup.todo \cup {rollup.root} ELSE rollup.todo

\* What a rollup has added is the spend of distinct runs D, and what it has
\* yet to add is of others; all of them are of its workspace.
RollupInv ==
    rollup.pc # "idle" =>
        /\ rollup.pc = "direct" => rollup.root \notin rollup.todo /\ rollup.total = 0
        /\ rollup.pc = "done" => rollup.todo = {}
        /\ \A r \in Left : runs[r].space = rollup.space
        /\ rollup.total + SumFunctionOnSet(runSpend, Left) >= rollup.atLeast
        /\ \E D \in SUBSET RunIds :
              /\ D \cap Left = {}
              /\ \A r \in D : runs[r].space = rollup.space
              /\ rollup.total <= SumFunctionOnSet(runSpend, D)

\* A caller between BEGIN IMMEDIATE and its commit is the only one, its event
\* has no row, and the links it is about to insert close no cycle.
LockInv ==
    \A w \in LinkWriters : linkWriters[w].pc # "idle" =>
        /\ writeLock = {w} /\ requests[linkWriters[w].event] = NoRow
        /\ linkWriters[w].pc = "insert" =>
              \A k \in LinkKinds : linkWriters[w].links[k] # NoEvent =>
                 /\ linkWriters[w].links[k] # linkWriters[w].event
                 /\ linkWriters[w].event \notin
                       Reaches(linkWriters[w].space, linkWriters[w].links[k])

RunsInv == RunsShape /\ ApartInv /\ RollupInv
LinksInv == LinksShape /\ LockInv /\ LinksAcyclic

\* A run has no row, or one with a workspace.
LEMMA RunRowHeld ==
    ASSUME RunsShape, NEW r \in RunIds
    PROVE  /\ RunKnown(r) <=> runs[r] \in RunRows
           /\ RunKnown(r) <=> runs[r].space \in Spaces
           /\ RunKnown(r) => runs[r].space \in Spaces /\ runs[r].parent \in RunIds \cup {NoRun}
<1>1. \A x \in RunRows : x # NoRow /\ x.space \in Spaces /\ x.parent \in RunIds \cup {NoRun}
  <2>. SUFFICES ASSUME NEW x \in RunRows
                PROVE  x # NoRow /\ x.space \in Spaces /\ x.parent \in RunIds \cup {NoRun}
    OBVIOUS
  <2>1. x.space \in Spaces /\ x.parent \in RunIds \cup {NoRun}
    BY DEF RunRows
  <2>2. NoRow.space = "none" /\ "none" \notin Spaces
    BY AgentRunsAssumption DEF NoRow
  <2>. QED
    BY <2>1, <2>2
<1>2. runs[r] \in RunRows \cup {NoRow}
  BY DEF RunsShape
<1>3. NoRow.space \notin Spaces
  BY AgentRunsAssumption DEF NoRow
<1>. QED
  BY <1>1, <1>2, <1>3 DEF RunKnown

\* A caller of insert_agent_run is at rest or between its lookups and the upsert.
LEMMA RunWriterHeld ==
    ASSUME RunsShape, NEW w \in RunWriters
    PROVE  /\ runWriters[w].pc \in {"idle", "checked"}
           /\ runWriters[w].pc = "checked" => runWriters[w] \in RunChecked
           /\ runWriters[w].pc = "checked" =>
                 /\ runWriters[w].run \in RunIds /\ runWriters[w].space \in Spaces
                 /\ runWriters[w].parent \in RunIds \cup {NoRun}
                 /\ runWriters[w].stale \in BOOLEAN
<1>1. runWriters[w] \in RunChecked \cup {AtRest}
  BY DEF RunsShape
<1>2. AtRest.pc = "idle"
  BY DEF AtRest
<1>3. \A x \in RunChecked :
         /\ x.pc = "checked" /\ x.run \in RunIds /\ x.space \in Spaces
         /\ x.parent \in RunIds \cup {NoRun} /\ x.stale \in BOOLEAN
  BY DEF RunChecked
<1>. QED
  BY <1>1, <1>2, <1>3

\* A rollup is at rest or holds what it has added and what is left.
LEMMA RollupHeld ==
    ASSUME RunsShape
    PROVE  /\ rollup.pc \in {"idle", "direct", "children", "done"}
           /\ rollup.pc # "idle" =>
                 /\ rollup \in Rollups /\ rollup.todo \in SUBSET RunIds /\ rollup.total \in Nat
                 /\ rollup.space \in Spaces /\ rollup.atLeast \in Nat
                 /\ rollup.root \in RunIds
<1>1. rollup \in Rollups \cup {AtRest}
  BY DEF RunsShape
<1>2. AtRest.pc = "idle"
  BY DEF AtRest
<1>3. \A x \in Rollups :
         /\ x.pc \in {"direct", "children", "done"} /\ x.todo \in SUBSET RunIds
         /\ x.total \in Nat /\ x.space \in Spaces /\ x.atLeast \in Nat /\ x.root \in RunIds
  BY DEF Rollups
<1>. QED
  BY <1>1, <1>2, <1>3

\* Sets of runs are finite and their spend is a number.
LEMMA RunSpendSum ==
    ASSUME RunsShape, NEW T \in SUBSET RunIds
    PROVE  IsFiniteSet(T) /\ SumFunctionOnSet(runSpend, T) \in Nat
<1>1. IsFiniteSet(T)
  BY AgentRunsAssumption, FS_Subset
<1>2. \A x \in T : runSpend[x] \in Nat
  BY AgentRunsAssumption DEF RunsShape
<1>. QED
  BY <1>1, <1>2, SumNat

\* The successors of a node can be reached from it, ...
LEMMA ReachStep ==
    ASSUME NEW S, NEW next \in [S -> SUBSET S], NEW x \in S
    PROVE  next[x] \subseteq Reachable(S, next, x)
BY DEF Reachable

\* ... the set of what can be reached is closed, ...
LEMMA ReachClosed ==
    ASSUME NEW S, NEW next \in [S -> SUBSET S], NEW x \in S, NEW z \in Reachable(S, next, x)
    PROVE  z \in S /\ next[z] \subseteq Reachable(S, next, x)
<1>1. z \in S /\ next[z] \subseteq S
  BY DEF Reachable
<1>2. ASSUME NEW y \in next[z], NEW C \in SUBSET S, next[x] \subseteq C,
             \A u \in C : next[u] \subseteq C
      PROVE  y \in C
  <2>1. z \in C
    BY <1>2 DEF Reachable
  <2>. QED
    BY <2>1, <1>2
<1>. QED
  BY <1>1, <1>2 DEF Reachable

\* ... and it is the least closed one.
LEMMA ReachLeast ==
    ASSUME NEW S, NEW next \in [S -> SUBSET S], NEW x \in S, NEW C \in SUBSET S,
           next[x] \subseteq C, \A z \in C : next[z] \subseteq C
    PROVE  Reachable(S, next, x) \subseteq C
BY DEF Reachable

\* Reaching is transitive.
LEMMA ReachOn ==
    ASSUME NEW S, NEW next \in [S -> SUBSET S], NEW x \in S, NEW z \in Reachable(S, next, x)
    PROVE  Reachable(S, next, z) \subseteq Reachable(S, next, x)
<1>. DEFINE C == Reachable(S, next, x)
<1>1. C \in SUBSET S
  BY DEF Reachable
<1>2. z \in S /\ next[z] \subseteq C /\ \A u \in C : next[u] \subseteq C
  BY ReachClosed
<1>. HIDE DEF C
<1>3. Reachable(S, next, z) \subseteq C
  BY <1>1, <1>2, ReachLeast
<1>. QED
  BY <1>3 DEF C

\* Giving edges to a node e that had none leaves a graph without cycles, if e
\* is no target of them and none of the targets reaches e.
LEMMA StaysAcyclic ==
    ASSUME NEW S, NEW next \in [S -> SUBSET S], NEW e \in S, NEW L \in SUBSET S,
           \A l \in L : l # e /\ e \notin Reachable(S, next, l),
           \A x \in S : x \notin Reachable(S, next, x),
           NEW x \in S
    PROVE  x \notin Reachable(S, [next EXCEPT ![e] = L], x)
<1>. DEFINE R(y) == Reachable(S, next, y)
            U == {y \in S : \E l \in L : y = l \/ y \in R(l)}
            C == {y \in S : y \in R(x) \/ (e \in R(x) /\ y \in U)}
<1>0. PICK after : after = [next EXCEPT ![e] = L]
  OBVIOUS
<1>1. /\ after \in [S -> SUBSET S] /\ after[e] = L
      /\ \A y \in S : y # e => after[y] = next[y]
  BY <1>0
<1>2. \A y \in S : R(y) \subseteq S /\ next[y] \subseteq R(y)
  BY ReachStep DEF Reachable
<1>3. \A y \in S : \A z \in R(y) : next[z] \subseteq R(y) /\ R(z) \subseteq R(y)
  BY ReachClosed, ReachOn
<1>. HIDE DEF R
<1>4. e \notin U /\ L \subseteq U
  BY DEF R
<1>5. \A z \in U : after[z] \subseteq U
  <2>. SUFFICES ASSUME NEW z \in U PROVE after[z] \subseteq U
    OBVIOUS
  <2>1. after[z] = next[z]
    BY <1>1, <1>4
  <2>2. PICK l \in L : z = l \/ z \in R(l)
    OBVIOUS
  <2>3. next[z] \subseteq R(l) /\ R(l) \subseteq S
    BY <2>2, <1>2, <1>3
  <2>. QED
    BY <2>1, <2>3
<1>6. CASE x = e
  <2>1. Reachable(S, after, x) \subseteq U
    <3>1. after[x] \subseteq U /\ U \in SUBSET S
      BY <1>1, <1>4, <1>6
    <3>. HIDE DEF U
    <3>. QED
      BY <1>1, <1>5, <3>1, ReachLeast
  <2>. QED
    BY <2>1, <1>4, <1>0, <1>6
<1>7. CASE x # e
  <2>1. after[x] \subseteq C /\ C \in SUBSET S
    BY <1>1, <1>2, <1>7
  <2>2. \A z \in C : after[z] \subseteq C
    <3>. SUFFICES ASSUME NEW z \in C PROVE after[z] \subseteq C
      OBVIOUS
    <3>1. CASE z \in U /\ e \in R(x)
      BY <3>1, <1>5
    <3>2. CASE z \in R(x) /\ z # e
      BY <3>2, <1>1, <1>3, <1>2
    <3>3. CASE z \in R(x) /\ z = e
      BY <3>3, <1>1, <1>4
    <3>. QED
      BY <3>1, <3>2, <3>3
  <2>3. Reachable(S, after, x) \subseteq C
    <3>. HIDE DEF C
    <3>. QED
      BY <1>1, <2>1, <2>2, ReachLeast
  <2>4. x \notin C
    <3>1. x \notin R(x)
      BY DEF R
    <3>2. ASSUME e \in R(x), NEW l \in L, x = l \/ x \in R(l) PROVE FALSE
      <4>1. e \in R(l)
        BY <3>2, <1>3
      <4>. QED
        BY <4>1 DEF R
    <3>. QED
      BY <3>1, <3>2
  <2>. QED
    BY <2>3, <2>4, <1>0
<1>. QED
  BY <1>6, <1>7

\* The runs of a tree are of the root's workspace.
LEMMA TreeInSpace ==
    ASSUME RunsShape, NEW root \in RunIds, RunKnown(root)
    PROVE  /\ RunTree(root) \in SUBSET RunIds /\ root \in RunTree(root)
           /\ \A r \in RunTree(root) : runs[r].space = runs[root].space
<1>. DEFINE next == [r \in RunIds |-> Children(r)]
            C == {r \in RunIds : runs[r].space = runs[root].space}
<1>1. \A r \in RunIds : Children(r) \in SUBSET RunIds
  BY DEF Children
<1>2. next \in [RunIds -> SUBSET RunIds]
  BY <1>1
<1>3. \A z \in C : next[z] \subseteq C
  BY DEF Children
<1>4. next[root] \subseteq C /\ C \in SUBSET RunIds
  BY <1>3
<1>. HIDE DEF C, next
<1>5. Reachable(RunIds, next, root) \subseteq C
  BY <1>2, <1>3, <1>4, ReachLeast
<1>6. RunTree(root) = {root} \cup Reachable(RunIds, next, root)
  BY DEF RunTree, next
<1>7. root \in C
  BY DEF C
<1>. QED
  BY <1>5, <1>6, <1>7 DEF C

\* Storing a request of a run never lowers a sum.
LEMMA SpendGrows ==
    ASSUME RunsShape, NEW r \in RunIds, RunBilled(r), NEW T \in SUBSET RunIds
    PROVE  SumFunctionOnSet(runSpend', T) >= SumFunctionOnSet(runSpend, T)
<1>1. /\ runSpend' = [runSpend EXCEPT ![r] = @ + 1] /\ IsFiniteSet(T)
      /\ SumFunctionOnSet(runSpend, T) \in Nat
  BY RunSpendSum DEF RunBilled
<1>2. \A x \in RunIds : runSpend[x] \in Nat
  BY AgentRunsAssumption DEF RunsShape
<1>3. DOMAIN runSpend = RunIds
  BY DEF RunsShape
<1>4. /\ \A x \in RunIds : x # r => runSpend'[x] = runSpend[x]
      /\ runSpend'[r] = runSpend[r] + 1
  BY <1>1, <1>3
<1>5. CASE r \in T
  <2>1. \A y \in T : runSpend[y] \in Int /\ runSpend'[y] \in Int
    BY <1>2, <1>4
  <2>2. \A y \in T : y # r => runSpend[y] = runSpend'[y]
    BY <1>4
  <2>3. SumFunctionOnSet(runSpend', T) = SumFunctionOnSet(runSpend, T) - runSpend[r] + runSpend'[r]
    <3>1. PICK f, g : f = runSpend /\ g = runSpend'
      OBVIOUS
    <3>2. SumFunctionOnSet(g, T) = SumFunctionOnSet(f, T) - f[r] + g[r]
      <4>1. /\ \A y \in T : f[y] \in Int /\ g[y] \in Int
            /\ \A y \in T : y # r => f[y] = g[y]
        BY <2>1, <2>2, <3>1
      <4>2. IsFiniteSet(T)
        BY <1>1
      <4>. QED
        BY <1>5, <4>1, <4>2, SumUpdate
    <3>. QED
      BY <3>1, <3>2
  <2>. QED
    BY <1>1, <1>2, <1>4, <2>3
<1>6. CASE r \notin T
  <2>1. \A x \in T : runSpend[x] = runSpend'[x]
    BY <1>4, <1>6
  <2>2. SumFunctionOnSet(runSpend', T) = SumFunctionOnSet(runSpend, T)
    <3>1. PICK f, g : f = runSpend /\ g = runSpend'
      OBVIOUS
    <3>2. SumFunctionOnSet(f, T) = SumFunctionOnSet(g, T)
      <4>1. \A y \in T : f[y] = g[y]
        BY <2>1, <3>1
      <4>2. IsFiniteSet(T)
        BY <1>1
      <4>. QED
        BY <4>1, <4>2, SumSame
    <3>. QED
      BY <3>1, <3>2
  <2>. QED
    BY <1>1, <2>2
<1>. QED
  BY <1>5, <1>6

\* A rollup in a state whose runs keep their workspaces and whose spend only
\* grew keeps its invariant.
LEMMA RollupKept ==
    ASSUME RunsShape, RunsShape', RollupInv, rollup' = rollup,
           \A r \in RunIds : RunKnown(r) => runs'[r].space = runs[r].space,
           \A T \in SUBSET RunIds :
              SumFunctionOnSet(runSpend', T) >= SumFunctionOnSet(runSpend, T)
    PROVE  RollupInv'
<1>. SUFFICES ASSUME rollup.pc # "idle"
              PROVE  RollupInv'
  BY DEF RollupInv
<1>0. /\ Left \in SUBSET RunIds /\ rollup.total \in Nat /\ rollup.space \in Spaces
      /\ rollup.atLeast \in Nat /\ Left' = Left
  BY RollupHeld DEF Left
<1>1. \A r \in RunIds : runs[r].space = rollup.space => runs'[r].space = rollup.space
  BY <1>0, RunRowHeld
<1>2. /\ rollup.pc = "direct" => rollup.root \notin rollup.todo /\ rollup.total = 0
      /\ rollup.pc = "done" => rollup.todo = {}
  BY DEF RollupInv
<1>3. \A r \in Left : runs'[r].space = rollup.space
  BY <1>0, <1>1 DEF RollupInv
<1>4. rollup.total + SumFunctionOnSet(runSpend', Left) >= rollup.atLeast
  <2>1. rollup.total + SumFunctionOnSet(runSpend, Left) >= rollup.atLeast
    BY DEF RollupInv
  <2>2. /\ SumFunctionOnSet(runSpend, Left) \in Nat
        /\ SumFunctionOnSet(runSpend', Left) \in Nat
        /\ SumFunctionOnSet(runSpend', Left) >= SumFunctionOnSet(runSpend, Left)
    <3>1. SumFunctionOnSet(runSpend, Left) \in Nat
      BY <1>0, RunSpendSum
    <3>2. \A x \in Left : runSpend'[x] \in Nat
      BY <1>0, AgentRunsAssumption DEF RunsShape
    <3>3. IsFiniteSet(Left)
      BY <1>0, RunSpendSum
    <3>4. SumFunctionOnSet(runSpend', Left) \in Nat
      BY <3>2, <3>3, SumNat
    <3>. QED
      BY <1>0, <3>1, <3>4
  <2>. QED
    BY <2>1, <2>2, <1>0
<1>5. \E D \in SUBSET RunIds :
          /\ D \cap Left = {}
          /\ \A r \in D : runs'[r].space = rollup.space
          /\ rollup.total <= SumFunctionOnSet(runSpend', D)
  <2>1. PICK D \in SUBSET RunIds :
          /\ D \cap Left = {}
          /\ \A r \in D : runs[r].space = rollup.space
          /\ rollup.total <= SumFunctionOnSet(runSpend, D)
    BY DEF RollupInv
  <2>2. SumFunctionOnSet(runSpend, D) \in Nat /\ IsFiniteSet(D)
    BY RunSpendSum
  <2>3. \A x \in D : runSpend'[x] \in Nat
    BY AgentRunsAssumption DEF RunsShape
  <2>4. SumFunctionOnSet(runSpend', D) \in Nat
    BY <2>2, <2>3, SumNat
  <2>5. rollup.total <= SumFunctionOnSet(runSpend', D)
    BY <2>1, <2>2, <2>4, <1>0
  <2>. QED
    BY <2>1, <2>5, <1>1
<1>. QED
  BY <1>0, <1>2, <1>3, <1>4, <1>5 DEF RollupInv

\* The upsert never moves a run: neither does any other step.
LEMMA SpaceKept ==
    ASSUME RunsShape, TreeNext
    PROVE  \A r \in RunIds : RunKnown(r) => runs'[r].space = runs[r].space
<1>. SUFFICES ASSUME NEW r \in RunIds, RunKnown(r), runs' # runs
              PROVE  runs'[r].space = runs[r].space
  OBVIOUS
<1>1. PICK w \in RunWriters : InsertAgentRun(w)
  BY DEF TreeNext, InsertAgentRunChecks, RunBilled, RollupStarts, RollupDirect, RollupAdds,
      RollupEnds
<1>2. PICK i : i = runWriters[w]
  OBVIOUS
<1>3. /\ i.pc = "checked" /\ i.run \in RunIds
      /\ runs' = [runs EXCEPT ![i.run] = Upserted(i.run, i.space, i.parent)]
  BY <1>1, <1>2, RunWriterHeld DEF InsertAgentRun
<1>4. DOMAIN runs = RunIds
  BY DEF RunsShape
<1>5. CASE r # i.run
  BY <1>3, <1>4, <1>5
<1>6. CASE r = i.run
  <2>1. runs'[r] = Upserted(r, i.space, i.parent)
    BY <1>3, <1>4, <1>6
  <2>. QED
    BY <2>1 DEF Upserted, SameSpace
<1>. QED
  BY <1>5, <1>6

\* The lookups: a caller that is not stale.
LEMMA RunsStepChecks ==
    ASSUME RunsInv, NEW w \in RunWriters, InsertAgentRunChecks(w)
    PROVE  RunsInv'
<1>1. PICK r \in RunIds, space \in Spaces, parent \in RunIds \cup {NoRun} :
          /\ RunAllowed(r, space, parent)
          /\ runWriters' = [runWriters EXCEPT ![w] = [pc |-> "checked", run |-> r,
                               space |-> space, parent |-> parent, stale |-> FALSE]]
  BY DEF InsertAgentRunChecks
<1>2. UNCHANGED <<runs, overtakenRun, runSpend, rollup>>
  BY DEF InsertAgentRunChecks
<1>3. PICK q : q = [pc |-> "checked", run |-> r, space |-> space, parent |-> parent,
                    stale |-> FALSE]
  OBVIOUS
<1>4. q \in RunChecked /\ q.run = r /\ q.space = space /\ q.parent = parent
  BY <1>3 DEF RunChecked
<1>5. RunsShape
  BY DEF RunsInv
<1>6. runWriters' = [runWriters EXCEPT ![w] = q]
  BY <1>1, <1>3
<1>7. RunsShape'
  BY <1>2, <1>4, <1>5, <1>6 DEF RunsShape
<1>8. ApartInv'
  <2>. SUFFICES ASSUME ~overtakenRun PROVE ApartInv'
    BY <1>2 DEF ApartInv
  <2>1. \A c \in RunIds : RunKnown(c)' /\ runs'[c].parent # NoRun =>
              SameSpace(runs[c].parent, runs[c].space)'
    BY <1>2 DEF RunsInv, ApartInv, RunKnown, SameSpace
  <2>2. ASSUME NEW v \in RunWriters, runWriters'[v].pc = "checked", ~runWriters'[v].stale
        PROVE  RunAllowed(runWriters[v].run, runWriters[v].space, runWriters[v].parent)'
    <3>1. CASE v = w
      <4>1. runWriters'[v] = q
        BY <1>5, <1>6, <3>1 DEF RunsShape
      <4>2. RunAllowed(q.run, q.space, q.parent)
        BY <1>1, <1>4
      <4>. QED
        BY <4>1, <4>2, <1>2 DEF RunAllowed, SameSpace, RunKnown, Mentions
    <3>2. CASE v # w
      <4>1. runWriters'[v] = runWriters[v]
        BY <1>5, <1>6, <3>2 DEF RunsShape
      <4>2. RunAllowed(runWriters[v].run, runWriters[v].space, runWriters[v].parent)
        BY <4>1, <2>2 DEF RunsInv, ApartInv
      <4>. QED
        BY <4>1, <4>2, <1>2 DEF RunAllowed, SameSpace, RunKnown, Mentions
    <3>. QED
      BY <3>1, <3>2
  <2>. QED
    BY <2>1, <2>2 DEF ApartInv
<1>9. RollupInv'
  BY <1>2 DEF RunsInv, RollupInv, Left
<1>. QED
  BY <1>7, <1>8, <1>9 DEF RunsInv

\* The upsert: what was looked up still holds unless the caller is stale, and
\* every other caller is stale from now on.
LEMMA RunsStepUpsert ==
    ASSUME RunsInv, NEW w \in RunWriters, InsertAgentRun(w)
    PROVE  RunsInv'
<1>1. RunsShape
  BY DEF RunsInv
<1>2. PICK i : i = runWriters[w]
  OBVIOUS
<1>3. /\ i.pc = "checked" /\ i.run \in RunIds /\ i.space \in Spaces
      /\ i.parent \in RunIds \cup {NoRun} /\ i.stale \in BOOLEAN
      /\ runs' = [runs EXCEPT ![i.run] = Upserted(i.run, i.space, i.parent)]
      /\ overtakenRun' = (overtakenRun \/ i.stale)
      /\ UNCHANGED <<runSpend, rollup>>
  BY <1>1, <1>2, RunWriterHeld DEF InsertAgentRun
<1>4. runWriters' = [v \in RunWriters |->
              IF v = w THEN AtRest
              ELSE IF runWriters[v].pc = "checked"
                   THEN [runWriters[v] EXCEPT !.stale = TRUE]
                   ELSE runWriters[v]]
  BY DEF InsertAgentRun
<1>5. PICK row : row = [space |-> i.space, parent |-> i.parent]
  OBVIOUS
<1>6. row \in RunRows /\ row.space = i.space /\ row.parent = i.parent
  BY <1>3, <1>5 DEF RunRows
<1>7. Upserted(i.run, i.space, i.parent) = IF SameSpace(i.run, i.space) THEN row ELSE runs[i.run]
  BY <1>5 DEF Upserted
<1>8. RunsShape'
  <2>1. runs' \in [RunIds -> RunRows \cup {NoRow}]
    BY <1>1, <1>3, <1>6, <1>7 DEF RunsShape
  <2>2. ASSUME NEW v \in RunWriters PROVE runWriters'[v] \in RunChecked \cup {AtRest}
    <3>1. ASSUME NEW x \in RunChecked PROVE [x EXCEPT !.stale = TRUE] \in RunChecked
      BY DEF RunChecked
    <3>2. runWriters[v].pc = "checked" => runWriters[v] \in RunChecked
      BY <1>1, RunWriterHeld
    <3>3. runWriters[v] \in RunChecked \cup {AtRest}
      BY <1>1 DEF RunsShape
    <3>4. runWriters'[v] = IF v = w THEN AtRest
              ELSE IF runWriters[v].pc = "checked"
                   THEN [runWriters[v] EXCEPT !.stale = TRUE]
                   ELSE runWriters[v]
      BY <1>4
    <3>. QED
      BY <3>1, <3>2, <3>3, <3>4
  <2>3. runWriters' \in [RunWriters -> RunChecked \cup {AtRest}]
    BY <1>4, <2>2
  <2>4. overtakenRun' \in BOOLEAN /\ runSpend' = runSpend /\ rollup' = rollup
    BY <1>1, <1>3 DEF RunsShape
  <2>. QED
    BY <1>1, <2>1, <2>3, <2>4 DEF RunsShape
<1>9. ApartInv'
  <2>. SUFFICES ASSUME ~overtakenRun' PROVE ApartInv'
    BY DEF ApartInv
  <2>1. ~overtakenRun /\ ~i.stale
    BY <1>3
  <2>2. RunAllowed(i.run, i.space, i.parent)
    BY <1>2, <1>3, <2>1 DEF RunsInv, ApartInv
  <2>3. runs' = [runs EXCEPT ![i.run] = row]
    BY <1>3, <1>7, <2>2 DEF RunAllowed
  <2>4. runs'[i.run] = row /\ \A c \in RunIds : c # i.run => runs'[c] = runs[c]
    BY <1>1, <1>3, <2>3 DEF RunsShape
  <2>5. row # NoRow
    BY <1>3, <1>6, AgentRunsAssumption DEF NoRow
  <2>6. ASSUME NEW c \in RunIds, runs'[c] # NoRow, runs'[c].parent # NoRun
        PROVE  runs'[runs'[c].parent] # NoRow =>
                  runs'[runs'[c].parent].space = runs'[c].space
    <3>1. CASE c = i.run
      <4>1. runs'[c].parent = i.parent /\ runs'[c].space = i.space /\ i.parent \in RunIds
        BY <3>1, <2>4, <1>6, <1>3, <2>6
      <4>2. SameSpace(i.parent, i.space)
        BY <2>2, <2>6, <4>1 DEF RunAllowed
      <4>. QED
        BY <4>1, <4>2, <2>4, <1>6 DEF SameSpace, RunKnown
    <3>2. CASE c # i.run
      <4>1. runs'[c] = runs[c] /\ RunKnown(c) /\ runs[c].parent \in RunIds
        <5>1. runs'[c] = runs[c] /\ RunKnown(c)
          BY <3>2, <2>4, <2>6 DEF RunKnown
        <5>. QED
          BY <5>1, <1>1, <2>6, RunRowHeld
      <4>2. CASE runs[c].parent = i.run
        <5>1. c \in Mentions(i.run)
          BY <4>1, <4>2 DEF Mentions
        <5>2. runs[c].space = i.space
          BY <2>2, <5>1 DEF RunAllowed
        <5>. QED
          BY <4>1, <4>2, <5>2, <2>4, <1>6
      <4>3. CASE runs[c].parent # i.run
        <5>1. SameSpace(runs[c].parent, runs[c].space)
          BY <2>1, <4>1, <2>6 DEF RunsInv, ApartInv
        <5>. QED
          BY <4>1, <4>3, <5>1, <2>4 DEF SameSpace, RunKnown
      <4>. QED
        BY <4>2, <4>3
    <3>. QED
      BY <3>1, <3>2
  <2>7. ASSUME NEW v \in RunWriters, runWriters'[v].pc = "checked" PROVE runWriters'[v].stale
    <3>1. v # w
      BY <1>4, <2>7 DEF AtRest
    <3>2. runWriters[v].pc = "checked" /\ runWriters'[v] = [runWriters[v] EXCEPT !.stale = TRUE]
      BY <1>4, <3>1, <2>7
    <3>3. runWriters[v] \in RunChecked
      BY <1>1, <3>2, RunWriterHeld
    <3>. QED
      BY <3>2, <3>3 DEF RunChecked
  <2>. QED
    BY <2>6, <2>7 DEF ApartInv, RunKnown, SameSpace
<1>10. RollupInv'
  <2>1. TreeNext
    BY DEF TreeNext
  <2>2. \A r \in RunIds : RunKnown(r) => runs'[r].space = runs[r].space
    BY <1>1, <2>1, SpaceKept
  <2>3. \A T \in SUBSET RunIds : SumFunctionOnSet(runSpend', T) >= SumFunctionOnSet(runSpend, T)
    <3>1. runSpend' = runSpend
      BY <1>3
    <3>2. \A T \in SUBSET RunIds : SumFunctionOnSet(runSpend, T) \in Nat
      BY <1>1, RunSpendSum
    <3>. QED
      BY <3>1, <3>2
  <2>4. RollupInv /\ rollup' = rollup
    BY <1>3 DEF RunsInv
  <2>. QED
    BY <1>1, <1>8, <2>2, <2>3, <2>4, RollupKept
<1>. QED
  BY <1>8, <1>9, <1>10 DEF RunsInv

\* A request of a run is stored.
LEMMA RunsStepBilled ==
    ASSUME RunsInv, NEW r \in RunIds, RunBilled(r)
    PROVE  RunsInv'
<1>1. RunsShape
  BY DEF RunsInv
<1>2. /\ runSpend[r] < MaxRunSpend /\ runSpend' = [runSpend EXCEPT ![r] = @ + 1]
      /\ UNCHANGED <<runs, runWriters, overtakenRun, rollup>>
  BY DEF RunBilled
<1>3. RunsShape'
  <2>1. runSpend[r] + 1 \in 0..MaxRunSpend
    BY <1>1, <1>2, AgentRunsAssumption DEF RunsShape
  <2>2. PICK D : D = 0..MaxRunSpend
    OBVIOUS
  <2>3. runSpend' \in [RunIds -> D]
    BY <1>1, <1>2, <2>1, <2>2 DEF RunsShape
  <2>. QED
    BY <1>1, <1>2, <2>2, <2>3 DEF RunsShape
<1>4. ApartInv'
  BY <1>2 DEF RunsInv, ApartInv, RunAllowed, SameSpace, RunKnown, Mentions
<1>5. RollupInv'
  <2>1. \A T \in SUBSET RunIds : SumFunctionOnSet(runSpend', T) >= SumFunctionOnSet(runSpend, T)
    BY <1>1, SpendGrows
  <2>2. \A q \in RunIds : RunKnown(q) => runs'[q].space = runs[q].space
    BY <1>2
  <2>3. RollupInv /\ rollup' = rollup
    BY <1>2 DEF RunsInv
  <2>. QED
    BY <1>1, <1>3, <2>1, <2>2, <2>3, RollupKept
<1>. QED
  BY <1>3, <1>4, <1>5 DEF RunsInv

\* A rollup reads the tree: all of its runs are left.
LEMMA RunsStepStarts ==
    ASSUME RunsInv, NEW root \in RunIds, RollupStarts(root)
    PROVE  RunsInv'
<1>1. RunsShape
  BY DEF RunsInv
<1>2. /\ RunKnown(root)
      /\ UNCHANGED <<runs, runWriters, overtakenRun, runSpend>>
  BY DEF RollupStarts
<1>3. PICK tree : tree = RunTree(root)
  OBVIOUS
<1>4. PICK todo : todo = tree \ {root}
  OBVIOUS
<1>5. PICK all : all = SumFunctionOnSet(runSpend, tree)
  OBVIOUS
<1>6. rollup' = [pc |-> "direct", root |-> root, todo |-> todo, total |-> 0,
                 space |-> runs[root].space, atLeast |-> all]
  BY <1>3, <1>4, <1>5 DEF RollupStarts, ChildRuns
<1>7. /\ tree \in SUBSET RunIds /\ root \in tree /\ todo \in SUBSET RunIds
      /\ \A r \in tree : runs[r].space = runs[root].space
  BY <1>1, <1>2, <1>3, <1>4, TreeInSpace
<1>8. all \in Nat
  BY <1>1, <1>5, <1>7, RunSpendSum
<1>12. /\ rollup'.pc = "direct" /\ rollup'.todo = todo /\ rollup'.total = 0
       /\ rollup'.root = root /\ rollup'.space = runs[root].space /\ rollup'.atLeast = all
  BY <1>6
<1>13. RunsShape'
  <2>1. runs[root].space \in Spaces
    BY <1>1, <1>2, RunRowHeld
  <2>2. rollup' \in Rollups
    BY <1>6, <1>7, <1>8, <2>1 DEF Rollups
  <2>. QED
    BY <1>1, <1>2, <2>2 DEF RunsShape
<1>14. ApartInv'
  BY <1>2 DEF RunsInv, ApartInv, RunAllowed, SameSpace, RunKnown, Mentions
<1>15. RollupInv'
  <2>0. Left' = tree /\ root \notin todo
    BY <1>4, <1>7, <1>12 DEF Left
  <2>1. \A r \in Left' : runs'[r].space = rollup'.space
    BY <1>2, <1>7, <1>12, <2>0
  <2>2. rollup'.total + SumFunctionOnSet(runSpend', Left') >= rollup'.atLeast
    BY <1>2, <1>5, <1>8, <1>12, <2>0
  <2>3. /\ {} \in SUBSET RunIds /\ {} \cap Left' = {}
        /\ \A r \in {} : runs'[r].space = rollup'.space
        /\ rollup'.total <= SumFunctionOnSet(runSpend', {})
    <3>1. SumFunctionOnSet(runSpend', {}) = 0
      BY SumEmpty
    <3>. QED
      BY <1>12, <3>1
  <2>. QED
    BY <2>0, <2>1, <2>2, <2>3, <1>12 DEF RollupInv
<1>. QED
  BY <1>13, <1>14, <1>15 DEF RunsInv

\* A run that was left is added: the root, or one below it.
LEMMA RunsStepAdd ==
    ASSUME RunsInv, rollup.pc \in {"direct", "children"}, NEW c \in Left,
           NEW todo, todo = Left \ {c},
           rollup' = [pc |-> "children", root |-> rollup.root, todo |-> todo,
                      total |-> rollup.total + runSpend[c],
                      space |-> rollup.space, atLeast |-> rollup.atLeast],
           UNCHANGED <<runs, runWriters, overtakenRun, runSpend>>
    PROVE  RunsInv'
<1>1. RunsShape
  BY DEF RunsInv
<1>3. /\ rollup \in Rollups /\ Left \in SUBSET RunIds /\ rollup.total \in Nat
      /\ rollup.space \in Spaces /\ rollup.atLeast \in Nat
      /\ rollup.root \in RunIds /\ todo \in SUBSET RunIds /\ c \in RunIds
  BY <1>1, RollupHeld DEF Left, Rollups
<1>4. runSpend[c] \in Nat
  BY <1>1, <1>3, AgentRunsAssumption DEF RunsShape
<1>7. /\ rollup'.pc = "children" /\ rollup'.todo = todo
      /\ rollup'.total = rollup.total + runSpend[c]
      /\ rollup'.space = rollup.space /\ rollup'.atLeast = rollup.atLeast
      /\ Left' = todo
  BY DEF Left
<1>8. RunsShape'
  <2>2. rollup' \in Rollups
    BY <1>3, <1>4 DEF Rollups
  <2>. QED
    BY <1>1, <2>2 DEF RunsShape
<1>9. ApartInv'
  BY DEF RunsInv, ApartInv, RunAllowed, SameSpace, RunKnown, Mentions
<1>10. RollupInv'
  <2>0. RollupInv
    BY DEF RunsInv
  <2>1. \A r \in Left : runs[r].space = rollup.space
    BY <2>0 DEF RollupInv
  <2>2. rollup'.total + SumFunctionOnSet(runSpend', Left') >= rollup'.atLeast
    <3>1. rollup.total + SumFunctionOnSet(runSpend, Left) >= rollup.atLeast
      BY <2>0 DEF RollupInv
    <3>2. IsFiniteSet(Left) /\ \A x \in Left : runSpend[x] \in Int
      BY <1>1, <1>3, RunSpendSum, AgentRunsAssumption DEF RunsShape
    <3>3. SumFunctionOnSet(runSpend, Left) = runSpend[c] + SumFunctionOnSet(runSpend, todo)
      BY <3>2, SumRemove
    <3>4. SumFunctionOnSet(runSpend, todo) \in Nat
      BY <1>1, <1>3, RunSpendSum
    <3>. QED
      BY <1>3, <1>4, <1>7, <3>1, <3>3, <3>4
  <2>3. PICK D \in SUBSET RunIds :
          /\ D \cap Left = {}
          /\ \A r \in D : runs[r].space = rollup.space
          /\ rollup.total <= SumFunctionOnSet(runSpend, D)
    BY <2>0 DEF RollupInv
  <2>4. D \cup {c} \in SUBSET RunIds /\ (D \cup {c}) \cap Left' = {}
    BY <2>3, <1>3, <1>7
  <2>5. \A r \in D \cup {c} : runs'[r].space = rollup'.space
    BY <2>1, <2>3, <1>7
  <2>6. rollup'.total <= SumFunctionOnSet(runSpend', D \cup {c})
    <3>1. c \notin D /\ IsFiniteSet(D) /\ SumFunctionOnSet(runSpend, D) \in Nat
      BY <1>1, <2>3, RunSpendSum
    <3>2. \A y \in D \cup {c} : runSpend[y] \in Int
      BY <1>1, <1>3, AgentRunsAssumption DEF RunsShape
    <3>3. SumFunctionOnSet(runSpend, D \cup {c}) = runSpend[c] + SumFunctionOnSet(runSpend, D)
      BY <3>1, <3>2, SumAdd
    <3>. QED
      BY <1>3, <1>4, <1>7, <2>3, <3>1, <3>3
  <2>7. \A r \in Left' : runs'[r].space = rollup'.space
    BY <2>1, <1>7
  <2>. QED
    BY <2>2, <2>4, <2>5, <2>6, <2>7, <1>7 DEF RollupInv
<1>. QED
  BY <1>8, <1>9, <1>10 DEF RunsInv

\* The root's own spend is added first.
LEMMA RunsStepDirect ==
    ASSUME RunsInv, RollupDirect
    PROVE  RunsInv'
<1>1. /\ rollup.pc = "direct"
      /\ rollup' = [rollup EXCEPT !.pc = "children", !.total = runSpend[rollup.root]]
      /\ UNCHANGED <<runs, runWriters, overtakenRun, runSpend>>
  BY DEF RollupDirect
<1>2. RunsShape /\ rollup \in Rollups /\ rollup.root \notin rollup.todo /\ rollup.total = 0
  BY <1>1, RollupHeld DEF RunsInv, RollupInv
<1>3. runSpend[rollup.root] \in Nat
  BY <1>2, AgentRunsAssumption DEF RunsShape, Rollups
<1>4. rollup.root \in Left /\ rollup.todo = Left \ {rollup.root}
  BY <1>1, <1>2 DEF Left
<1>5. runSpend[rollup.root] = rollup.total + runSpend[rollup.root]
  BY <1>2, <1>3
<1>6. rollup' = [pc |-> "children", root |-> rollup.root, todo |-> rollup.todo,
                 total |-> rollup.total + runSpend[rollup.root],
                 space |-> rollup.space, atLeast |-> rollup.atLeast]
  BY <1>1, <1>2, <1>5 DEF Rollups
<1>. QED
  BY <1>1, <1>4, <1>6, RunsStepAdd

\* Then the spend of a run below it.
LEMMA RunsStepAdds ==
    ASSUME RunsInv, NEW c \in RunIds, RollupAdds(c)
    PROVE  RunsInv'
<1>1. /\ rollup.pc = "children" /\ c \in rollup.todo
      /\ rollup' = [rollup EXCEPT !.todo = @ \ {c}, !.total = @ + runSpend[c]]
      /\ UNCHANGED <<runs, runWriters, overtakenRun, runSpend>>
  BY DEF RollupAdds
<1>2. RunsShape /\ rollup \in Rollups
  BY <1>1, RollupHeld DEF RunsInv
<1>3. c \in Left /\ rollup.todo \ {c} = Left \ {c}
  BY <1>1 DEF Left
<1>4. rollup' = [pc |-> "children", root |-> rollup.root, todo |-> rollup.todo \ {c},
                 total |-> rollup.total + runSpend[c],
                 space |-> rollup.space, atLeast |-> rollup.atLeast]
  BY <1>1, <1>2 DEF Rollups
<1>. QED
  BY <1>1, <1>3, <1>4, RunsStepAdd

\* The rollup returns once nothing is left.
LEMMA RunsStepEnds ==
    ASSUME RunsInv, RollupEnds
    PROVE  RunsInv'
<1>1. /\ rollup.pc = "children" /\ rollup.todo = {} /\ rollup' = [rollup EXCEPT !.pc = "done"]
      /\ UNCHANGED <<runs, runWriters, overtakenRun, runSpend>>
  BY DEF RollupEnds
<1>2. RunsShape /\ rollup \in Rollups
  BY <1>1, RollupHeld DEF RunsInv
<1>3. /\ rollup' \in Rollups /\ rollup'.pc = "done" /\ rollup'.todo = rollup.todo
      /\ rollup'.total = rollup.total /\ rollup'.space = rollup.space
      /\ rollup'.atLeast = rollup.atLeast
  BY <1>1, <1>2 DEF Rollups
<1>4. RunsShape'
  BY <1>1, <1>2, <1>3 DEF RunsShape
<1>5. ApartInv'
  BY <1>1 DEF RunsInv, ApartInv, RunAllowed, SameSpace, RunKnown, Mentions
<1>6. RollupInv'
  BY <1>1, <1>3 DEF RunsInv, RollupInv, Left
<1>. QED
  BY <1>4, <1>5, <1>6 DEF RunsInv

\* Every step of the trees keeps their invariant.
LEMMA RunsStep == ASSUME RunsInv, TreeNext PROVE RunsInv'
BY RunsStepChecks, RunsStepUpsert, RunsStepBilled, RunsStepStarts, RunsStepDirect, RunsStepAdds,
   RunsStepEnds
DEF TreeNext

\* The trees begin empty.
LEMMA RunsBegin == AgentRunsInit => RunsInv
<1>. SUFFICES ASSUME AgentRunsInit PROVE RunsInv
  OBVIOUS
<1>1. RunsShape
  <2>1. 0 \in 0..MaxRunSpend
    BY AgentRunsAssumption
  <2>. QED
    BY <2>1 DEF AgentRunsInit, RunsShape
<1>2. ApartInv
  BY DEF AgentRunsInit, ApartInv, RunKnown, AtRest
<1>3. RollupInv
  BY DEF AgentRunsInit, RollupInv, AtRest
<1>. QED
  BY <1>1, <1>2, <1>3 DEF RunsInv

\* The invariant gives what the runs promise.
LEMMA RunsSafe == ASSUME RunsInv PROVE RunTreesApart /\ RollupCountsOnce
<1>1. RunTreesApart
  BY DEF RunsInv, ApartInv, RunTreesApart
<1>2. ASSUME rollup.pc = "done"
      PROVE  /\ rollup.total >= rollup.atLeast
             /\ rollup.total <= SumFunctionOnSet(runSpend, {r \in RunIds : runs[r].space = rollup.space})
  <2>0. RunsShape /\ RollupInv /\ rollup.total \in Nat /\ rollup.atLeast \in Nat
    BY <1>2, RollupHeld DEF RunsInv
  <2>1. rollup.todo = {} /\ rollup.total + SumFunctionOnSet(runSpend, rollup.todo) >= rollup.atLeast
    BY <1>2, <2>0 DEF RollupInv, Left
  <2>2. SumFunctionOnSet(runSpend, {}) = 0
    BY SumEmpty
  <2>3. PICK D \in SUBSET RunIds :
          /\ \A r \in D : runs[r].space = rollup.space
          /\ rollup.total <= SumFunctionOnSet(runSpend, D)
    BY <1>2, <2>0 DEF RollupInv
  <2>4. PICK T : T = {r \in RunIds : runs[r].space = rollup.space}
    OBVIOUS
  <2>5. D \in SUBSET T /\ T \in SUBSET RunIds
    BY <2>3, <2>4
  <2>6. /\ IsFiniteSet(T) /\ SumFunctionOnSet(runSpend, T) \in Nat
        /\ SumFunctionOnSet(runSpend, D) \in Nat
    BY <2>0, <2>5, RunSpendSum
  <2>7. \A x \in T : runSpend[x] \in Nat
    BY <2>0, <2>5, AgentRunsAssumption DEF RunsShape
  <2>8. SumFunctionOnSet(runSpend, D) <= SumFunctionOnSet(runSpend, T)
    BY <2>5, <2>6, <2>7, SumSubset
  <2>. QED
    BY <2>0, <2>1, <2>2, <2>3, <2>4, <2>6, <2>8
<1>. QED
  BY <1>1, <1>2 DEF RollupCountsOnce

\* A request has no row, or one with a workspace and links.
LEMMA RequestHeld ==
    ASSUME LinksShape, NEW e \in EventIds
    PROVE  /\ requests[e] \in RequestRows \/ requests[e] = NoRow
           /\ requests[e].space \in Spaces => requests[e] \in RequestRows
           /\ requests[e] = NoRow => requests[e].space \notin Spaces
           /\ requests[e] \in RequestRows => requests[e].links \in LinkTargets
<1>1. requests[e] \in RequestRows \cup {NoRow}
  BY DEF LinksShape
<1>2. NoRow.space \notin Spaces
  BY AgentRunsAssumption DEF NoRow
<1>3. \A x \in RequestRows : x.links \in LinkTargets
  BY DEF RequestRows
<1>. QED
  BY <1>1, <1>2, <1>3

\* A caller of insert_request is at rest, or holds an event and its links.
LEMMA LinkWriterHeld ==
    ASSUME LinksShape, NEW w \in LinkWriters
    PROVE  /\ linkWriters[w].pc \in {"idle", "validate", "insert"}
           /\ linkWriters[w].pc # "idle" =>
                 /\ linkWriters[w] \in LinkCalls /\ linkWriters[w].event \in EventIds
                 /\ linkWriters[w].space \in Spaces /\ linkWriters[w].links \in LinkTargets
<1>1. linkWriters[w] \in LinkCalls \cup {AtRest}
  BY DEF LinksShape
<1>2. AtRest.pc = "idle"
  BY DEF AtRest
<1>3. \A x \in LinkCalls : /\ x.pc \in {"validate", "insert"} /\ x.event \in EventIds
                           /\ x.space \in Spaces /\ x.links \in LinkTargets
  BY DEF LinkCalls
<1>. QED
  BY <1>1, <1>2, <1>3

\* The links of a workspace are a graph on the events.
LEMMA LinksGraph ==
    ASSUME LinksShape, NEW space \in Spaces
    PROVE  Links(space) \in [EventIds -> SUBSET EventIds]
<1>1. ASSUME NEW e \in EventIds, e \in Stored(space) PROVE LinksTo(e) \in SUBSET EventIds
  <2>1. requests[e].links \in LinkTargets
    BY <1>1, RequestHeld DEF Stored
  <2>. QED
    BY <2>1 DEF LinksTo, LinkTargets
<1>. QED
  BY <1>1 DEF Links

\* Steps that leave the rows alone leave the links alone.
LEMMA ReachesKept ==
    ASSUME requests' = requests, NEW space, NEW e
    PROVE  Reaches(space, e)' = Reaches(space, e)
<1>1. Links(space)' = Links(space)
  BY DEF Links, Stored, LinksTo
<1>. QED
  BY <1>1 DEF Reaches, Reachable

\* BEGIN IMMEDIATE.
LEMMA LinksStepBegins ==
    ASSUME LinksInv, NEW w \in LinkWriters, InsertRequestBegins(w)
    PROVE  LinksInv'
<1>1. PICK e \in EventIds, space \in Spaces, links \in LinkTargets :
          /\ requests[e] = NoRow
          /\ linkWriters' = [linkWriters EXCEPT ![w] =
                [pc |-> "validate", event |-> e, space |-> space, links |-> links]]
  BY DEF InsertRequestBegins, LinkTargets
<1>2. writeLock = {} /\ writeLock' = {w} /\ requests' = requests
  BY DEF InsertRequestBegins, LockFree
<1>3. LinksShape /\ \A v \in LinkWriters : linkWriters[v].pc = "idle"
  BY <1>2 DEF LinksInv, LockInv
<1>4. PICK q : q = [pc |-> "validate", event |-> e, space |-> space, links |-> links]
  OBVIOUS
<1>5. q \in LinkCalls /\ q.pc = "validate" /\ q.event = e
  BY <1>4 DEF LinkCalls
<1>6. linkWriters' = [linkWriters EXCEPT ![w] = q]
  BY <1>1, <1>4
<1>7. LinksShape'
  BY <1>2, <1>3, <1>5, <1>6 DEF LinksShape
<1>8. /\ linkWriters'[w] = q
      /\ \A v \in LinkWriters : v # w => linkWriters'[v].pc = "idle"
  BY <1>3, <1>6 DEF LinksShape
<1>9. LockInv'
  <2>. SUFFICES ASSUME NEW v \in LinkWriters, linkWriters'[v].pc # "idle"
                PROVE  /\ writeLock' = {v} /\ requests'[linkWriters'[v].event] = NoRow
                       /\ linkWriters'[v].pc # "insert"
    BY DEF LockInv
  <2>1. v = w
    BY <1>8
  <2>. QED
    BY <2>1, <1>1, <1>2, <1>5, <1>8
<1>10. LinksAcyclic'
  <2>1. LinksAcyclic
    BY DEF LinksInv
  <2>. QED
    BY <2>1, <1>2, ReachesKept DEF LinksAcyclic
<1>. QED
  BY <1>7, <1>9, <1>10 DEF LinksInv

\* The validation leaves only links that close no cycle.
LEMMA LinksStepValidates ==
    ASSUME LinksInv, NEW w \in LinkWriters, ValidateRelationships(w)
    PROVE  LinksInv'
<1>1. PICK i : i = linkWriters[w]
  OBVIOUS
<1>2. PICK links : links = [k \in LinkKinds |->
            IF i.links[k] # NoEvent /\ ValidLink(i.event, i.space, i.links, k)
            THEN i.links[k] ELSE NoEvent]
  OBVIOUS
<1>3. /\ i.pc = "validate" /\ writeLock' = writeLock /\ requests' = requests
      /\ linkWriters' = [linkWriters EXCEPT ![w] = [i EXCEPT !.pc = "insert", !.links = links]]
  BY <1>1, <1>2 DEF ValidateRelationships
<1>4. LinksShape
  BY DEF LinksInv
<1>5. i \in LinkCalls /\ i.event \in EventIds /\ i.space \in Spaces /\ i.links \in LinkTargets
  BY <1>1, <1>3, <1>4, LinkWriterHeld
<1>6. links \in LinkTargets
  BY <1>2, <1>5 DEF LinkTargets
<1>7. PICK q : q = [i EXCEPT !.pc = "insert", !.links = links]
  OBVIOUS
<1>8. /\ q \in LinkCalls /\ q.pc = "insert" /\ q.event = i.event /\ q.space = i.space
      /\ q.links = links
  BY <1>5, <1>6, <1>7 DEF LinkCalls
<1>9. /\ linkWriters' = [linkWriters EXCEPT ![w] = q] /\ linkWriters'[w] = q
      /\ \A v \in LinkWriters : v # w => linkWriters'[v] = linkWriters[v]
  BY <1>3, <1>4, <1>7 DEF LinksShape
<1>10. LinksShape'
  BY <1>3, <1>4, <1>8, <1>9 DEF LinksShape
<1>11. writeLock = {w} /\ requests[i.event] = NoRow
  BY <1>1, <1>3 DEF LinksInv, LockInv
<1>12. \A k \in LinkKinds : links[k] # NoEvent =>
           links[k] # i.event /\ i.event \notin Reaches(i.space, links[k])
  BY <1>2 DEF ValidLink
<1>13. LockInv'
  <2>. SUFFICES ASSUME NEW v \in LinkWriters, linkWriters'[v].pc # "idle"
                PROVE  /\ writeLock' = {v} /\ requests'[linkWriters'[v].event] = NoRow
                       /\ linkWriters'[v].pc = "insert" =>
                            \A k \in LinkKinds : linkWriters'[v].links[k] # NoEvent =>
                               /\ linkWriters'[v].links[k] # linkWriters'[v].event
                               /\ linkWriters'[v].event \notin
                                     Reaches(linkWriters[v].space, linkWriters[v].links[k])'
    BY DEF LockInv
  <2>1. v = w
    <3>1. v # w => writeLock = {v}
      BY <1>9 DEF LinksInv, LockInv
    <3>. QED
      BY <3>1, <1>11
  <2>2. \A k \in LinkKinds :
           Reaches(linkWriters[v].space, linkWriters[v].links[k])' = Reaches(i.space, links[k])
    <3>1. \A k \in LinkKinds : Reaches(i.space, links[k])' = Reaches(i.space, links[k])
      BY <1>3, ReachesKept
    <3>. QED
      BY <2>1, <1>8, <1>9, <3>1
  <2>. QED
    BY <2>1, <2>2, <1>3, <1>8, <1>9, <1>11, <1>12
<1>14. LinksAcyclic'
  <2>1. LinksAcyclic
    BY DEF LinksInv
  <2>. QED
    BY <2>1, <1>3, ReachesKept DEF LinksAcyclic
<1>. QED
  BY <1>10, <1>13, <1>14 DEF LinksInv

\* The row and its links are there at once, and the lock is free.
LEMMA LinksStepInserts ==
    ASSUME LinksInv, NEW w \in LinkWriters, InsertRequest(w)
    PROVE  LinksInv'
<1>1. PICK i : i = linkWriters[w]
  OBVIOUS
<1>2. LinksShape /\ i.pc = "insert"
  BY <1>1 DEF LinksInv, InsertRequest
<1>3. i.event \in EventIds /\ i.space \in Spaces /\ i.links \in LinkTargets
  BY <1>1, <1>2, LinkWriterHeld
<1>4. /\ writeLock = {w} /\ requests[i.event] = NoRow
      /\ \A k \in LinkKinds : i.links[k] # NoEvent =>
           i.links[k] # i.event /\ i.event \notin Reaches(i.space, i.links[k])
  BY <1>1, <1>2 DEF LinksInv, LockInv
<1>5. PICK row : row = [space |-> i.space, links |-> i.links]
  OBVIOUS
<1>6. row \in RequestRows /\ row.space = i.space /\ row.links = i.links
  BY <1>3, <1>5 DEF RequestRows
<1>7. /\ requests' = [requests EXCEPT ![i.event] = row] /\ writeLock' = {}
      /\ linkWriters' = [linkWriters EXCEPT ![w] = AtRest]
  BY <1>1, <1>4, <1>5 DEF InsertRequest
<1>8. LinksShape'
  BY <1>2, <1>3, <1>6, <1>7 DEF LinksShape
<1>9. \A v \in LinkWriters : linkWriters'[v].pc = "idle"
  <2>. SUFFICES ASSUME NEW v \in LinkWriters PROVE linkWriters'[v].pc = "idle"
    OBVIOUS
  <2>1. CASE v = w
    BY <1>2, <1>7, <2>1 DEF LinksShape, AtRest
  <2>2. CASE v # w
    <3>1. linkWriters[v].pc # "idle" => writeLock = {v}
      BY DEF LinksInv, LockInv
    <3>2. linkWriters'[v] = linkWriters[v]
      BY <1>2, <1>7, <2>2 DEF LinksShape
    <3>. QED
      BY <1>4, <2>2, <3>1, <3>2
  <2>. QED
    BY <2>1, <2>2
<1>10. LockInv'
  BY <1>9 DEF LockInv
<1>11. LinksAcyclic'
  <2>. SUFFICES ASSUME NEW space \in Spaces, NEW x \in EventIds
                PROVE  x \notin Reaches(space, x)'
    BY DEF LinksAcyclic
  <2>1. PICK next : next = Links(space)
    OBVIOUS
  <2>2. PICK L : L = {i.links[k] : k \in LinkKinds} \ {NoEvent}
    OBVIOUS
  <2>3. next \in [EventIds -> SUBSET EventIds] /\ L \in SUBSET EventIds
    <3>1. next \in [EventIds -> SUBSET EventIds]
      BY <1>2, <2>1, LinksGraph
    <3>2. L \in SUBSET EventIds
      BY <1>3, <2>2 DEF LinkTargets
    <3>. QED
      BY <3>1, <3>2
  <2>4. \A e \in EventIds : requests'[e] = IF e = i.event THEN row ELSE requests[e]
    BY <1>2, <1>7 DEF LinksShape
  <2>5. \A e \in EventIds : e # i.event =>
           /\ (e \in Stored(space))' <=> e \in Stored(space)
           /\ LinksTo(e)' = LinksTo(e)
    BY <2>4 DEF Stored, LinksTo
  <2>6. i.event \notin Stored(space)
    BY <1>2, <1>3, <1>4, RequestHeld DEF Stored
  <2>7. LinksTo(i.event)' = L
    BY <1>3, <1>6, <2>2, <2>4 DEF LinksTo
  <2>8. (i.event \in Stored(space))' <=> space = i.space
    BY <1>3, <1>6, <2>4 DEF Stored
  <2>9. \A e \in EventIds : e \notin Reachable(EventIds, next, e)
    BY <2>1 DEF LinksInv, LinksAcyclic, Reaches
  <2>10. CASE space = i.space
    <3>1. Links(space)' = [next EXCEPT ![i.event] = L]
      BY <2>1, <2>3, <2>5, <2>7, <2>8, <2>10, <1>3 DEF Links
    <3>2. \A l \in L : l # i.event /\ i.event \notin Reachable(EventIds, next, l)
      BY <1>4, <2>1, <2>2, <2>10 DEF Reaches
    <3>3. x \notin Reachable(EventIds, [next EXCEPT ![i.event] = L], x)
      BY <2>3, <2>9, <3>2, <1>3, StaysAcyclic
    <3>. QED
      BY <3>1, <3>3 DEF Reaches, Reachable
  <2>11. CASE space # i.space
    <3>1. Links(space)' = next
      BY <2>1, <2>5, <2>6, <2>8, <2>11 DEF Links
    <3>. QED
      BY <2>9, <3>1 DEF Reaches, Reachable
  <2>. QED
    BY <2>10, <2>11
<1>. QED
  BY <1>8, <1>10, <1>11 DEF LinksInv

\* A killed process leaves no row and no lock.
LEMMA LinksStepKilled ==
    ASSUME LinksInv, NEW w \in LinkWriters, InsertRequestKilled(w)
    PROVE  LinksInv'
<1>1. /\ linkWriters[w].pc # "idle" /\ linkWriters' = [linkWriters EXCEPT ![w] = AtRest]
      /\ writeLock' = {} /\ requests' = requests
  BY DEF InsertRequestKilled
<1>2. LinksShape /\ writeLock = {w}
  BY <1>1 DEF LinksInv, LockInv
<1>3. LinksShape'
  BY <1>1, <1>2 DEF LinksShape
<1>4. \A v \in LinkWriters : linkWriters'[v].pc = "idle"
  <2>. SUFFICES ASSUME NEW v \in LinkWriters PROVE linkWriters'[v].pc = "idle"
    OBVIOUS
  <2>1. CASE v = w
    BY <1>1, <1>2, <2>1 DEF LinksShape, AtRest
  <2>2. CASE v # w
    <3>1. linkWriters[v].pc # "idle" => writeLock = {v}
      BY DEF LinksInv, LockInv
    <3>2. linkWriters'[v] = linkWriters[v]
      BY <1>1, <1>2, <2>2 DEF LinksShape
    <3>. QED
      BY <1>2, <2>2, <3>1, <3>2
  <2>. QED
    BY <2>1, <2>2
<1>5. LockInv'
  BY <1>4 DEF LockInv
<1>6. LinksAcyclic'
  <2>1. LinksAcyclic
    BY DEF LinksInv
  <2>. QED
    BY <2>1, <1>1, ReachesKept DEF LinksAcyclic
<1>. QED
  BY <1>3, <1>5, <1>6 DEF LinksInv

\* Every step of the links keeps their invariant.
LEMMA LinksStep == ASSUME LinksInv, LinkNext PROVE LinksInv'
BY LinksStepBegins, LinksStepValidates, LinksStepInserts, LinksStepKilled DEF LinkNext

\* No request, no link, no caller.
LEMMA LinksBegin == AgentRunsInit => LinksInv
<1>. SUFFICES ASSUME AgentRunsInit PROVE LinksInv
  OBVIOUS
<1>1. LinksShape /\ LockInv
  BY DEF AgentRunsInit, LinksShape, LockInv, AtRest
<1>2. ASSUME NEW space \in Spaces, NEW e \in EventIds PROVE e \notin Reaches(space, e)
  <2>1. PICK next : next = Links(space)
    OBVIOUS
  <2>2. next = [x \in EventIds |-> {}]
    BY <2>1, AgentRunsAssumption DEF Links, Stored, AgentRunsInit, NoRow
  <2>3. Reachable(EventIds, next, e) \subseteq {}
    <3>1. next \in [EventIds -> SUBSET EventIds] /\ next[e] = {}
      BY <2>2
    <3>. QED
      BY <3>1, ReachLeast
  <2>. QED
    BY <2>1, <2>3 DEF Reaches
<1>. QED
  BY <1>1, <1>2 DEF LinksInv, LinksAcyclic

\* The invariants give the types of AgentRuns.
LEMMA AgentRunsTyped == ASSUME RunsInv, LinksInv PROVE AgentRunsTypeOK
<1>1. RunsShape /\ LinksShape
  BY DEF RunsInv, LinksInv
<1>2. \A r \in RunIds : RunKnown(r) => runs[r] \in [space : Spaces, parent : RunIds \cup {NoRun}]
  BY <1>1, RunRowHeld DEF RunRows
<1>3. Cardinality(writeLock) <= 1
  <2>1. CASE writeLock = {}
    BY <2>1, FS_EmptySet
  <2>2. ASSUME NEW w, writeLock = {w} PROVE Cardinality(writeLock) <= 1
    <3>1. Cardinality({w}) = 1
      BY FS_Singleton
    <3>. QED
      BY <2>2, <3>1
  <2>. QED
    BY <1>1, <2>1, <2>2 DEF LinksShape
<1>4. /\ \A w \in RunWriters : runWriters[w].pc \in {"idle", "checked"}
      /\ rollup.pc \in {"idle", "direct", "children", "done"}
      /\ \A w \in LinkWriters : linkWriters[w].pc \in {"idle", "validate", "insert"}
  BY <1>1, RunWriterHeld, RollupHeld, LinkWriterHeld
<1>. QED
  BY <1>1, <1>2, <1>3, <1>4 DEF AgentRunsTypeOK, RunsShape

-----------------------------------------------------------------------------
(* Outcomes on both sides (Outcomes).                                      *)

OutcomeSources == {"derived", "cli"}
LocalRows == [status : OutcomeStatuses, at : Nat, source : OutcomeSources, synced : BOOLEAN]
CloudRows == [status : OutcomeStatuses, at : Nat]
OutcomeBodies == [id : PullRequests, status : OutcomeStatuses, at : Nat]
HistoryPairs == OutcomeStatuses \X OutcomeStatuses
AtMostOne(S) == \A x, y \in S : x = y

\* What the variables hold.
OutcomesShape ==
    /\ pull \in [PullRequests -> [status : {"open", "accepted", "rejected"}, at : Nat]]
    /\ deriver \in [Derivers -> SUBSET OutcomeBodies]
    /\ posts \in SUBSET OutcomeBodies
    /\ eventTime \in 0..MaxEventTime
LocalSideShape ==
    /\ localRow \in [PullRequests -> SUBSET LocalRows]
    /\ localHistory \in [PullRequests -> Seq(HistoryPairs)]
    /\ \A p \in PullRequests : AtMostOne(localRow[p])
CloudSideShape ==
    /\ cloudRow \in [PullRequests -> SUBSET CloudRows]
    /\ cloudHistory \in [PullRequests -> Seq(HistoryPairs)]
    /\ \A p \in PullRequests : AtMostOne(cloudRow[p])

\* Histories are chained and end at the row; without a row there is neither a
\* history nor a word of a person.
LocalSideInv ==
    /\ LocalSideShape
    /\ judged \in [PullRequests -> SUBSET [status : OutcomeStatuses, source : OutcomeSources]]
    /\ \A p \in PullRequests : Chained(localHistory[p], localRow[p])
    /\ \A p \in PullRequests : localRow[p] = {} => localHistory[p] = <<>> /\ judged[p] = {}
    /\ CallerOwned
CloudSideInv ==
    /\ CloudSideShape
    /\ \A p \in PullRequests : Chained(cloudHistory[p], cloudRow[p])
    /\ \A p \in PullRequests : cloudRow[p] = {} => cloudHistory[p] = <<>>

OutcomesInv == OutcomesShape /\ LocalSideInv /\ CloudSideInv

\* A set of at most one element is empty or the set of the one it holds.
LEMMA TheOne ==
    ASSUME NEW S, AtMostOne(S)
    PROVE  /\ S = {} \/ (The(S) \in S /\ S = {The(S)})
           /\ IsFiniteSet(S) /\ Cardinality(S) <= 1
<1>1. CASE S = {}
  BY <1>1, FS_EmptySet
<1>2. CASE S # {}
  <2>1. PICK x : S = {x}
    BY <1>2 DEF AtMostOne
  <2>2. The(S) = x
    BY <2>1 DEF The
  <2>3. IsFiniteSet({x}) /\ Cardinality({x}) = 1
    BY FS_Singleton
  <2>. QED
    BY <2>1, <2>2, <2>3
<1>. QED
  BY <1>1, <1>2

\* A correction that starts at the status of the row keeps the chain.
LEMMA ChainGrows ==
    ASSUME NEW h \in Seq(HistoryPairs), NEW row, NEW after, NEW status \in OutcomeStatuses,
           row.status \in OutcomeStatuses, Chained(h, {row}), after.status = status
    PROVE  /\ Logged(h, row, status) \in Seq(HistoryPairs)
           /\ Chained(Logged(h, row, status), {after})
           /\ Len(Logged(h, row, status)) = Len(h) + 1
<1>1. PICK g : g = Logged(h, row, status)
  OBVIOUS
<1>2. <<row.status, status>> \in HistoryPairs
  BY DEF HistoryPairs
<1>3. /\ g \in Seq(HistoryPairs) /\ Len(g) = Len(h) + 1 /\ g[Len(g)] = <<row.status, status>>
      /\ \A i \in 1..Len(h) : g[i] = h[i]
  BY <1>1, <1>2 DEF Logged
<1>4. ASSUME NEW i \in 1..Len(g) - 1 PROVE g[i][2] = g[i + 1][1]
  <2>0. Len(h) \in Nat
    OBVIOUS
  <2>1. CASE i = Len(h)
    <3>1. h # <<>>
      BY <2>0, <2>1, <1>4
    <3>2. h[Len(h)][2] = row.status
      BY <3>1 DEF Chained
    <3>3. i + 1 = Len(g) /\ i \in 1..Len(h)
      BY <2>0, <2>1, <1>3
    <3>4. g[i + 1][1] = row.status
      BY <3>3, <1>3
    <3>. QED
      BY <2>1, <3>2, <3>3, <3>4, <1>3
  <2>2. CASE i < Len(h)
    <3>1. i \in 1..Len(h) - 1 /\ i \in 1..Len(h) /\ i + 1 \in 1..Len(h)
      BY <2>0, <2>2, <1>3
    <3>2. h[i][2] = h[i + 1][1]
      BY <3>1 DEF Chained
    <3>. QED
      BY <3>1, <3>2, <1>3
  <2>. QED
    BY <2>0, <2>1, <2>2, <1>3
<1>5. \A x \in {after} : x.status = g[Len(g)][2]
  BY <1>3
<1>. QED
  BY <1>1, <1>3, <1>4, <1>5 DEF Chained

\* An empty history is chained whatever the row.
LEMMA ChainEmpty == ASSUME NEW S PROVE Chained(<<>>, S)
BY DEF Chained

\* The one row of an outcome, its type and what its history says.
LEMMA LocalRowHeld ==
    ASSUME LocalSideInv, NEW p \in PullRequests, localRow[p] # {}
    PROVE  LET row == The(localRow[p])
           IN  /\ row \in LocalRows /\ localRow[p] = {row} /\ row.status \in OutcomeStatuses
               /\ row.source \in OutcomeSources
               /\ Chained(localHistory[p], {row}) /\ localHistory[p] \in Seq(HistoryPairs)
<1>1. AtMostOne(localRow[p]) /\ localRow[p] \in SUBSET LocalRows
  BY DEF LocalSideInv, LocalSideShape
<1>2. PICK row : row = The(localRow[p])
  OBVIOUS
<1>3. row \in LocalRows /\ localRow[p] = {row}
  BY <1>1, <1>2, TheOne
<1>4. Chained(localHistory[p], {row}) /\ localHistory[p] \in Seq(HistoryPairs)
  BY <1>3 DEF LocalSideInv, LocalSideShape
<1>5. row.status \in OutcomeStatuses /\ row.source \in OutcomeSources
  BY <1>3 DEF LocalRows
<1>. QED
  BY <1>2, <1>3, <1>4, <1>5

\* The same on the hosted side.
LEMMA CloudRowHeld ==
    ASSUME CloudSideInv, NEW p \in PullRequests, cloudRow[p] # {}
    PROVE  LET row == The(cloudRow[p])
           IN  /\ row \in CloudRows /\ cloudRow[p] = {row} /\ row.status \in OutcomeStatuses
               /\ Chained(cloudHistory[p], {row}) /\ cloudHistory[p] \in Seq(HistoryPairs)
<1>1. AtMostOne(cloudRow[p]) /\ cloudRow[p] \in SUBSET CloudRows
  BY DEF CloudSideInv, CloudSideShape
<1>2. PICK row : row = The(cloudRow[p])
  OBVIOUS
<1>3. row \in CloudRows /\ cloudRow[p] = {row}
  BY <1>1, <1>2, TheOne
<1>4. Chained(cloudHistory[p], {row}) /\ cloudHistory[p] \in Seq(HistoryPairs)
  BY <1>3 DEF CloudSideInv, CloudSideShape
<1>5. row.status \in OutcomeStatuses
  BY <1>3 DEF CloudRows
<1>. QED
  BY <1>2, <1>3, <1>4, <1>5

\* The local side after a step that puts the row x in place of that of p,
\* with a history that chains to it.
LEMMA LocalSideSet ==
    ASSUME LocalSideInv, NEW p \in PullRequests, NEW x \in LocalRows, NEW h \in Seq(HistoryPairs),
           localRow' = [localRow EXCEPT ![p] = {x}],
           localHistory' = [localHistory EXCEPT ![p] = h],
           judged' \in [PullRequests -> SUBSET [status : OutcomeStatuses, source : OutcomeSources]],
           \A q \in PullRequests : q # p => judged'[q] = judged[q],
           Chained(h, {x}),
           \A j \in judged'[p] : j.source = "cli" => x.source = "cli" /\ x.status = j.status
    PROVE  LocalSideInv'
<1>1. /\ localRow'[p] = {x} /\ localHistory'[p] = h
      /\ \A q \in PullRequests : q # p => localRow'[q] = localRow[q] /\ localHistory'[q] = localHistory[q]
  BY DEF LocalSideInv, LocalSideShape
<1>2. LocalSideShape'
  <2>1. localRow' \in [PullRequests -> SUBSET LocalRows]
    BY DEF LocalSideInv, LocalSideShape
  <2>2. localHistory' \in [PullRequests -> Seq(HistoryPairs)]
    BY DEF LocalSideInv, LocalSideShape
  <2>3. \A q \in PullRequests : AtMostOne(localRow'[q])
    BY <1>1 DEF LocalSideInv, LocalSideShape, AtMostOne
  <2>. QED
    BY <2>1, <2>2, <2>3 DEF LocalSideShape
<1>3. \A q \in PullRequests : Chained(localHistory'[q], localRow'[q])
  BY <1>1 DEF LocalSideInv
<1>4. \A q \in PullRequests : localRow'[q] = {} => localHistory'[q] = <<>> /\ judged'[q] = {}
  BY <1>1 DEF LocalSideInv
<1>5. CallerOwned'
  BY <1>1 DEF LocalSideInv, CallerOwned
<1>. QED
  BY <1>2, <1>3, <1>4, <1>5 DEF LocalSideInv

\* Steps elsewhere leave a side as it is.
LEMMA LocalSideSame ==
    ASSUME LocalSideInv, UNCHANGED <<localRow, localHistory, judged>> PROVE LocalSideInv'
BY DEF LocalSideInv, LocalSideShape, CallerOwned

\* The hosted side as well.
LEMMA CloudSideSame ==
    ASSUME CloudSideInv, UNCHANGED <<cloudRow, cloudHistory>> PROVE CloudSideInv'
BY DEF CloudSideInv, CloudSideShape

\* A pull request is merged, closed or opened again.
LEMMA OutcomesStepPull ==
    ASSUME OutcomesInv, NEW p \in PullRequests,
           NEW status \in {"open", "accepted", "rejected"}, PullChanges(p, status)
    PROVE  OutcomesInv'
<1>1. /\ eventTime < MaxEventTime /\ eventTime' = eventTime + 1
      /\ UNCHANGED <<deriver, localRow, localHistory, posts, cloudRow, cloudHistory, judged>>
      /\ pull' = [pull EXCEPT ![p] = IF status = "open" THEN StillOpen
                                     ELSE [status |-> status, at |-> eventTime + 1]]
  BY DEF PullChanges
<1>2. OutcomesShape
  BY DEF OutcomesInv
<1>3. eventTime' \in 0..MaxEventTime /\ eventTime + 1 \in Nat
  BY <1>1, <1>2, OutcomesAssumption DEF OutcomesShape
<1>4. OutcomesShape'
  BY <1>1, <1>2, <1>3 DEF OutcomesShape, StillOpen
<1>. QED
  BY <1>1, <1>4, LocalSideSame, CloudSideSame DEF OutcomesInv

\* A deriver reads the closed pull requests.
LEMMA OutcomesStepFetch ==
    ASSUME OutcomesInv, NEW d \in Derivers, FetchPulls(d)
    PROVE  OutcomesInv'
<1>1. PICK F : F = {[id |-> p, status |-> pull[p].status, at |-> pull[p].at] :
                        p \in {q \in PullRequests : pull[q].status # "open"}}
  OBVIOUS
<1>2. /\ deriver' = [deriver EXCEPT ![d] = F]
      /\ UNCHANGED <<pull, localRow, localHistory, posts, cloudRow, cloudHistory, judged, eventTime>>
  BY <1>1 DEF FetchPulls
<1>3. OutcomesShape
  BY DEF OutcomesInv
<1>4. F \in SUBSET OutcomeBodies
  <2>1. \A p \in PullRequests : pull[p].status \in {"open", "accepted", "rejected"} /\ pull[p].at \in Nat
    BY <1>3 DEF OutcomesShape
  <2>. QED
    BY <1>1, <2>1 DEF OutcomeBodies, OutcomeStatuses
<1>5. OutcomesShape'
  BY <1>2, <1>3, <1>4 DEF OutcomesShape
<1>. QED
  BY <1>2, <1>5, LocalSideSame, CloudSideSame DEF OutcomesInv

\* A derivation writes one outcome: only a new row or a derived one.
LEMMA OutcomesStepReconcile ==
    ASSUME OutcomesInv, NEW d \in Derivers, NEW o \in deriver[d], ReconcileDerived(d, o)
    PROVE  OutcomesInv'
<1>1. /\ deriver' = [deriver EXCEPT ![d] = @ \ {o}]
      /\ UNCHANGED <<pull, posts, cloudRow, cloudHistory, judged, eventTime>>
  BY DEF ReconcileDerived
<1>2. OutcomesShape /\ LocalSideInv
  BY DEF OutcomesInv
<1>3. o \in OutcomeBodies
  BY <1>2 DEF OutcomesShape
<1>4. o.id \in PullRequests /\ o.status \in OutcomeStatuses /\ o.at \in Nat
  BY <1>3 DEF OutcomeBodies
<1>5. OutcomesShape'
  BY <1>1, <1>2 DEF OutcomesShape
<1>6. LocalSideInv'
  <2>1. CASE localRow[o.id] = {}
    <3>1. PICK x : x = [status |-> o.status, at |-> o.at, source |-> "derived", synced |-> FALSE]
      OBVIOUS
    <3>2. x \in LocalRows
      BY <1>4, <3>1 DEF LocalRows, OutcomeSources
    <3>3. localRow' = [localRow EXCEPT ![o.id] = {x}] /\ localHistory' = localHistory
      BY <2>1, <3>1 DEF ReconcileDerived
    <3>4. localHistory[o.id] = <<>> /\ judged[o.id] = {}
      BY <1>2, <1>4, <2>1 DEF LocalSideInv
    <3>5. localHistory \in [PullRequests -> Seq(HistoryPairs)]
      BY <1>2 DEF LocalSideInv, LocalSideShape
    <3>6. /\ localHistory' = [localHistory EXCEPT ![o.id] = <<>>]
          /\ <<>> \in Seq(HistoryPairs) /\ Chained(<<>>, {x})
      BY <3>3, <3>4, <3>5, <1>4, ChainEmpty
    <3>7. judged' \in [PullRequests -> SUBSET [status : OutcomeStatuses, source : OutcomeSources]]
      BY <1>1, <1>2 DEF LocalSideInv
    <3>. QED
      BY <1>1, <1>2, <1>4, <3>2, <3>3, <3>4, <3>6, <3>7, LocalSideSet
  <2>2. CASE localRow[o.id] # {}
    <3>1. PICK row : row = The(localRow[o.id])
      OBVIOUS
    <3>2. /\ row \in LocalRows /\ localRow[o.id] = {row} /\ row.status \in OutcomeStatuses
          /\ Chained(localHistory[o.id], {row}) /\ localHistory[o.id] \in Seq(HistoryPairs)
      BY <1>2, <1>4, <2>2, <3>1, LocalRowHeld
    <3>3. CASE ~Derivable(row, o)
      <4>1. UNCHANGED <<localRow, localHistory>>
        BY <2>2, <3>1, <3>3 DEF ReconcileDerived
      <4>. QED
        BY <1>1, <1>2, <4>1, LocalSideSame
    <3>4. CASE Derivable(row, o)
      <4>1. PICK x : x = [row EXCEPT !.status = o.status, !.at = o.at, !.source = "derived"]
        OBVIOUS
      <4>2. x \in LocalRows /\ x.status = o.status
        BY <1>4, <3>2, <4>1 DEF LocalRows, OutcomeSources
      <4>3. PICK h : h = Logged(localHistory[o.id], row, o.status)
        OBVIOUS
      <4>4. /\ localRow' = [localRow EXCEPT ![o.id] = {x}]
            /\ localHistory' = [localHistory EXCEPT ![o.id] = h]
        BY <2>2, <3>1, <3>4, <4>1, <4>3 DEF ReconcileDerived
      <4>5. h \in Seq(HistoryPairs) /\ Chained(h, {x})
        BY <1>4, <3>2, <4>2, <4>3, ChainGrows
      <4>6. \A j \in judged[o.id] : j.source # "cli"
        BY <1>2, <1>4, <3>2, <3>4 DEF LocalSideInv, CallerOwned, Derivable
      <4>7. judged' \in [PullRequests -> SUBSET [status : OutcomeStatuses, source : OutcomeSources]]
        BY <1>1, <1>2 DEF LocalSideInv
      <4>. QED
        BY <1>1, <1>2, <1>4, <4>2, <4>4, <4>5, <4>6, <4>7, LocalSideSet
    <3>. QED
      BY <3>3, <3>4
  <2>. QED
    BY <2>1, <2>2
<1>. QED
  BY <1>1, <1>5, <1>6, CloudSideSame DEF OutcomesInv

\* A deriver ends before it wrote everything.
LEMMA OutcomesStepDies ==
    ASSUME OutcomesInv, NEW d \in Derivers, DeriverDies(d)
    PROVE  OutcomesInv'
<1>1. /\ deriver' = [deriver EXCEPT ![d] = {}]
      /\ UNCHANGED <<pull, localRow, localHistory, posts, cloudRow, cloudHistory, judged, eventTime>>
  BY DEF DeriverDies
<1>2. OutcomesShape'
  BY <1>1 DEF OutcomesInv, OutcomesShape
<1>. QED
  BY <1>1, <1>2, LocalSideSame, CloudSideSame DEF OutcomesInv

\* A person records an outcome.
LEMMA OutcomesStepRecord ==
    ASSUME OutcomesInv, NEW p \in PullRequests, NEW status \in OutcomeStatuses,
           RecordOutcome(p, status)
    PROVE  OutcomesInv'
<1>1. /\ localRow[p] = {} /\ localRow' = [localRow EXCEPT ![p] = {Fresh(status, "cli")}]
      /\ judged' = [judged EXCEPT ![p] = {[status |-> status, source |-> "cli"]}]
      /\ UNCHANGED <<pull, deriver, localHistory, posts, cloudRow, cloudHistory, eventTime>>
  BY DEF RecordOutcome
<1>2. OutcomesShape /\ LocalSideInv
  BY DEF OutcomesInv
<1>3. OutcomesShape'
  BY <1>1, <1>2 DEF OutcomesShape
<1>4. PICK x : x = Fresh(status, "cli")
  OBVIOUS
<1>5. x \in LocalRows /\ x.status = status /\ x.source = "cli"
  <2>1. eventTime \in Nat
    BY <1>2 DEF OutcomesShape
  <2>. QED
    BY <1>4, <2>1 DEF Fresh, LocalRows, OutcomeSources
<1>6. localHistory[p] = <<>> /\ localHistory \in [PullRequests -> Seq(HistoryPairs)]
  BY <1>1, <1>2 DEF LocalSideInv, LocalSideShape
<1>7. /\ localHistory' = [localHistory EXCEPT ![p] = <<>>]
      /\ <<>> \in Seq(HistoryPairs) /\ Chained(<<>>, {x})
  BY <1>1, <1>6, ChainEmpty
<1>8. PICK y : y = [status |-> status, source |-> "cli"]
  OBVIOUS
<1>9. y \in [status : OutcomeStatuses, source : OutcomeSources] /\ y.status = status
  BY <1>8 DEF OutcomeSources
<1>10. /\ judged' \in [PullRequests -> SUBSET [status : OutcomeStatuses, source : OutcomeSources]]
       /\ \A q \in PullRequests : q # p => judged'[q] = judged[q]
       /\ judged'[p] = {y}
  BY <1>1, <1>2, <1>8, <1>9 DEF LocalSideInv
<1>11. \A j \in judged'[p] : j.source = "cli" => x.source = "cli" /\ x.status = j.status
  BY <1>5, <1>9, <1>10
<1>12. localRow' = [localRow EXCEPT ![p] = {x}]
  BY <1>1, <1>4
<1>13. LocalSideInv'
  BY <1>2, <1>5, <1>7, <1>10, <1>11, <1>12, LocalSideSet
<1>. QED
  BY <1>1, <1>3, <1>13, CloudSideSame DEF OutcomesInv

\* A person corrects a local outcome.
LEMMA OutcomesStepCorrect ==
    ASSUME OutcomesInv, NEW p \in PullRequests, NEW status \in OutcomeStatuses,
           CorrectLocal(p, status)
    PROVE  OutcomesInv'
<1>1. PICK row : row = The(localRow[p])
  OBVIOUS
<1>2. PICK x : x = [row EXCEPT !.status = status]
  OBVIOUS
<1>3. PICK y : y = [status |-> status, source |-> row.source]
  OBVIOUS
<1>4. PICK h : h = Logged(localHistory[p], row, status)
  OBVIOUS
<1>5. /\ localRow[p] # {} /\ localRow' = [localRow EXCEPT ![p] = {x}]
      /\ localHistory' = [localHistory EXCEPT ![p] = h]
      /\ judged' = [judged EXCEPT ![p] = {y}]
      /\ UNCHANGED <<pull, deriver, posts, cloudRow, cloudHistory, eventTime>>
  BY <1>1, <1>2, <1>3, <1>4 DEF CorrectLocal
<1>6. OutcomesShape /\ LocalSideInv
  BY DEF OutcomesInv
<1>7. OutcomesShape'
  BY <1>5, <1>6 DEF OutcomesShape
<1>8. /\ row \in LocalRows /\ row.status \in OutcomeStatuses /\ row.source \in OutcomeSources
      /\ Chained(localHistory[p], {row}) /\ localHistory[p] \in Seq(HistoryPairs)
  BY <1>1, <1>5, <1>6, LocalRowHeld
<1>9. x \in LocalRows /\ x.status = status /\ x.source = row.source
  BY <1>2, <1>8 DEF LocalRows
<1>10. h \in Seq(HistoryPairs) /\ Chained(h, {x})
  BY <1>4, <1>8, <1>9, ChainGrows
<1>11. /\ y \in [status : OutcomeStatuses, source : OutcomeSources]
       /\ y.status = status /\ y.source = row.source
  BY <1>3, <1>8
<1>12. /\ judged' \in [PullRequests -> SUBSET [status : OutcomeStatuses, source : OutcomeSources]]
       /\ \A q \in PullRequests : q # p => judged'[q] = judged[q]
       /\ judged'[p] = {y}
  BY <1>5, <1>6, <1>11 DEF LocalSideInv
<1>13. \A j \in judged'[p] : j.source = "cli" => x.source = "cli" /\ x.status = j.status
  BY <1>9, <1>11, <1>12
<1>14. LocalSideInv'
  BY <1>5, <1>6, <1>9, <1>10, <1>12, <1>13, LocalSideSet
<1>. QED
  BY <1>5, <1>7, <1>14, CloudSideSame DEF OutcomesInv

\* An unsynced row is sent.
LEMMA OutcomesStepPush ==
    ASSUME OutcomesInv, NEW p \in PullRequests, PushOutcome(p)
    PROVE  OutcomesInv'
<1>1. PICK row : row = The(localRow[p])
  OBVIOUS
<1>2. /\ localRow[p] # {}
      /\ posts' = posts \cup {[id |-> p, status |-> row.status, at |-> row.at]}
      /\ UNCHANGED <<pull, deriver, localRow, localHistory, cloudRow, cloudHistory, judged, eventTime>>
  BY <1>1 DEF PushOutcome
<1>3. row \in LocalRows
  BY <1>1, <1>2, LocalRowHeld DEF OutcomesInv
<1>4. [id |-> p, status |-> row.status, at |-> row.at] \in OutcomeBodies
  BY <1>3 DEF LocalRows, OutcomeBodies
<1>5. OutcomesShape'
  BY <1>2, <1>4 DEF OutcomesInv, OutcomesShape
<1>. QED
  BY <1>2, <1>5, LocalSideSame, CloudSideSame DEF OutcomesInv

\* A row is marked as synced: nothing else of it changes.
LEMMA OutcomesStepMark ==
    ASSUME OutcomesInv, NEW p \in PullRequests, MarkOutcome(p)
    PROVE  OutcomesInv'
<1>1. PICK row : row = The(localRow[p])
  OBVIOUS
<1>2. PICK x : x = [row EXCEPT !.synced = TRUE]
  OBVIOUS
<1>3. /\ localRow[p] # {} /\ localRow' = [localRow EXCEPT ![p] = {x}]
      /\ UNCHANGED <<pull, deriver, localHistory, posts, cloudRow, cloudHistory, judged, eventTime>>
  BY <1>1, <1>2 DEF MarkOutcome
<1>4. OutcomesShape /\ LocalSideInv
  BY DEF OutcomesInv
<1>5. OutcomesShape'
  BY <1>3, <1>4 DEF OutcomesShape
<1>6. /\ row \in LocalRows /\ localRow[p] = {row}
      /\ Chained(localHistory[p], {row}) /\ localHistory[p] \in Seq(HistoryPairs)
  BY <1>1, <1>3, <1>4, LocalRowHeld
<1>7. x \in LocalRows /\ x.status = row.status /\ x.source = row.source
  BY <1>2, <1>6 DEF LocalRows
<1>8. Chained(localHistory[p], {x})
  BY <1>6, <1>7 DEF Chained
<1>9. localHistory' = [localHistory EXCEPT ![p] = localHistory[p]]
  BY <1>3, <1>4 DEF LocalSideInv, LocalSideShape
<1>10. \A j \in judged'[p] : j.source = "cli" => x.source = "cli" /\ x.status = j.status
  BY <1>3, <1>4, <1>6, <1>7 DEF LocalSideInv, CallerOwned
<1>11. judged' \in [PullRequests -> SUBSET [status : OutcomeStatuses, source : OutcomeSources]]
  BY <1>3, <1>4 DEF LocalSideInv
<1>12. LocalSideInv'
  BY <1>3, <1>4, <1>6, <1>7, <1>8, <1>9, <1>10, <1>11, LocalSideSet
<1>. QED
  BY <1>3, <1>5, <1>12, CloudSideSame DEF OutcomesInv

\* The hosted side after a step that puts x in place of the row of p.
LEMMA CloudSideSet ==
    ASSUME CloudSideInv, NEW p \in PullRequests, NEW x \in CloudRows, NEW h \in Seq(HistoryPairs),
           cloudRow' = [cloudRow EXCEPT ![p] = {x}],
           cloudHistory' = [cloudHistory EXCEPT ![p] = h], Chained(h, {x})
    PROVE  CloudSideInv'
<1>1. /\ cloudRow'[p] = {x} /\ cloudHistory'[p] = h
      /\ \A q \in PullRequests : q # p => cloudRow'[q] = cloudRow[q] /\ cloudHistory'[q] = cloudHistory[q]
  BY DEF CloudSideInv, CloudSideShape
<1>2. CloudSideShape'
  <2>1. cloudRow' \in [PullRequests -> SUBSET CloudRows]
    BY DEF CloudSideInv, CloudSideShape
  <2>2. cloudHistory' \in [PullRequests -> Seq(HistoryPairs)]
    BY DEF CloudSideInv, CloudSideShape
  <2>3. \A q \in PullRequests : AtMostOne(cloudRow'[q])
    BY <1>1 DEF CloudSideInv, CloudSideShape, AtMostOne
  <2>. QED
    BY <2>1, <2>2, <2>3 DEF CloudSideShape
<1>3. \A q \in PullRequests : Chained(cloudHistory'[q], cloudRow'[q])
  BY <1>1 DEF CloudSideInv
<1>4. \A q \in PullRequests : cloudRow'[q] = {} => cloudHistory'[q] = <<>>
  BY <1>1 DEF CloudSideInv
<1>. QED
  BY <1>2, <1>3, <1>4 DEF CloudSideInv

\* A delivery, the first or a later one.
LEMMA OutcomesStepIngest ==
    ASSUME OutcomesInv, NEW m \in posts, IngestOutcome(m)
    PROVE  OutcomesInv'
<1>1. /\ cloudRow' = [cloudRow EXCEPT ![m.id] = Ingested(m)]
      /\ UNCHANGED <<pull, deriver, localRow, localHistory, posts, cloudHistory, judged, eventTime>>
  BY DEF IngestOutcome
<1>2. OutcomesShape /\ CloudSideInv
  BY DEF OutcomesInv
<1>3. m.id \in PullRequests /\ m.status \in OutcomeStatuses /\ m.at \in Nat
  BY <1>2 DEF OutcomesShape, OutcomeBodies
<1>4. OutcomesShape'
  BY <1>1, <1>2 DEF OutcomesShape
<1>5. CASE cloudRow[m.id] # {}
  <2>1. UNCHANGED <<cloudRow, cloudHistory>>
    BY <1>1, <1>2, <1>3, <1>5 DEF Ingested, CloudSideInv, CloudSideShape
  <2>. QED
    BY <1>1, <1>4, <2>1, LocalSideSame, CloudSideSame DEF OutcomesInv
<1>6. CASE cloudRow[m.id] = {}
  <2>1. PICK x : x = [status |-> m.status, at |-> m.at]
    OBVIOUS
  <2>2. x \in CloudRows /\ cloudRow' = [cloudRow EXCEPT ![m.id] = {x}]
    BY <1>1, <1>3, <1>6, <2>1 DEF Ingested, CloudRows
  <2>3. /\ cloudHistory[m.id] = <<>> /\ cloudHistory \in [PullRequests -> Seq(HistoryPairs)]
    BY <1>2, <1>3, <1>6 DEF CloudSideInv, CloudSideShape
  <2>4. cloudHistory' = [cloudHistory EXCEPT ![m.id] = <<>>] /\ <<>> \in Seq(HistoryPairs)
    BY <1>1, <2>3
  <2>5. CloudSideInv'
    BY <1>2, <1>3, <2>2, <2>4, CloudSideSet, ChainEmpty
  <2>. QED
    BY <1>1, <1>4, <2>5, LocalSideSame DEF OutcomesInv
<1>. QED
  BY <1>5, <1>6

\* PATCH /v1/outcomes/{id}.
LEMMA OutcomesStepPatch ==
    ASSUME OutcomesInv, NEW p \in PullRequests, NEW status \in OutcomeStatuses,
           CorrectCloud(p, status)
    PROVE  OutcomesInv'
<1>1. PICK row : row = The(cloudRow[p])
  OBVIOUS
<1>2. PICK x : x = [row EXCEPT !.status = status]
  OBVIOUS
<1>3. PICK h : h = Logged(cloudHistory[p], row, status)
  OBVIOUS
<1>4. /\ cloudRow[p] # {} /\ cloudRow' = [cloudRow EXCEPT ![p] = {x}]
      /\ cloudHistory' = [cloudHistory EXCEPT ![p] = h]
      /\ UNCHANGED <<pull, deriver, localRow, localHistory, posts, judged, eventTime>>
  BY <1>1, <1>2, <1>3 DEF CorrectCloud
<1>5. OutcomesShape /\ CloudSideInv
  BY DEF OutcomesInv
<1>6. OutcomesShape'
  BY <1>4, <1>5 DEF OutcomesShape
<1>7. /\ row \in CloudRows /\ row.status \in OutcomeStatuses
      /\ Chained(cloudHistory[p], {row}) /\ cloudHistory[p] \in Seq(HistoryPairs)
  BY <1>1, <1>4, <1>5, CloudRowHeld
<1>8. x \in CloudRows /\ x.status = status
  BY <1>2, <1>7 DEF CloudRows
<1>9. h \in Seq(HistoryPairs) /\ Chained(h, {x})
  BY <1>3, <1>7, <1>8, ChainGrows
<1>10. CloudSideInv'
  BY <1>4, <1>5, <1>8, <1>9, CloudSideSet
<1>. QED
  BY <1>4, <1>6, <1>10, LocalSideSame DEF OutcomesInv

\* Every step of the outcomes keeps their invariant.
LEMMA OutcomesStep == ASSUME OutcomesInv, OutcomesNext PROVE OutcomesInv'
BY OutcomesStepPull, OutcomesStepFetch, OutcomesStepReconcile, OutcomesStepDies,
   OutcomesStepRecord, OutcomesStepCorrect, OutcomesStepPush, OutcomesStepMark,
   OutcomesStepIngest, OutcomesStepPatch
DEF OutcomesNext

\* Nothing is there at first.
LEMMA OutcomesBegin == OutcomesInit => OutcomesInv
<1>. SUFFICES ASSUME OutcomesInit PROVE OutcomesInv
  OBVIOUS
<1>1. OutcomesShape
  BY OutcomesAssumption DEF OutcomesInit, OutcomesShape, StillOpen
<1>2. LocalSideInv
  BY ChainEmpty DEF OutcomesInit, LocalSideInv, LocalSideShape, AtMostOne, CallerOwned
<1>3. CloudSideInv
  BY ChainEmpty DEF OutcomesInit, CloudSideInv, CloudSideShape, AtMostOne
<1>. QED
  BY <1>1, <1>2, <1>3 DEF OutcomesInv

\* The invariant gives the types and what the outcomes promise.
LEMMA OutcomesSafe == ASSUME OutcomesInv PROVE OutcomesTypeOK /\ HistoryComplete /\ CallerOwned
<1>1. HistoryComplete /\ CallerOwned
  BY DEF OutcomesInv, LocalSideInv, CloudSideInv, HistoryComplete
<1>2. ASSUME NEW p \in PullRequests
      PROVE  /\ Cardinality(localRow[p]) <= 1 /\ Cardinality(cloudRow[p]) <= 1
             /\ \A x \in localRow[p] \cup cloudRow[p] : x.status \in OutcomeStatuses
  <2>1. AtMostOne(localRow[p]) /\ AtMostOne(cloudRow[p])
    BY DEF OutcomesInv, LocalSideInv, LocalSideShape, CloudSideInv, CloudSideShape
  <2>2. localRow[p] \in SUBSET LocalRows /\ cloudRow[p] \in SUBSET CloudRows
    BY DEF OutcomesInv, LocalSideInv, LocalSideShape, CloudSideInv, CloudSideShape
  <2>. QED
    BY <2>1, <2>2, TheOne DEF LocalRows, CloudRows
<1>3. eventTime \in 0..MaxEventTime
  BY DEF OutcomesInv, OutcomesShape
<1>. QED
  BY <1>1, <1>2, <1>3 DEF OutcomesTypeOK

\* A hosted row that is there changes only with its history.
LEMMA ReplayStep ==
    ASSUME OutcomesInv, OutcomesNext, NEW p \in PullRequests,
           cloudRow[p] # {}, cloudRow'[p] # cloudRow[p]
    PROVE  cloudHistory'[p] # cloudHistory[p]
<1>1. CloudSideInv
  BY DEF OutcomesInv
<1>2. ASSUME NEW m \in posts, IngestOutcome(m) PROVE FALSE
  <2>1. cloudRow' = [cloudRow EXCEPT ![m.id] = Ingested(m)]
    BY <1>2 DEF IngestOutcome
  <2>. QED
    BY <1>1, <2>1 DEF Ingested, CloudSideInv, CloudSideShape
<1>3. ASSUME NEW q \in PullRequests, NEW status \in OutcomeStatuses, CorrectCloud(q, status)
      PROVE  cloudHistory'[p] # cloudHistory[p]
  <2>1. PICK row : row = The(cloudRow[q])
    OBVIOUS
  <2>2. PICK x : x = [row EXCEPT !.status = status]
    OBVIOUS
  <2>3. PICK h : h = Logged(cloudHistory[q], row, status)
    OBVIOUS
  <2>4. /\ cloudRow[q] # {} /\ cloudRow' = [cloudRow EXCEPT ![q] = {x}]
        /\ cloudHistory' = [cloudHistory EXCEPT ![q] = h]
    BY <1>3, <2>1, <2>2, <2>3 DEF CorrectCloud
  <2>5. p = q
    BY <1>1, <2>4 DEF CloudSideInv, CloudSideShape
  <2>6. /\ row \in CloudRows /\ row.status \in OutcomeStatuses
        /\ Chained(cloudHistory[q], {row}) /\ cloudHistory[q] \in Seq(HistoryPairs)
    BY <1>1, <2>1, <2>4, CloudRowHeld
  <2>7. x.status = status
    BY <2>2, <2>6 DEF CloudRows
  <2>8. h \in Seq(HistoryPairs) /\ Len(h) = Len(cloudHistory[q]) + 1
    BY <2>3, <2>6, <2>7, ChainGrows
  <2>9. cloudHistory'[q] = h
    BY <1>1, <2>4 DEF CloudSideInv, CloudSideShape
  <2>10. h # cloudHistory[q]
    BY <2>6, <2>8
  <2>. QED
    BY <2>5, <2>9, <2>10
<1>4. cloudRow' # cloudRow
  OBVIOUS
<1>5. \/ \E m \in posts : IngestOutcome(m)
      \/ \E q \in PullRequests, status \in OutcomeStatuses : CorrectCloud(q, status)
  BY <1>4 DEF OutcomesNext, PullChanges, FetchPulls, ReconcileDerived, DeriverDies,
              RecordOutcome, CorrectLocal, PushOutcome, MarkOutcome
<1>. QED
  BY <1>2, <1>3, <1>5

-----------------------------------------------------------------------------
(* The migrations of the local schema (Migrations).                        *)

MigrationSteps == 1..Len(MigrationsInOrder)
ColumnsOf(i) == ToSet(MigrationsInOrder[i])

\* A process in state s, over the columns C, has every column of the migrations
\* before the one it is at, and of that one those it does not mean to add.
Progress(s, C) ==
    \/ s = NotStarted
    \/ s = [pc |-> "ready"] /\ AllColumns \subseteq C
    \/ \E i \in MigrationSteps :
          /\ ColumnsUpTo(i - 1) \subseteq C
          /\ \/ s = [pc |-> "peek", at |-> i]
             \/ s = [pc |-> "fill", at |-> i] /\ ColumnsOf(i) \subseteq C
             \/ \E todo \in (SUBSET DOMAIN MigrationsInOrder[i]) \ {{}} :
                   /\ s = [pc |-> "alter", at |-> i, todo |-> todo]
                   /\ \A k \in DOMAIN MigrationsInOrder[i] \ todo : MigrationsInOrder[i][k] \in C

\* Once requested_model is there, it is filled, unless the process that added
\* it is about to fill it or was killed before.
FillInv ==
    /\ requestedModel \in [OldRows -> {"null", "model"}]
    /\ downgraded \in SUBSET OldRows /\ cut \in BOOLEAN
    /\ \A r \in downgraded : requestedModel[r] = "null"
    /\ "requested_model" \in columns =>
          \/ cut \/ \E p \in Starters : starters[p].pc = "fill"
          \/ \A r \in OldRows \ downgraded : requestedModel[r] = "model"

MigrationsInv ==
    /\ columns \subseteq AllColumns /\ starters = [p \in Starters |-> starters[p]]
    /\ \A p \in Starters : Progress(starters[p], columns)
    /\ FillInv

\* requested_model is the only column of the sixteenth migration and of no other.
LEMMA RequestedModelAlone ==
    /\ Len(MigrationsInOrder) = 18 /\ MigrationsInOrder[16] = <<"requested_model">>
    /\ \A i \in MigrationSteps :
          /\ DOMAIN MigrationsInOrder[i] = 1..Len(MigrationsInOrder[i])
          /\ \A k \in DOMAIN MigrationsInOrder[i] :
                MigrationsInOrder[i][k] = "requested_model" => i = 16 /\ k = 1
<1>1. Len(MigrationsInOrder) = 18 /\ MigrationsInOrder[16] = <<"requested_model">>
  BY DEF MigrationsInOrder, RequestedModel
<1>2. /\ MigrationsInOrder[1] = SyncedAt /\ MigrationsInOrder[2] = GitTags
      /\ MigrationsInOrder[3] = KeyLabel /\ MigrationsInOrder[4] = TtftMs
      /\ MigrationsInOrder[5] = SourceColumns /\ MigrationsInOrder[6] = RoutingColumns
      /\ MigrationsInOrder[7] = CanonicalFields /\ MigrationsInOrder[8] = PromptTokens
      /\ MigrationsInOrder[9] = CacheFields /\ MigrationsInOrder[10] = AgentRunColumns
      /\ MigrationsInOrder[11] = CorrelationFields /\ MigrationsInOrder[12] = CacheIntegrity
      /\ MigrationsInOrder[13] = ToolCalls /\ MigrationsInOrder[14] = PricingClass
      /\ MigrationsInOrder[15] = PricingFingerprint /\ MigrationsInOrder[16] = RequestedModel
      /\ MigrationsInOrder[17] = RequestRelations /\ MigrationsInOrder[18] = FindingBaselines
  BY DEF MigrationsInOrder
<1>. DEFINE Other(s) == /\ DOMAIN s = 1..Len(s)
                        /\ \A k \in DOMAIN s : s[k] # "requested_model"
<1>3. Other(SyncedAt) /\ Other(GitTags) /\ Other(KeyLabel)
  BY DEF SyncedAt, GitTags, KeyLabel
<1>4. Other(TtftMs) /\ Other(SourceColumns) /\ Other(RoutingColumns)
  BY DEF TtftMs, SourceColumns, RoutingColumns
<1>5. Other(CanonicalFields)
  BY DEF CanonicalFields
<1>6. Other(PromptTokens) /\ Other(CacheFields) /\ Other(AgentRunColumns)
  BY DEF PromptTokens, CacheFields, AgentRunColumns
<1>7. Other(CorrelationFields)
  BY DEF CorrelationFields
<1>8. Other(CacheIntegrity) /\ Other(ToolCalls) /\ Other(PricingClass) /\ Other(PricingFingerprint)
  BY DEF CacheIntegrity, ToolCalls, PricingClass, PricingFingerprint
<1>9. Other(RequestRelations) /\ Other(FindingBaselines)
  BY DEF RequestRelations, FindingBaselines
<1>10. DOMAIN RequestedModel = 1..Len(RequestedModel) /\ \A k \in DOMAIN RequestedModel : k = 1
  BY DEF RequestedModel
<1>. HIDE DEF Other
<1>11. ASSUME NEW i \in MigrationSteps, i # 16 PROVE Other(MigrationsInOrder[i])
  <2>1. i \in {1, 2, 3, 4, 5, 6, 7, 8, 9, 10, 11, 12, 13, 14, 15, 17, 18}
    BY <1>1, <1>11 DEF MigrationSteps
  <2>2. i \in {1, 2, 3, 4, 5, 6, 7, 8, 9} => Other(MigrationsInOrder[i])
    BY <1>2, <1>3, <1>4, <1>5, <1>6
  <2>3. i \in {10, 11, 12, 13, 14, 15, 17, 18} => Other(MigrationsInOrder[i])
    BY <1>2, <1>6, <1>7, <1>8, <1>9
  <2>. QED
    BY <2>1, <2>2, <2>3
<1>. QED
  BY <1>1, <1>2, <1>10, <1>11 DEF Other

\* The columns up to a migration are those before it and its own.
LEMMA ColumnsGrow ==
    /\ \A i \in MigrationSteps : ColumnsUpTo(i) = ColumnsUpTo(i - 1) \cup ColumnsOf(i)
    /\ \A i \in MigrationSteps : ColumnsOf(i) \subseteq AllColumns
    /\ \A n \in 0..18 : ColumnsUpTo(n) \subseteq AllColumns
    /\ ColumnsUpTo(0) = {}
<1>0. Len(MigrationsInOrder) = 18
  BY RequestedModelAlone
<1>1. \A n \in 0..18 : \A c : c \in ColumnsUpTo(n) <=> \E j \in 1..n : c \in ColumnsOf(j)
  BY DEF ColumnsUpTo, ColumnsOf
<1>2. \A c : c \in AllColumns <=> \E j \in 1..18 : c \in ColumnsOf(j)
  BY <1>0, <1>1 DEF AllColumns
<1>3. ASSUME NEW i \in MigrationSteps
      PROVE  ColumnsUpTo(i) = ColumnsUpTo(i - 1) \cup ColumnsOf(i)
  <2>1. i \in 1..18 /\ i - 1 \in 0..18 /\ i \in 0..18 /\ \A j : j \in 1..i <=> j \in 1..(i - 1) \/ j = i
    BY <1>0 DEF MigrationSteps
  <2>. QED
    BY <1>1, <2>1
<1>4. ASSUME NEW i \in MigrationSteps PROVE ColumnsOf(i) \subseteq AllColumns
  BY <1>0, <1>2 DEF MigrationSteps
<1>5. ASSUME NEW n \in 0..18 PROVE ColumnsUpTo(n) \subseteq AllColumns
  <2>1. \A j \in 1..n : j \in 1..18
    OBVIOUS
  <2>. QED
    BY <1>1, <1>2, <2>1
<1>6. ColumnsUpTo(0) = {}
  BY <1>1
<1>. QED
  BY <1>3, <1>4, <1>5, <1>6

\* The columns of a migration are the values of its sequence.
LEMMA ColumnsOfValues ==
    ASSUME NEW i \in MigrationSteps, NEW c
    PROVE  c \in ColumnsOf(i) <=> \E k \in DOMAIN MigrationsInOrder[i] : c = MigrationsInOrder[i][k]
<1>1. DOMAIN MigrationsInOrder[i] = 1..Len(MigrationsInOrder[i])
  BY RequestedModelAlone
<1>. QED
  BY <1>1 DEF ColumnsOf, ToSet

\* What a process has it keeps: columns are never dropped.
LEMMA ProgressKept ==
    ASSUME NEW s, NEW C, NEW D, C \subseteq D, Progress(s, C) PROVE Progress(s, D)
<1>1. CASE s = NotStarted \/ (s = [pc |-> "ready"] /\ AllColumns \subseteq C)
  BY <1>1 DEF Progress
<1>2. ASSUME NEW i \in MigrationSteps, ColumnsUpTo(i - 1) \subseteq C,
             \/ s = [pc |-> "peek", at |-> i]
             \/ s = [pc |-> "fill", at |-> i] /\ ColumnsOf(i) \subseteq C
             \/ \E todo \in (SUBSET DOMAIN MigrationsInOrder[i]) \ {{}} :
                   /\ s = [pc |-> "alter", at |-> i, todo |-> todo]
                   /\ \A k \in DOMAIN MigrationsInOrder[i] \ todo : MigrationsInOrder[i][k] \in C
      PROVE  Progress(s, D)
  <2>1. ColumnsUpTo(i - 1) \subseteq D
    BY <1>2
  <2>2. CASE s = [pc |-> "peek", at |-> i]
    BY <2>1, <2>2 DEF Progress
  <2>3. CASE s = [pc |-> "fill", at |-> i] /\ ColumnsOf(i) \subseteq C
    <3>1. ColumnsOf(i) \subseteq D
      BY <2>3
    <3>. QED
      BY <2>1, <2>3, <3>1 DEF Progress
  <2>4. ASSUME NEW todo \in (SUBSET DOMAIN MigrationsInOrder[i]) \ {{}},
               s = [pc |-> "alter", at |-> i, todo |-> todo],
               \A k \in DOMAIN MigrationsInOrder[i] \ todo : MigrationsInOrder[i][k] \in C
        PROVE  Progress(s, D)
    <3>1. \A k \in DOMAIN MigrationsInOrder[i] \ todo : MigrationsInOrder[i][k] \in D
      BY <2>4
    <3>. QED
      BY <2>1, <2>4, <3>1 DEF Progress
  <2>. QED
    BY <1>2, <2>2, <2>3, <2>4
<1>. QED
  BY <1>1, <1>2 DEF Progress

\* After the last column of a migration comes the next one.
LEMMA NextProgress ==
    ASSUME NEW i \in MigrationSteps, NEW C, ColumnsUpTo(i) \subseteq C
    PROVE  Progress(NextMigration(i), C)
<1>0. Len(MigrationsInOrder) = 18
  BY RequestedModelAlone
<1>1. CASE i < 18
  <2>1. i + 1 \in MigrationSteps /\ (i + 1) - 1 = i
    BY <1>0, <1>1 DEF MigrationSteps
  <2>2. NextMigration(i) = [pc |-> "peek", at |-> i + 1]
    BY <1>0, <1>1 DEF NextMigration
  <2>. QED
    BY <2>1, <2>2 DEF Progress
<1>2. CASE i = 18
  <2>1. NextMigration(i) = [pc |-> "ready"] /\ ColumnsUpTo(i) = AllColumns
    BY <1>0, <1>2 DEF NextMigration, AllColumns
  <2>. QED
    BY <2>1 DEF Progress
<1>. QED
  BY <1>0, <1>1, <1>2 DEF MigrationSteps

\* What a process in each of its states holds.
LEMMA ProgressHeld ==
    ASSUME NEW s, NEW C, Progress(s, C)
    PROVE  /\ s.pc \in {"down", "peek", "alter", "fill", "ready"}
           /\ s.pc = "ready" => AllColumns \subseteq C
           /\ s.pc \in {"peek", "alter", "fill"} =>
                 s.at \in MigrationSteps /\ ColumnsUpTo(s.at - 1) \subseteq C
           /\ s.pc = "fill" => ColumnsOf(s.at) \subseteq C
           /\ s.pc = "alter" =>
                 /\ s.todo \in (SUBSET DOMAIN MigrationsInOrder[s.at]) \ {{}}
                 /\ s = [pc |-> "alter", at |-> s.at, todo |-> s.todo]
                 /\ \A k \in DOMAIN MigrationsInOrder[s.at] \ s.todo : MigrationsInOrder[s.at][k] \in C
<1>1. CASE s = NotStarted
  BY <1>1 DEF NotStarted
<1>2. CASE s = [pc |-> "ready"] /\ AllColumns \subseteq C
  BY <1>2
<1>3. ASSUME NEW i \in MigrationSteps, ColumnsUpTo(i - 1) \subseteq C, s = [pc |-> "peek", at |-> i]
      PROVE  s.pc = "peek" /\ s.at = i
  BY <1>3
<1>4. ASSUME NEW i \in MigrationSteps, ColumnsUpTo(i - 1) \subseteq C, s = [pc |-> "fill", at |-> i]
      PROVE  s.pc = "fill" /\ s.at = i
  BY <1>4
<1>5. ASSUME NEW i \in MigrationSteps, ColumnsUpTo(i - 1) \subseteq C, NEW todo,
             s = [pc |-> "alter", at |-> i, todo |-> todo]
      PROVE  s.pc = "alter" /\ s.at = i /\ s.todo = todo
  BY <1>5
<1>. QED
  BY <1>1, <1>2, <1>3, <1>4, <1>5 DEF Progress

\* A step of one process, from s to t, that adds columns.
LEMMA MigrationsMoved ==
    ASSUME MigrationsInv, NEW p \in Starters, NEW t, NEW D \in SUBSET AllColumns,
           columns \subseteq D, columns' = D, starters' = [starters EXCEPT ![p] = t],
           Progress(t, D), FillInv'
    PROVE  MigrationsInv'
<1>1. /\ starters' = [q \in Starters |-> starters'[q]] /\ starters'[p] = t
      /\ \A q \in Starters : q # p => starters'[q] = starters[q]
  BY DEF MigrationsInv
<1>2. \A q \in Starters : Progress(starters'[q], columns')
  BY <1>1, ProgressKept DEF MigrationsInv
<1>. QED
  BY <1>1, <1>2 DEF MigrationsInv

\* The filling is unaffected by a step that adds no column, ends no filling
\* and changes no row.
LEMMA FillSame ==
    ASSUME MigrationsInv, UNCHANGED <<columns, downgraded, requestedModel>>,
           NEW p \in Starters, NEW t, starters' = [starters EXCEPT ![p] = t],
           starters[p].pc # "fill" \/ cut', cut' \in BOOLEAN, cut => cut'
    PROVE  FillInv'
<1>1. \A q \in Starters : q # p => starters'[q] = starters[q]
  BY DEF MigrationsInv
<1>2. FillInv
  BY DEF MigrationsInv
<1>3. requestedModel' \in [OldRows -> {"null", "model"}] /\ downgraded' \in SUBSET OldRows
  BY <1>2 DEF FillInv
<1>4. \A r \in downgraded' : requestedModel'[r] = "null"
  BY <1>2 DEF FillInv
<1>5. "requested_model" \in columns' =>
          \/ cut' \/ \E q \in Starters : starters'[q].pc = "fill"
          \/ \A r \in OldRows \ downgraded' : requestedModel'[r] = "model"
  BY <1>1, <1>2 DEF FillInv
<1>. QED
  BY <1>3, <1>4, <1>5 DEF FillInv

\* init_db starts at the first migration.
LEMMA MigrationsStepInit ==
    ASSUME MigrationsInv, NEW p \in Starters, InitDb(p)
    PROVE  MigrationsInv'
<1>1. /\ starters[p].pc = "down" /\ starters' = [starters EXCEPT ![p] = [pc |-> "peek", at |-> 1]]
      /\ UNCHANGED <<columns, downgraded, requestedModel, cut>>
  BY DEF InitDb
<1>2. 1 \in MigrationSteps /\ ColumnsUpTo(1 - 1) = {}
  BY RequestedModelAlone, ColumnsGrow DEF MigrationSteps
<1>3. Progress([pc |-> "peek", at |-> 1], columns)
  BY <1>2 DEF Progress
<1>4. FillInv'
  <2>1. cut' \in BOOLEAN /\ (cut => cut')
    BY <1>1 DEF MigrationsInv, FillInv
  <2>2. starters[p].pc # "fill"
    BY <1>1
  <2>. QED
    BY <1>1, <2>1, <2>2, FillSame
<1>5. columns' = columns /\ columns \in SUBSET AllColumns
  BY <1>1 DEF MigrationsInv
<1>. QED
  BY <1>1, <1>3, <1>4, <1>5, MigrationsMoved

\* PRAGMA table_info finds a migration done, or what is missing.
LEMMA MigrationsStepInfo ==
    ASSUME MigrationsInv, NEW p \in Starters, TableInfo(p)
    PROVE  MigrationsInv'
<1>1. PICK i : i = starters[p].at
  OBVIOUS
<1>2. PICK todo : todo = MissingColumns(i)
  OBVIOUS
<1>3. PICK t : t = IF todo = {} THEN NextMigration(i) ELSE [pc |-> "alter", at |-> i, todo |-> todo]
  OBVIOUS
<1>4. /\ starters[p].pc = "peek" /\ starters' = [starters EXCEPT ![p] = t]
      /\ UNCHANGED <<columns, downgraded, requestedModel, cut>>
  BY <1>1, <1>2, <1>3 DEF TableInfo
<1>5. i \in MigrationSteps /\ ColumnsUpTo(i - 1) \subseteq columns
  BY <1>1, <1>4, ProgressHeld DEF MigrationsInv
<1>6. Progress(t, columns)
  <2>1. CASE todo = {}
    <3>1. \A c \in ColumnsOf(i) : c \in columns
      BY <1>2, <1>5, <2>1, ColumnsOfValues DEF MissingColumns
    <3>2. ColumnsUpTo(i) \subseteq columns
      BY <1>5, <3>1, ColumnsGrow
    <3>. QED
      BY <1>3, <1>5, <2>1, <3>2, NextProgress
  <2>2. CASE todo # {}
    <3>1. /\ todo \in (SUBSET DOMAIN MigrationsInOrder[i]) \ {{}}
          /\ \A k \in DOMAIN MigrationsInOrder[i] \ todo : MigrationsInOrder[i][k] \in columns
      BY <1>2, <2>2 DEF MissingColumns
    <3>. QED
      BY <1>3, <1>5, <2>2, <3>1 DEF Progress
  <2>. QED
    BY <2>1, <2>2
<1>7. FillInv'
  <2>1. cut' \in BOOLEAN /\ (cut => cut')
    BY <1>4 DEF MigrationsInv, FillInv
  <2>2. starters[p].pc # "fill"
    BY <1>4
  <2>. QED
    BY <1>4, <2>1, <2>2, FillSame
<1>8. columns' = columns /\ columns \in SUBSET AllColumns
  BY <1>4 DEF MigrationsInv
<1>. QED
  BY <1>4, <1>6, <1>7, <1>8, MigrationsMoved

\* A column is added; requested_model is followed by the filling.
LEMMA MigrationsStepAdd ==
    ASSUME MigrationsInv, NEW p \in Starters, AddColumn(p)
    PROVE  MigrationsInv'
<1>1. PICK s : s = starters[p]
  OBVIOUS
<1>2. PICK k \in s.todo :
          /\ MigrationsInOrder[s.at][k] \notin columns
          /\ columns' = columns \cup {MigrationsInOrder[s.at][k]}
          /\ starters' = [starters EXCEPT ![p] =
                IF s.todo = {k} THEN AfterColumns(s.at) ELSE [s EXCEPT !.todo = @ \ {k}]]
  BY <1>1 DEF AddColumn
<1>3. s.pc = "alter" /\ UNCHANGED <<downgraded, requestedModel, cut>>
  BY <1>1 DEF AddColumn
<1>4. PICK i : i = s.at
  OBVIOUS
<1>5. PICK todo : todo = s.todo
  OBVIOUS
<1>6. /\ i \in MigrationSteps /\ ColumnsUpTo(i - 1) \subseteq columns
      /\ todo \in (SUBSET DOMAIN MigrationsInOrder[i]) \ {{}}
      /\ s = [pc |-> "alter", at |-> i, todo |-> todo]
      /\ \A j \in DOMAIN MigrationsInOrder[i] \ todo : MigrationsInOrder[i][j] \in columns
  <2>1. Progress(s, columns)
    BY <1>1 DEF MigrationsInv
  <2>. QED
    BY <1>3, <1>4, <1>5, <2>1, ProgressHeld
<1>7. PICK D : D = columns \cup {MigrationsInOrder[i][k]}
  OBVIOUS
<1>8. PICK t : t = IF todo = {k} THEN AfterColumns(i) ELSE [s EXCEPT !.todo = @ \ {k}]
  OBVIOUS
<1>9. /\ k \in DOMAIN MigrationsInOrder[i] /\ columns' = D /\ columns \subseteq D
      /\ starters' = [starters EXCEPT ![p] = t]
  BY <1>2, <1>4, <1>5, <1>6, <1>7, <1>8
<1>10. D \in SUBSET AllColumns
  <2>1. MigrationsInOrder[i][k] \in ColumnsOf(i)
    BY <1>6, <1>9, ColumnsOfValues
  <2>. QED
    BY <2>1, <1>6, <1>7, ColumnsGrow DEF MigrationsInv
<1>11. ColumnsUpTo(i - 1) \subseteq D
  BY <1>6, <1>9
<1>12. ASSUME todo = {k} PROVE ColumnsOf(i) \subseteq D /\ ColumnsUpTo(i) \subseteq D
  <2>1. \A j \in DOMAIN MigrationsInOrder[i] : MigrationsInOrder[i][j] \in D
    BY <1>6, <1>7, <1>12
  <2>2. \A c \in ColumnsOf(i) : c \in D
    BY <1>6, <2>1, ColumnsOfValues
  <2>. QED
    BY <1>6, <1>11, <2>2, ColumnsGrow
<1>13. Progress(t, D)
  <2>1. CASE todo = {k}
    <3>1. CASE MigrationsInOrder[i] = RequestedModel
      <4>1. t = [pc |-> "fill", at |-> i]
        BY <1>8, <2>1, <3>1 DEF AfterColumns
      <4>. QED
        BY <1>6, <1>11, <1>12, <2>1, <4>1 DEF Progress
    <3>2. CASE MigrationsInOrder[i] # RequestedModel
      <4>1. t = NextMigration(i)
        BY <1>8, <2>1, <3>2 DEF AfterColumns
      <4>. QED
        BY <1>6, <1>12, <2>1, <4>1, NextProgress
    <3>. QED
      BY <3>1, <3>2
  <2>2. CASE todo # {k}
    <3>1. PICK left : left = todo \ {k}
      OBVIOUS
    <3>2. t = [pc |-> "alter", at |-> i, todo |-> left]
      BY <1>5, <1>6, <1>8, <2>2, <3>1
    <3>3. /\ left \in (SUBSET DOMAIN MigrationsInOrder[i]) \ {{}}
          /\ \A j \in DOMAIN MigrationsInOrder[i] \ left : MigrationsInOrder[i][j] \in D
      BY <1>2, <1>5, <1>6, <1>7, <2>2, <3>1
    <3>. QED
      BY <1>6, <1>11, <3>2, <3>3 DEF Progress
  <2>. QED
    BY <2>1, <2>2
<1>14. FillInv'
  <2>0. FillInv
    BY DEF MigrationsInv
  <2>1. /\ requestedModel' \in [OldRows -> {"null", "model"}] /\ downgraded' \in SUBSET OldRows
        /\ cut' \in BOOLEAN /\ \A r \in downgraded' : requestedModel'[r] = "null"
    BY <1>3, <2>0 DEF FillInv
  <2>2. starters'[p] = t /\ \A q \in Starters : q # p => starters'[q] = starters[q]
    BY <1>9 DEF MigrationsInv
  <2>3. CASE MigrationsInOrder[i][k] = "requested_model"
    <3>1. i = 16 /\ k = 1
      BY <1>6, <1>9, <2>3, RequestedModelAlone
    <3>2. MigrationsInOrder[i] = RequestedModel /\ DOMAIN MigrationsInOrder[i] = {1}
      BY <3>1, RequestedModelAlone DEF RequestedModel
    <3>3. todo = {k}
      BY <1>6, <3>1, <3>2
    <3>4. starters'[p].pc = "fill"
      BY <1>8, <2>2, <3>2, <3>3 DEF AfterColumns
    <3>. QED
      BY <2>1, <3>4 DEF FillInv
  <2>4. CASE MigrationsInOrder[i][k] # "requested_model"
    <3>1. "requested_model" \in columns' => "requested_model" \in columns
      BY <1>7, <1>9, <2>4
    <3>2. starters[p].pc # "fill"
      BY <1>1, <1>3
    <3>3. \A q \in Starters : starters[q].pc = "fill" => starters'[q].pc = "fill"
      BY <2>2, <3>2
    <3>. QED
      BY <1>3, <2>0, <2>1, <3>1, <3>3 DEF FillInv
  <2>. QED
    BY <2>3, <2>4
<1>. QED
  BY <1>9, <1>10, <1>13, <1>14, MigrationsMoved

\* A process stops, on its own, killed, or on a duplicate column.
LEMMA MigrationsStepStops ==
    ASSUME MigrationsInv, NEW p \in Starters, AddColumnFails(p) \/ StarterStops(p)
    PROVE  MigrationsInv'
<1>1. /\ starters' = [starters EXCEPT ![p] = NotStarted]
      /\ UNCHANGED <<columns, downgraded, requestedModel>>
  BY DEF AddColumnFails, StarterStops, AfterDuplicate
<1>2. (starters[p].pc # "fill" \/ cut') /\ (cut => cut') /\ cut' \in BOOLEAN
  <2>0. cut \in BOOLEAN
    BY DEF MigrationsInv, FillInv
  <2>1. CASE AddColumnFails(p)
    <3>1. starters[p].pc = "alter" /\ cut' = cut
      BY <2>1 DEF AddColumnFails
    <3>. QED
      BY <2>0, <3>1
  <2>2. CASE StarterStops(p)
    <3>1. cut' = (cut \/ starters[p].pc = "fill")
      BY <2>2 DEF StarterStops
    <3>. QED
      BY <2>0, <3>1
  <2>. QED
    BY <2>1, <2>2
<1>3. FillInv'
  BY <1>1, <1>2, FillSame
<1>4. Progress(NotStarted, columns)
  BY DEF Progress
<1>5. columns' = columns /\ columns \in SUBSET AllColumns
  BY <1>1 DEF MigrationsInv
<1>. QED
  BY <1>1, <1>3, <1>4, <1>5, MigrationsMoved

\* The UPDATE fills every row without downgrade, and no other.
LEMMA MigrationsStepFill ==
    ASSUME MigrationsInv, NEW p \in Starters, FillRequestedModel(p)
    PROVE  MigrationsInv'
<1>1. PICK s : s = starters[p]
  OBVIOUS
<1>2. /\ s.pc = "fill" /\ starters' = [starters EXCEPT ![p] = NextMigration(s.at)]
      /\ requestedModel' = [r \in OldRows |-> IF Filled(r) THEN "model" ELSE requestedModel[r]]
      /\ UNCHANGED <<columns, downgraded, cut>>
  BY <1>1 DEF FillRequestedModel
<1>3. FillInv
  BY DEF MigrationsInv
<1>4. FillInv'
  <2>1. requestedModel' \in [OldRows -> {"null", "model"}]
    BY <1>2, <1>3 DEF FillInv
  <2>2. \A r \in downgraded' : requestedModel'[r] = "null"
    BY <1>2, <1>3 DEF FillInv, Filled
  <2>3. \A r \in OldRows \ downgraded' : requestedModel'[r] = "model"
    BY <1>2, <1>3 DEF FillInv, Filled
  <2>. QED
    BY <1>2, <1>3, <2>1, <2>2, <2>3 DEF FillInv
<1>5. Progress(NextMigration(s.at), columns)
  <2>1. Progress(s, columns)
    BY <1>1 DEF MigrationsInv
  <2>2. /\ s.at \in MigrationSteps /\ ColumnsUpTo(s.at - 1) \subseteq columns
        /\ ColumnsOf(s.at) \subseteq columns
    BY <1>2, <2>1, ProgressHeld
  <2>3. ColumnsUpTo(s.at) \subseteq columns
    BY <2>2, ColumnsGrow
  <2>. QED
    BY <2>2, <2>3, NextProgress
<1>6. columns' = columns /\ columns \in SUBSET AllColumns
  BY <1>2 DEF MigrationsInv
<1>. QED
  BY <1>2, <1>4, <1>5, <1>6, MigrationsMoved

\* Every step of init_db keeps the invariant.
LEMMA MigrationsStep == ASSUME MigrationsInv, MigrationsNext PROVE MigrationsInv'
BY MigrationsStepInit, MigrationsStepInfo, MigrationsStepAdd, MigrationsStepStops, MigrationsStepFill
DEF MigrationsNext

\* A file of an earlier version.
LEMMA MigrationsBegin == MigrationsInit => MigrationsInv
<1>. SUFFICES ASSUME MigrationsInit PROVE MigrationsInv
  OBVIOUS
<1>1. PICK n \in FirstVersions : columns = ColumnsUpTo(n)
  BY DEF MigrationsInit
<1>2. n \in 0..18
  BY MigrationsAssumption, RequestedModelAlone
<1>3. columns \subseteq AllColumns
  BY <1>1, <1>2, ColumnsGrow
<1>4. /\ starters = [p \in Starters |-> NotStarted] /\ downgraded \in SUBSET OldRows /\ cut = FALSE
      /\ requestedModel = [r \in OldRows |->
              IF "requested_model" \in columns /\ r \notin downgraded THEN "model" ELSE "null"]
  BY DEF MigrationsInit
<1>5. FillInv
  BY <1>4 DEF FillInv
<1>6. \A p \in Starters : Progress(starters[p], columns)
  BY <1>4 DEF Progress
<1>. QED
  BY <1>3, <1>4, <1>5, <1>6 DEF MigrationsInv

\* The invariant gives the types and what the migrations promise.
LEMMA MigrationsSafe ==
    ASSUME MigrationsInv
    PROVE  MigrationsTypeOK /\ ReadyMeansComplete /\ RequestedModelFilled /\ NothingInvented
<1>1. \A p \in Starters : starters[p].pc \in {"down", "peek", "alter", "fill", "ready"}
  BY ProgressHeld DEF MigrationsInv
<1>2. \A p \in Starters : starters[p].pc = "ready" => AllColumns \subseteq columns
  BY ProgressHeld DEF MigrationsInv
<1>3. ReadyMeansComplete
  BY <1>2 DEF ReadyMeansComplete, MigrationsInv
<1>4. RequestedModelFilled /\ NothingInvented
  BY DEF RequestedModelFilled, NothingInvented, MigrationsInv, FillInv
<1>5. MigrationsTypeOK
  BY <1>1 DEF MigrationsTypeOK, MigrationsInv, FillInv
<1>. QED
  BY <1>3, <1>4, <1>5

-----------------------------------------------------------------------------
(* The importers of session logs (ScanImport).                             *)

\* The counted lines before line n, and whether one of them names the model.
CountedBefore(n) == {j \in 1..(n - 1) : logLines[j] \in {"usage", "tick"}}
OrdinalOf(n) == Cardinality(CountedBefore(n))
ModelBefore(n) == \E j \in 1..(n - 1) : logLines[j] = "context"
BillableLine(n) == logLines[n] = "usage" /\ (keyedBy = "id" \/ ModelBefore(n))
Exact == keyedBy = "id" \/ ~resumed

LogReaders == [pc : {"line", "insert", "done"}, at : Nat \ {0}, ordinal : Nat, model : BOOLEAN,
               inside : BOOLEAN, found : Nat]
ImportedRows == [key : 0..MaxLines, line : 1..MaxLines]

\* What the variables hold.
LogShape ==
    /\ keyedBy \in {"id", "ordinal"}
    /\ logLines \in Seq(LineKinds) /\ Len(logLines) <= MaxLines
    /\ half \in BOOLEAN /\ (half => logLines # <<>>) /\ resumed \in BOOLEAN
    /\ readers \in [Scans -> LogReaders \cup {Resting}]
    /\ rows \in Seq(ImportedRows)

\* A row is of a line that was counted, and its key is that of no other row.
\* Keys are the positions of lines, or as long as no reader went on inside a
\* line their ordinals.
RowsInv ==
    /\ \A i, j \in DOMAIN rows : rows[i].key = rows[j].key => i = j
    /\ \A i \in DOMAIN rows : rows[i].line <= Len(logLines) /\ logLines[rows[i].line] = "usage"
    /\ Exact => \A i \in DOMAIN rows :
                   rows[i].key = IF keyedBy = "id" THEN rows[i].line ELSE OrdinalOf(rows[i].line)

\* A reader knows the ordinal and the model of its line, unless it went on
\* inside one; inside a line, and at the end, it is past what it found.
ReaderOK(r) ==
    /\ r.at <= Len(logLines) + 1 /\ r.found <= Len(logLines) /\ r.ordinal < r.at
    /\ half => r.found < Len(logLines)
    /\ r.inside => r.found < r.at /\ r.at <= Len(logLines)
    /\ r.pc = "insert" => r.at <= Len(logLines) /\ logLines[r.at] = "usage" /\ ~r.inside
    /\ r.pc = "insert" /\ keyedBy = "ordinal" => r.model
    /\ r.pc = "done" => r.found < r.at
    /\ ~resumed => r.ordinal = OrdinalOf(r.at) /\ (r.model <=> ModelBefore(r.at))
    /\ Exact => \A n \in 1..r.found : n < r.at /\ BillableLine(n) =>
                   \E k \in DOMAIN rows : rows[k].line = n

ScanLogInv ==
    /\ LogShape /\ RowsInv
    /\ \A s \in Scans : readers[s].pc # "idle" => ReaderOK(readers[s])

\* A scan of the Cursor database read no bubble that is not there and, if it
\* read them all, left none of the state it started from behind.
CursorScanStates ==
    {Resting}
    \cup [pc : {"read"}, stat : Nat, dry : BOOLEAN, since : Nat]
    \cup [pc : {"import"}, stat : Nat, dry : BOOLEAN, todo : SUBSET Nat,
          whole : BOOLEAN]
CursorOK(c) ==
    /\ c.pc \in {"read", "import"} => c.stat <= bubbleCount
    /\ c.pc = "import" => /\ c.todo \subseteq 1..bubbleCount
                          /\ c.whole => 1..c.stat \subseteq bubbleRows \cup c.todo
ScanCursorInv ==
    /\ bubbleCount \in 0..MaxBubbles /\ partial \in BOOLEAN
    /\ bubbleRows \subseteq 1..bubbleCount
    /\ scanCache \subseteq 0..bubbleCount /\ \A x, y \in scanCache : x = y
    /\ ~partial => \A x \in scanCache : 1..x \subseteq bubbleRows
    /\ cursorScans \in [Scans -> CursorScanStates]
    /\ \A s \in Scans : CursorOK(cursorScans[s])


\* A reader of the log is at rest or in the middle of it.
LEMMA LogReaderHeld ==
    ASSUME LogShape, NEW s \in Scans
    PROVE  /\ readers[s].pc \in {"idle", "line", "insert", "done"}
           /\ readers[s].pc # "idle" =>
                 /\ readers[s] \in LogReaders /\ readers[s].at \in Nat \ {0}
                 /\ readers[s].ordinal \in Nat /\ readers[s].model \in BOOLEAN
                 /\ readers[s].inside \in BOOLEAN /\ readers[s].found \in Nat
<1>1. readers[s] \in LogReaders \cup {Resting}
  BY DEF LogShape
<1>2. Resting.pc = "idle"
  BY DEF Resting
<1>3. \A x \in LogReaders :
         /\ x.pc \in {"line", "insert", "done"} /\ x.at \in Nat \ {0} /\ x.ordinal \in Nat
         /\ x.model \in BOOLEAN /\ x.inside \in BOOLEAN /\ x.found \in Nat
  BY DEF LogReaders
<1>. QED
  BY <1>1, <1>2, <1>3

\* Ordinals are numbers below the position.
LEMMA OrdinalNat == ASSUME NEW n \in Nat \ {0} PROVE OrdinalOf(n) \in Nat
<1>1. IsFiniteSet(1..(n - 1))
  BY FS_Interval
<1>2. IsFiniteSet(CountedBefore(n))
  BY <1>1, FS_Subset DEF CountedBefore
<1>. QED
  BY <1>2, FS_CardinalityType DEF OrdinalOf

\* The ordinal of the next line.
LEMMA OrdinalNext ==
    ASSUME NEW n \in Nat \ {0}
    PROVE  /\ logLines[n] \in {"usage", "tick"} => OrdinalOf(n + 1) = OrdinalOf(n) + 1
           /\ logLines[n] \notin {"usage", "tick"} => OrdinalOf(n + 1) = OrdinalOf(n)
<1>1. \A j : j \in 1..((n + 1) - 1) <=> j \in 1..(n - 1) \/ j = n
  OBVIOUS
<1>2. IsFiniteSet(CountedBefore(n))
  <2>1. IsFiniteSet(1..(n - 1))
    BY FS_Interval
  <2>. QED
    BY <2>1, FS_Subset DEF CountedBefore
<1>3. CASE logLines[n] \in {"usage", "tick"}
  <2>1. CountedBefore(n + 1) = CountedBefore(n) \cup {n} /\ n \notin CountedBefore(n)
    BY <1>1, <1>3 DEF CountedBefore
  <2>2. Cardinality(CountedBefore(n) \cup {n}) = Cardinality(CountedBefore(n)) + 1
    BY <1>2, <2>1, FS_AddElement
  <2>. QED
    BY <1>3, <2>1, <2>2 DEF OrdinalOf
<1>4. CASE logLines[n] \notin {"usage", "tick"}
  <2>1. CountedBefore(n + 1) = CountedBefore(n)
    BY <1>1, <1>4 DEF CountedBefore
  <2>. QED
    BY <1>4, <2>1 DEF OrdinalOf
<1>. QED
  BY <1>3, <1>4

\* Two counted lines have two ordinals.
LEMMA OrdinalGrows ==
    ASSUME NEW m \in Nat \ {0}, NEW n \in Nat \ {0}, m < n, logLines[m] \in {"usage", "tick"}
    PROVE  OrdinalOf(m) < OrdinalOf(n)
<1>1. IsFiniteSet(CountedBefore(m)) /\ IsFiniteSet(CountedBefore(n))
  <2>1. IsFiniteSet(1..(m - 1)) /\ IsFiniteSet(1..(n - 1))
    BY FS_Interval
  <2>. QED
    BY <2>1, FS_Subset DEF CountedBefore
<1>2. /\ CountedBefore(m) \subseteq CountedBefore(n)
      /\ m \in CountedBefore(n) /\ m \notin CountedBefore(m)
  BY DEF CountedBefore
<1>3. CountedBefore(m) \cup {m} \subseteq CountedBefore(n)
  BY <1>2
<1>4. Cardinality(CountedBefore(m) \cup {m}) = OrdinalOf(m) + 1
  BY <1>1, <1>2, FS_AddElement DEF OrdinalOf
<1>5. Cardinality(CountedBefore(m) \cup {m}) <= OrdinalOf(n)
  BY <1>1, <1>3, FS_Subset DEF OrdinalOf
<1>6. OrdinalOf(m) \in Nat /\ OrdinalOf(n) \in Nat
  BY OrdinalNat
<1>. QED
  BY <1>4, <1>5, <1>6

\* A log that only grew: what was said of its lines is still so.
LogGrew ==
    /\ keyedBy' = keyedBy /\ Len(logLines') >= Len(logLines)
    /\ \A n \in 1..Len(logLines) : logLines'[n] = logLines[n]

\* Ordinals and models of the lines that are there do not change.
LEMMA GrewSame ==
    ASSUME LogShape, LogShape', LogGrew, NEW n \in 1..(Len(logLines) + 1)
    PROVE  /\ OrdinalOf(n)' = OrdinalOf(n)
           /\ ModelBefore(n)' <=> ModelBefore(n)
           /\ n \in 1..Len(logLines) => (BillableLine(n)' <=> BillableLine(n))
<1>0. Len(logLines) \in Nat
  BY DEF LogShape
<1>1. \A j \in 1..(n - 1) : logLines'[j] = logLines[j]
  BY <1>0 DEF LogGrew
<1>2. CountedBefore(n)' = CountedBefore(n)
  BY <1>1 DEF CountedBefore
<1>3. ModelBefore(n)' <=> ModelBefore(n)
  BY <1>1 DEF ModelBefore
<1>4. n \in 1..Len(logLines) => logLines'[n] = logLines[n] /\ keyedBy' = keyedBy
  BY DEF LogGrew
<1>. QED
  BY <1>2, <1>3, <1>4 DEF OrdinalOf, BillableLine

\* A reader that stands still while the log, the rows and the history grow.
LEMMA ReaderKept ==
    ASSUME LogShape, LogShape', LogGrew, NEW r \in LogReaders, ReaderOK(r),
           half' => half \/ Len(logLines') > Len(logLines),
           resumed => resumed',
           \A k \in DOMAIN rows : \E l \in DOMAIN rows' : rows'[l].line = rows[k].line
    PROVE  ReaderOK(r)'
<1>0. /\ Len(logLines) \in Nat /\ Len(logLines') \in Nat /\ Len(logLines') >= Len(logLines)
      /\ keyedBy' = keyedBy
  BY DEF LogShape, LogGrew
<1>1. r.at \in Nat \ {0} /\ r.ordinal \in Nat /\ r.found \in Nat
  BY DEF LogReaders
<1>2. /\ r.at <= Len(logLines') + 1 /\ r.found <= Len(logLines') /\ r.ordinal < r.at
      /\ half' => r.found < Len(logLines')
  BY <1>0, <1>1 DEF ReaderOK
<1>3. r.pc = "insert" => r.at <= Len(logLines') /\ logLines'[r.at] = "usage" /\ ~r.inside
  BY <1>0, <1>1 DEF ReaderOK, LogGrew
<1>4. /\ r.inside => r.found < r.at /\ r.at <= Len(logLines')
      /\ r.pc = "insert" /\ keyedBy' = "ordinal" => r.model
      /\ r.pc = "done" => r.found < r.at
  BY <1>0, <1>1 DEF ReaderOK
<1>5. r.at \in 1..(Len(logLines) + 1)
  BY <1>0, <1>1 DEF ReaderOK
<1>6. ~resumed' => r.ordinal = OrdinalOf(r.at)' /\ (r.model <=> ModelBefore(r.at)')
  <2>1. OrdinalOf(r.at)' = OrdinalOf(r.at) /\ (ModelBefore(r.at)' <=> ModelBefore(r.at))
    BY <1>5, GrewSame
  <2>2. ~resumed => r.ordinal = OrdinalOf(r.at) /\ (r.model <=> ModelBefore(r.at))
    BY DEF ReaderOK
  <2>. QED
    BY <2>1, <2>2
<1>7. ASSUME Exact', NEW n \in 1..r.found, n < r.at, BillableLine(n)'
      PROVE  \E k \in DOMAIN rows' : rows'[k].line = n
  <2>1. Exact
    BY <1>0, <1>7 DEF Exact
  <2>2. n \in 1..Len(logLines) /\ n \in 1..(Len(logLines) + 1)
    BY <1>0, <1>1, <1>7 DEF ReaderOK
  <2>3. BillableLine(n)
    BY <1>7, <2>2, GrewSame
  <2>4. PICK k \in DOMAIN rows : rows[k].line = n
    BY <1>7, <2>1, <2>3 DEF ReaderOK
  <2>. QED
    BY <2>4
<1>. QED
  BY <1>2, <1>3, <1>4, <1>6, <1>7 DEF ReaderOK

\* What holds of a reader's next state holds of the reader afterwards.
LEMMA ReaderIs ==
    ASSUME NEW q, NEW v \in Scans, readers'[v] = q, ReaderOK(q)'
    PROVE  ReaderOK(readers[v])'
<1>. QED
  BY DEF ReaderOK, OrdinalOf, CountedBefore, ModelBefore, BillableLine, Exact

\* A step of one reader that touches neither the log nor the rows.
LEMMA ReaderMoves ==
    ASSUME ScanLogInv, UNCHANGED <<keyedBy, logLines, half, rows>>,
           resumed' \in BOOLEAN, resumed => resumed',
           NEW s \in Scans, NEW q \in LogReaders \cup {Resting},
           readers' = [readers EXCEPT ![s] = q], q.pc # "idle" => ReaderOK(q)'
    PROVE  ScanLogInv'
<1>1. LogShape
  BY DEF ScanLogInv
<1>2. LogShape'
  BY <1>1 DEF LogShape
<1>3. LogGrew
  BY <1>1 DEF LogGrew, LogShape
<1>4. RowsInv'
  <2>1. RowsInv
    BY DEF ScanLogInv
  <2>2. \A i \in DOMAIN rows : OrdinalOf(rows[i].line)' = OrdinalOf(rows[i].line)
    BY DEF OrdinalOf, CountedBefore
  <2>3. Exact' => Exact
    BY DEF Exact
  <2>. QED
    BY <2>1, <2>2, <2>3 DEF RowsInv
<1>5. ASSUME NEW v \in Scans, readers'[v].pc # "idle" PROVE ReaderOK(readers[v])'
  <2>1. CASE v = s
    <3>1. readers'[v] = q
      BY <1>1, <2>1 DEF LogShape
    <3>. QED
      BY <1>5, <3>1, ReaderIs
  <2>2. CASE v # s
    <3>1. PICK r : r = readers[v]
      OBVIOUS
    <3>2. readers'[v] = r /\ r \in LogReaders /\ ReaderOK(r)
      <4>1. readers'[v] = r
        BY <1>1, <2>2, <3>1 DEF LogShape
      <4>. QED
        BY <1>1, <1>5, <3>1, <4>1, LogReaderHeld DEF ScanLogInv
    <3>3. ReaderOK(r)'
      BY <1>1, <1>2, <1>3, <3>2, ReaderKept
    <3>. QED
      BY <3>2, <3>3, ReaderIs
  <2>. QED
    BY <2>1, <2>2
<1>6. \A v \in Scans : readers'[v].pc # "idle" => ReaderOK(readers[v])'
  BY Zenon, <1>5
<1>. QED
  BY <1>2, <1>4, <1>6 DEF ScanLogInv

\* A line is begun, or a half written one ended.
LEMMA ScanStepWrites ==
    ASSUME ScanLogInv, LogLine \/ LogLineEnds
    PROVE  ScanLogInv'
<1>1. LogShape
  BY DEF ScanLogInv
<1>2. UNCHANGED <<keyedBy, readers, rows, resumed>>
  BY DEF LogLine, LogLineEnds
<1>3. LogShape' /\ LogGrew /\ (half' => half \/ Len(logLines') > Len(logLines))
  <2>1. CASE LogLine
    <3>1. PICK k \in LineKinds : logLines' = Append(logLines, k)
      BY <2>1 DEF LogLine
    <3>2. /\ Len(logLines) < MaxLines /\ half' \in BOOLEAN /\ logLines \in Seq(LineKinds)
          /\ MaxLines \in Nat
      BY <1>1, <2>1, ScanAssumption DEF LogLine, LogShape
    <3>3. /\ logLines' \in Seq(LineKinds) /\ Len(logLines') = Len(logLines) + 1
          /\ \A n \in 1..Len(logLines) : logLines'[n] = logLines[n]
      BY <3>1, <3>2
    <3>4. Len(logLines) \in Nat /\ logLines' # <<>>
      BY <3>1, <3>2
    <3>. QED
      BY <1>1, <1>2, <3>2, <3>3, <3>4 DEF LogShape, LogGrew
  <2>2. CASE LogLineEnds
    <3>1. half' = FALSE /\ logLines' = logLines
      BY <2>2 DEF LogLineEnds
    <3>2. LogShape'
      BY <1>1, <1>2, <3>1 DEF LogShape
    <3>3. Len(logLines) \in Nat
      BY <1>1 DEF LogShape
    <3>4. LogGrew
      BY <1>2, <3>1, <3>3 DEF LogGrew
    <3>. QED
      BY <3>1, <3>2, <3>4
  <2>. QED
    BY <2>1, <2>2
<1>4. RowsInv'
  <2>1. RowsInv
    BY DEF ScanLogInv
  <2>2. ASSUME NEW i \in DOMAIN rows
        PROVE  /\ OrdinalOf(rows[i].line)' = OrdinalOf(rows[i].line)
               /\ rows[i].line <= Len(logLines') /\ logLines'[rows[i].line] = "usage"
    <3>0. rows[i] \in ImportedRows
      BY <1>1 DEF LogShape
    <3>1. rows[i].line \in Nat \ {0} /\ rows[i].line <= Len(logLines) /\ logLines[rows[i].line] = "usage"
      BY <2>1, <3>0, ScanAssumption DEF RowsInv, ImportedRows
    <3>2. Len(logLines) \in Nat /\ Len(logLines') \in Nat
      BY <1>1, <1>3 DEF LogShape
    <3>3. rows[i].line \in 1..Len(logLines) /\ rows[i].line \in 1..(Len(logLines) + 1)
      BY <3>1, <3>2
    <3>4. PICK n : n = rows[i].line
      OBVIOUS
    <3>5. OrdinalOf(n)' = OrdinalOf(n)
      BY <1>1, <1>3, <3>3, <3>4, GrewSame
    <3>6. OrdinalOf(rows[i].line)' = OrdinalOf(n)'
      BY <1>2, <3>4 DEF OrdinalOf, CountedBefore
    <3>. QED
      BY <1>3, <3>1, <3>2, <3>3, <3>4, <3>5, <3>6 DEF LogGrew
  <2>3. Exact' => Exact
    BY <1>2 DEF Exact
  <2>. QED
    BY <1>2, <2>1, <2>2, <2>3 DEF RowsInv
<1>5. ASSUME NEW v \in Scans, readers'[v].pc # "idle" PROVE ReaderOK(readers[v])'
  <2>1. PICK r : r = readers[v]
    OBVIOUS
  <2>2. readers'[v] = r /\ r \in LogReaders /\ ReaderOK(r)
    BY <1>1, <1>2, <1>5, <2>1, LogReaderHeld DEF ScanLogInv
  <2>3. ReaderOK(r)'
    BY <1>1, <1>2, <1>3, <2>2, ReaderKept
  <2>. QED
    BY <2>2, <2>3, ReaderIs
<1>6. \A v \in Scans : readers'[v].pc # "idle" => ReaderOK(readers[v])'
  BY Zenon, <1>5
<1>. QED
  BY <1>3, <1>4, <1>6 DEF ScanLogInv

\* What holds of a reader still does after a step that leaves log and rows.
LEMMA ReaderSame ==
    ASSUME NEW r, UNCHANGED <<keyedBy, logLines, half, rows, resumed>>
    PROVE  ReaderOK(r)' <=> ReaderOK(r)
<1>1. \A n : OrdinalOf(n)' = OrdinalOf(n)
  BY DEF OrdinalOf, CountedBefore
<1>2. \A n : (ModelBefore(n)' <=> ModelBefore(n)) /\ (BillableLine(n)' <=> BillableLine(n))
  BY DEF ModelBefore, BillableLine
<1>3. Exact' <=> Exact
  BY DEF Exact
<1>. QED
  BY <1>1, <1>2, <1>3 DEF ReaderOK

\* The reader after a line that is not JSON.
LEMMA Skipped ==
    ASSUME NEW r \in LogReaders
    PROVE  /\ AfterMalformed(r) \in LogReaders
           /\ AfterMalformed(r).pc = r.pc /\ AfterMalformed(r).at = r.at + 1
           /\ AfterMalformed(r).ordinal = r.ordinal /\ AfterMalformed(r).model = r.model
           /\ AfterMalformed(r).found = r.found /\ AfterMalformed(r).inside = FALSE
<1>2. AfterMalformed(r) = [pc |-> r.pc, at |-> r.at + 1, ordinal |-> r.ordinal,
                           model |-> r.model, inside |-> FALSE, found |-> r.found]
  <2>1. PICK y : y = [r EXCEPT !.at = r.at + 1]
    OBVIOUS
  <2>2. y = [pc |-> r.pc, at |-> r.at + 1, ordinal |-> r.ordinal, model |-> r.model,
             inside |-> r.inside, found |-> r.found]
    BY <2>1 DEF LogReaders
  <2>3. AfterMalformed(r) = [y EXCEPT !.inside = FALSE]
    BY <2>1 DEF AfterMalformed
  <2>. QED
    BY <2>2, <2>3
<1>3. r.at \in Nat \ {0}
  BY DEF LogReaders
<1>4. r.at + 1 \in Nat \ {0}
  BY <1>3
<1>. QED
  BY <1>2, <1>4 DEF LogReaders

\* A line that is read moves the ordinal and the model to those of the next.
LEMMA NextLine ==
    ASSUME NEW n \in Nat \ {0}
    PROVE  /\ OrdinalOf(n + 1) = Counted([ordinal |-> OrdinalOf(n)], logLines[n])
           /\ ModelBefore(n + 1) <=> ModelBefore(n) \/ logLines[n] = "context"
<1>1. PICK k : k = OrdinalOf(n)
  OBVIOUS
<1>2. Counted([ordinal |-> k], logLines[n]) = IF logLines[n] \in {"usage", "tick"} THEN k + 1 ELSE k
  BY DEF Counted
<1>3. \A j : j \in 1..((n + 1) - 1) <=> j \in 1..(n - 1) \/ j = n
  OBVIOUS
<1>4. ModelBefore(n + 1) <=> ModelBefore(n) \/ logLines[n] = "context"
  BY <1>3 DEF ModelBefore
<1>. QED
  BY <1>1, <1>2, <1>4, OrdinalNext

\* A reader that has gone on to the next line without a record of it.
LEMMA ReaderWentOn ==
    ASSUME LogShape, NEW r \in LogReaders, NEW q \in LogReaders, ReaderOK(r),
           r.pc = "line", ~r.inside, r.at <= Len(logLines), r.at < Len(logLines) \/ ~half,
           ~(logLines[r.at] = "usage" /\ (keyedBy = "ordinal" => r.model)),
           q.pc = "line", q.at = r.at + 1, q.inside = FALSE, q.found = r.found,
           q.ordinal = Counted(r, logLines[r.at]),
           q.model <=> (r.model \/ logLines[r.at] = "context")
    PROVE  ReaderOK(q)
<1>1. /\ r.at \in Nat \ {0} /\ r.ordinal \in Nat /\ r.found \in Nat /\ Len(logLines) \in Nat
      /\ keyedBy \in {"id", "ordinal"}
  BY DEF LogReaders, LogShape
<1>2. /\ r.at <= Len(logLines) + 1 /\ r.found <= Len(logLines) /\ r.ordinal < r.at
      /\ half => r.found < Len(logLines)
      /\ ~resumed => r.ordinal = OrdinalOf(r.at) /\ (r.model <=> ModelBefore(r.at))
      /\ Exact => \A n \in 1..r.found : n < r.at /\ BillableLine(n) =>
                     \E k \in DOMAIN rows : rows[k].line = n
  BY DEF ReaderOK
<1>3. q.ordinal = r.ordinal \/ q.ordinal = r.ordinal + 1
  BY DEF Counted
<1>4. /\ q.at <= Len(logLines) + 1 /\ q.found <= Len(logLines) /\ q.ordinal < q.at
      /\ half => q.found < Len(logLines)
  BY <1>1, <1>2, <1>3
<1>5. ~resumed => q.ordinal = OrdinalOf(q.at) /\ (q.model <=> ModelBefore(q.at))
  <2>1. /\ OrdinalOf(r.at + 1) = Counted([ordinal |-> OrdinalOf(r.at)], logLines[r.at])
        /\ ModelBefore(r.at + 1) <=> ModelBefore(r.at) \/ logLines[r.at] = "context"
    BY <1>1, NextLine
  <2>2. r.ordinal = OrdinalOf(r.at) =>
           Counted([ordinal |-> OrdinalOf(r.at)], logLines[r.at]) = Counted(r, logLines[r.at])
    BY DEF Counted
  <2>. QED
    BY <1>2, <2>1, <2>2
<1>6. ASSUME Exact, NEW n \in 1..q.found, n < q.at, BillableLine(n)
      PROVE  \E k \in DOMAIN rows : rows[k].line = n
  <2>1. n # r.at
    <3>1. CASE keyedBy = "id"
      BY <1>6, <3>1 DEF BillableLine
    <3>2. CASE keyedBy = "ordinal"
      <4>1. ~resumed
        BY <1>6, <3>2 DEF Exact
      <4>2. r.model <=> ModelBefore(r.at)
        BY <1>2, <4>1
      <4>. QED
        BY <1>6, <3>2, <4>2 DEF BillableLine
    <3>. QED
      BY <1>1, <3>1, <3>2
  <2>2. n < r.at /\ n \in 1..r.found
    BY <1>1, <1>6, <2>1
  <2>. QED
    BY <1>2, <1>6, <2>2
<1>. QED
  BY <1>4, <1>5, <1>6 DEF ReaderOK

\* A whole line is read.
LEMMA ScanStepLine ==
    ASSUME ScanLogInv, NEW s \in Scans, LineRead(s)
    PROVE  ScanLogInv'
<1>1. PICK r : r = readers[s]
  OBVIOUS
<1>2. /\ r.pc = "line" /\ ~r.inside /\ r.at \in Lines /\ (r.at < Len(logLines) \/ ~half)
      /\ UNCHANGED <<keyedBy, logLines, half, rows, resumed>>
  BY <1>1 DEF LineRead
<1>3. PICK q : q = IF logLines[r.at] = "bad" THEN AfterMalformed(r)
                   ELSE IF Billable(r, logLines[r.at]) THEN [r EXCEPT !.pc = "insert"]
                   ELSE [r EXCEPT !.at = r.at + 1, !.ordinal = Counted(r, logLines[r.at]),
                                  !.model = r.model \/ logLines[r.at] = "context"]
  OBVIOUS
<1>4. readers' = [readers EXCEPT ![s] = q]
  BY <1>1, <1>3 DEF LineRead
<1>5. LogShape /\ r \in LogReaders /\ ReaderOK(r)
  BY <1>1, <1>2, LogReaderHeld DEF ScanLogInv
<1>6. /\ r.at \in Nat \ {0} /\ r.ordinal \in Nat /\ r.found \in Nat /\ r.model \in BOOLEAN
      /\ Len(logLines) \in Nat /\ r.at <= Len(logLines)
  BY <1>2, <1>5 DEF LogReaders, LogShape, Lines
<1>7. q \in LogReaders /\ ReaderOK(q)
  <2>1. CASE logLines[r.at] = "bad"
    <3>1. q = AfterMalformed(r)
      BY <1>3, <2>1
    <3>2. /\ q \in LogReaders /\ q.pc = r.pc /\ q.at = r.at + 1 /\ q.ordinal = r.ordinal
          /\ q.model = r.model /\ q.found = r.found /\ q.inside = FALSE
      BY <1>5, <3>1, Skipped
    <3>3. Counted(r, logLines[r.at]) = r.ordinal
      BY <2>1 DEF Counted
    <3>. QED
      BY <1>2, <1>5, <1>6, <2>1, <3>2, <3>3, ReaderWentOn
  <2>2. CASE logLines[r.at] # "bad" /\ Billable(r, logLines[r.at])
    <3>1. q = [r EXCEPT !.pc = "insert"]
      BY <1>3, <2>2
    <3>2. /\ q \in LogReaders /\ q.pc = "insert" /\ q.at = r.at /\ q.ordinal = r.ordinal
          /\ q.model = r.model /\ q.found = r.found /\ q.inside = r.inside
      BY <1>5, <3>1 DEF LogReaders
    <3>3. logLines[r.at] = "usage" /\ (keyedBy = "ordinal" => r.model)
      BY <2>2 DEF Billable
    <3>. QED
      BY <1>2, <1>5, <1>6, <3>2, <3>3 DEF ReaderOK
  <2>3. CASE logLines[r.at] # "bad" /\ ~Billable(r, logLines[r.at])
    <3>0. PICK o, m : o = Counted(r, logLines[r.at]) /\ m = (r.model \/ logLines[r.at] = "context")
      OBVIOUS
    <3>1. q = [r EXCEPT !.at = r.at + 1, !.ordinal = o, !.model = m]
      BY <1>3, <2>3, <3>0
    <3>2. q = [pc |-> r.pc, at |-> r.at + 1, ordinal |-> o, model |-> m,
               inside |-> r.inside, found |-> r.found]
      BY <1>5, <3>1 DEF LogReaders
    <3>3. o \in Nat /\ m \in BOOLEAN /\ r.at + 1 \in Nat \ {0}
      BY <1>6, <3>0 DEF Counted
    <3>4. q \in LogReaders
      BY <1>5, <3>2, <3>3 DEF LogReaders
    <3>5. /\ q.pc = "line" /\ q.at = r.at + 1 /\ q.ordinal = o /\ q.model = m
          /\ q.inside = FALSE /\ q.found = r.found
      BY <1>2, <1>5, <3>2 DEF LogReaders
    <3>6. ~(logLines[r.at] = "usage" /\ (keyedBy = "ordinal" => r.model))
      BY <2>3 DEF Billable
    <3>. QED
      BY <1>2, <1>5, <1>6, <3>0, <3>4, <3>5, <3>6, ReaderWentOn
  <2>. QED
    BY <2>1, <2>2, <2>3
<1>8. ReaderOK(q)'
  BY <1>2, <1>7, ReaderSame
<1>9. resumed' \in BOOLEAN /\ (resumed => resumed')
  BY <1>2 DEF ScanLogInv, LogShape
<1>. QED
  BY <1>2, <1>4, <1>7, <1>8, <1>9, ReaderMoves

\* The end of the log, or of the process.
LEMMA ScanStepEnd ==
    ASSUME ScanLogInv, NEW s \in Scans, LogRead(s) \/ ScanEnds(s)
    PROVE  ScanLogInv'
<1>0. UNCHANGED <<keyedBy, logLines, half, rows, resumed>>
  BY DEF LogRead, ScanEnds
<1>1. resumed' \in BOOLEAN /\ (resumed => resumed')
  BY <1>0 DEF ScanLogInv, LogShape
<1>2. CASE LogRead(s)
  <2>1. PICK r : r = readers[s]
    OBVIOUS
  <2>2. PICK q : q = [r EXCEPT !.pc = "done"]
    OBVIOUS
  <2>3. /\ r.pc = "line" /\ readers' = [readers EXCEPT ![s] = q]
        /\ r.at > Len(logLines) \/ (r.inside /\ half /\ r.at = Len(logLines))
    BY <1>2, <2>1, <2>2 DEF LogRead
  <2>4. LogShape /\ r \in LogReaders /\ ReaderOK(r)
    BY <2>1, <2>3, LogReaderHeld DEF ScanLogInv
  <2>5. /\ q \in LogReaders /\ q.pc = "done" /\ q.at = r.at /\ q.ordinal = r.ordinal
        /\ q.model = r.model /\ q.found = r.found /\ q.inside = r.inside
    BY <2>2, <2>4 DEF LogReaders
  <2>6. r.at \in Nat \ {0} /\ r.found \in Nat /\ Len(logLines) \in Nat
    BY <2>4 DEF LogReaders, LogShape
  <2>7. r.found < r.at
    BY <2>3, <2>4, <2>6 DEF ReaderOK
  <2>8. ReaderOK(q)
    BY <2>4, <2>5, <2>7 DEF ReaderOK
  <2>9. ReaderOK(q)'
    BY <1>0, <2>8, ReaderSame
  <2>. QED
    BY <1>0, <1>1, <2>3, <2>5, <2>9, ReaderMoves
<1>3. CASE ScanEnds(s)
  <2>1. readers' = [readers EXCEPT ![s] = Resting] /\ Resting.pc = "idle"
    BY <1>3 DEF ScanEnds, Resting
  <2>. QED
    BY <1>0, <1>1, <2>1, ReaderMoves
<1>. QED
  BY <1>2, <1>3

\* A scan opens the log.
LEMMA ScanStepOpens ==
    ASSUME ScanLogInv, NEW s \in Scans, ScanOpens(s)
    PROVE  ScanLogInv'
<1>1. PICK q : q = [pc |-> "line", at |-> 1, ordinal |-> 0, model |-> FALSE, inside |-> FALSE,
                    found |-> IF half THEN Len(logLines) - 1 ELSE Len(logLines)]
  OBVIOUS
<1>2. readers' = [readers EXCEPT ![s] = q] /\ UNCHANGED <<keyedBy, logLines, half, rows, resumed>>
  BY <1>1 DEF ScanOpens
<1>3. /\ Len(logLines) \in Nat /\ (half => Len(logLines) > 0) /\ half \in BOOLEAN
      /\ resumed \in BOOLEAN
  BY DEF ScanLogInv, LogShape
<1>4. /\ q \in LogReaders /\ q.pc = "line" /\ q.at = 1 /\ q.ordinal = 0 /\ q.model = FALSE
      /\ q.inside = FALSE /\ q.found <= Len(logLines) /\ (half => q.found < Len(logLines))
      /\ q.found \in Nat
  BY <1>1, <1>3 DEF LogReaders
<1>5. OrdinalOf(1) = 0 /\ ~ModelBefore(1)
  <2>1. CountedBefore(1) = {}
    BY DEF CountedBefore
  <2>. QED
    BY <2>1, FS_EmptySet DEF OrdinalOf, ModelBefore
<1>6. ReaderOK(q)
  BY <1>3, <1>4, <1>5 DEF ReaderOK
<1>7. ReaderOK(q)'
  BY <1>2, <1>6, ReaderSame
<1>. QED
  BY <1>2, <1>3, <1>4, <1>7, ReaderMoves

\* Half a line is read: the reader is past what was whole when it opened.
LEMMA ScanStepHalf ==
    ASSUME ScanLogInv, NEW s \in Scans, HalfLineRead(s)
    PROVE  ScanLogInv'
<1>1. PICK r : r = readers[s]
  OBVIOUS
<1>2. PICK q : q = [r EXCEPT !.inside = TRUE]
  OBVIOUS
<1>3. /\ r.pc = "line" /\ r.at = Len(logLines) /\ half
      /\ readers' = [readers EXCEPT ![s] = q] /\ UNCHANGED <<keyedBy, logLines, half, rows, resumed>>
  BY <1>1, <1>2 DEF HalfLineRead
<1>4. r \in LogReaders /\ ReaderOK(r)
  BY <1>1, <1>3, LogReaderHeld DEF ScanLogInv
<1>5. /\ q \in LogReaders /\ q.pc = r.pc /\ q.at = r.at /\ q.ordinal = r.ordinal
      /\ q.model = r.model /\ q.found = r.found
  BY <1>2, <1>4 DEF LogReaders
<1>6. ReaderOK(q)
  BY <1>3, <1>4, <1>5 DEF ReaderOK
<1>7. ReaderOK(q)'
  BY <1>3, <1>6, ReaderSame
<1>8. resumed' \in BOOLEAN /\ (resumed => resumed')
  BY <1>3 DEF ScanLogInv, LogShape
<1>. QED
  BY <1>3, <1>5, <1>7, <1>8, ReaderMoves

\* The rest of the half read line is skipped: what the reader found is behind it.
LEMMA ScanStepRest ==
    ASSUME ScanLogInv, NEW s \in Scans, RestOfLineRead(s)
    PROVE  ScanLogInv'
<1>1. PICK r : r = readers[s]
  OBVIOUS
<1>2. PICK q : q = AfterMalformed(r)
  OBVIOUS
<1>3. /\ r.pc = "line" /\ r.inside /\ (r.at < Len(logLines) \/ ~half)
      /\ readers' = [readers EXCEPT ![s] = q] /\ resumed' = TRUE
      /\ UNCHANGED <<keyedBy, logLines, half, rows>>
  BY <1>1, <1>2 DEF RestOfLineRead
<1>5. r \in LogReaders /\ ReaderOK(r)
  BY <1>1, <1>3, LogReaderHeld DEF ScanLogInv, RestOfLineRead
<1>6. r.at \in Nat \ {0} /\ r.found \in Nat /\ r.ordinal \in Nat /\ Len(logLines) \in Nat
  BY <1>5 DEF LogReaders, ScanLogInv, LogShape
<1>7. /\ q \in LogReaders /\ q.pc = r.pc /\ q.at = r.at + 1 /\ q.ordinal = r.ordinal
      /\ q.model = r.model /\ q.found = r.found /\ q.inside = FALSE
  BY <1>2, <1>5, Skipped
<1>8. ReaderOK(q)'
  <2>1. OrdinalOf(q.at)' = OrdinalOf(q.at) /\ (Exact' => Exact)
    BY <1>3 DEF OrdinalOf, CountedBefore, Exact
  <2>2. /\ q.at <= Len(logLines') + 1 /\ q.found <= Len(logLines') /\ q.ordinal < q.at
        /\ half' => q.found < Len(logLines')
        /\ q.inside => q.found < q.at /\ q.at <= Len(logLines')
        /\ q.pc = "line" /\ resumed'
    BY <1>3, <1>5, <1>6, <1>7 DEF ReaderOK
  <2>3. ASSUME Exact', NEW n \in 1..q.found, n < q.at, BillableLine(n)'
        PROVE  \E k \in DOMAIN rows' : rows'[k].line = n
    <3>1. Exact /\ BillableLine(n) /\ n < r.at /\ n \in 1..r.found
      <4>1. BillableLine(n)
        BY <1>3, <2>3 DEF BillableLine, ModelBefore
      <4>2. r.found < r.at
        BY <1>3, <1>5 DEF ReaderOK
      <4>. QED
        BY <1>6, <1>7, <2>1, <2>3, <4>1, <4>2
    <3>2. PICK k \in DOMAIN rows : rows[k].line = n
      BY <1>5, <3>1 DEF ReaderOK
    <3>. QED
      BY <1>3, <3>2
  <2>. QED
    BY <2>2, <2>3 DEF ReaderOK
<1>9. resumed' \in BOOLEAN /\ (resumed => resumed')
  BY <1>3
<1>. QED
  BY <1>3, <1>7, <1>8, <1>9, ReaderMoves

\* The insert of a record leaves one row for its line.
LEMMA RowInserted ==
    ASSUME ScanLogInv, NEW r \in LogReaders, ReaderOK(r), r.pc = "insert",
           rows' = Inserted([key |-> RequestId(r), line |-> r.at]),
           UNCHANGED <<keyedBy, logLines, half, resumed>>
    PROVE  /\ rows' \in Seq(ImportedRows) /\ RowsInv'
           /\ \A k \in DOMAIN rows : \E l \in DOMAIN rows' : rows'[l].line = rows[k].line
           /\ Exact => \E k \in DOMAIN rows' : rows'[k].line = r.at
<1>1. LogShape /\ RowsInv
  BY DEF ScanLogInv
<1>2. PICK row : row = [key |-> RequestId(r), line |-> r.at]
  OBVIOUS
<1>3. /\ r.at \in Nat \ {0} /\ r.ordinal \in Nat /\ Len(logLines) \in Nat /\ MaxLines \in Nat
      /\ r.at <= Len(logLines) /\ logLines[r.at] = "usage" /\ r.ordinal < r.at
      /\ Len(logLines) <= MaxLines /\ keyedBy \in {"id", "ordinal"}
      /\ ~resumed => r.ordinal = OrdinalOf(r.at)
  BY <1>1, ScanAssumption DEF LogReaders, LogShape, ReaderOK
<1>4. /\ row \in ImportedRows /\ row.line = r.at
      /\ row.key = IF keyedBy = "id" THEN r.at ELSE r.ordinal
  <2>1. RequestId(r) = IF keyedBy = "id" THEN r.at ELSE r.ordinal
    BY DEF RequestId
  <2>. QED
    BY <1>2, <1>3, <2>1 DEF ImportedRows
<1>5. Exact => row.key = IF keyedBy = "id" THEN row.line ELSE OrdinalOf(row.line)
  BY <1>3, <1>4 DEF Exact
<1>6. /\ rows \in Seq(ImportedRows)
      /\ \A i, j \in DOMAIN rows : rows[i].key = rows[j].key => i = j
      /\ \A i \in DOMAIN rows : rows[i].line <= Len(logLines) /\ logLines[rows[i].line] = "usage"
      /\ Exact => \A i \in DOMAIN rows :
                     rows[i].key = IF keyedBy = "id" THEN rows[i].line ELSE OrdinalOf(rows[i].line)
  BY <1>1 DEF LogShape, RowsInv
<1>7. /\ Exact' <=> Exact
      /\ \A n : OrdinalOf(n)' = OrdinalOf(n)
  BY DEF Exact, OrdinalOf, CountedBefore
<1>8. CASE \E i \in DOMAIN rows : rows[i].key = row.key
  <2>1. rows' = rows
    BY <1>2, <1>8 DEF Inserted
  <2>2. PICK i \in DOMAIN rows : rows[i].key = row.key
    BY <1>8
  <2>3. ASSUME Exact PROVE rows[i].line = r.at
    <3>1. CASE keyedBy = "id"
      BY <1>4, <1>6, <2>2, <2>3, <3>1
    <3>2. CASE keyedBy # "id"
      <4>1. rows[i] \in ImportedRows
        BY <1>6
      <4>2. rows[i].line \in Nat \ {0}
        BY <1>3, <4>1 DEF ImportedRows
      <4>3. PICK n : n = rows[i].line
        OBVIOUS
      <4>4. OrdinalOf(n) = OrdinalOf(r.at) /\ logLines[n] = "usage"
        BY <1>4, <1>5, <1>6, <2>2, <2>3, <3>2, <4>3
      <4>5. n \in Nat \ {0} /\ OrdinalOf(n) \in Nat
        BY <4>2, <4>3, OrdinalNat
      <4>6. ~(n < r.at)
        BY <1>3, <4>4, <4>5, OrdinalGrows
      <4>7. ~(r.at < n)
        BY <1>3, <4>4, <4>5, OrdinalGrows
      <4>. QED
        BY <1>3, <4>3, <4>5, <4>6, <4>7
    <3>. QED
      BY <3>1, <3>2
  <2>4. RowsInv'
    BY <1>6, <1>7, <2>1 DEF RowsInv
  <2>. QED
    BY <1>6, <2>1, <2>3, <2>4
<1>9. CASE ~\E i \in DOMAIN rows : rows[i].key = row.key
  <2>1. rows' = Append(rows, row)
    BY <1>2, <1>9 DEF Inserted
  <2>2. /\ rows' \in Seq(ImportedRows) /\ DOMAIN rows = 1..Len(rows) /\ Len(rows) \in Nat
        /\ DOMAIN rows' = 1..(Len(rows) + 1) /\ rows'[Len(rows) + 1] = row
        /\ \A i \in 1..Len(rows) : rows'[i] = rows[i]
    BY <1>4, <1>6, <2>1
  <2>3. \A i \in DOMAIN rows' : (i \in DOMAIN rows /\ rows'[i] = rows[i])
                                \/ (i = Len(rows) + 1 /\ rows'[i] = row)
    BY <2>2
  <2>4. \A i, j \in DOMAIN rows' : rows'[i].key = rows'[j].key => i = j
    BY <1>6, <1>9, <2>3
  <2>5. \A i \in DOMAIN rows' : rows'[i].line <= Len(logLines) /\ logLines[rows'[i].line] = "usage"
    BY <1>3, <1>4, <1>6, <2>3
  <2>6. Exact => \A i \in DOMAIN rows' :
           rows'[i].key = IF keyedBy = "id" THEN rows'[i].line ELSE OrdinalOf(rows'[i].line)
    BY <1>5, <1>6, <2>3
  <2>7. RowsInv'
    BY <1>7, <2>4, <2>5, <2>6 DEF RowsInv
  <2>8. Len(rows) + 1 \in DOMAIN rows' /\ \A k \in DOMAIN rows : k \in DOMAIN rows' /\ rows'[k] = rows[k]
    BY <2>2
  <2>. QED
    BY <1>4, <2>2, <2>7, <2>8
<1>. QED
  BY <1>8, <1>9

\* A record is inserted.
LEMMA ScanStepInsert ==
    ASSUME ScanLogInv, NEW s \in Scans, RecordInserted(s)
    PROVE  ScanLogInv'
<1>1. PICK r : r = readers[s]
  OBVIOUS
<1>2. PICK q : q = [r EXCEPT !.pc = "line", !.at = r.at + 1, !.ordinal = r.ordinal + 1]
  OBVIOUS
<1>3. /\ r.pc = "insert" /\ rows' = Inserted([key |-> RequestId(r), line |-> r.at])
      /\ readers' = [readers EXCEPT ![s] = q]
      /\ UNCHANGED <<keyedBy, logLines, half, resumed>>
  BY <1>1, <1>2 DEF RecordInserted
<1>4. LogShape /\ r \in LogReaders /\ ReaderOK(r)
  BY <1>1, <1>3, LogReaderHeld DEF ScanLogInv
<1>5. /\ rows' \in Seq(ImportedRows) /\ RowsInv'
      /\ \A k \in DOMAIN rows : \E l \in DOMAIN rows' : rows'[l].line = rows[k].line
      /\ Exact => \E k \in DOMAIN rows' : rows'[k].line = r.at
  BY <1>3, <1>4, RowInserted
<1>6. /\ r.at \in Nat \ {0} /\ r.ordinal \in Nat /\ r.found \in Nat /\ r.model \in BOOLEAN
      /\ r.inside \in BOOLEAN /\ Len(logLines) \in Nat
  BY <1>4 DEF LogReaders, LogShape
<1>7. /\ q \in LogReaders /\ q.pc = "line" /\ q.at = r.at + 1 /\ q.ordinal = r.ordinal + 1
      /\ q.model = r.model /\ q.inside = r.inside /\ q.found = r.found
  <2>1. q = [pc |-> "line", at |-> r.at + 1, ordinal |-> r.ordinal + 1, model |-> r.model,
             inside |-> r.inside, found |-> r.found]
    BY <1>2, <1>4 DEF LogReaders
  <2>2. r.at + 1 \in Nat \ {0} /\ r.ordinal + 1 \in Nat
    BY <1>6
  <2>. QED
    BY <1>6, <2>1, <2>2 DEF LogReaders
<1>8. LogShape'
  BY <1>3, <1>4, <1>5, <1>7 DEF LogShape
<1>9. LogGrew
  BY <1>3, <1>6 DEF LogGrew
<1>10. ReaderOK(q)'
  <2>1. /\ r.at <= Len(logLines) /\ r.found <= Len(logLines) /\ r.ordinal < r.at
        /\ half => r.found < Len(logLines)
        /\ logLines[r.at] = "usage"
        /\ ~resumed => r.ordinal = OrdinalOf(r.at) /\ (r.model <=> ModelBefore(r.at))
        /\ Exact => \A n \in 1..r.found : n < r.at /\ BillableLine(n) =>
                       \E k \in DOMAIN rows : rows[k].line = n
    BY <1>3, <1>4 DEF ReaderOK
  <2>2. /\ Exact' <=> Exact
        /\ \A n : OrdinalOf(n)' = OrdinalOf(n) /\ (ModelBefore(n)' <=> ModelBefore(n))
                  /\ (BillableLine(n)' <=> BillableLine(n))
    BY <1>3 DEF Exact, OrdinalOf, CountedBefore, ModelBefore, BillableLine
  <2>3. ~r.inside
    BY <1>3, <1>4 DEF ReaderOK
  <2>4. /\ OrdinalOf(r.at + 1) = OrdinalOf(r.at) + 1
        /\ ModelBefore(r.at + 1) <=> ModelBefore(r.at)
    BY <1>6, <2>1, NextLine, OrdinalNext
  <2>5. ~resumed' => q.ordinal = OrdinalOf(q.at)' /\ (q.model <=> ModelBefore(q.at)')
    <3>1. OrdinalOf(q.at)' = OrdinalOf(q.at) /\ (ModelBefore(q.at)' <=> ModelBefore(q.at))
      BY <2>2
    <3>. QED
      BY <1>3, <1>7, <2>1, <2>4, <3>1
  <2>6. ASSUME Exact', NEW n \in 1..q.found, n < q.at, BillableLine(n)'
        PROVE  \E k \in DOMAIN rows' : rows'[k].line = n
    <3>1. Exact /\ BillableLine(n)
      BY <2>2, <2>6
    <3>2. CASE n = r.at
      BY <1>5, <3>1, <3>2
    <3>3. CASE n # r.at
      <4>1. n < r.at /\ n \in 1..r.found
        BY <1>6, <1>7, <2>6, <3>3
      <4>2. PICK k \in DOMAIN rows : rows[k].line = n
        BY <2>1, <3>1, <4>1
      <4>. QED
        BY <1>5, <4>2
    <3>. QED
      BY <3>2, <3>3
  <2>7. /\ q.at <= Len(logLines') + 1 /\ q.found <= Len(logLines') /\ q.ordinal < q.at
        /\ half' => q.found < Len(logLines')
        /\ ~q.inside
    BY <1>3, <1>6, <1>7, <2>1, <2>3
  <2>. QED
    BY <1>7, <2>5, <2>6, <2>7 DEF ReaderOK
<1>11. ASSUME NEW v \in Scans, readers'[v].pc # "idle" PROVE ReaderOK(readers[v])'
  <2>1. CASE v = s
    <3>1. readers'[v] = q
      BY <1>3, <1>4, <2>1 DEF LogShape
    <3>. QED
      BY <1>10, <3>1, ReaderIs
  <2>2. CASE v # s
    <3>1. PICK w : w = readers[v]
      OBVIOUS
    <3>2. readers'[v] = w
      BY <1>3, <1>4, <2>2, <3>1 DEF LogShape
    <3>3. w \in LogReaders /\ ReaderOK(w)
      BY <1>4, <1>11, <3>1, <3>2, LogReaderHeld DEF ScanLogInv
    <3>4. ReaderOK(w)'
      BY <1>3, <1>4, <1>5, <1>8, <1>9, <3>3, ReaderKept
    <3>. QED
      BY <3>2, <3>4, ReaderIs
  <2>. QED
    BY <2>1, <2>2
<1>12. \A v \in Scans : readers'[v].pc # "idle" => ReaderOK(readers[v])'
  BY Zenon, <1>11
<1>. QED
  BY <1>5, <1>8, <1>12 DEF ScanLogInv

\* Every step of the importers of logs keeps their invariant.
LEMMA ScanLogStep == ScanLogInv /\ LogNext => ScanLogInv'
<1>. SUFFICES ASSUME ScanLogInv, LogNext PROVE ScanLogInv'
  OBVIOUS
<1>1. CASE LogLine \/ LogLineEnds
  BY <1>1, ScanStepWrites
<1>2. ASSUME NEW s \in Scans,
             ScanOpens(s) \/ HalfLineRead(s) \/ RestOfLineRead(s) \/ LineRead(s)
             \/ RecordInserted(s) \/ LogRead(s) \/ ScanEnds(s)
      PROVE  ScanLogInv'
  BY <1>2, ScanStepOpens, ScanStepHalf, ScanStepRest, ScanStepLine, ScanStepInsert, ScanStepEnd
<1>. QED
  BY <1>1, <1>2 DEF LogNext

\* It holds initially.
LEMMA ScanLogBegin == ScanInit => ScanLogInv
<1>. SUFFICES ASSUME ScanInit PROVE ScanLogInv
  OBVIOUS
<1>1. /\ keyedBy \in {"id", "ordinal"} /\ logLines = <<>> /\ half = FALSE /\ rows = <<>>
      /\ resumed = FALSE /\ readers = [s \in Scans |-> Resting]
  BY DEF ScanInit
<1>2. Resting.pc = "idle" /\ MaxLines \in Nat
  BY ScanAssumption DEF Resting
<1>3. LogShape
  <2>1. logLines \in Seq(LineKinds) /\ Len(logLines) = 0
    BY <1>1
  <2>2. rows \in Seq(ImportedRows)
    BY <1>1
  <2>3. Len(logLines) <= MaxLines
    BY <1>2, <2>1
  <2>4. readers \in [Scans -> LogReaders \cup {Resting}]
    BY <1>1
  <2>. QED
    BY <1>1, <2>1, <2>2, <2>3, <2>4 DEF LogShape
<1>4. RowsInv
  BY <1>1 DEF RowsInv
<1>. QED
  BY <1>1, <1>2, <1>3, <1>4 DEF ScanLogInv

\* A call is imported once, and a finished scan left none out.
LEMMA ScanLogSafe == ScanLogInv => ImportedOnce /\ ScanComplete
<1>. SUFFICES ASSUME ScanLogInv PROVE ImportedOnce /\ ScanComplete
  OBVIOUS
<1>1. ImportedOnce
  <2>. SUFFICES ASSUME Exact PROVE \A i, j \in DOMAIN rows : rows[i].line = rows[j].line => i = j
    BY DEF ImportedOnce, Exact
  <2>. QED
    BY DEF ScanLogInv, RowsInv
<1>2. ScanComplete
  <2>. SUFFICES ASSUME Exact, NEW s \in Scans, readers[s].pc = "done",
                       NEW i \in 1..readers[s].found, BillableLine(i)
                PROVE  \E k \in DOMAIN rows : rows[k].line = i
    BY DEF ScanComplete, Exact, BillableLine, ModelBefore
  <2>1. LogShape /\ ReaderOK(readers[s])
    BY DEF ScanLogInv
  <2>2. readers[s].found < readers[s].at /\ readers[s].at \in Nat /\ readers[s].found \in Nat
    BY <2>1, LogReaderHeld DEF ReaderOK
  <2>3. i < readers[s].at
    BY <2>2
  <2>. QED
    BY <2>1, <2>3 DEF ReaderOK
<1>. QED
  BY <1>1, <1>2


\* A step that leaves the log and its scans alone.
LEMMA ScanLogStays == ASSUME ScanLogInv, UNCHANGED logVars PROVE ScanLogInv'
<1>1. UNCHANGED <<keyedBy, logLines, half, readers, rows, resumed>>
  BY DEF logVars
<1>2. LogShape'
  BY <1>1 DEF ScanLogInv, LogShape
<1>3. RowsInv'
  <2>1. (Exact' <=> Exact) /\ \A n : OrdinalOf(n)' = OrdinalOf(n)
    BY <1>1 DEF Exact, OrdinalOf, CountedBefore
  <2>2. RowsInv
    BY DEF ScanLogInv
  <2>. QED
    BY <1>1, <2>1, <2>2 DEF RowsInv
<1>4. ASSUME NEW v \in Scans, readers'[v].pc # "idle" PROVE ReaderOK(readers[v])'
  <2>1. PICK w : w = readers[v]
    OBVIOUS
  <2>2. readers'[v] = w /\ ReaderOK(w)
    BY <1>1, <1>4, <2>1 DEF ScanLogInv
  <2>3. ReaderOK(w)'
    BY <1>1, <2>2, ReaderSame
  <2>. QED
    BY <2>2, <2>3, ReaderIs
<1>5. \A v \in Scans : readers'[v].pc # "idle" => ReaderOK(readers[v])'
  BY Zenon, <1>4
<1>. QED
  BY <1>2, <1>3, <1>5 DEF ScanLogInv

\* A scan of the Cursor database is at rest, about to read or importing.
LEMMA CursorScanHeld ==
    ASSUME ScanCursorInv, NEW s \in Scans
    PROVE  /\ cursorScans[s].pc \in {"idle", "read", "import"}
           /\ cursorScans[s].pc = "read" =>
                 cursorScans[s] \in [pc : {"read"}, stat : Nat, dry : BOOLEAN, since : Nat]
           /\ cursorScans[s].pc = "import" =>
                 cursorScans[s] \in [pc : {"import"}, stat : Nat, dry : BOOLEAN, todo : SUBSET Nat, whole : BOOLEAN]
<1>1. cursorScans[s] \in CursorScanStates
  BY DEF ScanCursorInv
<1>2. Resting.pc = "idle"
  BY DEF Resting
<1>3. /\ \A c \in [pc : {"read"}, stat : Nat, dry : BOOLEAN, since : Nat] : c.pc = "read"
      /\ \A c \in [pc : {"import"}, stat : Nat, dry : BOOLEAN, todo : SUBSET Nat, whole : BOOLEAN] : c.pc = "import"
  OBVIOUS
<1>. QED
  BY <1>1, <1>2, <1>3 DEF CursorScanStates

\* A step of one scan of the Cursor database.
LEMMA CursorMoves ==
    ASSUME ScanCursorInv, NEW s \in Scans, NEW q \in CursorScanStates,
           cursorScans' = [cursorScans EXCEPT ![s] = q], bubbleCount' = bubbleCount,
           partial' \in BOOLEAN,
           bubbleRows \subseteq bubbleRows', bubbleRows' \subseteq 1..bubbleCount,
           scanCache' \subseteq 0..bubbleCount, \A x, y \in scanCache' : x = y,
           ~partial' => \A x \in scanCache' : 1..x \subseteq bubbleRows',
           CursorOK(q)'
    PROVE  ScanCursorInv'
<1>1. cursorScans' \in [Scans -> CursorScanStates]
  BY DEF ScanCursorInv
<1>2. ASSUME NEW v \in Scans PROVE CursorOK(cursorScans[v])'
  <2>1. CASE v = s
    <3>1. cursorScans'[v] = q
      BY <2>1 DEF ScanCursorInv
    <3>. QED
      BY <3>1 DEF CursorOK
  <2>2. CASE v # s
    <3>1. cursorScans'[v] = cursorScans[v] /\ CursorOK(cursorScans[v])
      BY <2>2 DEF ScanCursorInv
    <3>. QED
      BY <3>1 DEF CursorOK
  <2>. QED
    BY <2>1, <2>2
<1>. QED
  BY <1>1, <1>2 DEF ScanCursorInv

\* Every step of the scans of the Cursor database keeps their invariant.
LEMMA ScanCursorStep == ScanCursorInv /\ CursorNext => ScanCursorInv'
<1>. SUFFICES ASSUME ScanCursorInv, CursorNext PROVE ScanCursorInv'
  OBVIOUS
<1>0. /\ bubbleCount \in Nat /\ bubbleCount \in 0..MaxBubbles /\ MaxBubbles \in Nat
      /\ partial \in BOOLEAN /\ bubbleRows \subseteq 1..bubbleCount
      /\ scanCache \subseteq 0..bubbleCount /\ \A x, y \in scanCache : x = y
      /\ ~partial => \A x \in scanCache : 1..x \subseteq bubbleRows
      /\ cursorScans \in [Scans -> CursorScanStates]
      /\ \A s \in Scans : CursorOK(cursorScans[s])
  BY ScanAssumption DEF ScanCursorInv
<1>1. CASE BubbleWritten
  <2>1. /\ bubbleCount' = bubbleCount + 1 /\ bubbleCount' \in 0..MaxBubbles
        /\ UNCHANGED <<cursorScans, scanCache, bubbleRows, partial>>
    BY <1>0, <1>1 DEF BubbleWritten
  <2>2. 1..bubbleCount \subseteq 1..bubbleCount' /\ 0..bubbleCount \subseteq 0..bubbleCount'
    BY <1>0, <2>1
  <2>3. \A s \in Scans : CursorOK(cursorScans[s])'
    <3>. SUFFICES ASSUME NEW s \in Scans PROVE CursorOK(cursorScans[s])'
      OBVIOUS
    <3>1. CursorOK(cursorScans[s])
      BY <1>0
    <3>2. cursorScans[s].pc \in {"read", "import"} => cursorScans[s].stat \in Nat
      BY CursorScanHeld
    <3>3. cursorScans[s].pc \in {"read", "import"} => cursorScans[s].stat <= bubbleCount'
      BY <1>0, <2>1, <3>1, <3>2 DEF CursorOK
    <3>. QED
      BY <2>1, <2>2, <3>1, <3>3 DEF CursorOK
  <2>. QED
    BY <1>0, <2>1, <2>2, <2>3 DEF ScanCursorInv
<1>2. CASE CursorLocks
  <2>1. UNCHANGED <<bubbleCount, cursorScans, scanCache, bubbleRows, partial>>
    BY <1>2 DEF CursorLocks
  <2>. QED
    BY <1>0, <2>1 DEF ScanCursorInv, CursorOK
<1>3. ASSUME NEW s \in Scans, CursorScanStarts(s) PROVE ScanCursorInv'
  <2>1. PICK dry \in BOOLEAN, since \in 0..MaxBubbles :
          cursorScans' = [cursorScans EXCEPT ![s] =
             [pc |-> "read", stat |-> bubbleCount, dry |-> dry, since |-> since]]
    BY <1>3 DEF CursorScanStarts
  <2>2. PICK q : q = [pc |-> "read", stat |-> bubbleCount, dry |-> dry, since |-> since]
    OBVIOUS
  <2>3. UNCHANGED <<bubbleCount, scanCache, bubbleRows, partial>>
    BY <1>3 DEF CursorScanStarts
  <2>4. q \in CursorScanStates
    BY <1>0, <2>2 DEF CursorScanStates
  <2>5. CursorOK(q)'
    BY <1>0, <2>2, <2>3 DEF CursorOK
  <2>. QED
    BY <1>0, <2>1, <2>2, <2>3, <2>4, <2>5, CursorMoves
<1>4. ASSUME NEW s \in Scans, ReadBubbles(s) \/ ReadLocked(s) \/ ReadFails(s) PROVE ScanCursorInv'
  <2>1. PICK c : c = cursorScans[s]
    OBVIOUS
  <2>2. PICK t, all : /\ GoOnWith(s, t, all)
                      /\ \/ t = c.since + 1..bubbleCount /\ all = (c.since = 0)
                         \/ t = {} /\ all = FALSE
    BY <1>4, <2>1 DEF ReadBubbles, ReadLocked, ReadFails
  <2>3. c.pc = "read" /\ UNCHANGED <<bubbleCount, scanCache, bubbleRows, partial>>
    BY <2>1, <2>2 DEF GoOnWith
  <2>4. c.stat \in Nat /\ c.dry \in BOOLEAN /\ c.since \in Nat /\ c.stat <= bubbleCount
    BY <1>0, <2>1, <2>3, CursorScanHeld DEF CursorOK
  <2>5. PICK q : q = [pc |-> "import", stat |-> c.stat, dry |-> c.dry, todo |-> t,
                      whole |-> all]
    OBVIOUS
  <2>6. cursorScans' = [cursorScans EXCEPT ![s] = q]
    BY <2>1, <2>2, <2>5 DEF GoOnWith
  <2>7. /\ t \subseteq 1..bubbleCount /\ t \in SUBSET Nat /\ all \in BOOLEAN
        /\ (all => t = 1..bubbleCount)
    <3>1. /\ c.since + 1..bubbleCount \subseteq 1..bubbleCount
          /\ c.since = 0 => c.since + 1..bubbleCount = 1..bubbleCount
          /\ 1..bubbleCount \in SUBSET Nat
      BY <1>0, <2>4
    <3>. QED
      BY Zenon, <2>2, <3>1
  <2>8. q \in CursorScanStates
    BY <2>4, <2>5, <2>7 DEF CursorScanStates
  <2>9. CursorOK(q)'
    <3>1. 1..c.stat \subseteq 1..bubbleCount
      BY <1>0, <2>4
    <3>2. q.pc = "import" /\ q.stat = c.stat /\ q.todo = t /\ q.whole = all
      BY <2>5
    <3>. QED
      BY <2>3, <2>4, <2>7, <3>1, <3>2 DEF CursorOK
  <2>. QED
    BY <1>0, <2>3, <2>6, <2>8, <2>9, CursorMoves
<1>5. ASSUME NEW s \in Scans, BubbleInserted(s) PROVE ScanCursorInv'
  <2>1. PICK c : c = cursorScans[s]
    OBVIOUS
  <2>2. c.pc = "import" /\ UNCHANGED <<bubbleCount, scanCache, partial>>
    BY <1>5, <2>1 DEF BubbleInserted
  <2>3. PICK b \in c.todo :
          /\ bubbleRows' = bubbleRows \cup {b}
          /\ cursorScans' = [cursorScans EXCEPT ![s].todo = @ \ {b}]
    BY <1>5, <2>1 DEF BubbleInserted
  <2>4. /\ c \in [pc : {"import"}, stat : Nat, dry : BOOLEAN, todo : SUBSET Nat, whole : BOOLEAN]
        /\ c.todo \subseteq 1..bubbleCount /\ c.stat <= bubbleCount
        /\ (c.whole => 1..c.stat \subseteq bubbleRows \cup c.todo)
    BY <1>0, <2>1, <2>2, CursorScanHeld DEF CursorOK
  <2>5. PICK q : q = [c EXCEPT !.todo = c.todo \ {b}]
    OBVIOUS
  <2>6. /\ q \in [pc : {"import"}, stat : Nat, dry : BOOLEAN, todo : SUBSET Nat, whole : BOOLEAN]
        /\ q.pc = "import" /\ q.stat = c.stat /\ q.todo = c.todo \ {b} /\ q.whole = c.whole
    BY <2>4, <2>5
  <2>7. cursorScans' = [cursorScans EXCEPT ![s] = q]
    BY <1>0, <2>1, <2>3, <2>5
  <2>8. CursorOK(q)'
    BY <2>2, <2>3, <2>4, <2>6 DEF CursorOK
  <2>9. q \in CursorScanStates
    BY <2>6 DEF CursorScanStates
  <2>10. bubbleRows \subseteq bubbleRows' /\ bubbleRows' \subseteq 1..bubbleCount
    BY <1>0, <2>3, <2>4
  <2>11. ~partial' => \A x \in scanCache' : 1..x \subseteq bubbleRows'
    BY <1>0, <2>2, <2>10
  <2>. QED
    BY <1>0, <2>2, <2>7, <2>8, <2>9, <2>10, <2>11, CursorMoves
<1>6. ASSUME NEW s \in Scans, CursorCached(s) PROVE ScanCursorInv'
  <2>1. PICK c : c = cursorScans[s]
    OBVIOUS
  <2>2. /\ c.pc = "import" /\ c.todo = {} /\ scanCache' = {c.stat} /\ partial' = ~c.whole
        /\ cursorScans' = [cursorScans EXCEPT ![s] = Resting]
        /\ UNCHANGED <<bubbleCount, bubbleRows>>
    BY <1>6, <2>1 DEF CursorCached, RecordedState
  <2>3. /\ c.stat \in Nat /\ c.stat <= bubbleCount /\ c.whole \in BOOLEAN
        /\ (c.whole => 1..c.stat \subseteq bubbleRows)
    BY <1>0, <2>1, <2>2, CursorScanHeld DEF CursorOK
  <2>4. Resting \in CursorScanStates /\ CursorOK(Resting)'
    BY DEF CursorScanStates, CursorOK, Resting
  <2>5. scanCache' \subseteq 0..bubbleCount /\ \A x, y \in scanCache' : x = y
    BY <1>0, <2>2, <2>3
  <2>6. ~partial' => \A x \in scanCache' : 1..x \subseteq bubbleRows'
    BY <2>2, <2>3
  <2>7. partial' \in BOOLEAN
    BY <2>2, <2>3
  <2>. QED
    BY <1>0, <2>2, <2>4, <2>5, <2>6, <2>7, CursorMoves
<1>7. ASSUME NEW s \in Scans, CursorScanEnds(s) PROVE ScanCursorInv'
  <2>1. /\ cursorScans' = [cursorScans EXCEPT ![s] = Resting]
        /\ UNCHANGED <<bubbleCount, scanCache, bubbleRows, partial>>
    BY <1>7 DEF CursorScanEnds
  <2>2. Resting \in CursorScanStates /\ CursorOK(Resting)'
    BY DEF CursorScanStates, CursorOK, Resting
  <2>. QED
    BY <1>0, <2>1, <2>2, CursorMoves
<1>. QED
  BY <1>1, <1>2, <1>3, <1>4, <1>5, <1>6, <1>7 DEF CursorNext

\* A step that leaves the Cursor database and its scans alone.
LEMMA ScanCursorStays == ASSUME ScanCursorInv, UNCHANGED cursorVars PROVE ScanCursorInv'
<1>1. UNCHANGED <<bubbleCount, cursorScans, scanCache, bubbleRows, partial>>
  BY DEF cursorVars
<1>. QED
  BY <1>1 DEF ScanCursorInv, CursorOK

\* It holds initially.
LEMMA ScanCursorBegin == ScanInit => ScanCursorInv
<1>. SUFFICES ASSUME ScanInit PROVE ScanCursorInv
  OBVIOUS
<1>1. /\ bubbleCount = 0 /\ scanCache = {} /\ bubbleRows = {} /\ partial = FALSE
      /\ cursorScans = [s \in Scans |-> Resting]
  BY DEF ScanInit
<1>2. Resting \in CursorScanStates /\ CursorOK(Resting) /\ bubbleCount \in 0..MaxBubbles
  BY <1>1, ScanAssumption DEF CursorScanStates, CursorOK, Resting
<1>. QED
  BY <1>1, <1>2 DEF ScanCursorInv

\* A state the cache records has been imported.
LEMMA ScanCursorSafe == ScanCursorInv => CachedMeansImported
  BY DEF ScanCursorInv, CachedMeansImported

\* The two together give the types the module declares.
LEMMA ScanTyped == ScanLogInv /\ ScanCursorInv => ScanTypeOK
<1>. SUFFICES ASSUME ScanLogInv, ScanCursorInv PROVE ScanTypeOK
  OBVIOUS
<1>1. /\ logLines \in Seq(LineKinds) /\ Len(logLines) <= MaxLines
      /\ half => logLines # <<>>
      /\ \A i \in DOMAIN rows : rows[i] \in [key : 0..MaxLines, line : 1..MaxLines]
  <2>1. LogShape
    BY DEF ScanLogInv
  <2>2. rows \in Seq(ImportedRows)
    BY <2>1 DEF LogShape
  <2>3. \A i \in DOMAIN rows : rows[i] \in ImportedRows
    BY <2>2
  <2>. QED
    BY <2>1, <2>3 DEF LogShape, ImportedRows
<1>2. \A s \in Scans : /\ readers[s].pc \in {"idle", "line", "insert", "done"}
                       /\ cursorScans[s].pc \in {"idle", "read", "import"}
  BY LogReaderHeld, CursorScanHeld DEF ScanLogInv
<1>3. /\ bubbleCount \in 0..MaxBubbles /\ scanCache \subseteq 0..MaxBubbles
      /\ bubbleRows \subseteq 1..MaxBubbles
  BY ScanAssumption DEF ScanCursorInv
<1>4. Cardinality(scanCache) <= 1
  <2>1. CASE scanCache = {}
    BY <2>1, FS_EmptySet
  <2>2. CASE scanCache # {}
    <3>0. PICK x \in scanCache : TRUE
      BY <2>2
    <3>1. scanCache = {x}
      BY <3>0 DEF ScanCursorInv
    <3>2. Cardinality(scanCache) = 1
      BY <3>1, FS_Singleton
    <3>. QED
      BY <3>2
  <2>. QED
    BY <2>1, <2>2
<1>. QED
  BY <1>1, <1>2, <1>3, <1>4 DEF ScanTypeOK

-----------------------------------------------------------------------------
(* The semantic cache (SemanticCache).                                     *)

Flights ==
    {NotAsking}
    \cup [pc : {"exact", "embed", "forward"}, customer : Customers, question : Asked, how : Modality]
    \cup [pc : {"save"}, answer : Answer]

\* No row and no answer on its way to the table came of a request that keeps
\* away from the cache, and what was served was the client's own and fresh.
CacheInv ==
    /\ clock \in 0..MaxClock
    /\ entries \in [CacheKeys -> Entry \cup {NoEntry}]
    /\ \A k \in CacheKeys : entries[k] # NoEntry => ~entries[k].answer.barred
    /\ inFlight \in [Askers -> Flights]
    /\ \A a \in Askers : inFlight[a].pc = "save" => ~inFlight[a].answer.barred
    /\ reply \in Reply \cup {NoEntry}
    /\ RepliesOwn /\ RepliesFresh

\* A request is at one of five places.
LEMMA FlightHeld ==
    ASSUME CacheInv, NEW a \in Askers
    PROVE  /\ inFlight[a].pc \in {"idle", "exact", "embed", "forward", "save"}
           /\ inFlight[a].pc \in {"exact", "embed", "forward"} =>
                 inFlight[a] \in [pc : {"exact", "embed", "forward"}, customer : Customers,
                                  question : Asked, how : Modality]
           /\ inFlight[a].pc = "save" => inFlight[a] \in [pc : {"save"}, answer : Answer]
<1>1. inFlight[a] \in Flights
  BY DEF CacheInv
<1>2. NotAsking.pc = "idle"
  BY DEF NotAsking
<1>3. /\ \A c \in [pc : {"exact", "embed", "forward"}, customer : Customers, question : Asked,
                   how : Modality] : c.pc \in {"exact", "embed", "forward"}
      /\ \A c \in [pc : {"save"}, answer : Answer] : c.pc = "save"
  OBVIOUS
<1>. QED
  BY <1>1, <1>2, <1>3 DEF Flights

\* A step of one request that serves nothing and leaves the table alone.
LEMMA FlightMoves ==
    ASSUME CacheInv, NEW a \in Askers, NEW q \in Flights, q.pc = "save" => ~q.answer.barred,
           inFlight' = [inFlight EXCEPT ![a] = q], reply' = NoEntry,
           UNCHANGED <<entries, clock>>
    PROVE  CacheInv'
<1>1. inFlight' \in [Askers -> Flights]
  BY DEF CacheInv
<1>2. \A b \in Askers : inFlight'[b].pc = "save" => ~inFlight'[b].answer.barred
  BY DEF CacheInv
<1>3. RepliesOwn' /\ RepliesFresh' /\ reply' \in Reply \cup {NoEntry}
  BY DEF RepliesOwn, RepliesFresh
<1>. QED
  BY <1>1, <1>2, <1>3 DEF CacheInv

\* A live row is served.
LEMMA FlightServed ==
    ASSUME CacheInv, NEW a \in Askers, inFlight[a].pc \in {"exact", "embed"},
           NEW k \in Live(a), Serve(a, k), UNCHANGED <<entries, clock>>,
           \/ entries[k].answer.question = inFlight[a].question
           \/ <<entries[k].answer.question, inFlight[a].question>> \in Alike
    PROVE  CacheInv'
<1>1. PICK f : f = inFlight[a]
  OBVIOUS
<1>2. PICK e : e = entries[k]
  OBVIOUS
<1>3. /\ k \in CacheKeys /\ e # NoEntry /\ e.answer.customer = f.customer
      /\ clock < e.expires
  BY <1>1, <1>2 DEF Live
<1>4. e \in Entry /\ ~e.answer.barred
  BY <1>2, <1>3 DEF CacheInv
<1>5. f \in [pc : {"exact", "embed", "forward"}, customer : Customers, question : Asked,
             how : Modality]
  BY <1>1, FlightHeld
<1>6. reply' = [answer |-> e.answer, customer |-> f.customer, question |-> f.question,
                late |-> clock >= e.expires]
  BY <1>1, <1>2 DEF Serve
<1>7. (clock >= e.expires) = FALSE
  <2>1. clock \in Nat /\ e.expires \in Nat
    BY <1>4, CacheAssumption DEF CacheInv, Entry
  <2>. QED
    BY <1>3, <2>1
<1>8. reply' = [answer |-> e.answer, customer |-> f.customer, question |-> f.question,
                late |-> FALSE]
  BY <1>6, <1>7
<1>9. reply' \in Reply
  BY <1>4, <1>5, <1>8 DEF Reply, Entry
<1>10. RepliesOwn' /\ RepliesFresh'
  BY <1>1, <1>2, <1>3, <1>4, <1>8 DEF RepliesOwn, RepliesFresh
<1>11. inFlight' = [inFlight EXCEPT ![a] = NotAsking] /\ NotAsking \in Flights
       /\ NotAsking.pc = "idle"
  BY DEF Serve, NotAsking, Flights
<1>12. inFlight' \in [Askers -> Flights]
  BY <1>11 DEF CacheInv
<1>13. \A b \in Askers : inFlight'[b].pc = "save" => ~inFlight'[b].answer.barred
  BY <1>11 DEF CacheInv
<1>. QED
  BY <1>9, <1>10, <1>12, <1>13 DEF CacheInv

\* A request goes on to another place.
LEMMA FlightGoes ==
    ASSUME NEW f \in [pc : {"exact", "embed", "forward"}, customer : Customers, question : Asked,
                      how : Modality], NEW p \in {"exact", "embed", "forward"}
    PROVE  [f EXCEPT !.pc = p] \in Flights /\ [f EXCEPT !.pc = p].pc = p
<1>1. [f EXCEPT !.pc = p] \in [pc : {"exact", "embed", "forward"}, customer : Customers,
                               question : Asked, how : Modality]
  OBVIOUS
<1>. QED
  BY <1>1 DEF Flights

\* Every step of the cache keeps its invariant.
LEMMA CacheStep == CacheInv /\ CacheNext => CacheInv'
<1>. SUFFICES ASSUME CacheInv, CacheNext PROVE CacheInv'
  OBVIOUS
<1>0. NotAsking \in Flights /\ NotAsking.pc = "idle"
  BY DEF NotAsking, Flights
<1>1. ASSUME NEW a \in Askers, AskCached(a) PROVE CacheInv'
  <2>1. PICK c \in Customers, q \in Asked, how \in Modality :
          inFlight' = [inFlight EXCEPT ![a] =
              [pc |-> IF Cacheable(how) THEN "exact" ELSE "forward",
               customer |-> c, question |-> q, how |-> how]]
    BY <1>1 DEF AskCached
  <2>2. PICK f : f = [pc |-> IF Cacheable(how) THEN "exact" ELSE "forward",
                      customer |-> c, question |-> q, how |-> how]
    OBVIOUS
  <2>3. f \in Flights /\ f.pc # "save"
    BY <2>2 DEF Flights
  <2>. QED
    BY <1>1, <2>1, <2>2, <2>3, FlightMoves DEF AskCached
<1>2. ASSUME NEW a \in Askers, NEW p \in {"embed", "forward"},
             inFlight[a].pc \in {"exact", "embed", "forward"}, Goes(a, p), reply' = NoEntry,
             UNCHANGED <<entries, clock>>
      PROVE  CacheInv'
  <2>1. PICK f : f = inFlight[a]
    OBVIOUS
  <2>2. PICK q : q = [f EXCEPT !.pc = p]
    OBVIOUS
  <2>3. inFlight' = [inFlight EXCEPT ![a] = q]
    BY <1>2, <2>1, <2>2 DEF Goes
  <2>4. q \in Flights /\ q.pc = p
    BY <1>2, <2>1, <2>2, FlightHeld, FlightGoes
  <2>. QED
    BY <1>2, <2>3, <2>4, FlightMoves
<1>3. ASSUME NEW a \in Askers, LookupExact(a) PROVE CacheInv'
  <2>1. inFlight[a].pc = "exact" /\ UNCHANGED <<entries, clock>>
    BY <1>3 DEF LookupExact, At
  <2>2. \/ \E k \in Live(a) : entries[k].answer.question = inFlight[a].question /\ Serve(a, k)
        \/ Goes(a, "embed") /\ reply' = NoEntry
    BY <1>3 DEF LookupExact
  <2>. QED
    BY <1>2, <2>1, <2>2, FlightServed
<1>4. ASSUME NEW a \in Askers, LookupSemantic(a) PROVE CacheInv'
  <2>1. inFlight[a].pc = "embed" /\ UNCHANGED <<entries, clock>>
    BY <1>4 DEF LookupSemantic, At
  <2>2. \E k \in Live(a) : /\ <<entries[k].answer.question, inFlight[a].question>> \in Alike
                           /\ Serve(a, k)
    BY <1>4 DEF LookupSemantic
  <2>. QED
    BY <2>1, <2>2, FlightServed
<1>5. ASSUME NEW a \in Askers, LookupMisses(a) PROVE CacheInv'
  BY <1>2, <1>5 DEF LookupMisses, At
<1>6. ASSUME NEW a \in Askers, ForwardAnswers(a) PROVE CacheInv'
  <2>1. PICK f : f = inFlight[a]
    OBVIOUS
  <2>2. f.pc = "forward" /\ reply' = NoEntry /\ UNCHANGED <<entries, clock>>
    BY <1>6, <2>1 DEF ForwardAnswers, At
  <2>3. /\ f \in [pc : {"exact", "embed", "forward"}, customer : Customers, question : Asked,
                  how : Modality]
    BY <2>1, <2>2, FlightHeld
  <2>4. PICK q : /\ inFlight' = [inFlight EXCEPT ![a] = q]
                 /\ \/ q = NotAsking
                    \/ /\ Storable(f.how)
                       /\ q = [pc |-> "save",
                               answer |-> [customer |-> f.customer, question |-> f.question,
                                           barred |-> ~Cacheable(f.how)]]
    BY <1>6, <2>1 DEF ForwardAnswers
  <2>5. q \in Flights /\ (q.pc = "save" => ~q.answer.barred)
    <3>1. CASE q = NotAsking
      BY <1>0, <3>1
    <3>2. CASE /\ Storable(f.how)
               /\ q = [pc |-> "save",
                       answer |-> [customer |-> f.customer, question |-> f.question,
                                   barred |-> ~Cacheable(f.how)]]
      <4>1. (~Cacheable(f.how)) = FALSE
        BY <3>2 DEF Storable
      <4>2. q = [pc |-> "save",
                 answer |-> [customer |-> f.customer, question |-> f.question, barred |-> FALSE]]
        BY <3>2, <4>1
      <4>3. q \in [pc : {"save"}, answer : Answer]
        BY <2>3, <4>2 DEF Answer
      <4>. QED
        BY <4>2, <4>3 DEF Flights
    <3>. QED
      BY <2>4, <3>1, <3>2
  <2>. QED
    BY <2>2, <2>4, <2>5, FlightMoves
<1>7. ASSUME NEW a \in Askers, SaveToCache(a) PROVE CacheInv'
  <2>1. PICK f : f = inFlight[a]
    OBVIOUS
  <2>2. PICK e : e = [answer |-> f.answer, expires |-> clock + CacheTTL]
    OBVIOUS
  <2>3. /\ f.pc = "save" /\ entries' = [entries EXCEPT ![CacheId(f.answer)] = e]
        /\ inFlight' = [inFlight EXCEPT ![a] = NotAsking]
        /\ reply' = NoEntry /\ clock' = clock
    BY <1>7, <2>1, <2>2 DEF SaveToCache, At
  <2>4. f \in [pc : {"save"}, answer : Answer] /\ ~f.answer.barred
    BY <2>1, <2>3, FlightHeld DEF CacheInv
  <2>5. CacheId(f.answer) \in CacheKeys
    BY <2>4 DEF CacheId, CacheKeys, Answer
  <2>6. clock + CacheTTL \in 0..(MaxClock + CacheTTL)
    BY CacheAssumption DEF CacheInv
  <2>7. e \in Entry /\ ~e.answer.barred
    BY <2>2, <2>4, <2>6 DEF Entry
  <2>8. entries' \in [CacheKeys -> Entry \cup {NoEntry}]
    BY <2>3, <2>7 DEF CacheInv
  <2>9. \A k \in CacheKeys : entries'[k] # NoEntry => ~entries'[k].answer.barred
    BY <2>3, <2>5, <2>7 DEF CacheInv
  <2>10. inFlight' \in [Askers -> Flights]
    BY <1>0, <2>3 DEF CacheInv
  <2>11. \A b \in Askers : inFlight'[b].pc = "save" => ~inFlight'[b].answer.barred
    BY <1>0, <2>3 DEF CacheInv
  <2>12. RepliesOwn' /\ RepliesFresh'
    BY <2>3 DEF RepliesOwn, RepliesFresh
  <2>. QED
    BY <2>3, <2>8, <2>9, <2>10, <2>11, <2>12 DEF CacheInv
<1>8. ASSUME NEW a \in Askers, SaveFails(a) PROVE CacheInv'
  BY <1>0, <1>8, FlightMoves DEF SaveFails
<1>9. CASE ClockTicks
  <2>1. /\ clock' \in 0..MaxClock /\ reply' = NoEntry
        /\ UNCHANGED <<entries, inFlight>>
    BY <1>9, CacheAssumption DEF ClockTicks, CacheInv
  <2>2. RepliesOwn' /\ RepliesFresh'
    BY <2>1 DEF RepliesOwn, RepliesFresh
  <2>. QED
    BY <2>1, <2>2 DEF CacheInv
<1>. QED
  BY <1>1, <1>3, <1>4, <1>5, <1>6, <1>7, <1>8, <1>9 DEF CacheNext

\* It holds initially.
LEMMA CacheBegin == CacheInit => CacheInv
<1>. SUFFICES ASSUME CacheInit PROVE CacheInv
  OBVIOUS
<1>1. /\ entries = [k \in CacheKeys |-> NoEntry] /\ inFlight = [a \in Askers |-> NotAsking]
      /\ reply = NoEntry /\ clock = 0
  BY DEF CacheInit
<1>2. NotAsking \in Flights /\ NotAsking.pc = "idle" /\ 0 \in 0..MaxClock
  BY CacheAssumption DEF NotAsking, Flights
<1>3. RepliesOwn /\ RepliesFresh
  BY <1>1 DEF RepliesOwn, RepliesFresh
<1>. QED
  BY <1>1, <1>2, <1>3 DEF CacheInv

\* It gives the types the module declares.
LEMMA CacheTyped == CacheInv => CacheTypeOK
<1>. SUFFICES ASSUME CacheInv PROVE CacheTypeOK
  OBVIOUS
<1>1. \A a \in Askers : inFlight[a].pc \in {"idle", "exact", "embed", "forward", "save"}
  BY FlightHeld
<1>. QED
  BY <1>1 DEF CacheInv, CacheTypeOK

-----------------------------------------------------------------------------
(* The downgrade of models (Routing).                                      *)

RouteStates ==
    {NotRouting}
    \cup [pc : {"resolve"}, model : Models, level : {"customer", "team"}]
    \cup [pc : {"queried"}, model : Models, level : {"customer", "team"},
          spend : 0..MaxSpent, since : 0..MaxTicks]
    \cup [pc : {"sent"}, model : Models]

\* The table holds its sum now; a sum a query took was held when it started,
\* and one that was kept for the team was held at most the longest query
\* before its stamp.
RoutingInv ==
    /\ spentMonth \in 0..MaxSpent /\ ticks \in 0..MaxTicks /\ slowest \in 0..MaxTicks
    /\ lastHeld \in [0..MaxSpent -> Never..MaxTicks]
    /\ lastHeld[spentMonth] = ticks /\ \A v \in 0..MaxSpent : lastHeld[v] <= ticks
    /\ teamEntry \subseteq [spend : 0..MaxSpent, at : 0..MaxTicks]
    /\ \A d, e \in teamEntry : d = e
    /\ \A e \in teamEntry : /\ e.at <= ticks /\ lastHeld[e.spend] # Never
                            /\ e.at <= lastHeld[e.spend] + slowest
    /\ routes \in [Routed -> RouteStates]
    /\ \A r \in Routed : routes[r].pc = "queried" =>
          routes[r].since <= ticks /\ routes[r].since <= lastHeld[routes[r].spend]
    /\ \A d \in decision : d.spend \in 0..MaxSpent
    /\ RoutedOnRecentSpend

\* A request is at one of four places.
LEMMA RouteHeld ==
    ASSUME RoutingInv, NEW r \in Routed
    PROVE  /\ routes[r].pc \in {"idle", "resolve", "queried", "sent"}
           /\ routes[r].pc = "resolve" =>
                 routes[r] \in [pc : {"resolve"}, model : Models, level : {"customer", "team"}]
           /\ routes[r].pc = "queried" =>
                 routes[r] \in [pc : {"queried"}, model : Models, level : {"customer", "team"},
                                spend : 0..MaxSpent, since : 0..MaxTicks]
           /\ routes[r].pc = "sent" => routes[r] \in [pc : {"sent"}, model : Models]
<1>1. routes[r] \in RouteStates
  BY DEF RoutingInv
<1>2. NotRouting.pc = "idle"
  BY DEF NotRouting
<1>3. /\ \A c \in [pc : {"resolve"}, model : Models, level : {"customer", "team"}] : c.pc = "resolve"
      /\ \A c \in [pc : {"queried"}, model : Models, level : {"customer", "team"},
                   spend : 0..MaxSpent, since : 0..MaxTicks] : c.pc = "queried"
      /\ \A c \in [pc : {"sent"}, model : Models] : c.pc = "sent"
  OBVIOUS
<1>. QED
  BY <1>1, <1>2, <1>3 DEF RouteStates

\* A request is routed to a model that has a price.
LEMMA RouteForModel == ASSUME NEW m \in Models, NEW v PROVE RouteFor(m, v) \in Models
  BY RoutingAssumption DEF RouteFor, Models

\* A step of one request: what is known of the sums does not change.
LEMMA RouteMoves ==
    ASSUME RoutingInv, NEW r \in Routed, NEW q \in RouteStates,
           routes' = [routes EXCEPT ![r] = q],
           q.pc = "queried" => q.since <= ticks /\ q.since <= lastHeld[q.spend],
           UNCHANGED <<spentMonth, teamEntry, ticks, slowest, lastHeld>>,
           \A d \in decision' : /\ d.spend \in 0..MaxSpent /\ lastHeld[d.spend] # Never
                                /\ ticks - lastHeld[d.spend] <= TeamTTL + slowest
    PROVE  RoutingInv'
<1>1. routes' \in [Routed -> RouteStates]
  BY DEF RoutingInv
<1>2. \A s \in Routed : routes'[s].pc = "queried" =>
         routes'[s].since <= ticks /\ routes'[s].since <= lastHeld[routes'[s].spend]
  BY DEF RoutingInv
<1>3. RoutedOnRecentSpend'
  BY DEF RoutedOnRecentSpend
<1>. QED
  BY <1>1, <1>2, <1>3 DEF RoutingInv

\* The table's sum changes, or time passes: what was held is not forgotten.
LEMMA SumsHeld ==
    ASSUME RoutingInv, spentMonth' \in 0..MaxSpent, ticks' \in 0..MaxTicks, ticks <= ticks',
           lastHeld' = [lastHeld EXCEPT ![spentMonth] = ticks, ![spentMonth'] = ticks'],
           routes' \in [Routed -> RouteStates],
           \A r \in Routed : routes'[r].pc = "queried" => routes'[r] = routes[r],
           decision' = {}, UNCHANGED <<teamEntry, slowest>>
    PROVE  RoutingInv'
<1>0. /\ {MaxTicks, MaxSpent} \subseteq Nat /\ ticks \in 0..MaxTicks /\ slowest \in 0..MaxTicks
      /\ lastHeld \in [0..MaxSpent -> Never..MaxTicks] /\ spentMonth \in 0..MaxSpent
  BY RoutingAssumption DEF RoutingInv
<1>1. /\ lastHeld' \in [0..MaxSpent -> Never..MaxTicks]
      /\ lastHeld'[spentMonth'] = ticks'
  <2>1. ticks \in Never..MaxTicks /\ ticks' \in Never..MaxTicks
    BY <1>0 DEF Never
  <2>. QED
    BY <1>0, <2>1
<1>2. \A v \in 0..MaxSpent : lastHeld[v] <= lastHeld'[v] /\ lastHeld'[v] <= ticks'
  <2>. SUFFICES ASSUME NEW v \in 0..MaxSpent
                PROVE  lastHeld[v] <= lastHeld'[v] /\ lastHeld'[v] <= ticks'
    OBVIOUS
  <2>1. lastHeld'[v] = IF v = spentMonth' THEN ticks' ELSE IF v = spentMonth THEN ticks ELSE lastHeld[v]
    BY <1>0
  <2>2. lastHeld[v] <= ticks /\ lastHeld[v] \in Never..MaxTicks
    BY <1>0 DEF RoutingInv
  <2>. QED
    BY <1>0, <2>1, <2>2 DEF Never
<1>3. \A e \in teamEntry' : /\ e.at <= ticks' /\ lastHeld'[e.spend] # Never
                            /\ e.at <= lastHeld'[e.spend] + slowest'
  <2>. SUFFICES ASSUME NEW e \in teamEntry
                PROVE  /\ e.at <= ticks' /\ lastHeld'[e.spend] # Never
                       /\ e.at <= lastHeld'[e.spend] + slowest
    OBVIOUS
  <2>1. /\ e.spend \in 0..MaxSpent /\ e.at \in 0..MaxTicks /\ e.at <= ticks
        /\ lastHeld[e.spend] # Never /\ e.at <= lastHeld[e.spend] + slowest
    BY DEF RoutingInv
  <2>2. lastHeld[e.spend] \in Never..MaxTicks /\ lastHeld'[e.spend] \in Never..MaxTicks
    BY <1>0, <1>1, <2>1
  <2>3. PICK x, y : x = lastHeld[e.spend] /\ y = lastHeld'[e.spend]
    OBVIOUS
  <2>4. x <= y /\ x \in Never..MaxTicks /\ y \in Never..MaxTicks /\ x # Never
        /\ e.at <= x + slowest
    BY <1>2, <2>1, <2>2, <2>3
  <2>5. y # Never /\ e.at <= y + slowest /\ e.at <= ticks'
    BY <1>0, <2>1, <2>4 DEF Never
  <2>. QED
    BY <2>3, <2>5
<1>4. ASSUME NEW r \in Routed, routes'[r].pc = "queried"
      PROVE  routes'[r].since <= ticks' /\ routes'[r].since <= lastHeld'[routes'[r].spend]
  <2>1. PICK c : c = routes[r]
    OBVIOUS
  <2>2. /\ routes'[r] = c /\ c.spend \in 0..MaxSpent /\ c.since \in 0..MaxTicks
        /\ c.since <= ticks /\ c.since <= lastHeld[c.spend]
    BY <1>4, <2>1, RouteHeld DEF RoutingInv
  <2>3. lastHeld[c.spend] \in Never..MaxTicks /\ lastHeld'[c.spend] \in Never..MaxTicks
    BY <1>0, <1>1, <2>2
  <2>4. c.since <= ticks' /\ c.since <= lastHeld'[c.spend]
    <3>1. PICK x, y : x = lastHeld[c.spend] /\ y = lastHeld'[c.spend]
      OBVIOUS
    <3>2. x <= y /\ x \in Never..MaxTicks /\ y \in Never..MaxTicks /\ c.since <= x
      BY <1>2, <2>2, <2>3, <3>1
    <3>3. c.since <= y /\ c.since <= ticks'
      BY <1>0, <2>2, <3>2 DEF Never
    <3>. QED
      BY <3>1, <3>3
  <2>. QED
    BY <2>2, <2>4
<1>5. RoutedOnRecentSpend' /\ \A d \in decision' : d.spend \in 0..MaxSpent
  BY DEF RoutedOnRecentSpend
<1>. QED
  BY <1>0, <1>1, <1>2, <1>3, <1>4, <1>5 DEF RoutingInv

\* Every step of the routing keeps its invariant.
LEMMA RoutingStep == RoutingInv /\ RoutingNext => RoutingInv'
<1>. SUFFICES ASSUME RoutingInv, RoutingNext PROVE RoutingInv'
  OBVIOUS
<1>0. /\ {MaxTicks, MaxSpent, TeamTTL} \subseteq Nat /\ ticks \in 0..MaxTicks
      /\ slowest \in 0..MaxTicks /\ spentMonth \in 0..MaxSpent
      /\ lastHeld \in [0..MaxSpent -> Never..MaxTicks] /\ lastHeld[spentMonth] = ticks
      /\ teamEntry \subseteq [spend : 0..MaxSpent, at : 0..MaxTicks]
      /\ \A e \in teamEntry : /\ e.at <= ticks /\ lastHeld[e.spend] # Never
                              /\ e.at <= lastHeld[e.spend] + slowest
      /\ routes \in [Routed -> RouteStates]
  BY RoutingAssumption DEF RoutingInv
<1>1. ASSUME NEW r \in Routed, RouteStart(r) PROVE RoutingInv'
  <2>1. PICK m \in Models, level \in {"customer", "team"} :
          routes' = [routes EXCEPT ![r] = [pc |-> "resolve", model |-> m, level |-> level]]
    BY <1>1 DEF RouteStart
  <2>2. PICK q : q = [pc |-> "resolve", model |-> m, level |-> level]
    OBVIOUS
  <2>3. q \in RouteStates /\ q.pc # "queried"
    BY <2>2 DEF RouteStates
  <2>4. decision' = {} /\ UNCHANGED <<spentMonth, teamEntry, ticks, slowest, lastHeld>>
    BY <1>1 DEF RouteStart
  <2>. QED
    BY <2>1, <2>2, <2>3, <2>4, RouteMoves
<1>2. ASSUME NEW r \in Routed, TeamSpendCached(r) PROVE RoutingInv'
  <2>1. PICK e \in teamEntry : Usable(e) /\ Decided(r, e.spend)
    BY <1>2 DEF TeamSpendCached
  <2>2. routes[r].pc = "resolve" /\ UNCHANGED <<spentMonth, teamEntry, ticks, slowest, lastHeld>>
    BY <1>2 DEF TeamSpendCached
  <2>3. PICK m : m = RouteFor(routes[r].model, e.spend)
    OBVIOUS
  <2>4. m \in Models
    BY <2>2, <2>3, RouteHeld, RouteForModel
  <2>5. PICK q : q = [pc |-> "sent", model |-> m]
    OBVIOUS
  <2>6. /\ routes' = [routes EXCEPT ![r] = q]
        /\ decision' = {[model |-> routes[r].model, routed |-> m, spend |-> e.spend]}
    BY <2>1, <2>3, <2>5 DEF Decided
  <2>7. q \in RouteStates /\ q.pc # "queried"
    BY <2>4, <2>5 DEF RouteStates
  <2>8. /\ e.spend \in 0..MaxSpent /\ e.at \in 0..MaxTicks /\ lastHeld[e.spend] # Never
        /\ e.at <= lastHeld[e.spend] + slowest /\ ticks - e.at <= TeamTTL
    BY <1>0, <2>1 DEF Usable
  <2>9. ticks - lastHeld[e.spend] <= TeamTTL + slowest
    <3>1. lastHeld[e.spend] \in Never..MaxTicks
      BY <1>0, <2>8
    <3>. QED
      BY <1>0, <2>8, <3>1 DEF Never
  <2>10. \A d \in decision' : /\ d.spend \in 0..MaxSpent /\ lastHeld[d.spend] # Never
                              /\ ticks - lastHeld[d.spend] <= TeamTTL + slowest
    BY <2>6, <2>8, <2>9
  <2>. QED
    BY <2>2, <2>6, <2>7, <2>10, RouteMoves
<1>3. ASSUME NEW r \in Routed, SpendQueried(r) PROVE RoutingInv'
  <2>1. PICK c : c = routes[r]
    OBVIOUS
  <2>2. PICK q : q = [pc |-> "queried", model |-> c.model, level |-> c.level,
                      spend |-> spentMonth, since |-> ticks]
    OBVIOUS
  <2>3. /\ c.pc = "resolve" /\ routes' = [routes EXCEPT ![r] = q] /\ decision' = {}
        /\ UNCHANGED <<spentMonth, teamEntry, ticks, slowest, lastHeld>>
    BY <1>3, <2>1, <2>2 DEF SpendQueried
  <2>4. c.model \in Models /\ c.level \in {"customer", "team"}
    BY <2>1, <2>3, RouteHeld
  <2>5. q \in RouteStates /\ q.since = ticks /\ q.spend = spentMonth
    BY <1>0, <2>2, <2>4 DEF RouteStates
  <2>6. q.since <= ticks /\ q.since <= lastHeld[q.spend]
    BY <1>0, <2>5
  <2>. QED
    BY <2>3, <2>5, <2>6, RouteMoves
<1>4. ASSUME NEW r \in Routed, SpendReturned(r) PROVE RoutingInv'
  <2>1. PICK c : c = routes[r]
    OBVIOUS
  <2>2. c.pc = "queried" /\ UNCHANGED <<spentMonth, ticks, lastHeld>>
    BY <1>4, <2>1 DEF SpendReturned
  <2>3. /\ c.model \in Models /\ c.spend \in 0..MaxSpent /\ c.since \in 0..MaxTicks
        /\ c.since <= ticks /\ c.since <= lastHeld[c.spend]
    BY <2>1, <2>2, RouteHeld DEF RoutingInv
  <2>4. PICK m : m = RouteFor(c.model, c.spend)
    OBVIOUS
  <2>5. PICK q : q = [pc |-> "sent", model |-> m]
    OBVIOUS
  <2>6. /\ routes' = [routes EXCEPT ![r] = q]
        /\ decision' = {[model |-> c.model, routed |-> m, spend |-> c.spend]}
        /\ teamEntry' \in {{[spend |-> c.spend, at |-> ticks]}, teamEntry}
        /\ slowest' = IF ticks - c.since > slowest THEN ticks - c.since ELSE slowest
    BY <1>4, <2>1, <2>4, <2>5 DEF SpendReturned, Decided
  <2>7. q \in RouteStates /\ q.pc # "queried"
    BY <2>3, <2>4, <2>5, RouteForModel DEF RouteStates
  <2>8. /\ slowest' \in 0..MaxTicks /\ slowest <= slowest' /\ ticks - c.since <= slowest'
    BY <1>0, <2>3, <2>6
  <2>9. lastHeld[c.spend] \in Never..MaxTicks /\ lastHeld[c.spend] # Never
    BY <1>0, <2>3 DEF Never
  <2>10. /\ teamEntry' \subseteq [spend : 0..MaxSpent, at : 0..MaxTicks]
         /\ \A d, e \in teamEntry' : d = e
    BY <1>0, <2>3, <2>6 DEF RoutingInv
  <2>11. \A e \in teamEntry' : /\ e.at <= ticks' /\ lastHeld'[e.spend] # Never
                               /\ e.at <= lastHeld'[e.spend] + slowest'
    <3>1. CASE teamEntry' = {[spend |-> c.spend, at |-> ticks]}
      <4>1. ticks <= lastHeld[c.spend] + slowest'
        BY <1>0, <2>3, <2>8, <2>9 DEF Never
      <4>. QED
        BY <1>0, <2>2, <2>9, <3>1, <4>1
    <3>2. CASE teamEntry' = teamEntry
      <4>. SUFFICES ASSUME NEW e \in teamEntry
                    PROVE  /\ e.at <= ticks /\ lastHeld[e.spend] # Never
                           /\ e.at <= lastHeld[e.spend] + slowest'
        BY <2>2, <3>2
      <4>1. e.at \in 0..MaxTicks /\ lastHeld[e.spend] \in Never..MaxTicks
        BY <1>0
      <4>. QED
        BY <1>0, <2>8, <4>1 DEF Never
    <3>. QED
      BY <2>6, <3>1, <3>2
  <2>12. routes' \in [Routed -> RouteStates]
    BY <1>0, <2>6, <2>7
  <2>13. \A s \in Routed : routes'[s].pc = "queried" =>
            routes'[s].since <= ticks' /\ routes'[s].since <= lastHeld'[routes'[s].spend]
    BY <1>0, <2>2, <2>6, <2>7 DEF RoutingInv
  <2>14. RoutedOnRecentSpend' /\ \A d \in decision' : d.spend \in 0..MaxSpent
    <3>1. ticks - lastHeld[c.spend] <= TeamTTL + slowest'
      BY <1>0, <2>3, <2>8, <2>9 DEF Never
    <3>. QED
      BY <2>2, <2>3, <2>6, <2>9, <3>1 DEF RoutedOnRecentSpend
  <2>15. /\ spentMonth' \in 0..MaxSpent /\ ticks' \in 0..MaxTicks
         /\ lastHeld' \in [0..MaxSpent -> Never..MaxTicks] /\ lastHeld'[spentMonth'] = ticks'
         /\ \A v \in 0..MaxSpent : lastHeld'[v] <= ticks'
    BY <1>0, <2>2 DEF RoutingInv
  <2>. QED
    BY <2>8, <2>10, <2>11, <2>12, <2>13, <2>14, <2>15 DEF RoutingInv
<1>5. ASSUME NEW r \in Routed, RouteFails(r) PROVE RoutingInv'
  <2>1. PICK q : q = [pc |-> "sent", model |-> routes[r].model]
    OBVIOUS
  <2>2. /\ routes[r].pc = "queried" /\ routes' = [routes EXCEPT ![r] = q] /\ decision' = {}
        /\ UNCHANGED <<spentMonth, teamEntry, ticks, slowest, lastHeld>>
    BY <1>5, <2>1 DEF RouteFails
  <2>3. q \in RouteStates /\ q.pc # "queried"
    BY <2>1, <2>2, RouteHeld DEF RouteStates
  <2>. QED
    BY <2>2, <2>3, RouteMoves
<1>6. ASSUME NEW r \in Routed, RouteBilled(r) PROVE RoutingInv'
  <2>1. /\ routes[r].pc = "sent" /\ spentMonth' = spentMonth + Price[routes[r].model]
        /\ spentMonth + Price[routes[r].model] <= MaxSpent
        /\ lastHeld' = [lastHeld EXCEPT ![spentMonth] = ticks, ![spentMonth'] = ticks]
        /\ routes' = [routes EXCEPT ![r] = NotRouting] /\ decision' = {}
        /\ UNCHANGED <<teamEntry, ticks, slowest>>
    BY <1>6 DEF RouteBilled
  <2>2. Price[routes[r].model] \in Nat
    BY <2>1, RouteHeld, RoutingAssumption DEF Models
  <2>3. spentMonth' \in 0..MaxSpent /\ ticks' \in 0..MaxTicks /\ ticks <= ticks'
    BY <1>0, <2>1, <2>2
  <2>4. NotRouting \in RouteStates /\ NotRouting.pc = "idle"
    BY DEF RouteStates, NotRouting
  <2>5. /\ routes' \in [Routed -> RouteStates]
        /\ \A s \in Routed : routes'[s].pc = "queried" => routes'[s] = routes[s]
    BY <1>0, <2>1, <2>4
  <2>6. lastHeld' = [lastHeld EXCEPT ![spentMonth] = ticks, ![spentMonth'] = ticks']
    BY <2>1
  <2>. QED
    BY <2>1, <2>3, <2>5, <2>6, SumsHeld
<1>7. CASE TimePasses
  <2>1. /\ ticks < MaxTicks /\ ticks' = ticks + 1 /\ spentMonth' \in {0, spentMonth}
        /\ lastHeld' = [lastHeld EXCEPT ![spentMonth] = ticks, ![spentMonth'] = ticks + 1]
        /\ decision' = {} /\ UNCHANGED <<teamEntry, routes, slowest>>
    BY <1>7 DEF TimePasses
  <2>2. spentMonth' \in 0..MaxSpent /\ ticks' \in 0..MaxTicks /\ ticks <= ticks'
    BY <1>0, <2>1
  <2>3. lastHeld' = [lastHeld EXCEPT ![spentMonth] = ticks, ![spentMonth'] = ticks']
    BY <2>1
  <2>. QED
    BY <1>0, <2>1, <2>2, <2>3, SumsHeld
<1>. QED
  BY <1>1, <1>2, <1>3, <1>4, <1>5, <1>6, <1>7 DEF RoutingNext

\* It holds initially.
LEMMA RoutingBegin == RoutingInit => RoutingInv
<1>. SUFFICES ASSUME RoutingInit PROVE RoutingInv
  OBVIOUS
<1>1. /\ spentMonth = 0 /\ teamEntry = {} /\ routes = [r \in Routed |-> NotRouting]
      /\ ticks = 0 /\ slowest = 0 /\ decision = {}
      /\ lastHeld = [v \in 0..MaxSpent |-> IF v = 0 THEN 0 ELSE Never]
      /\ {MaxTicks, MaxSpent} \subseteq Nat
  BY RoutingAssumption DEF RoutingInit
<1>2. NotRouting \in RouteStates /\ NotRouting.pc = "idle"
  BY DEF RouteStates, NotRouting
<1>3. 0 \in Never..MaxTicks /\ Never \in Never..MaxTicks /\ Never <= 0 /\ 0 \in 0..MaxSpent
      /\ 0 \in 0..MaxTicks
  BY <1>1 DEF Never
<1>4. lastHeld \in [0..MaxSpent -> Never..MaxTicks] /\ lastHeld[0] = 0
  BY <1>1, <1>3
<1>5. \A v \in 0..MaxSpent : lastHeld[v] <= 0
  BY <1>1, <1>3
<1>6. RoutedOnRecentSpend
  BY <1>1 DEF RoutedOnRecentSpend
<1>. QED
  BY <1>1, <1>2, <1>3, <1>4, <1>5, <1>6 DEF RoutingInv

\* It gives the types the module declares.
LEMMA RoutingTyped == RoutingInv => RoutingTypeOK
<1>. SUFFICES ASSUME RoutingInv PROVE RoutingTypeOK
  OBVIOUS
<1>1. \A r \in Routed : /\ routes[r].pc \in {"idle", "resolve", "queried", "sent"}
                        /\ routes[r].pc # "idle" => routes[r].model \in Models
  BY RouteHeld
<1>2. Cardinality(teamEntry) <= 1
  <2>1. CASE teamEntry = {}
    BY <2>1, FS_EmptySet
  <2>2. CASE teamEntry # {}
    <3>0. PICK x \in teamEntry : TRUE
      BY <2>2
    <3>1. teamEntry = {x}
      BY <3>0 DEF RoutingInv
    <3>2. Cardinality(teamEntry) = 1
      BY <3>1, FS_Singleton
    <3>. QED
      BY <3>2
  <2>. QED
    BY <2>1, <2>2
<1>. QED
  BY <1>1, <1>2 DEF RoutingInv, RoutingTypeOK

-----------------------------------------------------------------------------
(* The discovery of assets (Discovery).                                    *)

AssetRow == [ident : Identities, status : {"shadow", "approved", "inactive"}, seen : Nat]
EventRow == [asset : AssetIds, at : Nat]
ZeroOrOne(T) == {{}} \cup {{x} : x \in T}
Unoccupied == [at |-> "idle"]
DetectorStates ==
    {Unoccupied}
    \cup [at : {"new"}, ident : Identities, seen : Nat]
    \cup [at : {"inserted"}, ident : Identities, row : AssetIds, stamp : Nat]

DiscoveryShape ==
    /\ now \in 0..MaxNow /\ lastCheck \in 0..now /\ engine \in {"idle", "shadow", "spikes"}
    /\ asset \in [AssetIds -> ZeroOrOne(AssetRow)]
    /\ fired \in [AssetIds -> ZeroOrOne(Nat)]
    /\ event \cup archived \subseteq EventRow
    /\ detector \in [Detectors -> DetectorStates]

\* Other assets first seen from the time of i up to t, and whether they are
\* enough to push i off the page that a look-up at t reads.
Later(i, t) == {k \in KnownAssets \ {i} : Of(i).seen <= Of(k).seen /\ Of(k).seen <= t}
Pushed(i, t) == Cardinality(Later(i, t)) >= PageLimit

\* A detector that is about to insert an asset that has a row, or that another
\* detector is about to insert, looked it up together with that one or did not
\* find the row on its page.
TwinInv ==
    /\ \A i \in KnownAssets : Of(i).seen <= now
    /\ \A d \in Detectors : detector[d].at = "new" => detector[d].seen <= now
    /\ \A d, e \in Detectors :
          d # e /\ detector[d].at = "new" /\ detector[e].at = "new"
             /\ detector[d].ident = detector[e].ident => detector[d].ident \in twin
    /\ \A d \in Detectors, i \in KnownAssets :
          detector[d].at = "new" /\ Of(i).ident = detector[d].ident =>
             detector[d].ident \in twin \/ Pushed(i, detector[d].seen)
    /\ NoShadowTwin

\* A row gets one event.
OneEventInv ==
    /\ event \cap archived = {}
    /\ \A e \in event \cup archived : asset[e.asset] # {}
    /\ \A d \in Detectors : detector[d].at = "inserted" =>
          /\ asset[detector[d].row] # {}
          /\ \A e \in event \cup archived : e.asset # detector[d].row
    /\ \A d, e \in Detectors :
          d # e /\ detector[d].at = "inserted" /\ detector[e].at = "inserted"
             => detector[d].row # detector[e].row

\* An event is announced or in a gap, or it is still to be read or handled.
Announcing(e) ==
    \/ e.asset \in alerted \/ e \in gap
    \/ engine = "idle" /\ e.at >= lastCheck /\ e \in event
    \/ engine = "shadow" /\ e \in pending
AnnounceInv ==
    /\ pending \subseteq event /\ (engine # "shadow" => pending = {})
    /\ sending \subseteq alerted /\ \A i \in AssetIds : fired[i] # {} => i \in alerted
    /\ \A e \in event \cup archived : Announcing(e)

DiscoveryInv == DiscoveryShape /\ TwinInv /\ OneEventInv /\ AnnounceInv

\* A detector is at one of three places.
LEMMA DetectorHeld ==
    ASSUME DiscoveryShape, NEW d \in Detectors
    PROVE  /\ detector[d].at \in {"idle", "new", "inserted"}
           /\ detector[d].at = "new" =>
                 detector[d].ident \in Identities /\ detector[d].seen \in Nat
           /\ detector[d].at = "inserted" =>
                 detector[d].row \in AssetIds /\ detector[d].stamp \in Nat
<1>1. detector[d] \in DetectorStates
  BY DEF DiscoveryShape
<1>2. Unoccupied.at = "idle"
  BY DEF Unoccupied
<1>. QED
  BY <1>1, <1>2 DEF DetectorStates

\* Of takes the only element.
LEMMA OfOnly ==
    ASSUME DiscoveryShape, NEW i \in AssetIds, asset[i] # {}
    PROVE  /\ Of(i) \in AssetRow /\ asset[i] = {Of(i)}
           /\ Of(i).seen \in Nat /\ Of(i).ident \in Identities
<1>1. asset[i] \in ZeroOrOne(AssetRow)
  BY DEF DiscoveryShape
<1>2. PICK a \in AssetRow : asset[i] = {a}
  BY <1>1 DEF ZeroOrOne
<1>3. Of(i) = a
  BY <1>2 DEF Of
<1>. QED
  BY <1>2, <1>3 DEF AssetRow

\* More rows push no less.
LEMMA PushedStays ==
    ASSUME NEW i \in KnownAssets, NEW t, Pushed(i, t), KnownAssets \subseteq KnownAssets',
           \A k \in KnownAssets : Of(k)'.seen = Of(k).seen
    PROVE  Pushed(i, t)'
<1>1. Later(i, t) \subseteq Later(i, t)'
  BY DEF Later
<1>2. IsFiniteSet(Later(i, t)')
  <2>1. Later(i, t)' \subseteq AssetIds
    BY DEF Later, KnownAssets
  <2>. QED
    BY <2>1, DiscoveryAssumption, FS_Subset
<1>3. /\ Cardinality(Later(i, t)) <= Cardinality(Later(i, t)')
      /\ Cardinality(Later(i, t)) \in Nat /\ Cardinality(Later(i, t)') \in Nat
  BY <1>1, <1>2, FS_Subset, FS_CardinalityType
<1>. QED
  BY <1>3, DiscoveryAssumption DEF Pushed

\* Seen from a row, what pushes it off a page of another row's time is the same
\* without that row.
LEMMA BetweenStays ==
    ASSUME NEW i \in KnownAssets, NEW j \in KnownAssets,
           Cardinality(SeenBetween(i, j)) >= PageLimit, KnownAssets \subseteq KnownAssets',
           \A k \in KnownAssets : Of(k)'.seen = Of(k).seen
    PROVE  (Cardinality(SeenBetween(i, j)) >= PageLimit)'
<1>1. SeenBetween(i, j) \subseteq SeenBetween(i, j)'
  BY DEF SeenBetween
<1>2. IsFiniteSet(SeenBetween(i, j)')
  <2>1. SeenBetween(i, j)' \subseteq AssetIds
    BY DEF SeenBetween, KnownAssets
  <2>. QED
    BY <2>1, DiscoveryAssumption, FS_Subset
<1>3. /\ Cardinality(SeenBetween(i, j)) <= Cardinality(SeenBetween(i, j)')
      /\ Cardinality(SeenBetween(i, j)) \in Nat /\ Cardinality(SeenBetween(i, j)') \in Nat
  BY <1>1, <1>2, FS_Subset, FS_CardinalityType
<1>. QED
  BY <1>3, DiscoveryAssumption

\* A step that gives the rows no other identity or time and starts no detector.
LEMMA TwinKept ==
    ASSUME DiscoveryShape, TwinInv, KnownAssets' = KnownAssets, now <= now', now' \in Nat,
           \A k \in KnownAssets : Of(k)'.seen = Of(k).seen /\ Of(k)'.ident = Of(k).ident,
           \A d \in Detectors : detector'[d].at = "new" => detector'[d] = detector[d],
           twin' = twin
    PROVE  TwinInv'
<1>0. now \in Nat
  BY DiscoveryAssumption DEF DiscoveryShape
<1>1. \A i \in KnownAssets' : Of(i)'.seen <= now'
  BY <1>0, OfOnly DEF TwinInv, KnownAssets
<1>2. \A d \in Detectors : detector'[d].at = "new" => detector'[d].seen <= now'
  BY <1>0, DetectorHeld DEF TwinInv
<1>3. \A d, e \in Detectors :
          d # e /\ detector'[d].at = "new" /\ detector'[e].at = "new"
             /\ detector'[d].ident = detector'[e].ident => detector'[d].ident \in twin'
  BY DEF TwinInv
<1>4. ASSUME NEW d \in Detectors, NEW i \in KnownAssets, detector'[d].at = "new",
             Of(i)'.ident = detector'[d].ident
      PROVE  detector'[d].ident \in twin' \/ Pushed(i, detector[d].seen)'
  <2>1. detector'[d] = detector[d] /\ Of(i).ident = detector[d].ident
    BY <1>4
  <2>2. CASE Pushed(i, detector[d].seen)
    <3>1. PICK t : t = detector[d].seen /\ t = detector'[d].seen
      BY <2>1
    <3>2. Pushed(i, t)'
      BY <2>2, <3>1, PushedStays
    <3>. QED
      BY <3>1, <3>2
  <2>. QED
    BY <1>4, <2>1, <2>2 DEF TwinInv
<1>5. NoShadowTwin'
  BY BetweenStays DEF TwinInv, NoShadowTwin
<1>. QED
  BY <1>1, <1>2, <1>3, <1>4, <1>5 DEF TwinInv

\* A look-up that finds no row of x on its page.
LEMMA TwinDetect ==
    ASSUME DiscoveryShape, TwinInv, NEW d \in Detectors, NEW x \in Identities, Detect(d, x)
    PROVE  TwinInv'
<1>0. now \in Nat
  BY DiscoveryAssumption DEF DiscoveryShape
<1>1. PICK q : q = [at |-> "new", ident |-> x, seen |-> now]
  OBVIOUS
<1>2. /\ detector' = [detector EXCEPT ![d] = q] /\ q.at = "new" /\ q.ident = x /\ q.seen = now
      /\ asset' = asset /\ now' = now /\ twin \subseteq twin'
  BY <1>1 DEF Detect
<1>3. /\ detector'[d] = q /\ \A e \in Detectors : e # d => detector'[e] = detector[e]
  BY <1>2 DEF DiscoveryShape
<1>4. KnownAssets' = KnownAssets /\ \A k : Of(k)' = Of(k)
  BY <1>2 DEF KnownAssets, Of
<1>5. \A e \in Detectors : e # d /\ detector[e].at = "new" /\ detector[e].ident = x => x \in twin'
  BY DEF Detect
<1>6. ASSUME NEW i \in KnownAssets, Of(i).ident = x PROVE Pushed(i, now)
  <2>1. PICK P \in Pages : Match(x, P) = {}
    BY DEF Detect
  <2>2. /\ P \subseteq KnownAssets /\ i \notin P /\ Cardinality(P) = PageLimit
        /\ \A k \in P : Of(k).seen >= Of(i).seen
    BY <1>6, <2>1 DEF Pages, Match
  <2>3. \A k \in KnownAssets : Of(k).seen <= now /\ Of(k).seen \in Nat /\ k \in AssetIds
    BY OfOnly DEF TwinInv, KnownAssets
  <2>4. P \subseteq Later(i, now)
    BY <2>2, <2>3 DEF Later
  <2>5. IsFiniteSet(Later(i, now))
    <3>1. Later(i, now) \subseteq AssetIds
      BY <2>3 DEF Later
    <3>. QED
      BY <3>1, DiscoveryAssumption, FS_Subset
  <2>6. Cardinality(P) <= Cardinality(Later(i, now)) /\ Cardinality(Later(i, now)) \in Nat
    BY <2>4, <2>5, FS_Subset, FS_CardinalityType
  <2>. QED
    BY <2>2, <2>6 DEF Pushed
<1>7. \A i \in KnownAssets' : Of(i)'.seen <= now'
  BY <1>2, <1>4 DEF TwinInv
<1>8. \A e \in Detectors : detector'[e].at = "new" => detector'[e].seen <= now'
  BY <1>0, <1>2, <1>3 DEF TwinInv
<1>9. \A e, f \in Detectors :
          e # f /\ detector'[e].at = "new" /\ detector'[f].at = "new"
             /\ detector'[e].ident = detector'[f].ident => detector'[e].ident \in twin'
  BY <1>2, <1>3, <1>5 DEF TwinInv
<1>10. \A i, t : Pushed(i, t)' <=> Pushed(i, t)
  BY <1>4 DEF Pushed, Later
<1>11. ASSUME NEW e \in Detectors, NEW i \in KnownAssets, detector'[e].at = "new",
              Of(i).ident = detector'[e].ident
       PROVE  detector'[e].ident \in twin' \/ Pushed(i, detector'[e].seen)
  <2>1. CASE e = d
    <3>1. Of(i).ident = x /\ detector'[e].seen = now
      BY <1>2, <1>3, <1>11, <2>1
    <3>. QED
      BY <1>6, <3>1
  <2>2. CASE e # d
    <3>1. detector'[e] = detector[e]
      BY <1>3, <2>2
    <3>2. detector[e].ident \in twin \/ Pushed(i, detector[e].seen)
      BY <1>11, <3>1 DEF TwinInv
    <3>. QED
      BY <1>2, <3>1, <3>2
  <2>. QED
    BY <2>1, <2>2
<1>12. \A e \in Detectors, i \in KnownAssets' :
          detector'[e].at = "new" /\ Of(i)'.ident = detector'[e].ident =>
             detector'[e].ident \in twin' \/ Pushed(i, detector[e].seen)'
  <2>. SUFFICES ASSUME NEW e \in Detectors, NEW i \in KnownAssets, detector'[e].at = "new",
                       Of(i).ident = detector'[e].ident
                PROVE  detector'[e].ident \in twin' \/ Pushed(i, detector[e].seen)'
    BY <1>4
  <2>1. PICK t : t = detector'[e].seen
    OBVIOUS
  <2>2. Pushed(i, t)' <=> Pushed(i, t)
    BY <1>10
  <2>. QED
    BY <1>11, <2>1, <2>2
<1>13. NoShadowTwin'
  <2>1. \A i, j : SeenBetween(i, j)' = SeenBetween(i, j)
    BY <1>4 DEF SeenBetween
  <2>. QED
    BY <1>2, <1>4, <2>1 DEF TwinInv, NoShadowTwin
<1>. QED
  BY <1>7, <1>8, <1>9, <1>12, <1>13 DEF TwinInv

\* A row is inserted by a detector that looked the asset up before.
LEMMA TwinInsert ==
    ASSUME DiscoveryShape, TwinInv, NEW d \in Detectors, NEW i \in AssetIds, InsertAsset(d, i)
    PROVE  TwinInv'
<1>0. now \in Nat
  BY DiscoveryAssumption DEF DiscoveryShape
<1>1. PICK x, t : x = detector[d].ident /\ t = detector[d].seen
  OBVIOUS
<1>2. PICK q, a : /\ q = [at |-> "inserted", ident |-> x, row |-> i, stamp |-> now]
                  /\ a = [ident |-> x, status |-> "shadow", seen |-> t]
  OBVIOUS
<1>3. /\ detector[d].at = "new" /\ asset[i] = {} /\ twin' = twin /\ now' = now
      /\ asset' = [asset EXCEPT ![i] = {a}] /\ detector' = [detector EXCEPT ![d] = q]
  BY <1>1, <1>2 DEF InsertAsset
<1>4. asset'[i] = {a} /\ \A k \in AssetIds : k # i => asset'[k] = asset[k]
  BY <1>3 DEF DiscoveryShape
<1>5. KnownAssets' = KnownAssets \cup {i} /\ i \notin KnownAssets
  BY <1>3, <1>4 DEF KnownAssets
<1>6. /\ Of(i)' = a /\ a.ident = x /\ a.seen = t
      /\ \A k \in KnownAssets : Of(k)' = Of(k)
  <2>1. Of(i)' = a /\ \A k \in AssetIds : k # i => Of(k)' = Of(k)
    BY <1>4 DEF Of
  <2>. QED
    BY <1>2, <1>5, <2>1 DEF KnownAssets
<1>7. \A e \in Detectors : detector'[e].at = "new" => e # d /\ detector'[e] = detector[e]
  BY <1>2, <1>3 DEF DiscoveryShape
<1>8. \A k \in KnownAssets' : Of(k)'.seen <= now'
  BY <1>1, <1>3, <1>5, <1>6 DEF TwinInv
<1>9. \A e \in Detectors : detector'[e].at = "new" => detector'[e].seen <= now'
  BY <1>3, <1>7 DEF TwinInv
<1>10. \A e, f \in Detectors :
          e # f /\ detector'[e].at = "new" /\ detector'[f].at = "new"
             /\ detector'[e].ident = detector'[f].ident => detector'[e].ident \in twin'
  BY <1>3, <1>7 DEF TwinInv
<1>11. \A k \in KnownAssets : \A u : Pushed(k, u) => Pushed(k, u)'
  BY <1>5, <1>6, PushedStays
<1>12. ASSUME NEW e \in Detectors, NEW k \in KnownAssets', detector'[e].at = "new",
              Of(k)'.ident = detector'[e].ident
       PROVE  detector'[e].ident \in twin' \/ Pushed(k, detector[e].seen)'
  <2>1. e # d /\ detector'[e] = detector[e]
    BY <1>7, <1>12
  <2>2. CASE k = i
    <3>1. detector[e].ident = detector[d].ident /\ detector[e].at = "new"
      BY <1>1, <1>6, <1>12, <2>1, <2>2
    <3>. QED
      BY <1>3, <2>1, <3>1 DEF TwinInv
  <2>3. CASE k \in KnownAssets
    <3>1. PICK u : u = detector[e].seen /\ u = detector'[e].seen
      BY <2>1
    <3>2. Of(k).ident = detector[e].ident /\ detector[e].at = "new"
      BY <1>6, <1>12, <2>1, <2>3
    <3>3. detector[e].ident \in twin \/ Pushed(k, u)
      BY <2>3, <3>1, <3>2 DEF TwinInv
    <3>4. Pushed(k, u) => Pushed(k, u)'
      BY <1>11, <2>3
    <3>. QED
      BY <1>3, <2>1, <3>1, <3>3, <3>4
  <2>. QED
    BY <1>5, <2>2, <2>3
<1>13. ASSUME NEW k \in KnownAssets, Of(k).ident = x
       PROVE  x \in twin \/ (Cardinality(SeenBetween(k, i)) >= PageLimit)'
  <2>1. x \in twin \/ Pushed(k, t)
    BY <1>1, <1>3, <1>13 DEF TwinInv
  <2>2. SeenBetween(k, i)' = Later(k, t)
    BY <1>5, <1>6 DEF SeenBetween, Later
  <2>. QED
    BY <2>1, <2>2 DEF Pushed
<1>14. NoShadowTwin'
  <2>. SUFFICES ASSUME NEW k \in KnownAssets', NEW l \in KnownAssets', k # l,
                       Of(k)'.ident = Of(l)'.ident
                PROVE  \/ Of(k)'.ident \in twin'
                       \/ (Cardinality(SeenBetween(k, l)) >= PageLimit)'
                       \/ (Cardinality(SeenBetween(l, k)) >= PageLimit)'
    BY DEF NoShadowTwin
  <2>1. CASE k = i
    <3>1. l \in KnownAssets /\ Of(l).ident = x /\ Of(k)'.ident = x
      BY <1>5, <1>6, <2>1
    <3>. QED
      BY <1>3, <1>13, <2>1, <3>1
  <2>2. CASE l = i
    <3>1. k \in KnownAssets /\ Of(k).ident = x /\ Of(k)'.ident = x
      BY <1>5, <1>6, <2>2
    <3>. QED
      BY <1>3, <1>13, <2>2, <3>1
  <2>3. CASE k # i /\ l # i
    <3>1. k \in KnownAssets /\ l \in KnownAssets /\ Of(k).ident = Of(l).ident /\ Of(k)' = Of(k)
      BY <1>5, <1>6, <2>3
    <3>2. \/ Of(k).ident \in twin
          \/ Cardinality(SeenBetween(k, l)) >= PageLimit
          \/ Cardinality(SeenBetween(l, k)) >= PageLimit
      BY <3>1 DEF TwinInv, NoShadowTwin
    <3>3. KnownAssets \subseteq KnownAssets' /\ \A m \in KnownAssets : Of(m)'.seen = Of(m).seen
      BY <1>5, <1>6
    <3>. QED
      BY <1>3, <3>1, <3>2, <3>3, BetweenStays
  <2>. QED
    BY <2>1, <2>2, <2>3
<1>. QED
  BY <1>8, <1>9, <1>10, <1>12, <1>14 DEF TwinInv

\* What the detectors and the operator do to the rows of assets.
LEMMA TwinStep == ASSUME DiscoveryShape, TwinInv, DiscoveryNext PROVE TwinInv'
<1>0. now \in Nat
  BY DiscoveryAssumption DEF DiscoveryShape
<1>1. ASSUME UNCHANGED <<asset, detector, twin>>, now' \in {now, now + 1} PROVE TwinInv'
  <2>1. KnownAssets' = KnownAssets /\ \A k : Of(k)' = Of(k)
    BY <1>1 DEF KnownAssets, Of
  <2>. QED
    BY <1>0, <1>1, <2>1, TwinKept
<1>5. ASSUME NEW i \in AssetIds, NEW s \in {"approved", "inactive"}, UpdateAssetStatus(i, s)
      PROVE  TwinInv'
  <2>1. PICK a : a = [Of(i) EXCEPT !.status = s]
    OBVIOUS
  <2>2. /\ asset[i] # {} /\ asset' = [asset EXCEPT ![i] = {a}]
        /\ UNCHANGED <<now, detector, twin>>
    BY <1>5, <2>1 DEF UpdateAssetStatus
  <2>3. a.ident = Of(i).ident /\ a.seen = Of(i).seen
    BY <2>1, <2>2, OfOnly DEF AssetRow
  <2>4. asset'[i] = {a} /\ \A k \in AssetIds : k # i => asset'[k] = asset[k]
    BY <2>2 DEF DiscoveryShape
  <2>5. KnownAssets' = KnownAssets
    BY <2>2, <2>4 DEF KnownAssets
  <2>6. Of(i)' = a /\ \A k \in AssetIds : k # i => Of(k)' = Of(k)
    BY <2>4 DEF Of
  <2>7. \A k \in KnownAssets : Of(k)'.seen = Of(k).seen /\ Of(k)'.ident = Of(k).ident
    BY <2>3, <2>6 DEF KnownAssets
  <2>. QED
    BY <1>0, <2>2, <2>5, <2>7, TwinKept
<1>6. ASSUME NEW d \in Detectors, InsertDiscoveryEvent(d) \/ DetectorDies(d) PROVE TwinInv'
  <2>1. detector' = [detector EXCEPT ![d] = Unoccupied] /\ UNCHANGED <<now, asset, twin>>
    BY <1>6 DEF InsertDiscoveryEvent, DetectorDies, Unoccupied
  <2>2. \A e \in Detectors : detector'[e].at = "new" => detector'[e] = detector[e]
    BY <2>1 DEF DiscoveryShape, Unoccupied
  <2>3. KnownAssets' = KnownAssets /\ \A k : Of(k)' = Of(k)
    BY <2>1 DEF KnownAssets, Of
  <2>. QED
    BY <1>0, <2>1, <2>2, <2>3, TwinKept
<1>7. ASSUME \/ Tick \/ RunAllChecks \/ CheckRaises \/ FinishChecks \/ RestartEngine
             \/ ArchiveOldDiscoveryEvents
             \/ \E e \in pending : CheckShadowAlert(e)
             \/ \E i \in sending : MarkAlertFired(i)
             \/ \E i \in AssetIds : PurgeOldFiredAlerts(i)
      PROVE  UNCHANGED <<asset, detector, twin>> /\ now' \in {now, now + 1}
  BY <1>7 DEF Tick, RunAllChecks, CheckRaises, FinishChecks, RestartEngine,
              ArchiveOldDiscoveryEvents, CheckShadowAlert, MarkAlertFired, PurgeOldFiredAlerts
<1>. QED
  BY <1>1, <1>5, <1>6, <1>7, TwinDetect, TwinInsert DEF DiscoveryNext, InventoryNext

\* The variables keep to their types.
LEMMA DiscoveryShapeStep ==
    ASSUME DiscoveryShape, AnnounceInv, DiscoveryNext PROVE DiscoveryShape'
<1>0. /\ now \in Nat /\ now \in 0..MaxNow /\ MaxNow \in Nat /\ lastCheck \in 0..now
      /\ engine \in {"idle", "shadow", "spikes"}
      /\ asset \in [AssetIds -> ZeroOrOne(AssetRow)] /\ fired \in [AssetIds -> ZeroOrOne(Nat)]
      /\ event \cup archived \subseteq EventRow /\ detector \in [Detectors -> DetectorStates]
  BY DiscoveryAssumption DEF DiscoveryShape
<1>1. CASE Tick
  <2>1. now' = now + 1 /\ now' \in 0..MaxNow /\ lastCheck \in 0..now'
        /\ UNCHANGED <<asset, event, archived, detector, lastCheck, engine, fired>>
    BY <1>0, <1>1 DEF Tick
  <2>. QED
    BY <1>0, <2>1 DEF DiscoveryShape
<1>2. ASSUME NEW d \in Detectors, NEW x \in Identities, Detect(d, x) PROVE DiscoveryShape'
  <2>1. [at |-> "new", ident |-> x, seen |-> now] \in DetectorStates
    BY <1>0 DEF DetectorStates
  <2>. QED
    BY <1>0, <1>2, <2>1 DEF Detect, EngineSame, DiscoveryShape
<1>3. ASSUME NEW d \in Detectors, NEW i \in AssetIds, InsertAsset(d, i) PROVE DiscoveryShape'
  <2>1. PICK x, t : x = detector[d].ident /\ t = detector[d].seen
    OBVIOUS
  <2>2. x \in Identities /\ t \in Nat
    BY <1>3, <2>1, DetectorHeld DEF InsertAsset
  <2>3. [at |-> "inserted", ident |-> x, row |-> i, stamp |-> now] \in DetectorStates
    BY <1>0, <2>2 DEF DetectorStates
  <2>4. {[ident |-> x, status |-> "shadow", seen |-> t]} \in ZeroOrOne(AssetRow)
    BY <2>2 DEF ZeroOrOne, AssetRow
  <2>5. /\ asset' = [asset EXCEPT ![i] = {[ident |-> x, status |-> "shadow", seen |-> t]}]
        /\ detector' = [detector EXCEPT ![d] = [at |-> "inserted", ident |-> x,
                                                row |-> i, stamp |-> now]]
        /\ UNCHANGED <<now, event, archived, lastCheck, engine, fired>>
    BY <1>3, <2>1 DEF InsertAsset, EngineSame
  <2>. QED
    BY <1>0, <2>3, <2>4, <2>5 DEF DiscoveryShape
<1>4. ASSUME NEW d \in Detectors, InsertDiscoveryEvent(d) PROVE DiscoveryShape'
  <2>1. PICK e : e = [asset |-> detector[d].row, at |-> detector[d].stamp]
    OBVIOUS
  <2>2. /\ event' = event \cup {e} /\ detector' = [detector EXCEPT ![d] = Unoccupied]
        /\ UNCHANGED <<now, asset, archived, lastCheck, engine, fired>>
    BY <1>4, <2>1 DEF InsertDiscoveryEvent, EngineSame, Unoccupied
  <2>3. e \in EventRow
    BY <1>4, <2>1, DetectorHeld DEF InsertDiscoveryEvent, EventRow
  <2>4. Unoccupied \in DetectorStates
    BY DEF DetectorStates
  <2>. QED
    BY <1>0, <2>2, <2>3, <2>4 DEF DiscoveryShape
<1>5. ASSUME NEW d \in Detectors, DetectorDies(d) PROVE DiscoveryShape'
  <2>1. /\ detector' = [detector EXCEPT ![d] = Unoccupied]
        /\ UNCHANGED <<now, asset, event, archived, lastCheck, engine, fired>>
    BY <1>5 DEF DetectorDies, EngineSame, Unoccupied
  <2>2. Unoccupied \in DetectorStates
    BY DEF DetectorStates
  <2>. QED
    BY <1>0, <2>1, <2>2 DEF DiscoveryShape
<1>6. ASSUME NEW i \in AssetIds, NEW s \in {"approved", "inactive"}, UpdateAssetStatus(i, s)
      PROVE  DiscoveryShape'
  <2>1. PICK a : a = [Of(i) EXCEPT !.status = s]
    OBVIOUS
  <2>2. /\ asset[i] # {} /\ asset' = [asset EXCEPT ![i] = {a}]
        /\ UNCHANGED <<now, event, archived, detector, lastCheck, engine, fired>>
    BY <1>6, <2>1 DEF UpdateAssetStatus, EngineSame
  <2>3. Of(i) \in AssetRow
    BY <2>2, OfOnly
  <2>4. {a} \in ZeroOrOne(AssetRow)
    BY <2>1, <2>3 DEF ZeroOrOne, AssetRow
  <2>. QED
    BY <1>0, <2>2, <2>4 DEF DiscoveryShape
<1>7. CASE RunAllChecks
  <2>1. engine' = "shadow" /\ UNCHANGED <<now, asset, event, archived, detector, lastCheck, fired>>
    BY <1>7 DEF RunAllChecks
  <2>. QED
    BY <1>0, <2>1 DEF DiscoveryShape
<1>8. ASSUME NEW e \in pending, CheckShadowAlert(e) PROVE DiscoveryShape'
  <2>1. UNCHANGED <<now, asset, event, archived, detector, lastCheck, engine, fired>>
    BY <1>8 DEF CheckShadowAlert
  <2>. QED
    BY <1>0, <2>1 DEF DiscoveryShape
<1>9. ASSUME NEW i \in sending, MarkAlertFired(i) PROVE DiscoveryShape'
  <2>1. /\ fired' = [fired EXCEPT ![i] = {now}]
        /\ UNCHANGED <<now, asset, event, archived, detector, lastCheck, engine>>
    BY <1>9 DEF MarkAlertFired
  <2>2. {now} \in ZeroOrOne(Nat)
    BY <1>0 DEF ZeroOrOne
  <2>. QED
    BY <1>0, <2>1, <2>2 DEF DiscoveryShape
<1>10. CASE CheckRaises
  <2>1. engine' = "spikes" /\ UNCHANGED <<now, asset, event, archived, detector, lastCheck, fired>>
    BY <1>10 DEF CheckRaises
  <2>. QED
    BY <1>0, <2>1 DEF DiscoveryShape
<1>11. CASE FinishChecks \/ RestartEngine
  <2>1. /\ engine' = "idle" /\ lastCheck' = now /\ now \in 0..now
        /\ UNCHANGED <<now, asset, event, archived, detector, fired>>
    BY <1>0, <1>11 DEF FinishChecks, RestartEngine
  <2>. QED
    BY <1>0, <2>1 DEF DiscoveryShape
<1>12. ASSUME NEW i \in AssetIds, PurgeOldFiredAlerts(i) PROVE DiscoveryShape'
  <2>1. /\ fired' = [fired EXCEPT ![i] = {}]
        /\ UNCHANGED <<now, asset, event, archived, detector, lastCheck, engine>>
    BY <1>12 DEF PurgeOldFiredAlerts
  <2>2. {} \in ZeroOrOne(Nat)
    BY DEF ZeroOrOne
  <2>. QED
    BY <1>0, <2>1, <2>2 DEF DiscoveryShape
<1>13. CASE ArchiveOldDiscoveryEvents
  <2>1. /\ event' \subseteq event /\ archived' \subseteq archived \cup event
        /\ UNCHANGED <<now, asset, detector, lastCheck, engine, fired>>
    BY <1>13 DEF ArchiveOldDiscoveryEvents
  <2>. QED
    BY <1>0, <2>1 DEF DiscoveryShape
<1>. QED
  BY <1>1, <1>2, <1>3, <1>4, <1>5, <1>6, <1>7, <1>8, <1>9, <1>10, <1>11, <1>12, <1>13
  DEF DiscoveryNext, InventoryNext

\* A row keeps getting no more than one event.
LEMMA OneEventStep ==
    ASSUME DiscoveryShape, AnnounceInv, OneEventInv, DiscoveryNext PROVE OneEventInv'
<1>1. CASE UNCHANGED <<asset, event, archived, detector>>
  BY <1>1 DEF OneEventInv
<1>2. ASSUME NEW d \in Detectors, NEW q, q.at # "inserted",
             detector' = [detector EXCEPT ![d] = q], UNCHANGED <<asset, event, archived>>
      PROVE  OneEventInv'
  <2>1. \A e \in Detectors : detector'[e].at = "inserted" => detector'[e] = detector[e]
    BY <1>2 DEF DiscoveryShape
  <2>. QED
    BY <1>2, <2>1 DEF OneEventInv
<1>3. ASSUME NEW d \in Detectors, NEW x \in Identities, Detect(d, x) PROVE OneEventInv'
  <2>1. PICK q : q = [at |-> "new", ident |-> x, seen |-> now]
    OBVIOUS
  <2>2. q.at # "inserted" /\ detector' = [detector EXCEPT ![d] = q]
        /\ UNCHANGED <<asset, event, archived>>
    BY <1>3, <2>1 DEF Detect
  <2>. QED
    BY <1>2, <2>2
<1>4. ASSUME NEW d \in Detectors, NEW i \in AssetIds, InsertAsset(d, i) PROVE OneEventInv'
  <2>1. PICK q : q = [at |-> "inserted", ident |-> detector[d].ident, row |-> i, stamp |-> now]
    OBVIOUS
  <2>2. PICK A : A = {[ident |-> detector[d].ident, status |-> "shadow",
                  seen |-> detector[d].seen]}
    OBVIOUS
  <2>3. /\ asset[i] = {} /\ asset' = [asset EXCEPT ![i] = A] /\ A # {}
        /\ detector' = [detector EXCEPT ![d] = q] /\ q.row = i
        /\ UNCHANGED <<event, archived>>
    BY <1>4, <2>1, <2>2 DEF InsertAsset
  <2>4. \A j \in AssetIds : asset[j] # {} => j # i /\ asset'[j] # {}
    BY <2>3 DEF DiscoveryShape
  <2>5. asset'[i] # {} /\ detector'[d] = q /\ \A e \in Detectors : e # d => detector'[e] = detector[e]
    BY <2>3 DEF DiscoveryShape
  <2>6. \A e \in event \cup archived : e.asset \in AssetIds /\ e.asset # i /\ asset'[e.asset] # {}
    BY <2>4 DEF DiscoveryShape, OneEventInv, EventRow
  <2>7. \A e \in Detectors : e # d /\ detector[e].at = "inserted" =>
           /\ detector[e].row # i /\ asset'[detector[e].row] # {}
           /\ \A v \in event \cup archived : v.asset # detector[e].row
    BY <2>4, DetectorHeld DEF OneEventInv
  <2>8. \A e \in Detectors : detector'[e].at = "inserted" =>
           /\ asset'[detector'[e].row] # {}
           /\ \A v \in event \cup archived : v.asset # detector'[e].row
    BY <2>3, <2>5, <2>6, <2>7
  <2>9. \A e, f \in Detectors :
          e # f /\ detector'[e].at = "inserted" /\ detector'[f].at = "inserted"
             => detector'[e].row # detector'[f].row
    BY <2>3, <2>5, <2>7 DEF OneEventInv
  <2>. QED
    BY <2>3, <2>6, <2>8, <2>9 DEF OneEventInv
<1>5. ASSUME NEW d \in Detectors, InsertDiscoveryEvent(d) PROVE OneEventInv'
  <2>1. PICK v : v = [asset |-> detector[d].row, at |-> detector[d].stamp]
    OBVIOUS
  <2>2. /\ detector[d].at = "inserted" /\ event' = event \cup {v}
        /\ detector' = [detector EXCEPT ![d] = Unoccupied] /\ UNCHANGED <<asset, archived>>
    BY <1>5, <2>1 DEF InsertDiscoveryEvent, Unoccupied
  <2>3. v.asset = detector[d].row /\ asset[v.asset] # {} /\ v \notin archived
    BY <2>1, <2>2 DEF OneEventInv
  <2>4. \A e \in Detectors : detector'[e].at = "inserted" => e # d /\ detector'[e] = detector[e]
    BY <2>2 DEF DiscoveryShape, Unoccupied
  <2>5. \A e \in Detectors : detector'[e].at = "inserted" => detector'[e].row # v.asset
    BY <2>2, <2>3, <2>4 DEF OneEventInv
  <2>. QED
    BY <2>2, <2>3, <2>4, <2>5 DEF OneEventInv
<1>6. ASSUME NEW d \in Detectors, DetectorDies(d) PROVE OneEventInv'
  <2>1. Unoccupied.at # "inserted" /\ detector' = [detector EXCEPT ![d] = Unoccupied]
        /\ UNCHANGED <<asset, event, archived>>
    BY <1>6 DEF DetectorDies, Unoccupied
  <2>. QED
    BY <1>2, <2>1
<1>7. ASSUME NEW i \in AssetIds, NEW s \in {"approved", "inactive"}, UpdateAssetStatus(i, s)
      PROVE  OneEventInv'
  <2>1. PICK A : A = {[Of(i) EXCEPT !.status = s]}
    OBVIOUS
  <2>2. A # {} /\ asset' = [asset EXCEPT ![i] = A] /\ UNCHANGED <<event, archived, detector>>
    BY <1>7, <2>1 DEF UpdateAssetStatus
  <2>3. \A j \in AssetIds : asset[j] # {} => asset'[j] # {}
    BY <2>2 DEF DiscoveryShape
  <2>4. \A e \in event \cup archived : e.asset \in AssetIds
    BY DEF DiscoveryShape, EventRow
  <2>5. \A d \in Detectors : detector[d].at = "inserted" => detector[d].row \in AssetIds
    BY DetectorHeld
  <2>. QED
    BY <2>2, <2>3, <2>4, <2>5 DEF OneEventInv
<1>8. CASE ArchiveOldDiscoveryEvents
  <2>1. PICK old : old = {e \in event : e.at + ShadowWindow < now}
    OBVIOUS
  <2>2. /\ event' = event \ old /\ archived' = archived \cup old /\ old \subseteq event
        /\ UNCHANGED <<asset, detector>>
    BY <1>8, <2>1 DEF ArchiveOldDiscoveryEvents
  <2>3. event' \cup archived' = event \cup archived /\ event' \cap archived' = {}
    BY <2>2 DEF OneEventInv
  <2>. QED
    BY <2>2, <2>3 DEF OneEventInv
<1>9. ASSUME \/ Tick \/ RunAllChecks \/ CheckRaises \/ FinishChecks \/ RestartEngine
             \/ \E e \in pending : CheckShadowAlert(e)
             \/ \E i \in sending : MarkAlertFired(i)
             \/ \E i \in AssetIds : PurgeOldFiredAlerts(i)
      PROVE  UNCHANGED <<asset, event, archived, detector>>
  BY <1>9 DEF Tick, RunAllChecks, CheckRaises, FinishChecks, RestartEngine, CheckShadowAlert,
              MarkAlertFired, PurgeOldFiredAlerts
<1>. QED
  BY <1>1, <1>3, <1>4, <1>5, <1>6, <1>7, <1>8, <1>9 DEF DiscoveryNext, InventoryNext

\* An event stays announced, in a gap or waiting.
LEMMA AnnounceStep ==
    ASSUME DiscoveryShape, AnnounceInv, DiscoveryNext PROVE AnnounceInv'
<1>0. /\ pending \subseteq event /\ (engine # "shadow" => pending = {})
      /\ sending \subseteq alerted /\ \A i \in AssetIds : fired[i] # {} => i \in alerted
      /\ \A e \in event \cup archived : Announcing(e)
      /\ event \cup archived \subseteq EventRow /\ lastCheck \in Nat
      /\ fired \in [AssetIds -> ZeroOrOne(Nat)] /\ engine \in {"idle", "shadow", "spikes"}
  BY DEF AnnounceInv, DiscoveryShape
<1>1. ASSUME UNCHANGED <<event, archived, lastCheck, engine, pending, fired, sending, alerted, gap>>
      PROVE  AnnounceInv'
  BY <1>1 DEF AnnounceInv, Announcing
<1>2. CASE Tick \/ (\E d \in Detectors, x \in Identities : Detect(d, x))
           \/ (\E d \in Detectors, i \in AssetIds : InsertAsset(d, i))
           \/ (\E d \in Detectors : DetectorDies(d))
           \/ (\E i \in AssetIds, s \in {"approved", "inactive"} : UpdateAssetStatus(i, s))
  BY <1>1, <1>2 DEF Tick, Detect, InsertAsset, DetectorDies, UpdateAssetStatus, EngineSame
<1>3. ASSUME NEW d \in Detectors, InsertDiscoveryEvent(d) PROVE AnnounceInv'
  <2>1. PICK v : v = [asset |-> detector[d].row, at |-> detector[d].stamp]
    OBVIOUS
  <2>2. /\ event' = event \cup {v}
        /\ gap' = IF engine # "idle" \/ v.at < lastCheck THEN gap \cup {v} ELSE gap
        /\ UNCHANGED <<archived, lastCheck, engine, pending, fired, sending, alerted>>
    BY <1>3, <2>1 DEF InsertDiscoveryEvent, EngineSame
  <2>3. v.at \in Nat
    BY <1>3, <2>1, DetectorHeld DEF InsertDiscoveryEvent
  <2>4. v \in gap' \/ (engine = "idle" /\ v.at >= lastCheck)
    BY <1>0, <2>2, <2>3
  <2>5. gap \subseteq gap'
    BY <2>2
  <2>6. \A e \in event' \cup archived' : Announcing(e)'
    <3>1. \A e \in event \cup archived : Announcing(e)'
      BY <1>0, <2>2, <2>5 DEF Announcing
    <3>2. Announcing(v)'
      BY <2>2, <2>4 DEF Announcing
    <3>3. \A e \in event' \cup archived' : e \in event \cup archived \/ e = v
      BY <2>2
    <3>. QED
      BY <3>1, <3>2, <3>3
  <2>. QED
    BY <1>0, <2>2, <2>6 DEF AnnounceInv
<1>4. CASE RunAllChecks
  <2>1. /\ engine = "idle" /\ engine' = "shadow" /\ pending' = {e \in event : e.at >= lastCheck}
        /\ UNCHANGED <<event, archived, lastCheck, fired, sending, alerted, gap>>
    BY <1>4 DEF RunAllChecks, Since
  <2>2. \A e \in event' \cup archived' : Announcing(e)'
    BY <1>0, <2>1 DEF Announcing
  <2>. QED
    BY <1>0, <2>1, <2>2 DEF AnnounceInv
<1>5. ASSUME NEW v \in pending, CheckShadowAlert(v) PROVE AnnounceInv'
  <2>1. /\ engine = "shadow" /\ pending' = pending \ {v}
        /\ UNCHANGED <<event, archived, lastCheck, engine, fired, gap>>
    BY <1>5 DEF CheckShadowAlert
  <2>2. alerted \subseteq alerted' /\ sending' \subseteq alerted' /\ v.asset \in alerted'
    <3>1. CASE WasAlertFired(v.asset)
      <4>1. UNCHANGED <<sending, alerted>>
        BY <1>5, <3>1 DEF CheckShadowAlert
      <4>2. v.asset \in AssetIds
        BY <1>0 DEF EventRow
      <4>3. fired[v.asset] # {}
        BY <3>1 DEF WasAlertFired
      <4>. QED
        BY <1>0, <4>1, <4>2, <4>3
    <3>2. CASE ~WasAlertFired(v.asset)
      BY <1>5, <3>2 DEF CheckShadowAlert
    <3>. QED
      BY <3>1, <3>2
  <2>3. \A e \in event' \cup archived' : Announcing(e)'
    BY <1>0, <2>1, <2>2 DEF Announcing
  <2>. QED
    BY <1>0, <2>1, <2>2, <2>3 DEF AnnounceInv
<1>6. ASSUME NEW i \in sending, MarkAlertFired(i) PROVE AnnounceInv'
  <2>1. /\ sending' = {} /\ fired' = [fired EXCEPT ![i] = {now}]
        /\ UNCHANGED <<event, archived, lastCheck, engine, pending, alerted, gap>>
    BY <1>6 DEF MarkAlertFired
  <2>2. \A j \in AssetIds : fired'[j] # {} => j \in alerted
    BY <1>0, <2>1
  <2>3. \A e \in event' \cup archived' : Announcing(e)'
    BY <1>0, <2>1 DEF Announcing
  <2>. QED
    BY <1>0, <2>1, <2>2, <2>3 DEF AnnounceInv
<1>7. CASE CheckRaises
  <2>1. /\ engine' = "spikes" /\ engine = "shadow" /\ pending' = {} /\ sending' = {}
        /\ gap' = gap \cup pending
        /\ UNCHANGED <<event, archived, lastCheck, fired, alerted>>
    BY <1>7 DEF CheckRaises
  <2>2. \A e \in event' \cup archived' : Announcing(e)'
    BY <1>0, <2>1 DEF Announcing
  <2>. QED
    BY <1>0, <2>1, <2>2 DEF AnnounceInv
<1>8. CASE FinishChecks
  <2>1. /\ engine \in {"shadow", "spikes"} /\ pending = {} /\ engine' = "idle"
        /\ UNCHANGED <<event, archived, pending, fired, sending, alerted, gap>>
    BY <1>0, <1>8 DEF FinishChecks
  <2>2. \A e \in event' \cup archived' : Announcing(e)'
    BY <1>0, <2>1 DEF Announcing
  <2>. QED
    BY <1>0, <2>1, <2>2 DEF AnnounceInv
<1>9. CASE RestartEngine
  <2>1. /\ engine' = "idle" /\ pending' = {} /\ sending' = {}
        /\ gap' = gap \cup {e \in event \cup archived : e.asset \notin alerted}
        /\ UNCHANGED <<event, archived, fired, alerted>>
    BY <1>9 DEF RestartEngine
  <2>2. \A e \in event' \cup archived' : Announcing(e)'
    BY <1>0, <2>1 DEF Announcing
  <2>. QED
    BY <1>0, <2>1, <2>2 DEF AnnounceInv
<1>10. ASSUME NEW i \in AssetIds, PurgeOldFiredAlerts(i) PROVE AnnounceInv'
  <2>1. /\ fired' = [fired EXCEPT ![i] = {}]
        /\ UNCHANGED <<event, archived, lastCheck, engine, pending, sending, alerted, gap>>
    BY <1>10 DEF PurgeOldFiredAlerts
  <2>2. \A j \in AssetIds : fired'[j] # {} => j \in alerted
    BY <1>0, <2>1
  <2>3. \A e \in event' \cup archived' : Announcing(e)'
    BY <1>0, <2>1 DEF Announcing
  <2>. QED
    BY <1>0, <2>1, <2>2, <2>3 DEF AnnounceInv
<1>11. CASE ArchiveOldDiscoveryEvents
  <2>1. PICK old : old = {e \in event : e.at + ShadowWindow < now}
    OBVIOUS
  <2>2. /\ engine = "idle" /\ event' = event \ old /\ archived' = archived \cup old
        /\ gap' = gap \cup {e \in old : e.at >= lastCheck}
        /\ UNCHANGED <<lastCheck, engine, pending, fired, sending, alerted>>
    BY <1>11, <2>1 DEF ArchiveOldDiscoveryEvents
  <2>3. pending = {}
    BY <1>0, <2>2
  <2>4. \A e \in event' \cup archived' : Announcing(e)'
    BY <1>0, <2>1, <2>2 DEF Announcing
  <2>. QED
    BY <1>0, <2>2, <2>3, <2>4 DEF AnnounceInv
<1>. QED
  BY <1>2, <1>3, <1>4, <1>5, <1>6, <1>7, <1>8, <1>9, <1>10, <1>11 DEF DiscoveryNext, InventoryNext

\* Every step of the discovery keeps its invariant.
LEMMA DiscoveryStep == DiscoveryInv /\ DiscoveryNext => DiscoveryInv'
  BY TwinStep, DiscoveryShapeStep, OneEventStep, AnnounceStep DEF DiscoveryInv

\* It holds initially.
LEMMA DiscoveryBegin == DiscoveryInit => DiscoveryInv
<1>. SUFFICES ASSUME DiscoveryInit PROVE DiscoveryInv
  OBVIOUS
<1>1. /\ now = 0 /\ lastCheck = 0 /\ engine = "idle" /\ event = {} /\ archived = {}
      /\ asset = [i \in AssetIds |-> {}] /\ fired = [i \in AssetIds |-> {}]
      /\ detector = [d \in Detectors |-> Unoccupied]
      /\ pending = {} /\ sending = {} /\ alerted = {} /\ gap = {} /\ twin = {}
  BY DEF DiscoveryInit, Unoccupied
<1>2. Unoccupied.at = "idle" /\ Unoccupied \in DetectorStates
  BY DEF DetectorStates, Unoccupied
<1>3. 0 \in 0..MaxNow /\ 0 \in 0..0 /\ \A T : {} \in ZeroOrOne(T)
  BY DiscoveryAssumption DEF ZeroOrOne
<1>4. DiscoveryShape
  BY <1>1, <1>2, <1>3 DEF DiscoveryShape
<1>5. TwinInv
  <2>1. KnownAssets = {}
    BY <1>1 DEF KnownAssets
  <2>. QED
    BY <1>1, <1>2, <2>1 DEF TwinInv, NoShadowTwin
<1>6. OneEventInv
  BY <1>1, <1>2 DEF OneEventInv
<1>7. AnnounceInv
  BY <1>1 DEF AnnounceInv
<1>. QED
  BY <1>4, <1>5, <1>6, <1>7 DEF DiscoveryInv

\* A set of at most one element has at most one.
LEMMA AtMostOneCard == ASSUME NEW T, NEW A \in ZeroOrOne(T) PROVE Cardinality(A) <= 1
<1>1. CASE A = {}
  BY <1>1, FS_EmptySet
<1>2. ASSUME NEW x \in T, A = {x} PROVE Cardinality(A) <= 1
  <2>1. Cardinality({x}) = 1
    BY FS_Singleton
  <2>. QED
    BY <1>2, <2>1
<1>. QED
  BY <1>1, <1>2 DEF ZeroOrOne

\* What the run checks of the discovery.
LEMMA DiscoverySafe == DiscoveryInv => DiscoveryTypeOK /\ Announced /\ NoShadowTwin
<1>. SUFFICES ASSUME DiscoveryInv PROVE DiscoveryTypeOK /\ Announced /\ NoShadowTwin
  OBVIOUS
<1>1. DiscoveryShape /\ TwinInv /\ OneEventInv /\ AnnounceInv
  BY DEF DiscoveryInv
<1>2. DiscoveryTypeOK
  <2>1. \A i \in AssetIds : Cardinality(asset[i]) <= 1 /\ Cardinality(fired[i]) <= 1
    <3>. SUFFICES ASSUME NEW i \in AssetIds
                  PROVE  Cardinality(asset[i]) <= 1 /\ Cardinality(fired[i]) <= 1
      OBVIOUS
    <3>1. asset[i] \in ZeroOrOne(AssetRow) /\ fired[i] \in ZeroOrOne(Nat)
      BY <1>1 DEF DiscoveryShape
    <3>. QED
      BY <3>1, AtMostOneCard
  <2>. QED
    BY <1>1, <2>1 DEF DiscoveryTypeOK, DiscoveryShape, OneEventInv, AnnounceInv
<1>3. Announced
  <2>. SUFFICES ASSUME NEW e \in event \cup archived, e.at < lastCheck, engine = "idle"
                PROVE  e.asset \in alerted \/ e \in gap
    BY DEF Announced
  <2>1. e.at \in Nat /\ lastCheck \in Nat
    BY <1>1 DEF DiscoveryShape, EventRow
  <2>2. Announcing(e) /\ ~(e.at >= lastCheck)
    BY <1>1, <2>1 DEF AnnounceInv
  <2>. QED
    BY <2>2 DEF Announcing
<1>4. NoShadowTwin
  BY <1>1 DEF TwinInv
<1>. QED
  BY <1>2, <1>3, <1>4

-----------------------------------------------------------------------------
(* The alerts on budgets and caps (LocalAlerts).                           *)

BudgetCheckStates ==
    {AlertIdle}
    \cup [at : {"reading"}, day : Days, left : SUBSET Periods, found : SUBSET BudgetAlerts]
    \cup [at : {"dispatching"}, queue : SUBSET BudgetAlerts]
KeyReading == [at |-> "reading"]
KeyCheckStates == {AlertIdle, KeyReading} \cup [at : {"filing"}, alert : KeyAlerts]

AlertsShape ==
    /\ day \in Days
    /\ cost \in [Days -> Nat] /\ unstored \in [Days -> Nat]
    /\ \A d \in Days : /\ cost[d] + unstored[d] <= MaxUnits
                       /\ d > day => cost[d] = 0 /\ unstored[d] = 0
    /\ budgetCheck \in [Finishers -> BudgetCheckStates]
    /\ keyCheck \in [Finishers -> KeyCheckStates]
    /\ firedSet \cup seen \subseteq BudgetAlerts \cup KeyAlerts
    /\ sent \in [BudgetAlerts \cup KeyAlerts -> Nat]

\* An alert is remembered once it has been sent, and while it is not, a check
\* that read it holds it; no more checks hold or have sent it than there are.
Holding(a) == {c \in Finishers : budgetCheck[c].at = "dispatching" /\ a \in budgetCheck[c].queue}
BudgetAlertsInv ==
    \A a \in BudgetAlerts :
       /\ a \in firedSet <=> sent[a] > 0
       /\ a \in seen => sent[a] > 0 \/ Holding(a) # {}
       /\ sent[a] + Cardinality(Holding(a)) <= Cardinality(Finishers)

\* An entry of a day is that of an alert of the day, or of a check that read
\* before midnight; without such a check an alert is sent with its entry.
FilingOf(a) == \E c \in Finishers : keyCheck[c].at = "filing" /\ keyCheck[c].alert = a
KeyAlertsInv ==
    /\ strayed \subseteq Days
    /\ \A c \in Finishers : keyCheck[c].at = "filing" => keyCheck[c].alert.day <= day
    /\ \A a \in KeyAlerts :
          /\ a \in firedSet => sent[a] > 0 \/ a.day \in strayed
          /\ a \in seen => sent[a] > 0 \/ FilingOf(a) \/ \E d \in strayed : a.day <= d
          /\ strayed = {} => sent[a] <= 1 /\ (sent[a] > 0 => a \in firedSet)

AlertsInv == AlertsShape /\ BudgetAlertsInv /\ KeyAlertsInv

\* The start of a period is a day.
LEMMA PeriodStartDay == ASSUME NEW p \in Periods, NEW d \in Days PROVE PeriodStart(p, d) \in Days
<1>1. p \in Nat \ {0} /\ d \in Nat /\ d <= MaxDay /\ MaxDay \in Nat
  BY LocalAlertsAssumption DEF Days
<1>2. PICK q : q = d \div p
  OBVIOUS
<1>3. q \in Nat /\ q * p <= d
  BY <1>1, <1>2
<1>4. q * p \in Nat
  BY <1>1, <1>3
<1>. QED
  BY <1>1, <1>2, <1>3, <1>4 DEF PeriodStart, Days

\* What a reading finds are alerts.
LEMMA CrossedAlerts ==
    ASSUME NEW p \in Periods, NEW d \in Days PROVE Crossed(p, d) \subseteq BudgetAlerts
  BY PeriodStartDay DEF Crossed, BudgetAlerts

\* The two kinds of alerts differ.
LEMMA KindsDiffer ==
    /\ \A a \in BudgetAlerts : a.kind = "budget" /\ a \notin KeyAlerts
    /\ \A a \in KeyAlerts : a.kind = "key" /\ a \notin BudgetAlerts
<1>1. \A a \in BudgetAlerts : a.kind = "budget"
  BY DEF BudgetAlerts
<1>2. \A a \in KeyAlerts : a.kind = "key"
  BY DEF KeyAlerts
<1>. QED
  BY <1>1, <1>2

\* The check of a budget and that of a key are each at one of three places.
LEMMA AlertCheckHeld ==
    ASSUME AlertsShape, NEW c \in Finishers
    PROVE  /\ budgetCheck[c].at \in {"idle", "reading", "dispatching"}
           /\ budgetCheck[c].at = "reading" =>
                 budgetCheck[c] \in [at : {"reading"}, day : Days, left : SUBSET Periods,
                                     found : SUBSET BudgetAlerts]
           /\ budgetCheck[c].at = "dispatching" =>
                 budgetCheck[c] \in [at : {"dispatching"}, queue : SUBSET BudgetAlerts]
           /\ keyCheck[c].at \in {"idle", "reading", "filing"}
           /\ keyCheck[c].at = "filing" => keyCheck[c].alert \in KeyAlerts
<1>1. budgetCheck[c] \in BudgetCheckStates /\ keyCheck[c] \in KeyCheckStates
  BY DEF AlertsShape
<1>2. AlertIdle.at = "idle" /\ KeyReading.at = "reading"
  BY DEF AlertIdle, KeyReading
<1>3. /\ \A b \in [at : {"reading"}, day : Days, left : SUBSET Periods,
                   found : SUBSET BudgetAlerts] : b.at = "reading"
      /\ \A b \in [at : {"dispatching"}, queue : SUBSET BudgetAlerts] : b.at = "dispatching"
      /\ \A b \in [at : {"filing"}, alert : KeyAlerts] : b.at = "filing" /\ b.alert \in KeyAlerts
  OBVIOUS
<1>. QED
  BY <1>1, <1>2, <1>3 DEF BudgetCheckStates, KeyCheckStates

\* A step that leaves the history and the checks of budgets alone.
LEMMA BudgetAlertsStay ==
    ASSUME BudgetAlertsInv, UNCHANGED <<budgetCheck, firedSet, sent, seen>> PROVE BudgetAlertsInv'
<1>1. \A a : Holding(a)' = Holding(a)
  BY DEF Holding
<1>. QED
  BY <1>1 DEF BudgetAlertsInv

\* The same of keys.
LEMMA KeyAlertsStay ==
    ASSUME AlertsShape, KeyAlertsInv, UNCHANGED <<keyCheck, strayed>>, day' \in Nat, day <= day',
           \A a \in KeyAlerts : /\ a \in firedSet' <=> a \in firedSet
                                /\ sent'[a] = sent[a]
                                /\ a \in seen' <=> a \in seen
    PROVE  KeyAlertsInv'
<1>1. \A a : FilingOf(a)' <=> FilingOf(a)
  BY DEF FilingOf
<1>2. \A c \in Finishers : keyCheck'[c].at = "filing" => keyCheck'[c].alert.day <= day'
  <2>. SUFFICES ASSUME NEW c \in Finishers, keyCheck[c].at = "filing"
                PROVE  keyCheck[c].alert.day <= day'
    OBVIOUS
  <2>1. keyCheck[c].alert.day <= day /\ keyCheck[c].alert \in KeyAlerts
    BY AlertCheckHeld DEF KeyAlertsInv
  <2>2. keyCheck[c].alert.day \in Nat /\ day \in Nat
    BY <2>1, LocalAlertsAssumption DEF KeyAlerts, Days, AlertsShape
  <2>. QED
    BY <2>1, <2>2
<1>. QED
  BY <1>1, <1>2 DEF KeyAlertsInv

\* The checks of budgets, seen from the alerts on keys: none changes.
LEMMA KeyUntouched ==
    ASSUME AlertsShape, KeyAlertsInv, UNCHANGED <<day, keyCheck, strayed>>,
           NEW B \in SUBSET BudgetAlerts, NEW D \in SUBSET BudgetAlerts,
           firedSet' = firedSet \cup B, seen' = seen \cup D,
           \A a \in KeyAlerts : sent'[a] = sent[a]
    PROVE  KeyAlertsInv'
<1>1. \A a \in KeyAlerts : a \notin B /\ a \notin D
  BY KindsDiffer
<1>2. day \in Nat
  BY LocalAlertsAssumption DEF AlertsShape, Days
<1>. QED
  BY <1>1, <1>2, KeyAlertsStay

\* The other way round.
LEMMA BudgetUntouched ==
    ASSUME AlertsShape, BudgetAlertsInv, budgetCheck' = budgetCheck,
           NEW B \in SUBSET KeyAlerts, NEW D \in SUBSET KeyAlerts,
           firedSet' = firedSet \cup B, seen' = seen \cup D,
           \A a \in BudgetAlerts : sent'[a] = sent[a]
    PROVE  BudgetAlertsInv'
<1>1. \A a \in BudgetAlerts : a \notin B /\ a \notin D
  BY KindsDiffer
<1>2. \A a : Holding(a)' = Holding(a)
  BY DEF Holding
<1>. QED
  BY <1>1, <1>2 DEF BudgetAlertsInv

\* A check is one of finitely many.
LEMMA HoldingFinite ==
    /\ IsFiniteSet(Finishers) /\ Cardinality(Finishers) \in Nat
    /\ \A a : /\ IsFiniteSet(Holding(a)) /\ Cardinality(Holding(a)) \in Nat
              /\ Cardinality(Holding(a)) <= Cardinality(Finishers)
<1>1. IsFiniteSet(Finishers)
  BY LocalAlertsAssumption
<1>2. ASSUME NEW a
      PROVE  /\ IsFiniteSet(Holding(a)) /\ Cardinality(Holding(a)) \in Nat
             /\ Cardinality(Holding(a)) <= Cardinality(Finishers)
  <2>1. Holding(a) \subseteq Finishers
    BY DEF Holding
  <2>. QED
    BY <1>1, <2>1, FS_Subset, FS_CardinalityType
<1>. QED
  BY <1>1, <1>2, FS_CardinalityType

\* The beginning and the end of a request's checks, and what happens to the
\* table of requests.
LEMMA AlertsStepQuiet ==
    ASSUME AlertsInv,
           \/ Midnight \/ \E d \in Days : StoreUnit(d)
           \/ \E c \in Finishers : FinishRequest(c) \/ BudgetCheckDone(c) \/ KeyCheckFails(c)
    PROVE  AlertsInv'
<1>0. /\ AlertsShape /\ BudgetAlertsInv /\ KeyAlertsInv /\ MaxDay \in Nat /\ MaxUnits \in Nat
      /\ day \in Days /\ day \in Nat /\ cost \in [Days -> Nat] /\ unstored \in [Days -> Nat]
      /\ budgetCheck \in [Finishers -> BudgetCheckStates]
      /\ keyCheck \in [Finishers -> KeyCheckStates]
  BY LocalAlertsAssumption DEF AlertsInv, AlertsShape, Days
<1>1. CASE Midnight
  <2>1. /\ day' = day + 1 /\ day' \in Days
        /\ UNCHANGED <<cost, unstored, budgetCheck, keyCheck, firedSet, sent, seen, strayed>>
    BY <1>0, <1>1 DEF Midnight, Days
  <2>2. \A d \in Days : d > day' => d > day
    BY <1>0, <2>1 DEF Days
  <2>3. AlertsShape'
    BY <1>0, <2>1, <2>2 DEF AlertsShape
  <2>4. KeyAlertsInv'
    BY <1>0, <2>1, KeyAlertsStay
  <2>. QED
    BY <1>0, <2>1, <2>3, <2>4, BudgetAlertsStay DEF AlertsInv
<1>2. ASSUME NEW d \in Days, StoreUnit(d) PROVE AlertsInv'
  <2>1. /\ unstored[d] > 0 /\ unstored' = [unstored EXCEPT ![d] = @ - 1]
        /\ cost' = [cost EXCEPT ![d] = @ + 1]
        /\ UNCHANGED <<day, budgetCheck, keyCheck, firedSet, sent, seen, strayed>>
    BY <1>2 DEF StoreUnit
  <2>2. cost[d] \in Nat /\ unstored[d] \in Nat /\ unstored[d] - 1 \in Nat
    BY <1>0, <2>1
  <2>3. cost' \in [Days -> Nat] /\ unstored' \in [Days -> Nat]
    BY <1>0, <2>1, <2>2
  <2>4. \A x \in Days : cost'[x] + unstored'[x] <= MaxUnits
    <3>. SUFFICES ASSUME NEW x \in Days PROVE cost'[x] + unstored'[x] <= MaxUnits
      OBVIOUS
    <3>1. cost[x] + unstored[x] <= MaxUnits
      BY <1>0 DEF AlertsShape
    <3>2. CASE x = d
      <4>1. cost'[x] = cost[d] + 1 /\ unstored'[x] = unstored[d] - 1
        BY <1>0, <2>1, <3>2
      <4>. QED
        BY <2>2, <3>1, <3>2, <4>1
    <3>3. CASE x # d
      BY <1>0, <2>1, <3>1, <3>3
    <3>. QED
      BY <3>2, <3>3
  <2>5. ~(d > day)
    BY <2>1 DEF AlertsInv, AlertsShape
  <2>6. \A x \in Days : x > day' => cost'[x] = 0 /\ unstored'[x] = 0
    <3>. SUFFICES ASSUME NEW x \in Days, x > day PROVE cost'[x] = 0 /\ unstored'[x] = 0
      BY <2>1
    <3>1. x # d /\ cost[x] = 0 /\ unstored[x] = 0
      BY <1>0, <2>5 DEF AlertsShape
    <3>. QED
      BY <1>0, <2>1, <3>1
  <2>7. AlertsShape'
    BY <1>0, <2>1, <2>3, <2>4, <2>6 DEF AlertsShape
  <2>8. KeyAlertsInv'
    BY <1>0, <2>1, KeyAlertsStay
  <2>. QED
    BY <1>0, <2>1, <2>7, <2>8, BudgetAlertsStay DEF AlertsInv
<1>3. ASSUME NEW c \in Finishers, FinishRequest(c) PROVE AlertsInv'
  <2>1. PICK q : q = [at |-> "reading", day |-> day, left |-> Periods, found |-> {}]
    OBVIOUS
  <2>2. /\ budgetCheck[c] = AlertIdle /\ keyCheck[c] = AlertIdle
        /\ cost[day] + unstored[day] < MaxUnits
        /\ unstored' = [unstored EXCEPT ![day] = @ + 1]
        /\ budgetCheck' = [budgetCheck EXCEPT ![c] = q]
        /\ keyCheck' = [keyCheck EXCEPT ![c] = KeyReading]
        /\ UNCHANGED <<day, cost, firedSet, sent, seen, strayed>>
    BY <1>3, <2>1 DEF FinishRequest, KeyReading
  <2>3. q \in BudgetCheckStates /\ KeyReading \in KeyCheckStates /\ q.at = "reading"
        /\ KeyReading.at = "reading" /\ AlertIdle.at = "idle"
    BY <1>0, <2>1 DEF BudgetCheckStates, KeyCheckStates, KeyReading, AlertIdle
  <2>4. cost[day] \in Nat /\ unstored[day] \in Nat
    BY <1>0
  <2>5. unstored' \in [Days -> Nat]
    BY <1>0, <2>2, <2>4
  <2>6. \A x \in Days : cost[x] + unstored'[x] <= MaxUnits
    <3>. SUFFICES ASSUME NEW x \in Days PROVE cost[x] + unstored'[x] <= MaxUnits
      OBVIOUS
    <3>1. cost[x] + unstored[x] <= MaxUnits
      BY <1>0 DEF AlertsShape
    <3>2. CASE x = day
      <4>1. unstored'[x] = unstored[day] + 1
        BY <1>0, <2>2, <3>2
      <4>. QED
        BY <1>0, <2>2, <2>4, <3>2, <4>1
    <3>3. CASE x # day
      BY <1>0, <2>2, <3>1, <3>3
    <3>. QED
      BY <3>2, <3>3
  <2>7. \A x \in Days : x > day => cost[x] = 0 /\ unstored'[x] = 0
    <3>. SUFFICES ASSUME NEW x \in Days, x > day PROVE cost[x] = 0 /\ unstored'[x] = 0
      OBVIOUS
    <3>1. x # day /\ cost[x] = 0 /\ unstored[x] = 0
      BY <1>0 DEF AlertsShape
    <3>. QED
      BY <1>0, <2>2, <3>1
  <2>8. AlertsShape'
    BY <1>0, <2>2, <2>3, <2>5, <2>6, <2>7 DEF AlertsShape
  <2>9. \A a : Holding(a)' = Holding(a)
    BY <1>0, <2>2, <2>3 DEF Holding
  <2>10. BudgetAlertsInv'
    BY <1>0, <2>2, <2>9 DEF BudgetAlertsInv
  <2>11. \A a : FilingOf(a)' <=> FilingOf(a)
    BY <1>0, <2>2, <2>3 DEF FilingOf
  <2>12. \A f \in Finishers : keyCheck'[f].at = "filing" => keyCheck'[f].alert.day <= day
    BY <1>0, <2>2, <2>3 DEF KeyAlertsInv
  <2>13. KeyAlertsInv'
    BY <1>0, <2>2, <2>11, <2>12 DEF KeyAlertsInv
  <2>. QED
    BY <2>8, <2>10, <2>13 DEF AlertsInv
<1>4. ASSUME NEW c \in Finishers, BudgetCheckDone(c) PROVE AlertsInv'
  <2>1. /\ budgetCheck[c].queue = {} /\ budgetCheck' = [budgetCheck EXCEPT ![c] = AlertIdle]
        /\ UNCHANGED <<day, cost, unstored, keyCheck, firedSet, sent, seen, strayed>>
    BY <1>4 DEF BudgetCheckDone
  <2>2. AlertIdle \in BudgetCheckStates /\ AlertIdle.at = "idle"
    BY DEF BudgetCheckStates, AlertIdle
  <2>3. AlertsShape'
    BY <1>0, <2>1, <2>2 DEF AlertsShape
  <2>4. \A a : Holding(a)' = Holding(a)
    BY <1>0, <2>1, <2>2 DEF Holding
  <2>5. BudgetAlertsInv'
    BY <1>0, <2>1, <2>4 DEF BudgetAlertsInv
  <2>6. KeyAlertsInv'
    BY <1>0, <2>1, KeyAlertsStay
  <2>. QED
    BY <2>3, <2>5, <2>6 DEF AlertsInv
<1>5. ASSUME NEW c \in Finishers, KeyCheckFails(c) PROVE AlertsInv'
  <2>1. /\ keyCheck[c].at = "reading" /\ keyCheck' = [keyCheck EXCEPT ![c] = AlertIdle]
        /\ UNCHANGED <<day, cost, unstored, budgetCheck, firedSet, sent, seen, strayed>>
    BY <1>5 DEF KeyCheckFails
  <2>2. AlertIdle \in KeyCheckStates /\ AlertIdle.at = "idle"
    BY DEF KeyCheckStates, AlertIdle
  <2>3. AlertsShape'
    BY <1>0, <2>1, <2>2 DEF AlertsShape
  <2>4. \A a : FilingOf(a)' <=> FilingOf(a)
    BY <1>0, <2>1, <2>2 DEF FilingOf
  <2>5. \A f \in Finishers : keyCheck'[f].at = "filing" => keyCheck'[f].alert.day <= day
    BY <1>0, <2>1, <2>2 DEF KeyAlertsInv
  <2>6. KeyAlertsInv'
    BY <1>0, <2>1, <2>4, <2>5 DEF KeyAlertsInv
  <2>. QED
    BY <1>0, <2>1, <2>3, <2>6, BudgetAlertsStay DEF AlertsInv
<1>. QED
  BY <1>1, <1>2, <1>3, <1>4, <1>5

\* The reading of a period, the last of which fills the queue.
LEMMA AlertsStepRead ==
    ASSUME AlertsInv, NEW c \in Finishers, NEW p \in Periods, NEW ok \in BOOLEAN,
           ReadPeriod(c, p, ok)
    PROVE  AlertsInv'
<1>0. /\ AlertsShape /\ BudgetAlertsInv /\ KeyAlertsInv
      /\ budgetCheck \in [Finishers -> BudgetCheckStates]
  BY DEF AlertsInv, AlertsShape
<1>1. PICK b : b = budgetCheck[c]
  OBVIOUS
<1>2. PICK F : F = b.found \cup (IF ok THEN Crossed(p, b.day) ELSE {})
  OBVIOUS
<1>3. PICK L : L = b.left \ {p}
  OBVIOUS
<1>4. b.at = "reading"
  BY <1>1 DEF ReadPeriod
<1>5. b \in [at : {"reading"}, day : Days, left : SUBSET Periods, found : SUBSET BudgetAlerts]
  BY <1>0, <1>1, <1>4, AlertCheckHeld
<1>6. F \in SUBSET BudgetAlerts /\ L \in SUBSET Periods
  BY <1>2, <1>3, <1>5, CrossedAlerts
<1>7. UNCHANGED <<day, cost, unstored, keyCheck, firedSet, sent, strayed>>
  BY DEF ReadPeriod
<1>8. CASE L # {}
  <2>1. PICK q : q = [b EXCEPT !.left = L, !.found = F]
    OBVIOUS
  <2>2. budgetCheck' = [budgetCheck EXCEPT ![c] = q] /\ seen' = seen
    BY <1>1, <1>2, <1>3, <1>8, <2>1 DEF ReadPeriod
  <2>3. q = [at |-> "reading", day |-> b.day, left |-> L, found |-> F]
    BY <1>5, <2>1
  <2>4. q \in BudgetCheckStates /\ q.at = "reading"
    BY <1>5, <1>6, <2>3 DEF BudgetCheckStates
  <2>5. AlertsShape'
    BY <1>0, <1>7, <2>2, <2>4 DEF AlertsShape
  <2>6. \A a : Holding(a)' = Holding(a)
    BY <1>0, <1>1, <1>4, <2>2, <2>4 DEF Holding
  <2>7. BudgetAlertsInv'
    BY <1>0, <1>7, <2>2, <2>6 DEF BudgetAlertsInv
  <2>8. KeyAlertsInv'
    <3>1. firedSet' = firedSet \cup {} /\ seen' = seen \cup {} /\ {} \in SUBSET BudgetAlerts
      BY <1>7, <2>2
    <3>. QED
      BY <1>0, <1>7, <3>1, KeyUntouched
  <2>. QED
    BY <2>5, <2>7, <2>8 DEF AlertsInv
<1>9. CASE L = {}
  <2>1. PICK Q : Q = F \ firedSet
    OBVIOUS
  <2>2. PICK q : q = [at |-> "dispatching", queue |-> Q]
    OBVIOUS
  <2>3. budgetCheck' = [budgetCheck EXCEPT ![c] = q] /\ seen' = seen \cup F
    BY <1>1, <1>2, <1>3, <1>9, <2>1, <2>2 DEF ReadPeriod, NewAlerts
  <2>4. q \in BudgetCheckStates /\ q.at = "dispatching" /\ q.queue = Q
    BY <1>6, <2>1, <2>2 DEF BudgetCheckStates
  <2>5. AlertsShape'
    BY <1>0, <1>6, <1>7, <2>3, <2>4 DEF AlertsShape
  <2>6. \A a : Holding(a)' = IF a \in Q THEN Holding(a) \cup {c} ELSE Holding(a)
    BY <1>0, <1>1, <1>4, <2>3, <2>4 DEF Holding
  <2>7. ASSUME NEW a \in BudgetAlerts
        PROVE  /\ a \in firedSet' <=> sent'[a] > 0
               /\ a \in seen' => sent'[a] > 0 \/ Holding(a)' # {}
               /\ sent'[a] + Cardinality(Holding(a)') <= Cardinality(Finishers)
    <3>1. /\ a \in firedSet <=> sent[a] > 0
          /\ a \in seen => sent[a] > 0 \/ Holding(a) # {}
          /\ sent[a] + Cardinality(Holding(a)) <= Cardinality(Finishers)
          /\ sent[a] \in Nat
      BY <1>0, <2>7 DEF BudgetAlertsInv, AlertsShape
    <3>2. CASE a \in Q
      <4>1. sent[a] = 0
        BY <2>1, <3>1, <3>2
      <4>2. Holding(a)' = Holding(a) \cup {c} /\ Holding(a)' \subseteq Finishers
        BY <2>6, <3>2 DEF Holding
      <4>3. Cardinality(Holding(a)') <= Cardinality(Finishers) /\ Cardinality(Holding(a)') \in Nat
        BY <4>2, HoldingFinite, FS_Subset, FS_CardinalityType
      <4>. QED
        BY <1>7, <3>1, <4>1, <4>2, <4>3
    <3>3. CASE a \notin Q
      <4>1. Holding(a)' = Holding(a)
        BY <2>6, <3>3
      <4>2. a \in seen' => a \in seen \/ a \in firedSet
        BY <2>1, <2>3, <3>3
      <4>. QED
        BY <1>7, <3>1, <4>1, <4>2
    <3>. QED
      BY <3>2, <3>3
  <2>8. BudgetAlertsInv'
    BY <2>7 DEF BudgetAlertsInv
  <2>9. KeyAlertsInv'
    <3>1. firedSet' = firedSet \cup {} /\ {} \in SUBSET BudgetAlerts
      BY <1>7
    <3>. QED
      BY <1>0, <1>6, <1>7, <2>3, <3>1, KeyUntouched
  <2>. QED
    BY <2>5, <2>8, <2>9 DEF AlertsInv
<1>. QED
  BY <1>8, <1>9

\* An alert on a budget is sent: it passes from a queue to what is remembered.
LEMMA AlertsStepDispatch ==
    ASSUME AlertsInv, NEW c \in Finishers, NEW a, Dispatch(c, a)
    PROVE  AlertsInv'
<1>0. /\ AlertsShape /\ BudgetAlertsInv /\ KeyAlertsInv
      /\ budgetCheck \in [Finishers -> BudgetCheckStates]
      /\ sent \in [BudgetAlerts \cup KeyAlerts -> Nat]
  BY DEF AlertsInv, AlertsShape
<1>1. PICK b : b = budgetCheck[c]
  OBVIOUS
<1>2. PICK q : q = [b EXCEPT !.queue = b.queue \ {a}]
  OBVIOUS
<1>3. /\ b.at = "dispatching" /\ a \in b.queue /\ firedSet' = firedSet \cup {a}
      /\ sent' = [sent EXCEPT ![a] = @ + 1]
      /\ UNCHANGED <<day, cost, unstored, keyCheck, seen, strayed>>
  BY <1>1 DEF Dispatch
<1>4. budgetCheck' = [budgetCheck EXCEPT ![c] = q]
  BY <1>0, <1>1, <1>2 DEF Dispatch
<1>5. b \in [at : {"dispatching"}, queue : SUBSET BudgetAlerts] /\ a \in BudgetAlerts
  BY <1>0, <1>1, <1>3, AlertCheckHeld
<1>6. q \in BudgetCheckStates /\ q.at = "dispatching" /\ q.queue = b.queue \ {a}
  BY <1>2, <1>5 DEF BudgetCheckStates
<1>7. /\ sent' \in [BudgetAlerts \cup KeyAlerts -> Nat] /\ sent'[a] = sent[a] + 1
      /\ \A x \in BudgetAlerts \cup KeyAlerts : x # a => sent'[x] = sent[x]
      /\ sent[a] \in Nat
  BY <1>0, <1>3, <1>5
<1>8. AlertsShape'
  BY <1>0, <1>3, <1>4, <1>5, <1>6, <1>7 DEF AlertsShape
<1>9. /\ Holding(a)' = Holding(a) \ {c} /\ c \in Holding(a)
      /\ \A x : x # a => Holding(x)' = Holding(x)
  BY <1>0, <1>1, <1>3, <1>4, <1>6 DEF Holding
<1>10. Cardinality(Holding(a) \ {c}) = Cardinality(Holding(a)) - 1
  BY <1>9, HoldingFinite, FS_RemoveElement
<1>11. ASSUME NEW x \in BudgetAlerts
       PROVE  /\ x \in firedSet' <=> sent'[x] > 0
              /\ x \in seen' => sent'[x] > 0 \/ Holding(x)' # {}
              /\ sent'[x] + Cardinality(Holding(x)') <= Cardinality(Finishers)
  <2>1. /\ x \in firedSet <=> sent[x] > 0
        /\ x \in seen => sent[x] > 0 \/ Holding(x) # {}
        /\ sent[x] + Cardinality(Holding(x)) <= Cardinality(Finishers)
    BY <1>0 DEF BudgetAlertsInv
  <2>2. CASE x = a
    <3>1. sent'[a] > 0 /\ a \in firedSet'
      BY <1>3, <1>7
    <3>2. Cardinality(Holding(a)') = Cardinality(Holding(a)) - 1
      BY <1>9, <1>10
    <3>3. sent'[a] + Cardinality(Holding(a)') <= Cardinality(Finishers)
      BY <1>7, <2>1, <2>2, <3>2, HoldingFinite
    <3>. QED
      BY <2>2, <3>1, <3>3
  <2>3. CASE x # a
    <3>1. sent'[x] = sent[x] /\ Holding(x)' = Holding(x) /\ (x \in firedSet' <=> x \in firedSet)
      BY <1>3, <1>7, <1>9, <2>3
    <3>. QED
      BY <1>3, <2>1, <3>1
  <2>. QED
    BY <2>2, <2>3
<1>12. KeyAlertsInv'
  <2>1. {a} \in SUBSET BudgetAlerts /\ {} \in SUBSET BudgetAlerts /\ seen' = seen \cup {}
    BY <1>3, <1>5
  <2>2. \A x \in KeyAlerts : sent'[x] = sent[x]
    BY <1>5, <1>7, KindsDiffer
  <2>. QED
    BY <1>0, <1>3, <2>1, <2>2, KeyUntouched
<1>13. BudgetAlertsInv'
  BY <1>11 DEF BudgetAlertsInv
<1>. QED
  BY <1>8, <1>12, <1>13 DEF AlertsInv

\* A level is the highest reached.
LEMMA HighestLevel ==
    ASSUME NEW R \in SUBSET Levels, R # {} PROVE Max(R) \in Levels
<1>1. PICK f : f = [l \in Levels |-> l]
  OBVIOUS
<1>2. IsFiniteSet(R)
  BY LocalAlertsAssumption, FS_Subset
<1>3. \A l \in R : f[l] = l /\ f[l] \in Int
  BY <1>1, LocalAlertsAssumption
<1>4. Max({f[l] : l \in R}) \in {f[l] : l \in R}
  BY <1>2, <1>3, MaxValue
<1>5. {f[l] : l \in R} = R
  BY <1>3
<1>. QED
  BY <1>4, <1>5

\* The reading of a key's spend.
LEMMA AlertsStepReadKey ==
    ASSUME AlertsInv, NEW c \in Finishers, ReadKeySpend(c)
    PROVE  AlertsInv'
<1>0. /\ AlertsShape /\ BudgetAlertsInv /\ KeyAlertsInv
      /\ keyCheck \in [Finishers -> KeyCheckStates] /\ day \in Days
  BY DEF AlertsInv, AlertsShape
<1>1. PICK R : R = {l \in Levels : cost[day] >= l}
  OBVIOUS
<1>2. PICK a : a = [kind |-> "key", day |-> day, level |-> Max(R)]
  OBVIOUS
<1>3. keyCheck[c].at = "reading" /\ UNCHANGED <<day, cost, unstored, budgetCheck, firedSet, sent, strayed>>
  BY DEF ReadKeySpend
<1>4. PICK q : /\ keyCheck' = [keyCheck EXCEPT ![c] = q]
               /\ \/ R = {} /\ q = AlertIdle /\ seen' = seen
                  \/ R # {} /\ q = [at |-> "filing", alert |-> a] /\ seen' = seen \cup {a}
  <2>1. CASE R = {}
    BY <1>1, <2>1 DEF ReadKeySpend
  <2>2. CASE R # {}
    BY <1>1, <1>2, <2>2 DEF ReadKeySpend
  <2>. QED
    BY <2>1, <2>2
<1>5. R # {} => a \in KeyAlerts /\ a.day = day
  BY <1>0, <1>1, <1>2, HighestLevel DEF KeyAlerts
<1>6. q \in KeyCheckStates /\ (q.at = "filing" => R # {} /\ q.alert = a)
  BY <1>4, <1>5 DEF KeyCheckStates, AlertIdle
<1>7. seen' = seen \cup (IF R = {} THEN {} ELSE {a}) /\ (IF R = {} THEN {} ELSE {a}) \in SUBSET KeyAlerts
  BY <1>4, <1>5
<1>8. AlertsShape'
  BY <1>0, <1>3, <1>4, <1>6, <1>7 DEF AlertsShape
<1>9. BudgetAlertsInv'
  <2>1. firedSet' = firedSet \cup {} /\ {} \in SUBSET KeyAlerts
    BY <1>3
  <2>. QED
    BY <1>0, <1>3, <1>7, <2>1, BudgetUntouched
<1>10. KeyAlertsInv'
  <2>1. \A f \in Finishers : keyCheck'[f].at = "filing" => keyCheck'[f].alert.day <= day'
    <3>1. day \in Nat
      BY <1>0, LocalAlertsAssumption DEF Days
    <3>. QED
      BY <1>0, <1>3, <1>4, <1>5, <1>6, <3>1 DEF KeyAlertsInv
  <2>2. \A x : FilingOf(x) => FilingOf(x)'
    BY <1>0, <1>3, <1>4 DEF FilingOf
  <2>3. R # {} => FilingOf(a)'
    <3>1. R # {} => keyCheck'[c] = [at |-> "filing", alert |-> a]
      BY <1>0, <1>4
    <3>. QED
      BY <3>1 DEF FilingOf
  <2>4. \A x \in KeyAlerts : x \in seen' => x \in seen \/ (R # {} /\ x = a)
    BY <1>4
  <2>5. \A x \in KeyAlerts : x \in seen' =>
           sent'[x] > 0 \/ FilingOf(x)' \/ \E d \in strayed' : x.day <= d
    BY <1>0, <1>3, <2>2, <2>3, <2>4 DEF KeyAlertsInv
  <2>. QED
    BY <1>0, <1>3, <2>1, <2>5 DEF KeyAlertsInv
<1>. QED
  BY <1>8, <1>9, <1>10 DEF AlertsInv

\* An alert on a key is filed: under its day, or after midnight under the next.
LEMMA AlertsStepFile ==
    ASSUME AlertsInv, NEW c \in Finishers, FileKeyAlert(c)
    PROVE  AlertsInv'
<1>0. /\ AlertsShape /\ BudgetAlertsInv /\ KeyAlertsInv
      /\ keyCheck \in [Finishers -> KeyCheckStates] /\ day \in Days
      /\ sent \in [BudgetAlerts \cup KeyAlerts -> Nat] /\ strayed \subseteq Days
      /\ Days \subseteq Nat
  BY LocalAlertsAssumption DEF AlertsInv, AlertsShape, KeyAlertsInv, Days
<1>1. PICK a : a = keyCheck[c].alert
  OBVIOUS
<1>2. PICK f : f = [a EXCEPT !.day = day]
  OBVIOUS
<1>3. /\ keyCheck[c].at = "filing" /\ keyCheck' = [keyCheck EXCEPT ![c] = AlertIdle]
      /\ strayed' = IF a.day = day THEN strayed ELSE strayed \cup {day}
      /\ UNCHANGED <<day, cost, unstored, budgetCheck, seen>>
  BY <1>1 DEF FileKeyAlert
<1>4. a \in KeyAlerts /\ a.day <= day /\ a.day \in Nat
  BY <1>0, <1>1, <1>3, AlertCheckHeld DEF KeyAlertsInv, KeyAlerts
<1>5. f \in KeyAlerts /\ f.day = day /\ (a.day = day => f = a)
  BY <1>0, <1>2, <1>4 DEF KeyAlerts
<1>6. \/ f \in firedSet /\ UNCHANGED <<firedSet, sent>>
      \/ /\ f \notin firedSet /\ firedSet' = firedSet \cup {f}
         /\ sent' = [sent EXCEPT ![a] = @ + 1]
  BY <1>1, <1>2 DEF FileKeyAlert, Filed
<1>7. AlertIdle \in KeyCheckStates /\ AlertIdle.at = "idle"
  BY DEF KeyCheckStates, AlertIdle
<1>8. /\ sent' \in [BudgetAlerts \cup KeyAlerts -> Nat]
      /\ \A x \in BudgetAlerts \cup KeyAlerts : x # a => sent'[x] = sent[x]
      /\ sent'[a] = IF f \in firedSet THEN sent[a] ELSE sent[a] + 1
      /\ sent[a] \in Nat /\ sent'[a] >= sent[a]
      /\ firedSet' = firedSet \cup {f}
  <2>1. sent[a] \in Nat
    BY <1>0, <1>4
  <2>2. CASE f \in firedSet
    BY <1>0, <1>6, <2>1, <2>2
  <2>3. CASE f \notin firedSet
    BY <1>0, <1>4, <1>6, <2>1, <2>3
  <2>. QED
    BY <2>2, <2>3
<1>9. AlertsShape'
  BY <1>0, <1>3, <1>5, <1>7, <1>8 DEF AlertsShape
<1>10. BudgetAlertsInv'
  <2>1. {f} \in SUBSET KeyAlerts /\ {} \in SUBSET KeyAlerts /\ seen' = seen \cup {}
    BY <1>3, <1>5
  <2>2. \A x \in BudgetAlerts : sent'[x] = sent[x]
    BY <1>4, <1>8, KindsDiffer
  <2>. QED
    BY <1>0, <1>3, <1>8, <2>1, <2>2, BudgetUntouched
<1>11. \A x \in KeyAlerts : sent[x] > 0 => sent'[x] > 0
  BY <1>8
<1>12. strayed \subseteq strayed' /\ strayed' \subseteq Days /\ (a.day # day => day \in strayed')
  BY <1>0, <1>3
<1>13. sent'[a] > 0 \/ \E d \in strayed' : a.day <= d
  <2>1. CASE a.day # day
    BY <1>4, <1>12, <2>1
  <2>2. CASE a.day = day /\ f \in firedSet
    <3>1. sent[a] > 0 \/ a.day \in strayed
      BY <1>0, <1>4, <1>5, <2>2 DEF KeyAlertsInv
    <3>. QED
      BY <1>4, <1>11, <1>12, <3>1
  <2>3. CASE f \notin firedSet
    BY <1>8, <2>3
  <2>. QED
    BY <2>1, <2>2, <2>3
<1>14. \A g \in Finishers : keyCheck'[g].at = "filing" =>
          g # c /\ keyCheck'[g] = keyCheck[g]
  BY <1>0, <1>3, <1>7
<1>15. \A x : FilingOf(x) => FilingOf(x)' \/ x = a
  BY <1>0, <1>1, <1>3 DEF FilingOf
<1>16. ASSUME NEW x \in KeyAlerts
       PROVE  /\ x \in firedSet' => sent'[x] > 0 \/ x.day \in strayed'
              /\ x \in seen' => sent'[x] > 0 \/ FilingOf(x)' \/ \E d \in strayed' : x.day <= d
              /\ strayed' = {} => sent'[x] <= 1 /\ (sent'[x] > 0 => x \in firedSet')
  <2>1. /\ x \in firedSet => sent[x] > 0 \/ x.day \in strayed
        /\ x \in seen => sent[x] > 0 \/ FilingOf(x) \/ \E d \in strayed : x.day <= d
        /\ strayed = {} => sent[x] <= 1 /\ (sent[x] > 0 => x \in firedSet)
    BY <1>0 DEF KeyAlertsInv
  <2>2. x \in firedSet' => sent'[x] > 0 \/ x.day \in strayed'
    <3>1. CASE x \in firedSet
      BY <1>11, <1>12, <2>1, <3>1
    <3>2. CASE x \notin firedSet /\ x \in firedSet'
      <4>1. x = f /\ f \notin firedSet
        BY <1>8, <3>2
      <4>2. a.day = day => x = a /\ sent'[a] > 0
        BY <1>5, <1>8, <4>1
      <4>3. a.day # day => x.day \in strayed'
        BY <1>5, <1>12, <4>1
      <4>. QED
        BY <4>2, <4>3
    <3>. QED
      BY <3>1, <3>2
  <2>3. x \in seen' => sent'[x] > 0 \/ FilingOf(x)' \/ \E d \in strayed' : x.day <= d
    BY <1>3, <1>11, <1>12, <1>13, <1>15, <2>1
  <2>4. ASSUME strayed' = {} PROVE sent'[x] <= 1 /\ (sent'[x] > 0 => x \in firedSet')
    <3>1. strayed = {} /\ a.day = day /\ f = a
      BY <1>5, <1>12, <2>4
    <3>2. CASE x = a
      <4>1. CASE f \in firedSet
        BY <1>8, <2>1, <3>1, <3>2, <4>1
      <4>2. CASE f \notin firedSet
        <5>1. sent[a] = 0
          BY <1>8, <2>1, <3>1, <3>2, <4>2
        <5>2. sent'[a] = 1 /\ a \in firedSet'
          BY <1>8, <3>1, <4>2, <5>1
        <5>. QED
          BY <3>2, <5>2
      <4>. QED
        BY <4>1, <4>2
    <3>3. CASE x # a
      BY <1>8, <2>1, <3>1, <3>3
    <3>. QED
      BY <3>2, <3>3
  <2>. QED
    BY <2>2, <2>3, <2>4
<1>17. KeyAlertsInv'
  <2>1. \A g \in Finishers : keyCheck'[g].at = "filing" => keyCheck'[g].alert.day <= day'
    BY <1>0, <1>3, <1>14 DEF KeyAlertsInv
  <2>. QED
    BY <1>12, <1>16, <2>1 DEF KeyAlertsInv
<1>. QED
  BY <1>9, <1>10, <1>17 DEF AlertsInv

\* The proxy restarts and has forgotten everything.
LEMMA AlertsStepRestart == ASSUME AlertsInv, RestartProxy PROVE AlertsInv'
<1>0. AlertsShape
  BY DEF AlertsInv
<1>1. /\ budgetCheck' = [c \in Finishers |-> AlertIdle] /\ keyCheck' = [c \in Finishers |-> AlertIdle]
      /\ firedSet' = {} /\ seen' = {} /\ strayed' = {} /\ sent' = [a \in DOMAIN sent |-> 0]
      /\ UNCHANGED <<day, cost, unstored>>
  BY DEF RestartProxy
<1>2. /\ AlertIdle \in BudgetCheckStates /\ AlertIdle \in KeyCheckStates /\ AlertIdle.at = "idle"
  BY DEF BudgetCheckStates, KeyCheckStates, AlertIdle
<1>3. /\ sent' \in [BudgetAlerts \cup KeyAlerts -> Nat]
      /\ \A a \in BudgetAlerts \cup KeyAlerts : sent'[a] = 0
  BY <1>0, <1>1 DEF AlertsShape
<1>4. AlertsShape'
  BY <1>0, <1>1, <1>2, <1>3 DEF AlertsShape
<1>5. BudgetAlertsInv'
  <2>. SUFFICES ASSUME NEW a \in BudgetAlerts
                PROVE  /\ a \in firedSet' <=> sent'[a] > 0
                       /\ a \in seen' => sent'[a] > 0 \/ Holding(a)' # {}
                       /\ sent'[a] + Cardinality(Holding(a)') <= Cardinality(Finishers)
    BY DEF BudgetAlertsInv
  <2>1. Holding(a)' = {}
    BY <1>1, <1>2 DEF Holding
  <2>2. Cardinality(Holding(a)') = 0
    BY <2>1, FS_EmptySet
  <2>. QED
    BY <1>1, <1>3, <2>2, HoldingFinite
<1>6. KeyAlertsInv'
  <2>1. \A g \in Finishers : keyCheck'[g].at # "filing"
    BY <1>1, <1>2
  <2>. QED
    BY <1>1, <1>3, <2>1 DEF KeyAlertsInv
<1>. QED
  BY <1>4, <1>5, <1>6 DEF AlertsInv

\* Every step of the alerts keeps their invariant.
LEMMA AlertsStep == AlertsInv /\ LocalAlertsNext => AlertsInv'
<1>. SUFFICES ASSUME AlertsInv, LocalAlertsNext PROVE AlertsInv'
  OBVIOUS
<1>1. ASSUME NEW c \in Finishers, NEW a, Dispatch(c, a) PROVE AlertsInv'
  BY <1>1, AlertsStepDispatch
<1>2. ASSUME NEW c \in Finishers, ReadKeySpend(c) \/ FileKeyAlert(c) PROVE AlertsInv'
  BY <1>2, AlertsStepReadKey, AlertsStepFile
<1>. QED
  BY <1>1, <1>2, AlertsStepQuiet, AlertsStepRead, AlertsStepRestart DEF LocalAlertsNext

\* It holds initially.
LEMMA AlertsBegin == LocalAlertsInit => AlertsInv
<1>. SUFFICES ASSUME LocalAlertsInit PROVE AlertsInv
  OBVIOUS
<1>1. /\ day = 0 /\ cost = [d \in Days |-> 0] /\ unstored = [d \in Days |-> 0]
      /\ budgetCheck = [c \in Finishers |-> AlertIdle] /\ keyCheck = [c \in Finishers |-> AlertIdle]
      /\ firedSet = {} /\ seen = {} /\ strayed = {}
      /\ sent = [a \in BudgetAlerts \cup KeyAlerts |-> 0]
  BY DEF LocalAlertsInit
<1>2. /\ AlertIdle \in BudgetCheckStates /\ AlertIdle \in KeyCheckStates /\ AlertIdle.at = "idle"
      /\ 0 \in Days /\ MaxUnits \in Nat
  BY LocalAlertsAssumption DEF BudgetCheckStates, KeyCheckStates, AlertIdle, Days
<1>3. \A d \in Days : cost[d] + unstored[d] <= MaxUnits
  BY <1>1, <1>2
<1>4. AlertsShape
  BY <1>1, <1>2, <1>3 DEF AlertsShape
<1>5. BudgetAlertsInv
  <2>. SUFFICES ASSUME NEW a \in BudgetAlerts
                PROVE  /\ a \in firedSet <=> sent[a] > 0
                       /\ a \in seen => sent[a] > 0 \/ Holding(a) # {}
                       /\ sent[a] + Cardinality(Holding(a)) <= Cardinality(Finishers)
    BY DEF BudgetAlertsInv
  <2>1. Holding(a) = {}
    BY <1>1, <1>2 DEF Holding
  <2>2. Cardinality(Holding(a)) = 0
    BY <2>1, FS_EmptySet
  <2>. QED
    BY <1>1, <2>2, HoldingFinite
<1>6. KeyAlertsInv
  BY <1>1, <1>2 DEF KeyAlertsInv
<1>. QED
  BY <1>4, <1>5, <1>6 DEF AlertsInv

\* What the run checks of the alerts.
LEMMA AlertsSafe ==
    AlertsInv => LocalAlertsTypeOK /\ BudgetCrossingSent /\ KeyCrossingSent /\ RepeatsBounded
<1>. SUFFICES ASSUME AlertsInv
              PROVE  LocalAlertsTypeOK /\ BudgetCrossingSent /\ KeyCrossingSent /\ RepeatsBounded
  OBVIOUS
<1>0. AlertsShape /\ BudgetAlertsInv /\ KeyAlertsInv
  BY DEF AlertsInv
<1>1. LocalAlertsTypeOK
  <2>1. \A c \in Finishers : budgetCheck[c].at \in {"idle", "reading", "dispatching"}
    BY <1>0, AlertCheckHeld
  <2>. QED
    BY <1>0, <2>1 DEF LocalAlertsTypeOK, AlertsShape
<1>2. BudgetCrossingSent
  BY <1>0 DEF BudgetCrossingSent, BudgetAlertsInv, Holding
<1>3. KeyCrossingSent
  BY <1>0 DEF KeyCrossingSent, KeyAlertsInv, FilingOf
<1>4. RepeatsBounded
  <2>. SUFFICES ASSUME NEW a \in BudgetAlerts \cup KeyAlerts
                PROVE  /\ a.kind = "budget" => sent[a] <= Cardinality(Finishers)
                       /\ a.kind = "key" => sent[a] <= 1 \/ strayed # {}
    BY <1>0 DEF RepeatsBounded, AlertsShape
  <2>1. CASE a \in BudgetAlerts
    <3>1. sent[a] + Cardinality(Holding(a)) <= Cardinality(Finishers) /\ sent[a] \in Nat
      BY <1>0, <2>1 DEF BudgetAlertsInv, AlertsShape
    <3>. QED
      BY <2>1, <3>1, HoldingFinite, KindsDiffer
  <2>2. CASE a \in KeyAlerts
    BY <1>0, <2>2, KindsDiffer DEF KeyAlertsInv
  <2>. QED
    BY <2>1, <2>2
<1>. QED
  BY <1>1, <1>2, <1>3, <1>4

-----------------------------------------------------------------------------
(* The checks of anomalies (Anomaly).                                      *)

CheckStates ==
    {NoCheck} \cup [pc : {"ask", "insert", "mark", "known", "sent"},
                    signal : Signals, at : 1..LastHour]

AnomalyShape ==
    /\ hour \in 1..LastHour /\ Len(traffic) = hour /\ traffic \in Seq(Hours)
    /\ checks \in [Checkers -> CheckStates]
    /\ \A c \in Checkers : checks[c].pc # "idle" => checks[c].at <= hour
    /\ firedAlerts \subseteq [signal : Signals, at : 1..LastHour]
    /\ \A f \in firedAlerts : f.at <= hour
    /\ anomalyEvents \in [Signals -> [1..LastHour -> Nat]]
    /\ lost \in 0..MaxLost
    /\ sample \in Seq(0..SampleMax)

\* A dedup row, and a check about to write one, has an event behind it.
InsertedBy(s, h) == \E k \in 1..LastHour : k <= h /\ anomalyEvents[s][k] > 0
AnnouncedInv ==
    /\ \A f \in firedAlerts : InsertedBy(f.signal, f.at)
    /\ \A c \in Checkers : checks[c].pc = "mark" => InsertedBy(checks[c].signal, hour)
    /\ KnownMeansAnnounced

\* Until the row of the hour is written, an event of the hour is that of a
\* check about to write it, or a failure; checks about to insert have room.
Inserting(s) == {c \in Checkers : checks[c].pc = "insert" /\ checks[c].signal = s}
Marking(s) == {c \in Checkers : checks[c].pc = "mark" /\ checks[c].signal = s}
MarkedNow(s) == \E f \in firedAlerts : f.signal = s /\ f.at = hour
RepeatsInv ==
    \A s \in Signals :
       /\ \A h \in 1..LastHour : h > hour => anomalyEvents[s][h] = 0
       /\ ~MarkedNow(s) => anomalyEvents[s][hour] <= Cardinality(Marking(s)) + lost
       /\ anomalyEvents[s][hour] + Cardinality(Inserting(s)) <= Cardinality(Checkers) + lost
       /\ \A h \in 1..LastHour : anomalyEvents[s][h] <= Cardinality(Checkers) + lost

AnomalyInv == AnomalyShape /\ AnnouncedInv /\ RepeatsInv

\* A verdict is a signal.
LEMMA VerdictSignals == \A hours : AgentVerdict(hours) \subseteq Signals
  BY Zenon DEF AgentVerdict, Signals

\* A check is idle or has its signal and its hour.
LEMMA CheckerHeld ==
    ASSUME AnomalyShape, NEW c \in Checkers
    PROVE  /\ checks[c].pc \in {"idle", "ask", "insert", "mark", "known", "sent"}
           /\ checks[c].pc = "idle" => checks[c] = NoCheck
           /\ checks[c].pc # "idle" => /\ checks[c].signal \in Signals /\ checks[c].at \in 1..LastHour
                                       /\ checks[c] \in [pc : {"ask", "insert", "mark", "known", "sent"},
                                                         signal : Signals, at : 1..LastHour]
<1>1. checks[c] \in CheckStates
  BY DEF AnomalyShape
<1>2. NoCheck.pc = "idle"
  BY DEF NoCheck
<1>. QED
  BY <1>1, <1>2 DEF CheckStates

\* A check that goes to another place, and the sets it joins and leaves.
LEMMA DetectorMoves ==
    ASSUME AnomalyShape, NEW c \in Checkers, NEW q \in CheckStates,
           checks' = [checks EXCEPT ![c] = q]
    PROVE  /\ checks' \in [Checkers -> CheckStates]
           /\ checks'[c] = q /\ \A d \in Checkers \ {c} : checks'[d] = checks[d]
           /\ \A s : /\ q.pc = "insert" /\ q.signal = s => Inserting(s)' = Inserting(s) \cup {c}
                     /\ ~(q.pc = "insert" /\ q.signal = s) => Inserting(s)' = Inserting(s) \ {c}
                     /\ q.pc = "mark" /\ q.signal = s => Marking(s)' = Marking(s) \cup {c}
                     /\ ~(q.pc = "mark" /\ q.signal = s) => Marking(s)' = Marking(s) \ {c}
<1>1. checks \in [Checkers -> CheckStates]
  BY DEF AnomalyShape
<1>2. /\ checks' \in [Checkers -> CheckStates]
      /\ checks'[c] = q /\ \A d \in Checkers \ {c} : checks'[d] = checks[d]
  BY <1>1
<1>. QED
  BY <1>2 DEF Inserting, Marking

\* The sets of checks are finite, and adding or removing one counts.
LEMMA DetectorsCount ==
    ASSUME NEW S \in SUBSET Checkers, NEW c \in Checkers
    PROVE  /\ Cardinality(S) \in Nat /\ Cardinality(S) <= Cardinality(Checkers)
           /\ Cardinality(Checkers) \in Nat
           /\ Cardinality(S \cup {c}) = IF c \in S THEN Cardinality(S) ELSE Cardinality(S) + 1
           /\ Cardinality(S \ {c}) = IF c \in S THEN Cardinality(S) - 1 ELSE Cardinality(S)
<1>1. IsFiniteSet(Checkers)
  BY AnomalyAssumption
<1>2. IsFiniteSet(S) /\ Cardinality(S) <= Cardinality(Checkers)
  BY <1>1, FS_Subset
<1>. QED
  BY <1>1, <1>2, FS_CardinalityType, FS_AddElement, FS_RemoveElement

\* A step that leaves the events and the dedup rows alone, and after which no
\* more checks are about to insert, but for a failure, and none fewer to mark.
LEMMA RepeatsStay ==
    ASSUME AnomalyShape, RepeatsInv, UNCHANGED <<hour, firedAlerts, anomalyEvents>>,
           lost' \in Nat, lost <= lost',
           \A s \in Signals :
              /\ Cardinality(Marking(s)) + lost <= Cardinality(Marking(s)') + lost'
              /\ Cardinality(Inserting(s)') + lost <= Cardinality(Inserting(s)) + lost',
           \A s \in Signals :
              /\ Cardinality(Marking(s)') \in Nat /\ Cardinality(Inserting(s)') \in Nat
              /\ Cardinality(Marking(s)) \in Nat /\ Cardinality(Inserting(s)) \in Nat,
           Cardinality(Checkers) \in Nat
    PROVE  RepeatsInv'
<1>. SUFFICES ASSUME NEW s \in Signals
     PROVE  /\ \A h \in 1..LastHour : h > hour => anomalyEvents[s][h] = 0
            /\ ~MarkedNow(s) => anomalyEvents[s][hour] <= Cardinality(Marking(s)') + lost'
            /\ anomalyEvents[s][hour] + Cardinality(Inserting(s)') <= Cardinality(Checkers) + lost'
            /\ \A h \in 1..LastHour : anomalyEvents[s][h] <= Cardinality(Checkers) + lost'
  BY DEF RepeatsInv, MarkedNow
<1>1. PICK m, n, m1, n1, k : /\ m = Cardinality(Marking(s)) /\ n = Cardinality(Inserting(s))
                             /\ m1 = Cardinality(Marking(s)') /\ n1 = Cardinality(Inserting(s)')
                             /\ k = Cardinality(Checkers)
  OBVIOUS
<1>2. m \in Nat /\ n \in Nat /\ m1 \in Nat /\ n1 \in Nat /\ k \in Nat /\ lost \in Nat
  BY <1>1 DEF AnomalyShape
<1>3. \A h \in 1..LastHour : anomalyEvents[s][h] \in Nat
  BY DEF AnomalyShape
<1>4. hour \in 1..LastHour
  BY DEF AnomalyShape
<1>5. /\ \A h \in 1..LastHour : h > hour => anomalyEvents[s][h] = 0
      /\ ~MarkedNow(s) => anomalyEvents[s][hour] <= m + lost
      /\ anomalyEvents[s][hour] + n <= k + lost
      /\ \A h \in 1..LastHour : anomalyEvents[s][h] <= k + lost
  BY <1>1 DEF RepeatsInv
<1>6. m + lost <= m1 + lost' /\ n1 + lost <= n + lost'
  BY <1>1
<1>7. \A h \in 1..LastHour : anomalyEvents[s][h] <= k + lost'
  BY <1>2, <1>3, <1>5
<1>e. PICK e, l, l1 : e = anomalyEvents[s][hour] /\ l = lost /\ l1 = lost'
  OBVIOUS
<1>f. e \in Nat /\ l \in Nat /\ l1 \in Nat /\ e + n <= k + l /\ (~MarkedNow(s) => e <= m + l)
  BY <1>2, <1>3, <1>4, <1>5, <1>e
<1>g. m + l <= m1 + l1 /\ n1 + l <= n + l1
  BY <1>6, <1>e
<1>h. e + n1 <= k + l1
  BY <1>2, <1>f, <1>g
<1>i. ASSUME e <= m + l PROVE e <= m1 + l1
  BY <1>2, <1>f, <1>g, <1>i
<1>8. anomalyEvents[s][hour] + n1 <= k + lost'
  BY <1>e, <1>h
<1>9. ~MarkedNow(s) => anomalyEvents[s][hour] <= m1 + lost'
  BY <1>e, <1>f, <1>i
<1>. QED
  BY <1>1, <1>5, <1>7, <1>8, <1>9

\* A step of a check that only moves it, and may count a failure.
LEMMA AnomalyMove ==
    ASSUME AnomalyInv, NEW c \in Checkers, NEW q \in CheckStates,
           checks' = [checks EXCEPT ![c] = q],
           UNCHANGED <<hour, traffic, firedAlerts, anomalyEvents, sample>>,
           lost' \in 0..MaxLost, lost <= lost',
           q.pc # "idle" => q.at <= hour,
           q.pc = "mark" => InsertedBy(q.signal, hour),
           q.pc = "known" =>
             \E h \in 1..LastHour :
                /\ anomalyEvents[q.signal][h] > 0
                /\ \E f \in firedAlerts : f.signal = q.signal /\ h <= f.at /\ f.at >= q.at - 1
    PROVE  AnomalyShape' /\ AnnouncedInv'
<1>. USE DEF AnomalyInv
<1>1. /\ checks' \in [Checkers -> CheckStates]
      /\ checks'[c] = q /\ \A d \in Checkers \ {c} : checks'[d] = checks[d]
  BY DetectorMoves
<1>2. AnomalyShape'
  BY <1>1 DEF AnomalyShape
<1>3. \A s, h : InsertedBy(s, h)' <=> InsertedBy(s, h)
  BY DEF InsertedBy
<1>4. KnownMeansAnnounced'
  <2>. SUFFICES ASSUME NEW d \in Checkers, checks'[d].pc = "known"
       PROVE  \E h \in 1..LastHour :
                /\ anomalyEvents[checks'[d].signal][h] > 0
                /\ \E f \in firedAlerts :
                     /\ f.signal = checks'[d].signal
                     /\ h <= f.at /\ f.at >= checks'[d].at - 1
    BY DEF KnownMeansAnnounced
  <2>1. CASE d = c
    BY <1>1, <2>1
  <2>2. CASE d # c
    BY <1>1, <2>2 DEF AnnouncedInv, KnownMeansAnnounced
  <2>. QED
    BY <2>1, <2>2
<1>5. \A d \in Checkers : checks'[d].pc = "mark" => InsertedBy(checks'[d].signal, hour)
  <2>. SUFFICES ASSUME NEW d \in Checkers, checks'[d].pc = "mark"
                PROVE  InsertedBy(checks'[d].signal, hour)
    OBVIOUS
  <2>1. CASE d = c
    BY <1>1, <2>1
  <2>2. CASE d # c
    BY <1>1, <2>2 DEF AnnouncedInv
  <2>. QED
    BY <2>1, <2>2
<1>6. \A f \in firedAlerts : InsertedBy(f.signal, f.at)
  BY DEF AnnouncedInv
<1>. QED
  BY <1>2, <1>3, <1>4, <1>5, <1>6 DEF AnnouncedInv

\* The counts of a check's sets: it leaves one and joins another.
IsIn(q, p, s) == IF q.pc = p /\ q.signal = s THEN 1 ELSE 0

\* The size of a check's sets: it leaves one and joins another.
LEMMA DetectorCounts ==
    ASSUME AnomalyShape, NEW c \in Checkers, NEW q \in CheckStates,
           checks' = [checks EXCEPT ![c] = q]
    PROVE  \A s \in Signals :
             /\ Cardinality(Inserting(s)) \in Nat /\ Cardinality(Marking(s)) \in Nat
             /\ Cardinality(Inserting(s)') =
                  Cardinality(Inserting(s)) + IsIn(q, "insert", s) - IsIn(checks[c], "insert", s)
             /\ Cardinality(Marking(s)') =
                  Cardinality(Marking(s)) + IsIn(q, "mark", s) - IsIn(checks[c], "mark", s)
<1>0. /\ \A s : /\ q.pc = "insert" /\ q.signal = s => Inserting(s)' = Inserting(s) \cup {c}
                /\ ~(q.pc = "insert" /\ q.signal = s) => Inserting(s)' = Inserting(s) \ {c}
                /\ q.pc = "mark" /\ q.signal = s => Marking(s)' = Marking(s) \cup {c}
                /\ ~(q.pc = "mark" /\ q.signal = s) => Marking(s)' = Marking(s) \ {c}
  BY DetectorMoves
<1>. SUFFICES ASSUME NEW s \in Signals
     PROVE   /\ Cardinality(Inserting(s)) \in Nat /\ Cardinality(Marking(s)) \in Nat
             /\ Cardinality(Inserting(s)') =
                  Cardinality(Inserting(s)) + IsIn(q, "insert", s) - IsIn(checks[c], "insert", s)
             /\ Cardinality(Marking(s)') =
                  Cardinality(Marking(s)) + IsIn(q, "mark", s) - IsIn(checks[c], "mark", s)
  OBVIOUS
<1>1. PICK I, I1, M, M1 : I = Inserting(s) /\ I1 = Inserting(s)' /\ M = Marking(s) /\ M1 = Marking(s)'
  OBVIOUS
<1>2. /\ I \in SUBSET Checkers /\ M \in SUBSET Checkers
      /\ c \in I <=> checks[c].pc = "insert" /\ checks[c].signal = s
      /\ c \in M <=> checks[c].pc = "mark" /\ checks[c].signal = s
  BY <1>1 DEF Inserting, Marking
<1>3. /\ q.pc = "insert" /\ q.signal = s => I1 = I \cup {c}
      /\ ~(q.pc = "insert" /\ q.signal = s) => I1 = I \ {c}
      /\ q.pc = "mark" /\ q.signal = s => M1 = M \cup {c}
      /\ ~(q.pc = "mark" /\ q.signal = s) => M1 = M \ {c}
  BY <1>0, <1>1
<1>5. /\ Cardinality(I) \in Nat
      /\ Cardinality(I \cup {c}) = IF c \in I THEN Cardinality(I) ELSE Cardinality(I) + 1
      /\ Cardinality(I \ {c}) = IF c \in I THEN Cardinality(I) - 1 ELSE Cardinality(I)
  BY <1>2, DetectorsCount
<1>6. /\ Cardinality(M) \in Nat
      /\ Cardinality(M \cup {c}) = IF c \in M THEN Cardinality(M) ELSE Cardinality(M) + 1
      /\ Cardinality(M \ {c}) = IF c \in M THEN Cardinality(M) - 1 ELSE Cardinality(M)
  BY <1>2, DetectorsCount
<1>7. Cardinality(I1) = Cardinality(I) + IsIn(q, "insert", s) - IsIn(checks[c], "insert", s)
  <2>1. CASE q.pc = "insert" /\ q.signal = s
    <3>1. I1 = I \cup {c} /\ IsIn(q, "insert", s) = 1
      BY <1>3, <2>1 DEF IsIn
    <3>. QED
      BY <1>2, <1>5, <3>1 DEF IsIn
  <2>2. CASE ~(q.pc = "insert" /\ q.signal = s)
    <3>1. I1 = I \ {c} /\ IsIn(q, "insert", s) = 0
      BY <1>3, <2>2 DEF IsIn
    <3>. QED
      BY <1>2, <1>5, <3>1 DEF IsIn
  <2>. QED
    BY <2>1, <2>2
<1>8. Cardinality(M1) = Cardinality(M) + IsIn(q, "mark", s) - IsIn(checks[c], "mark", s)
  <2>1. CASE q.pc = "mark" /\ q.signal = s
    <3>1. M1 = M \cup {c} /\ IsIn(q, "mark", s) = 1
      BY <1>3, <2>1 DEF IsIn
    <3>. QED
      BY <1>2, <1>6, <3>1 DEF IsIn
  <2>2. CASE ~(q.pc = "mark" /\ q.signal = s)
    <3>1. M1 = M \ {c} /\ IsIn(q, "mark", s) = 0
      BY <1>3, <2>2 DEF IsIn
    <3>. QED
      BY <1>2, <1>6, <3>1 DEF IsIn
  <2>. QED
    BY <2>1, <2>2
<1>. QED
  BY <1>1, <1>5, <1>6, <1>7, <1>8

\* A move that neither inserts nor marks, with a failure if it leaves those.
LEMMA QuietMove ==
    ASSUME AnomalyInv, NEW c \in Checkers, NEW q \in CheckStates,
           checks' = [checks EXCEPT ![c] = q],
           UNCHANGED <<hour, traffic, firedAlerts, anomalyEvents, sample>>,
           \/ /\ lost' = lost /\ q.pc \notin {"insert", "mark"}
              /\ checks[c].pc # "mark"
           \/ lost' = lost + 1 /\ lost < MaxLost /\ q.pc # "mark",
           q.pc # "idle" => q.at <= hour,
           q.pc = "known" =>
             \E h \in 1..LastHour :
                /\ anomalyEvents[q.signal][h] > 0
                /\ \E f \in firedAlerts : f.signal = q.signal /\ h <= f.at /\ f.at >= q.at - 1
    PROVE  AnomalyInv'
<1>1. lost \in 0..MaxLost /\ MaxLost \in Nat
  BY AnomalyAssumption DEF AnomalyInv, AnomalyShape
<1>2. lost' \in 0..MaxLost /\ lost <= lost' /\ lost' \in Nat /\ lost \in Nat
  BY <1>1
<1>3. AnomalyShape' /\ AnnouncedInv'
  BY <1>2, AnomalyMove
<1>4. ASSUME NEW s \in Signals
      PROVE  /\ Cardinality(Marking(s)) + lost <= Cardinality(Marking(s)') + lost'
             /\ Cardinality(Inserting(s)') + lost <= Cardinality(Inserting(s)) + lost'
             /\ Cardinality(Marking(s)') \in Nat /\ Cardinality(Inserting(s)') \in Nat
             /\ Cardinality(Marking(s)) \in Nat /\ Cardinality(Inserting(s)) \in Nat
             /\ Cardinality(Checkers) \in Nat
  <2>0. AnomalyShape
    BY DEF AnomalyInv
  <2>1. /\ Cardinality(Inserting(s)) \in Nat /\ Cardinality(Marking(s)) \in Nat
        /\ Cardinality(Inserting(s)') =
             Cardinality(Inserting(s)) + IsIn(q, "insert", s) - IsIn(checks[c], "insert", s)
        /\ Cardinality(Marking(s)') =
             Cardinality(Marking(s)) + IsIn(q, "mark", s) - IsIn(checks[c], "mark", s)
    BY <2>0, DetectorCounts
  <2>2. PICK i, i1, m, m1 : i = Cardinality(Inserting(s)) /\ i1 = Cardinality(Inserting(s)')
                          /\ m = Cardinality(Marking(s)) /\ m1 = Cardinality(Marking(s)')
    OBVIOUS
  <2>a. PICK iq, ic, mq, mc : /\ iq = IsIn(q, "insert", s) /\ ic = IsIn(checks[c], "insert", s)
                              /\ mq = IsIn(q, "mark", s) /\ mc = IsIn(checks[c], "mark", s)
    OBVIOUS
  <2>b. /\ {iq, ic, mq, mc} \subseteq {0, 1} /\ mq = 0
        /\ \/ lost' = lost /\ iq = 0 /\ mc = 0
           \/ lost' = lost + 1
    BY <2>a DEF IsIn
  <2>3. m + lost <= m1 + lost' /\ i1 + lost <= i + lost'
    BY <1>2, <2>1, <2>2, <2>a, <2>b
  <2>4. Inserting(s)' \in SUBSET Checkers /\ Marking(s)' \in SUBSET Checkers
    BY DEF Inserting, Marking
  <2>5. i1 \in Nat /\ m1 \in Nat
    BY <2>2, <2>4, DetectorsCount
  <2>. QED
    BY <2>1, <2>2, <2>3, <2>5, FS_CardinalityType, AnomalyAssumption
<1>5. Cardinality(Checkers) \in Nat
  BY FS_CardinalityType, AnomalyAssumption
<1>6. RepeatsInv'
  BY <1>2, <1>4, <1>5, RepeatsStay DEF AnomalyInv
<1>. QED
  BY <1>3, <1>6 DEF AnomalyInv

\* The steps of a check that neither insert nor mark.
LEMMA DetectQuietSteps ==
    ASSUME AnomalyInv, NEW c \in Checkers,
           \/ CheckJudges(c) \/ DedupRaises(c) \/ TriggerFails(c) \/ CheckEnds(c)
           \/ DedupAsked(c) /\ WasFired(checks[c].signal)
    PROVE  AnomalyInv'
<1>0. AnomalyShape /\ checks \in [Checkers -> CheckStates] /\ hour \in 1..LastHour /\ NoCheck \in CheckStates
  BY DEF AnomalyInv, AnomalyShape, CheckStates
<1>1. NoCheck.pc = "idle"
  BY DEF NoCheck
<1>2. CASE CheckJudges(c)
  <2>1. PICK s \in AgentVerdict(traffic) :
          checks' = [checks EXCEPT ![c] = [pc |-> "ask", signal |-> s, at |-> hour]]
    BY <1>2 DEF CheckJudges
  <2>2. PICK q : q = [pc |-> "ask", signal |-> s, at |-> hour]
    OBVIOUS
  <2>3. q.pc = "ask" /\ q.at = hour /\ q \in CheckStates
    BY <1>0, <2>2, VerdictSignals DEF CheckStates
  <2>a. checks' = [checks EXCEPT ![c] = q]
    BY <2>1, <2>2
  <2>b. q.at <= hour
    BY <1>0, <2>3
  <2>4. /\ checks' = [checks EXCEPT ![c] = q]
        /\ UNCHANGED <<hour, traffic, firedAlerts, anomalyEvents, sample>>
        /\ lost' = lost /\ checks[c].pc # "mark" /\ q.at <= hour
    BY <1>2, <2>a, <2>b DEF CheckJudges
  <2>5. lost' = lost /\ q.pc \notin {"insert", "mark"} /\ checks[c].pc # "mark"
    BY <2>3, <2>4
  <2>. QED
    BY <2>3, <2>4, <2>5, QuietMove
<1>3. CASE DedupRaises(c)
  <2>1. PICK q : q = [checks[c] EXCEPT !.pc = "insert"]
    OBVIOUS
  <2>2. /\ checks[c] \in [pc : {"ask", "insert", "mark", "known", "sent"},
                          signal : Signals, at : 1..LastHour]
        /\ checks[c].pc = "ask"
    BY <1>0, <1>3, CheckerHeld DEF DedupRaises
  <2>3. q \in CheckStates /\ q.pc = "insert" /\ q.at = checks[c].at
    BY <2>1, <2>2 DEF CheckStates
  <2>4. checks' = [checks EXCEPT ![c] = q]
    BY <1>0, <1>3, <2>1 DEF DedupRaises
  <2>5. q.at <= hour
    BY <1>0, <2>2, <2>3 DEF AnomalyShape
  <2>. QED
    BY <1>3, <2>3, <2>4, <2>5, QuietMove DEF DedupRaises
<1>4. CASE TriggerFails(c)
  BY <1>0, <1>1, <1>4, QuietMove DEF TriggerFails
<1>5. CASE CheckEnds(c)
  BY <1>0, <1>1, <1>5, QuietMove DEF CheckEnds
<1>6. CASE DedupAsked(c) /\ WasFired(checks[c].signal)
  <2>1. PICK q : q = [checks[c] EXCEPT !.pc = "known"]
    OBVIOUS
  <2>2. /\ checks[c] \in [pc : {"ask", "insert", "mark", "known", "sent"},
                          signal : Signals, at : 1..LastHour]
        /\ checks[c].pc = "ask"
    BY <1>0, <1>6, CheckerHeld DEF DedupAsked
  <2>3. q \in CheckStates /\ q.pc = "known" /\ q.at = checks[c].at /\ q.signal = checks[c].signal
    BY <2>1, <2>2 DEF CheckStates
  <2>4. checks' = [checks EXCEPT ![c] = q]
    BY <1>0, <1>6, <2>1 DEF DedupAsked
  <2>5. q.at <= hour /\ q.at \in 1..LastHour
    BY <1>0, <2>2, <2>3 DEF AnomalyShape
  <2>6. PICK f \in firedAlerts : f.signal = q.signal /\ f.at >= hour - 1
    BY <1>6, <2>3 DEF WasFired
  <2>7. PICK h \in 1..LastHour : h <= f.at /\ anomalyEvents[f.signal][h] > 0
    BY DEF AnomalyInv, AnnouncedInv, InsertedBy
  <2>8. f.at \in 1..LastHour
    BY <1>0 DEF AnomalyShape
  <2>9. f.at >= q.at - 1
    BY <1>0, <2>5, <2>6, <2>8
  <2>10. \E g \in 1..LastHour :
                /\ anomalyEvents[q.signal][g] > 0
                /\ \E e \in firedAlerts : e.signal = q.signal /\ g <= e.at /\ e.at >= q.at - 1
    BY <2>6, <2>7, <2>9
  <2>. QED
    BY <1>6, <2>2, <2>3, <2>4, <2>5, <2>10, QuietMove DEF DedupAsked
<1>. QED
  BY <1>2, <1>3, <1>4, <1>5, <1>6

\* The dedup table knows nothing of the signal: the check will insert.
LEMMA DetectAsked ==
    ASSUME AnomalyInv, NEW c \in Checkers, DedupAsked(c), ~WasFired(checks[c].signal)
    PROVE  AnomalyInv'
<1>0. AnomalyShape /\ hour \in 1..LastHour /\ checks \in [Checkers -> CheckStates] /\ lost \in 0..MaxLost
  BY DEF AnomalyInv, AnomalyShape
<1>1. PICK q : q = [checks[c] EXCEPT !.pc = "insert"]
  OBVIOUS
<1>2. /\ checks[c] \in [pc : {"ask", "insert", "mark", "known", "sent"},
                        signal : Signals, at : 1..LastHour]
      /\ checks[c].pc = "ask"
  BY <1>0, CheckerHeld DEF DedupAsked
<1>3. /\ q \in CheckStates /\ q.pc = "insert" /\ q.at = checks[c].at
      /\ q.signal = checks[c].signal /\ q.signal \in Signals
  BY <1>1, <1>2 DEF CheckStates
<1>4. /\ checks' = [checks EXCEPT ![c] = q]
      /\ UNCHANGED <<hour, traffic, firedAlerts, anomalyEvents, lost, sample>>
  BY <1>0, <1>1 DEF DedupAsked
<1>5. q.at <= hour
  BY <1>0, <1>2, <1>3 DEF AnomalyShape
<1>b. lost' \in 0..MaxLost /\ lost <= lost'
  BY <1>0, <1>4
<1>c. q.pc # "mark" /\ q.pc # "known"
  BY <1>3
<1>6. AnomalyShape' /\ AnnouncedInv'
  BY <1>3, <1>4, <1>5, <1>b, <1>c, AnomalyMove
<1>d. \A s : /\ q.pc = "insert" /\ q.signal = s => Inserting(s)' = Inserting(s) \cup {c}
             /\ ~(q.pc = "insert" /\ q.signal = s) => Inserting(s)' = Inserting(s) \ {c}
             /\ q.pc = "mark" /\ q.signal = s => Marking(s)' = Marking(s) \cup {c}
             /\ ~(q.pc = "mark" /\ q.signal = s) => Marking(s)' = Marking(s) \ {c}
  BY <1>0, <1>3, <1>4, DetectorMoves
<1>7. ~MarkedNow(q.signal)
  BY <1>0, <1>3 DEF WasFired, MarkedNow
<1>8. RepeatsInv'
  <2>. SUFFICES ASSUME NEW s \in Signals
       PROVE  /\ \A h \in 1..LastHour : h > hour => anomalyEvents[s][h] = 0
              /\ ~MarkedNow(s) => anomalyEvents[s][hour] <= Cardinality(Marking(s)') + lost
              /\ anomalyEvents[s][hour] + Cardinality(Inserting(s)') <= Cardinality(Checkers) + lost
              /\ \A h \in 1..LastHour : anomalyEvents[s][h] <= Cardinality(Checkers) + lost
    BY <1>4 DEF RepeatsInv, MarkedNow
  <2>1. /\ \A h \in 1..LastHour : h > hour => anomalyEvents[s][h] = 0
        /\ ~MarkedNow(s) => anomalyEvents[s][hour] <= Cardinality(Marking(s)) + lost
        /\ anomalyEvents[s][hour] + Cardinality(Inserting(s)) <= Cardinality(Checkers) + lost
        /\ \A h \in 1..LastHour : anomalyEvents[s][h] <= Cardinality(Checkers) + lost
    BY DEF AnomalyInv, RepeatsInv
  <2>2. /\ q.signal = s => Inserting(s)' = Inserting(s) \cup {c}
        /\ q.signal # s => Inserting(s)' = Inserting(s) \ {c}
        /\ Marking(s)' = Marking(s) \ {c}
    BY <1>3, <1>d
  <2>3. c \notin Marking(s) /\ c \notin Inserting(s)
    BY <1>2 DEF Marking, Inserting
  <2>4. Marking(s)' = Marking(s) /\ (q.signal # s => Inserting(s)' = Inserting(s))
    BY <2>2, <2>3
  <2>5. CASE q.signal # s
    BY <2>1, <2>4, <2>5
  <2>6. CASE q.signal = s
    <3>1. anomalyEvents[s][hour] <= Cardinality(Marking(s)) + lost
      BY <1>7, <2>1, <2>6
    <3>2. Cardinality(Marking(s)) + Cardinality(Inserting(s)') <= Cardinality(Checkers)
      <4>1. PICK M, I : M = Marking(s) /\ I = Inserting(s)'
        OBVIOUS
      <4>2. M \subseteq Checkers /\ I \subseteq Checkers /\ M \cap I = {}
        BY <2>2, <2>3, <2>6, <4>1 DEF Marking, Inserting
      <4>3. IsFiniteSet(Checkers)
        BY AnomalyAssumption
      <4>4. IsFiniteSet(M) /\ IsFiniteSet(I) /\ M \cup I \subseteq Checkers
        BY <4>2, <4>3, FS_Subset
      <4>5. /\ Cardinality(M \cup I) = Cardinality(M) + Cardinality(I) - Cardinality(M \cap I)
            /\ Cardinality(M \cup I) <= Cardinality(Checkers)
        BY <4>3, <4>4, FS_Union, FS_Subset
      <4>6. Cardinality(M \cap I) = 0
        BY <4>2, FS_EmptySet
      <4>7. Cardinality(M) \in Nat /\ Cardinality(I) \in Nat /\ Cardinality(Checkers) \in Nat
        BY <4>3, <4>4, FS_CardinalityType
      <4>. QED
        BY <4>1, <4>5, <4>6, <4>7
    <3>3. PICK e, m, i, k : /\ e = anomalyEvents[s][hour] /\ m = Cardinality(Marking(s))
                            /\ i = Cardinality(Inserting(s)') /\ k = Cardinality(Checkers)
      OBVIOUS
    <3>4. e \in Nat /\ lost \in Nat
      <4>1. anomalyEvents \in [Signals -> [1..LastHour -> Nat]]
        BY <1>0 DEF AnomalyShape
      <4>2. anomalyEvents[s] \in [1..LastHour -> Nat]
        BY <4>1
      <4>3. anomalyEvents[s][hour] \in Nat
        BY <1>0, <4>2
      <4>4. lost \in Nat
        BY <1>0
      <4>. QED
        BY <3>3, <4>3, <4>4
    <3>5. Marking(s) \in SUBSET Checkers /\ Inserting(s)' \in SUBSET Checkers
      BY DEF Marking, Inserting
    <3>6. m \in Nat /\ i \in Nat /\ k \in Nat
      BY <3>3, <3>5, DetectorsCount
    <3>7. e + i <= k + lost
      BY <3>1, <3>2, <3>3, <3>4, <3>6
    <3>. QED
      BY <2>1, <2>4, <3>3, <3>7
  <2>. QED
    BY <2>5, <2>6
<1>. QED
  BY <1>6, <1>8 DEF AnomalyInv

\* An event more of one signal in the current hour.
LEMMA EventAdded ==
    ASSUME AnomalyShape, NEW s \in Signals,
           anomalyEvents' = [anomalyEvents EXCEPT ![s][hour] = @ + 1]
    PROVE  /\ anomalyEvents' \in [Signals -> [1..LastHour -> Nat]]
           /\ anomalyEvents'[s][hour] = anomalyEvents[s][hour] + 1
           /\ \A h \in 1..LastHour : h # hour => anomalyEvents'[s][h] = anomalyEvents[s][h]
           /\ \A t \in Signals : t # s => anomalyEvents'[t] = anomalyEvents[t]
           /\ \A t \in Signals, h \in 1..LastHour :
                 anomalyEvents[t][h] > 0 => anomalyEvents'[t][h] > 0
<1>1. PICK H : H = 1..LastHour
  OBVIOUS
<1>2. /\ anomalyEvents \in [Signals -> [H -> Nat]] /\ hour \in H
      /\ anomalyEvents' = [anomalyEvents EXCEPT ![s] = [anomalyEvents[s] EXCEPT ![hour] = @ + 1]]
  BY <1>1 DEF AnomalyShape
<1>3. PICK f : f = [anomalyEvents[s] EXCEPT ![hour] = @ + 1]
  OBVIOUS
<1>4. /\ f \in [H -> Nat] /\ f[hour] = anomalyEvents[s][hour] + 1
      /\ \A h \in H : h # hour => f[h] = anomalyEvents[s][h]
  BY <1>2, <1>3
<1>5. /\ anomalyEvents' \in [Signals -> [H -> Nat]] /\ anomalyEvents'[s] = f
      /\ \A t \in Signals : t # s => anomalyEvents'[t] = anomalyEvents[t]
  BY <1>2, <1>3, <1>4
<1>6. \A h \in H : anomalyEvents[s][h] \in Nat
  BY <1>2
<1>7. \A t \in Signals, h \in H : anomalyEvents[t][h] > 0 => anomalyEvents'[t][h] > 0
  BY <1>2, <1>4, <1>5, <1>6
<1>. QED
  BY <1>1, <1>4, <1>5, <1>7

\* The insert of an event.
LEMMA DetectInserted ==
    ASSUME AnomalyInv, NEW c \in Checkers, EventInserted(c) PROVE AnomalyInv'
<1>0. /\ AnomalyShape /\ hour \in 1..LastHour /\ checks \in [Checkers -> CheckStates]
      /\ lost \in Nat /\ hour \in Nat
  BY DEF AnomalyInv, AnomalyShape
<1>1. PICK q : q = [checks[c] EXCEPT !.pc = "mark"]
  OBVIOUS
<1>2. /\ checks[c] \in [pc : {"ask", "insert", "mark", "known", "sent"},
                        signal : Signals, at : 1..LastHour]
      /\ checks[c].pc = "insert" /\ checks[c].at <= hour
  BY <1>0, CheckerHeld DEF EventInserted, AnomalyShape
<1>3. PICK g : g = checks[c].signal
  OBVIOUS
<1>4. /\ q \in CheckStates /\ q.pc = "mark" /\ q.at = checks[c].at
      /\ q.signal = g /\ g \in Signals
  BY <1>1, <1>2, <1>3 DEF CheckStates
<1>a. anomalyEvents' = [anomalyEvents EXCEPT ![g][hour] = @ + 1]
  BY <1>3 DEF EventInserted
<1>5. /\ checks' = [checks EXCEPT ![c] = q]
      /\ UNCHANGED <<hour, traffic, firedAlerts, lost, sample>>
  BY <1>0, <1>1, <1>3 DEF EventInserted
<1>6. /\ checks' \in [Checkers -> CheckStates]
      /\ checks'[c] = q /\ \A d \in Checkers \ {c} : checks'[d] = checks[d]
      /\ \A s : /\ Inserting(s)' = Inserting(s) \ {c}
                /\ g = s => Marking(s)' = Marking(s) \cup {c}
                /\ g # s => Marking(s)' = Marking(s) \ {c}
  <2>1. /\ checks' \in [Checkers -> CheckStates]
        /\ checks'[c] = q /\ \A d \in Checkers \ {c} : checks'[d] = checks[d]
        /\ \A s : /\ q.pc = "insert" /\ q.signal = s => Inserting(s)' = Inserting(s) \cup {c}
                  /\ ~(q.pc = "insert" /\ q.signal = s) => Inserting(s)' = Inserting(s) \ {c}
                  /\ q.pc = "mark" /\ q.signal = s => Marking(s)' = Marking(s) \cup {c}
                  /\ ~(q.pc = "mark" /\ q.signal = s) => Marking(s)' = Marking(s) \ {c}
    <3>1. AnomalyShape /\ q \in CheckStates /\ checks' = [checks EXCEPT ![c] = q]
      BY <1>0, <1>4, <1>5
    <3>. QED
      BY <3>1, DetectorMoves
  <2>. QED
    BY <1>4, <2>1
<1>7. /\ anomalyEvents' \in [Signals -> [1..LastHour -> Nat]]
      /\ anomalyEvents'[g][hour] = anomalyEvents[g][hour] + 1
      /\ \A h \in 1..LastHour : h # hour => anomalyEvents'[g][h] = anomalyEvents[g][h]
      /\ \A t \in Signals : t # g => anomalyEvents'[t] = anomalyEvents[t]
      /\ \A t \in Signals, h \in 1..LastHour :
            anomalyEvents[t][h] > 0 => anomalyEvents'[t][h] > 0
  BY <1>0, <1>4, <1>a, EventAdded
<1>8. AnomalyShape'
  BY <1>0, <1>2, <1>4, <1>5, <1>6, <1>7 DEF AnomalyShape
<1>9. \A s \in Signals : \A h : InsertedBy(s, h) => InsertedBy(s, h)'
  BY <1>7 DEF InsertedBy
<1>10. InsertedBy(g, hour)'
  <2>1. anomalyEvents[g][hour] \in Nat
    BY <1>0, <1>4 DEF AnomalyShape
  <2>2. anomalyEvents'[g][hour] > 0
    BY <1>7, <2>1
  <2>. QED
    BY <1>0, <1>5, <2>2 DEF InsertedBy
<1>11. AnnouncedInv'
  <2>1. \A f \in firedAlerts' : InsertedBy(f.signal, f.at)'
    <3>1. \A f \in firedAlerts : f.signal \in Signals /\ InsertedBy(f.signal, f.at)
      BY <1>0 DEF AnomalyShape, AnomalyInv, AnnouncedInv
    <3>. QED
      BY <1>5, <1>9, <3>1
  <2>2. ASSUME NEW d \in Checkers, checks'[d].pc = "mark"
        PROVE  InsertedBy(checks[d].signal, hour)'
    <3>1. CASE d = c
      <4>1. checks'[d].signal = g
        BY <1>4, <1>6, <3>1
      <4>. QED
        BY <1>10, <4>1
    <3>2. CASE d # c
      <4>1. checks'[d] = checks[d]
        BY <1>6, <3>2
      <4>2. checks[d].pc = "mark"
        BY <2>2, <4>1
      <4>3. checks[d].signal \in Signals
        BY <1>0, <4>2, CheckerHeld
      <4>4. InsertedBy(checks[d].signal, hour)
        BY <4>2 DEF AnomalyInv, AnnouncedInv
      <4>. QED
        BY <1>5, <1>9, <4>1, <4>3, <4>4
    <3>. QED
      BY <3>1, <3>2
  <2>3. KnownMeansAnnounced'
    <3>. SUFFICES ASSUME NEW d \in Checkers, checks'[d].pc = "known"
         PROVE  \E h \in 1..LastHour :
                  /\ anomalyEvents'[checks'[d].signal][h] > 0
                  /\ \E f \in firedAlerts' :
                       /\ f.signal = checks'[d].signal
                       /\ h <= f.at /\ f.at >= checks'[d].at - 1
      BY DEF KnownMeansAnnounced
    <3>1. d # c /\ checks'[d] = checks[d]
      BY <1>4, <1>6
    <3>2. checks[d].signal \in Signals
      BY <1>0, <3>1, CheckerHeld
    <3>3. PICK h \in 1..LastHour :
            /\ anomalyEvents[checks[d].signal][h] > 0
            /\ \E f \in firedAlerts :
                 /\ f.signal = checks[d].signal
                 /\ h <= f.at /\ f.at >= checks[d].at - 1
      BY <3>1 DEF AnomalyInv, AnnouncedInv, KnownMeansAnnounced
    <3>. QED
      BY <1>5, <1>7, <3>1, <3>2, <3>3
  <2>. QED
    BY <2>1, <2>2, <2>3 DEF AnnouncedInv
<1>12. ASSUME NEW s \in Signals
       PROVE  /\ \A h \in 1..LastHour : h > hour => anomalyEvents'[s][h] = 0
              /\ ~MarkedNow(s)' => anomalyEvents'[s][hour] <= Cardinality(Marking(s)') + lost
              /\ anomalyEvents'[s][hour] + Cardinality(Inserting(s)') <= Cardinality(Checkers) + lost
              /\ \A h \in 1..LastHour : anomalyEvents'[s][h] <= Cardinality(Checkers) + lost
  <2>1. /\ \A h \in 1..LastHour : h > hour => anomalyEvents[s][h] = 0
        /\ ~MarkedNow(s) => anomalyEvents[s][hour] <= Cardinality(Marking(s)) + lost
        /\ anomalyEvents[s][hour] + Cardinality(Inserting(s)) <= Cardinality(Checkers) + lost
        /\ \A h \in 1..LastHour : anomalyEvents[s][h] <= Cardinality(Checkers) + lost
    BY DEF AnomalyInv, RepeatsInv
  <2>2. MarkedNow(s)' <=> MarkedNow(s)
    BY <1>5 DEF MarkedNow
  <2>3. c \notin Marking(s) /\ (c \in Inserting(s) <=> g = s)
    BY <1>2, <1>3 DEF Marking, Inserting
  <2>4. CASE g # s
    <3>1. Marking(s)' = Marking(s) /\ Inserting(s)' = Inserting(s) /\ anomalyEvents'[s] = anomalyEvents[s]
      BY <1>6, <1>7, <2>3, <2>4
    <3>. QED
      BY <2>1, <2>2, <3>1
  <2>5. CASE g = s
    <3>1. Marking(s) \in SUBSET Checkers /\ Inserting(s) \in SUBSET Checkers
      BY DEF Marking, Inserting
    <3>2. PICK M, I : M = Marking(s) /\ I = Inserting(s)
      OBVIOUS
    <3>3. Marking(s)' = M \cup {c} /\ Inserting(s)' = I \ {c} /\ c \in I /\ c \notin M
      BY <1>6, <2>3, <2>5, <3>2
    <3>4. /\ Cardinality(M) \in Nat /\ Cardinality(Checkers) \in Nat /\ Cardinality(I) \in Nat
          /\ Cardinality(M \cup {c}) = Cardinality(M) + 1
          /\ Cardinality(I \ {c}) = Cardinality(I) - 1
      BY <3>1, <3>2, <3>3, DetectorsCount
    <3>5. PICK e, m, i, k : /\ e = anomalyEvents[s][hour] /\ m = Cardinality(M)
                            /\ i = Cardinality(I) /\ k = Cardinality(Checkers)
      OBVIOUS
    <3>6. e \in Nat /\ m \in Nat /\ i \in Nat /\ k \in Nat
      BY <1>0, <3>4, <3>5 DEF AnomalyShape
    <3>7. anomalyEvents'[s][hour] = e + 1
      BY <1>7, <2>5, <3>5
    <3>8. \A h \in 1..LastHour : h > hour => anomalyEvents'[s][h] = 0
      BY <1>0, <1>7, <2>1, <2>5
    <3>9. e + i <= k + lost /\ (~MarkedNow(s) => e <= m + lost)
      BY <2>1, <3>2, <3>5
    <3>10. e + 1 + (i - 1) <= k + lost
      BY <1>0, <3>6, <3>9
    <3>11. ASSUME e <= m + lost PROVE e + 1 <= m + 1 + lost
      BY <1>0, <3>6, <3>11
    <3>12. e + 1 <= k + lost
      <4>1. i >= 1
        <5>1. I \ {c} \in SUBSET Checkers
          BY <3>1, <3>2
        <5>2. Cardinality(I \ {c}) \in Nat
          BY <5>1, DetectorsCount
        <5>. QED
          BY <3>4, <3>5, <3>6, <5>2
      <4>. QED
        BY <1>0, <3>6, <3>9, <4>1
    <3>13. \A h \in 1..LastHour : anomalyEvents'[s][h] <= k + lost
      BY <1>0, <1>7, <2>1, <2>5, <3>5, <3>7, <3>12
    <3>. QED
      BY <2>2, <3>3, <3>4, <3>5, <3>7, <3>8, <3>9, <3>10, <3>11, <3>13
  <2>. QED
    BY <2>4, <2>5
<1>13. RepeatsInv'
  BY <1>5, <1>12 DEF RepeatsInv
<1>. QED
  BY <1>8, <1>11, <1>13 DEF AnomalyInv

\* The row of the dedup table.
LEMMA DetectMarked ==
    ASSUME AnomalyInv, NEW c \in Checkers, AlertMarked(c) PROVE AnomalyInv'
<1>0. /\ AnomalyShape /\ hour \in 1..LastHour /\ checks \in [Checkers -> CheckStates]
      /\ lost \in Nat /\ hour \in Nat
  BY DEF AnomalyInv, AnomalyShape
<1>1. PICK q : q = [checks[c] EXCEPT !.pc = "sent"]
  OBVIOUS
<1>2. /\ checks[c] \in [pc : {"ask", "insert", "mark", "known", "sent"},
                        signal : Signals, at : 1..LastHour]
      /\ checks[c].pc = "mark" /\ checks[c].at <= hour
  BY <1>0, CheckerHeld DEF AlertMarked, AnomalyShape
<1>3. PICK g, f : g = checks[c].signal /\ f = [signal |-> g, at |-> hour]
  OBVIOUS
<1>4. /\ q \in CheckStates /\ q.pc = "sent" /\ q.at = checks[c].at /\ q.signal = g /\ g \in Signals
      /\ f.signal = g /\ f.at = hour /\ f \in [signal : Signals, at : 1..LastHour]
  BY <1>0, <1>1, <1>2, <1>3 DEF CheckStates
<1>5. /\ checks' = [checks EXCEPT ![c] = q] /\ firedAlerts' = firedAlerts \cup {f}
      /\ UNCHANGED <<hour, traffic, anomalyEvents, lost, sample>>
  BY <1>0, <1>1, <1>3 DEF AlertMarked
<1>6. /\ checks' \in [Checkers -> CheckStates]
      /\ checks'[c] = q /\ \A d \in Checkers \ {c} : checks'[d] = checks[d]
      /\ \A s : Inserting(s)' = Inserting(s) \ {c} /\ Marking(s)' = Marking(s) \ {c}
  <2>1. /\ checks' \in [Checkers -> CheckStates]
        /\ checks'[c] = q /\ \A d \in Checkers \ {c} : checks'[d] = checks[d]
        /\ \A s : /\ q.pc = "insert" /\ q.signal = s => Inserting(s)' = Inserting(s) \cup {c}
                  /\ ~(q.pc = "insert" /\ q.signal = s) => Inserting(s)' = Inserting(s) \ {c}
                  /\ q.pc = "mark" /\ q.signal = s => Marking(s)' = Marking(s) \cup {c}
                  /\ ~(q.pc = "mark" /\ q.signal = s) => Marking(s)' = Marking(s) \ {c}
    BY <1>0, <1>4, <1>5, DetectorMoves
  <2>. QED
    BY <1>4, <2>1
<1>7. AnomalyShape'
  <2>1. firedAlerts' \subseteq [signal : Signals, at : 1..LastHour]
    BY <1>0, <1>4, <1>5 DEF AnomalyShape
  <2>2. \A e \in firedAlerts' : e.at <= hour
    BY <1>0, <1>4, <1>5 DEF AnomalyShape
  <2>. QED
    BY <1>0, <1>2, <1>4, <1>5, <1>6, <2>1, <2>2 DEF AnomalyShape
<1>8. \A s, h : InsertedBy(s, h)' <=> InsertedBy(s, h)
  BY <1>5 DEF InsertedBy
<1>9. AnnouncedInv'
  <2>0. InsertedBy(g, hour)
    BY <1>2, <1>3 DEF AnomalyInv, AnnouncedInv
  <2>1. \A e \in firedAlerts' : InsertedBy(e.signal, e.at)
    BY <1>4, <1>5, <2>0 DEF AnomalyInv, AnnouncedInv
  <2>2. \A d \in Checkers : checks'[d].pc = "mark" => InsertedBy(checks'[d].signal, hour)
    BY <1>4, <1>6 DEF AnomalyInv, AnnouncedInv
  <2>3. KnownMeansAnnounced'
    <3>. SUFFICES ASSUME NEW d \in Checkers, checks'[d].pc = "known"
         PROVE  \E h \in 1..LastHour :
                  /\ anomalyEvents[checks'[d].signal][h] > 0
                  /\ \E e \in firedAlerts' :
                       /\ e.signal = checks'[d].signal
                       /\ h <= e.at /\ e.at >= checks'[d].at - 1
      BY <1>5 DEF KnownMeansAnnounced
    <3>1. checks'[d] = checks[d]
      BY <1>4, <1>6
    <3>2. PICK h \in 1..LastHour :
            /\ anomalyEvents[checks[d].signal][h] > 0
            /\ \E e \in firedAlerts :
                 /\ e.signal = checks[d].signal
                 /\ h <= e.at /\ e.at >= checks[d].at - 1
      BY <3>1 DEF AnomalyInv, AnnouncedInv, KnownMeansAnnounced
    <3>. QED
      BY <1>5, <3>1, <3>2
  <2>. QED
    BY <1>5, <1>8, <2>1, <2>2, <2>3 DEF AnnouncedInv
<1>10. ASSUME NEW s \in Signals
       PROVE  /\ \A h \in 1..LastHour : h > hour => anomalyEvents[s][h] = 0
              /\ ~MarkedNow(s)' => anomalyEvents[s][hour] <= Cardinality(Marking(s)') + lost
              /\ anomalyEvents[s][hour] + Cardinality(Inserting(s)') <= Cardinality(Checkers) + lost
              /\ \A h \in 1..LastHour : anomalyEvents[s][h] <= Cardinality(Checkers) + lost
  <2>1. /\ \A h \in 1..LastHour : h > hour => anomalyEvents[s][h] = 0
        /\ ~MarkedNow(s) => anomalyEvents[s][hour] <= Cardinality(Marking(s)) + lost
        /\ anomalyEvents[s][hour] + Cardinality(Inserting(s)) <= Cardinality(Checkers) + lost
        /\ \A h \in 1..LastHour : anomalyEvents[s][h] <= Cardinality(Checkers) + lost
    BY DEF AnomalyInv, RepeatsInv
  <2>2. c \notin Inserting(s) /\ (g # s => c \notin Marking(s))
    BY <1>2, <1>3 DEF Marking, Inserting
  <2>3. Inserting(s)' = Inserting(s) /\ (g # s => Marking(s)' = Marking(s))
    BY <1>6, <2>2
  <2>4. MarkedNow(s)' <=> (MarkedNow(s) \/ g = s)
    <3>1. MarkedNow(s)' <=> \E e \in firedAlerts' : e.signal = s /\ e.at = hour
      BY <1>5 DEF MarkedNow
    <3>2. (\E e \in firedAlerts' : e.signal = s /\ e.at = hour)
             <=> (MarkedNow(s) \/ g = s)
      BY <1>4, <1>5 DEF MarkedNow
    <3>. QED
      BY <3>1, <3>2
  <2>. QED
    BY <2>1, <2>3, <2>4
<1>11. RepeatsInv'
  BY <1>5, <1>10 DEF RepeatsInv
<1>. QED
  BY <1>7, <1>9, <1>11 DEF AnomalyInv

\* The next hour: its events are to come.
LEMMA DetectHour == ASSUME AnomalyInv, HourPasses PROVE AnomalyInv'
<1>0. /\ AnomalyShape /\ hour \in 1..LastHour /\ lost \in Nat /\ hour \in Nat
      /\ LastHour \in Nat /\ traffic \in Seq(Hours) /\ Len(traffic) = hour
  BY AnomalyAssumption DEF AnomalyInv, AnomalyShape
<1>1. PICK h0 \in Hours : traffic' = Append(traffic, h0)
  BY DEF HourPasses
<1>2. /\ hour' = hour + 1 /\ hour < LastHour
      /\ UNCHANGED <<checks, firedAlerts, anomalyEvents, lost, sample>>
  BY DEF HourPasses
<1>3. traffic' \in Seq(Hours) /\ Len(traffic') = hour' /\ hour' \in 1..LastHour
  BY <1>0, <1>1, <1>2
<1>4. AnomalyShape'
  <2>1. \A c \in Checkers : checks[c].pc # "idle" => checks[c].at <= hour'
    <3>1. ASSUME NEW c \in Checkers, checks[c].pc # "idle" PROVE checks[c].at <= hour'
      <4>1. checks[c].at \in 1..LastHour
        BY <1>0, <3>1, CheckerHeld
      <4>2. checks[c].at <= hour
        BY <1>0, <3>1 DEF AnomalyShape
      <4>. QED
        BY <1>0, <1>2, <4>1, <4>2
    <3>. QED
      BY <3>1
  <2>2. \A f \in firedAlerts : f.at <= hour'
    <3>1. \A f \in firedAlerts : f.at \in 1..LastHour /\ f.at <= hour
      BY <1>0 DEF AnomalyShape
    <3>. QED
      BY <1>0, <1>2, <3>1
  <2>. QED
    BY <1>0, <1>2, <1>3, <2>1, <2>2 DEF AnomalyShape
<1>5. AnnouncedInv'
  <2>1. \A s, h : InsertedBy(s, h) => (\E k \in 1..LastHour : k <= h /\ anomalyEvents'[s][k] > 0)
    BY <1>2 DEF InsertedBy
  <2>2. \A s : InsertedBy(s, hour) => InsertedBy(s, hour)'
    BY <1>0, <1>2 DEF InsertedBy
  <2>3. \A f \in firedAlerts' : InsertedBy(f.signal, f.at)'
    BY <1>2 DEF AnomalyInv, AnnouncedInv, InsertedBy
  <2>4. \A c \in Checkers : checks'[c].pc = "mark" => InsertedBy(checks[c].signal, hour)'
    BY <1>2, <2>2 DEF AnomalyInv, AnnouncedInv
  <2>5. KnownMeansAnnounced'
    BY <1>2 DEF AnomalyInv, AnnouncedInv, KnownMeansAnnounced
  <2>. QED
    BY <1>2, <2>3, <2>4, <2>5 DEF AnnouncedInv
<1>6. ASSUME NEW s \in Signals
      PROVE  /\ \A h \in 1..LastHour : h > hour' => anomalyEvents[s][h] = 0
             /\ ~MarkedNow(s)' => anomalyEvents[s][hour'] <= Cardinality(Marking(s)) + lost
             /\ anomalyEvents[s][hour'] + Cardinality(Inserting(s)) <= Cardinality(Checkers) + lost
             /\ \A h \in 1..LastHour : anomalyEvents[s][h] <= Cardinality(Checkers) + lost
  <2>1. /\ \A h \in 1..LastHour : h > hour => anomalyEvents[s][h] = 0
        /\ \A h \in 1..LastHour : anomalyEvents[s][h] <= Cardinality(Checkers) + lost
    BY DEF AnomalyInv, RepeatsInv
  <2>2. anomalyEvents[s][hour'] = 0
    BY <1>0, <1>2, <1>3, <2>1
  <2>3. Inserting(s) \in SUBSET Checkers /\ Marking(s) \in SUBSET Checkers
    BY DEF Inserting, Marking
  <2>4. IsFiniteSet(Checkers)
    BY AnomalyAssumption
  <2>5. /\ Cardinality(Inserting(s)) \in Nat /\ Cardinality(Marking(s)) \in Nat
        /\ Cardinality(Checkers) \in Nat /\ Cardinality(Inserting(s)) <= Cardinality(Checkers)
    BY <2>3, <2>4, FS_Subset, FS_CardinalityType
  <2>6. \A h \in 1..LastHour : h > hour' => anomalyEvents[s][h] = 0
    BY <1>0, <1>2, <2>1
  <2>. QED
    BY <1>0, <2>1, <2>2, <2>5, <2>6
<1>7. RepeatsInv'
  <2>1. \A s : Inserting(s)' = Inserting(s) /\ Marking(s)' = Marking(s)
    BY <1>2 DEF Inserting, Marking
  <2>. QED
    BY <1>2, <1>6, <2>1 DEF RepeatsInv
<1>. QED
  BY <1>4, <1>5, <1>7 DEF AnomalyInv

\* Every step of the detection.
LEMMA AnomalyStep == AnomalyInv /\ DetectNext => AnomalyInv'
<1>. SUFFICES ASSUME AnomalyInv, DetectNext PROVE AnomalyInv'
  OBVIOUS
<1>1. ASSUME NEW c \in Checkers,
             \/ CheckJudges(c) \/ DedupAsked(c) \/ DedupRaises(c) \/ EventInserted(c)
             \/ AlertMarked(c) \/ TriggerFails(c) \/ CheckEnds(c)
      PROVE  AnomalyInv'
  <2>1. CASE CheckJudges(c) \/ DedupRaises(c) \/ TriggerFails(c) \/ CheckEnds(c)
    BY <2>1, DetectQuietSteps
  <2>2. CASE DedupAsked(c)
    BY <2>2, DetectQuietSteps, DetectAsked
  <2>3. CASE EventInserted(c)
    BY <2>3, DetectInserted
  <2>4. CASE AlertMarked(c)
    BY <2>4, DetectMarked
  <2>. QED
    BY <1>1, <2>1, <2>2, <2>3, <2>4
<1>. QED
  BY <1>1, DetectHour DEF DetectNext

\* A step of the other half: a draw of a sample, or none.
LEMMA AnomalyStays ==
    ASSUME AnomalyInv, UNCHANGED detectVars, sample' \in Seq(0..SampleMax) PROVE AnomalyInv'
<1>1. UNCHANGED <<hour, traffic, checks, firedAlerts, anomalyEvents, lost>>
  BY DEF detectVars
<1>2. AnomalyShape'
  BY <1>1 DEF AnomalyInv, AnomalyShape
<1>3. AnnouncedInv'
  BY <1>1 DEF AnomalyInv, AnnouncedInv, InsertedBy, KnownMeansAnnounced
<1>4. RepeatsInv'
  <2>1. \A s : Inserting(s)' = Inserting(s) /\ Marking(s)' = Marking(s) /\ (MarkedNow(s)' <=> MarkedNow(s))
    BY <1>1 DEF Inserting, Marking, MarkedNow
  <2>. QED
    BY <1>1, <2>1 DEF AnomalyInv, RepeatsInv
<1>. QED
  BY <1>2, <1>3, <1>4 DEF AnomalyInv

\* A value drawn into the sample.
LEMMA DrawStep == AnomalyInv /\ DrawSample => AnomalyInv'
<1>. SUFFICES ASSUME AnomalyInv, DrawSample PROVE AnomalyInv'
  OBVIOUS
<1>1. PICK v \in 0..SampleMax : sample' = Append(sample, v)
  BY DEF DrawSample
<1>2. sample \in Seq(0..SampleMax)
  BY DEF AnomalyInv, AnomalyShape
<1>3. sample' \in Seq(0..SampleMax)
  BY <1>1, <1>2
<1>. QED
  BY <1>3, AnomalyStays DEF DrawSample

\* Detection begins in its invariant.
LEMMA AnomalyBegin == AnomalyInit => AnomalyInv
<1>. SUFFICES ASSUME AnomalyInit PROVE AnomalyInv
  OBVIOUS
<1>0. /\ hour = 1 /\ firedAlerts = {} /\ lost = 0 /\ sample = <<>>
      /\ checks = [c \in Checkers |-> NoCheck]
      /\ anomalyEvents = [s \in Signals |-> [h \in 1..LastHour |-> 0]]
      /\ LastHour \in Nat \ {0} /\ MaxLost \in Nat /\ IsFiniteSet(Checkers)
  BY AnomalyAssumption DEF AnomalyInit
<1>1. PICK h0 \in Hours : traffic = <<h0>>
  BY DEF AnomalyInit
<1>2. \A c \in Checkers : checks[c].pc = "idle" /\ checks[c] = NoCheck
  BY <1>0 DEF NoCheck
<1>3. traffic \in Seq(Hours) /\ Len(traffic) = 1
  BY <1>1
<1>4. checks \in [Checkers -> CheckStates]
  BY <1>0 DEF CheckStates
<1>5. anomalyEvents \in [Signals -> [1..LastHour -> Nat]]
  BY <1>0
<1>6. AnomalyShape
  BY <1>0, <1>2, <1>3, <1>4, <1>5 DEF AnomalyShape
<1>7. AnnouncedInv
  BY <1>0, <1>2 DEF AnnouncedInv, KnownMeansAnnounced
<1>8. RepeatsInv
  <2>1. \A s : Inserting(s) = {} /\ Marking(s) = {}
    BY <1>2 DEF Inserting, Marking
  <2>2. Cardinality({}) = 0 /\ Cardinality(Checkers) \in Nat
    BY <1>0, FS_EmptySet, FS_CardinalityType
  <2>3. \A s \in Signals, h \in 1..LastHour : anomalyEvents[s][h] = 0
    BY <1>0
  <2>4. hour \in 1..LastHour
    BY <1>0
  <2>5. ASSUME NEW s \in Signals
        PROVE  /\ \A h \in 1..LastHour : h > hour => anomalyEvents[s][h] = 0
               /\ anomalyEvents[s][hour] <= Cardinality(Marking(s)) + lost
               /\ anomalyEvents[s][hour] + Cardinality(Inserting(s)) <= Cardinality(Checkers) + lost
               /\ \A h \in 1..LastHour : anomalyEvents[s][h] <= Cardinality(Checkers) + lost
    <3>1. Cardinality(Inserting(s)) = 0 /\ Cardinality(Marking(s)) = 0
      BY <2>1, <2>2
    <3>2. anomalyEvents[s][hour] = 0
      BY <2>3, <2>4
    <3>. QED
      BY <1>0, <2>2, <2>3, <3>1, <3>2
  <2>. QED
    BY <2>5 DEF RepeatsInv
<1>. QED
  BY <1>6, <1>7, <1>8 DEF AnomalyInv

\* What the invariant gives.
LEMMA AnomalySafe ==
    AnomalyInv => AnomalyTypeOK /\ KnownMeansAnnounced /\ SignalRepeatsBounded
<1>. SUFFICES ASSUME AnomalyInv PROVE AnomalyTypeOK /\ KnownMeansAnnounced /\ SignalRepeatsBounded
  OBVIOUS
<1>1. \A c \in Checkers : checks[c].pc \in {"idle", "ask", "insert", "mark", "known", "sent"}
  BY CheckerHeld DEF AnomalyInv
<1>2. AnomalyTypeOK
  BY <1>1 DEF AnomalyInv, AnomalyShape, AnomalyTypeOK
<1>3. KnownMeansAnnounced /\ SignalRepeatsBounded
  BY DEF AnomalyInv, AnnouncedInv, RepeatsInv, SignalRepeatsBounded
<1>. QED
  BY <1>2, <1>3
-----------------------------------------------------------------------------
(* What a streamed call costs (UsagePricing).                              *)

\* The record keeps the rates of the day and the release that priced it; while
\* both last, a second look at the tables finds the same.
PricedOnce ==
    usageRecord # <<>> =>
        LET r == usageRecord[1]
        IN  /\ r.day \in Nat /\ r.day <= today /\ r.release \in Nat /\ r.release <= release
            /\ r.rates = RatesFor(upstream, r.usage.input, r.day, r.release)
UsageInv == UsageTypeOK /\ PricedOnce /\ SameRateTwice

\* A call has two events or three.
LEMMA HalvesNat == \A u : Halves(u) \in Nat
<1>. SUFFICES ASSUME NEW u PROVE Halves(u) \in Nat
  OBVIOUS
<1>1. CASE u.provider = "anthropic"
  <2>1. EventsOf(u) = <<Event("start", u.turn, 1), Event("text", u.turn, 0),
                        Event("delta", u.turn, u.turn.completion)>>
    BY <1>1 DEF EventsOf
  <2>2. Len(EventsOf(u)) = 3
    BY <2>1
  <2>. QED
    BY <2>2 DEF Halves
<1>2. CASE u.provider = "google"
  <2>1. EventsOf(u) = <<Event("meta", u.turn, 1), Event("meta", u.turn, u.turn.completion)>>
    BY <1>2 DEF EventsOf
  <2>2. Len(EventsOf(u)) = 2
    BY <2>1
  <2>. QED
    BY <2>2 DEF Halves
<1>3. CASE u.provider # "anthropic" /\ u.provider # "google"
  <2>1. PICK k : k = IF u.reports THEN "usage" ELSE "text"
    OBVIOUS
  <2>2. EventsOf(u) = <<Event("text", u.turn, 0), Event(k, u.turn, u.turn.completion)>>
    BY <1>3, <2>1 DEF EventsOf
  <2>3. Len(EventsOf(u)) = 2
    BY <2>2
  <2>. QED
    BY <2>3 DEF Halves
<1>. QED
  BY <1>1, <1>2, <1>3

\* The steps of the stream and of the record, and those of the calendar.
LEMMA UsageStep == UsageInv /\ UsageNext => UsageInv'
<1>. SUFFICES ASSUME UsageInv, UsageNext PROVE UsageInv'
  OBVIOUS
<1>0. /\ LastToday \in Nat \ {0} /\ Len(Releases) \in Nat \ {0}
      /\ today \in 1..LastToday /\ release \in 1..Len(Releases)
      /\ Halves(upstream) \in Nat /\ buffered \in 0..Halves(upstream)
      /\ chunkEnds \subseteq 1..Halves(upstream)
      /\ streamState \in {"open", "closed", "logged", "stored"}
  BY UsageAssumption, HalvesNat DEF UsageInv, UsageTypeOK
<1>a. /\ Len(usageRecord) = (IF streamState \in {"logged", "stored"} THEN 1 ELSE 0)
      /\ Len(ledgerRow) = (IF streamState = "stored" THEN 1 ELSE 0)
  BY DEF UsageInv, UsageTypeOK
<1>1. CASE ChunkArrives
  <2>1. PICK n \in (buffered + 1)..Halves(upstream) :
          buffered' = n /\ chunkEnds' = chunkEnds \cup {n}
    BY <1>1 DEF ChunkArrives
  <2>2. UNCHANGED <<upstream, streamState, whole, usageRecord, ledgerRow, today, release>>
    BY <1>1 DEF ChunkArrives
  <2>3. buffered' \in 0..Halves(upstream) /\ chunkEnds' \subseteq 1..Halves(upstream)
    BY <1>0, <2>1
  <2>4. UsageTypeOK'
    BY <1>0, <1>a, <2>2, <2>3 DEF UsageTypeOK
  <2>5. PricedOnce' /\ SameRateTwice'
    BY <2>2 DEF UsageInv, PricedOnce, SameRateTwice
  <2>. QED
    BY <2>4, <2>5 DEF UsageInv
<1>2. CASE StreamCloses
  <2>1. /\ streamState = "open" /\ streamState' = "closed"
        /\ UNCHANGED <<upstream, buffered, chunkEnds, usageRecord, ledgerRow, today, release>>
    BY <1>2 DEF StreamCloses
  <2>2. UsageTypeOK'
    BY <1>0, <1>a, <2>1 DEF UsageTypeOK
  <2>3. PricedOnce' /\ SameRateTwice'
    BY <2>1 DEF UsageInv, PricedOnce, SameRateTwice
  <2>. QED
    BY <2>2, <2>3 DEF UsageInv
<1>3. CASE LogStreamingUsage
  <2>1. /\ streamState = "closed" /\ streamState' = "logged"
        /\ UNCHANGED <<upstream, buffered, chunkEnds, whole, ledgerRow, today, release>>
    BY <1>3 DEF LogStreamingUsage
  <2>2. PICK u, r, k : /\ u = ExtractUsage(upstream) /\ r = RatesFor(upstream, u.input, today, release)
                       /\ k = CalculateCost(upstream.provider, r, u)
    OBVIOUS
  <2>3. usageRecord' = <<[usage |-> u, rates |-> r, day |-> today, release |-> release, cost |-> k]>>
    BY <1>3, <2>2 DEF LogStreamingUsage
  <2>4. /\ Len(usageRecord') = 1 /\ usageRecord'[1].usage = u /\ usageRecord'[1].rates = r
        /\ usageRecord'[1].day = today /\ usageRecord'[1].release = release
    BY <2>3
  <2>5. ledgerRow = <<>>
    BY <1>a, <2>1
  <2>6. UsageTypeOK'
    BY <1>0, <1>a, <2>1, <2>4 DEF UsageTypeOK
  <2>7. PricedOnce'
    BY <1>0, <2>1, <2>2, <2>4 DEF PricedOnce
  <2>8. SameRateTwice'
    BY <2>1, <2>5 DEF SameRateTwice
  <2>. QED
    BY <2>6, <2>7, <2>8 DEF UsageInv
<1>4. CASE RowStored
  <2>1. /\ streamState = "logged" /\ streamState' = "stored"
        /\ UNCHANGED <<upstream, buffered, chunkEnds, whole, usageRecord, today, release>>
    BY <1>4 DEF RowStored
  <2>2. PICK r, k : /\ r = RatesFor(upstream, usageRecord[1].usage.input, today, release)
                    /\ k = IF r = <<>> THEN "unpriced" ELSE "calculated"
    OBVIOUS
  <2>3. ledgerRow' = <<[class |-> k, fingerprint |-> r]>>
    BY <1>4, <2>2 DEF RowStored, FingerprintTokens
  <2>4. Len(ledgerRow') = 1 /\ ledgerRow'[1].fingerprint = r
    BY <2>3
  <2>5. usageRecord # <<>>
    BY <1>a, <2>1
  <2>6. UsageTypeOK'
    BY <1>0, <1>a, <2>1, <2>4 DEF UsageTypeOK
  <2>7. PricedOnce'
    BY <2>1 DEF UsageInv, PricedOnce
  <2>8. usageRecord[1].day = today /\ usageRecord[1].release = release => usageRecord[1].rates = r
    BY <2>2, <2>5 DEF UsageInv, PricedOnce
  <2>9. SameRateTwice'
    BY <2>1, <2>4, <2>8 DEF SameRateTwice
  <2>. QED
    BY <2>6, <2>7, <2>9 DEF UsageInv
<1>5. CASE DayBreaks \/ Upgraded
  <2>1. /\ streamState' = streamState /\ streamState # "stored"
        /\ UNCHANGED <<upstream, buffered, chunkEnds, whole, usageRecord, ledgerRow>>
    BY <1>5 DEF DayBreaks, Upgraded
  <2>2. /\ today' \in 1..LastToday /\ release' \in 1..Len(Releases)
        /\ today <= today' /\ release <= release'
    BY <1>0, <1>5 DEF DayBreaks, Upgraded
  <2>3. ledgerRow = <<>>
    BY <1>a, <2>1
  <2>4. UsageTypeOK'
    BY <1>0, <1>a, <2>1, <2>2 DEF UsageTypeOK
  <2>5. PricedOnce'
    BY <1>0, <2>1, <2>2 DEF UsageInv, PricedOnce
  <2>6. SameRateTwice'
    BY <2>1, <2>3 DEF SameRateTwice
  <2>. QED
    BY <2>4, <2>5, <2>6 DEF UsageInv
<1>. QED
  BY <1>1, <1>2, <1>3, <1>4, <1>5 DEF UsageNext

\* A stream begins in its invariant.
LEMMA UsageBegin == UsageInit => UsageInv
<1>. SUFFICES ASSUME UsageInit PROVE UsageInv
  OBVIOUS
<1>1. /\ buffered = 0 /\ chunkEnds = {} /\ streamState = "open"
      /\ usageRecord = <<>> /\ ledgerRow = <<>> /\ today = 1 /\ release = 1
  BY DEF UsageInit
<1>2. Halves(upstream) \in Nat /\ LastToday \in Nat \ {0} /\ Len(Releases) \in Nat \ {0}
  BY HalvesNat, UsageAssumption
<1>3. Len(usageRecord) = 0 /\ Len(ledgerRow) = 0
  BY <1>1
<1>4. UsageTypeOK
  BY <1>1, <1>2, <1>3 DEF UsageTypeOK
<1>. QED
  BY <1>1, <1>4 DEF UsageInv, PricedOnce, SameRateTwice

-----------------------------------------------------------------------------
(* All parts.  One of them runs; the invariant is the one of that part.    *)

LocalInv ==
    /\ part \in {"inventory", "discovery"} => DiscoveryInv
    /\ part = "alerts" => AlertsInv
    /\ part = "outcomes" => OutcomesInv
    /\ part = "cache" => CacheInv
    /\ part = "routing" => RoutingInv
    /\ part \in {"scan_logs", "scan_cursor"} => ScanLogInv /\ ScanCursorInv
    /\ part = "migrations" => MigrationsInv
    /\ part \in {"anomaly", "deviation"} => AnomalyInv
    /\ part = "usage" => UsageInv
    /\ part \in {"run_trees", "request_links"} => RunsInv /\ LinksInv

\* Every part begins in its invariant.
LEMMA LocalBegin == LocalInit => LocalInv
<1>. SUFFICES ASSUME LocalInit PROVE LocalInv
  OBVIOUS
<1>1. /\ DiscoveryInv /\ AlertsInv /\ OutcomesInv /\ CacheInv /\ RoutingInv
      /\ ScanLogInv /\ ScanCursorInv /\ MigrationsInv /\ AnomalyInv /\ UsageInv
      /\ RunsInv /\ LinksInv
  BY DiscoveryBegin, AlertsBegin, OutcomesBegin, CacheBegin, RoutingBegin, ScanLogBegin,
     ScanCursorBegin, MigrationsBegin, AnomalyBegin, UsageBegin, RunsBegin, LinksBegin
  DEF LocalInit
<1>. QED
  BY <1>1 DEF LocalInv

\* Steps that leave the assets alone.
LEMMA DiscoveryStays == ASSUME DiscoveryInv, UNCHANGED discoveryVars PROVE DiscoveryInv'
<1>0. UNCHANGED <<now, asset, event, archived, detector, lastCheck, engine, pending,
                  fired, sending, alerted, gap, twin>>
  BY DEF discoveryVars
<1>1. DiscoveryShape' /\ TwinInv'
  <2>1. KnownAssets' = KnownAssets /\ \A k : Of(k)' = Of(k)
    BY <1>0 DEF KnownAssets, Of
  <2>2. DiscoveryShape'
    BY <1>0 DEF DiscoveryInv, DiscoveryShape
  <2>3. now \in Nat /\ DiscoveryShape /\ TwinInv
    BY DiscoveryAssumption DEF DiscoveryInv, DiscoveryShape
  <2>. QED
    BY <1>0, <2>1, <2>2, <2>3, TwinKept
<1>2. OneEventInv' /\ AnnounceInv'
  BY <1>0 DEF DiscoveryInv, OneEventInv, AnnounceInv, Announcing
<1>. QED
  BY <1>1, <1>2 DEF DiscoveryInv

\* ... the budgets and caps, ...
LEMMA AlertsStay == ASSUME AlertsInv, UNCHANGED localAlertVars PROVE AlertsInv'
<1>0. UNCHANGED <<day, cost, unstored, budgetCheck, keyCheck, firedSet, sent, seen, strayed>>
  BY DEF localAlertVars
<1>1. AlertsShape'
  BY <1>0 DEF AlertsInv, AlertsShape
<1>2. BudgetAlertsInv'
  BY <1>0, BudgetAlertsStay DEF AlertsInv
<1>3. \A a : FilingOf(a)' <=> FilingOf(a)
  BY <1>0 DEF FilingOf
<1>4. KeyAlertsInv'
  BY <1>0, <1>3 DEF AlertsInv, KeyAlertsInv
<1>. QED
  BY <1>1, <1>2, <1>4 DEF AlertsInv

\* ... the outcomes, ...
LEMMA OutcomesStay == ASSUME OutcomesInv, UNCHANGED outcomeVars PROVE OutcomesInv'
<1>0. UNCHANGED <<pull, deriver, localRow, localHistory, posts, cloudRow, cloudHistory, judged, eventTime>>
  BY DEF outcomeVars
<1>1. OutcomesShape'
  BY <1>0 DEF OutcomesInv, OutcomesShape
<1>2. LocalSideInv'
  BY <1>0 DEF OutcomesInv, LocalSideInv, LocalSideShape, CallerOwned
<1>3. CloudSideInv'
  BY <1>0 DEF OutcomesInv, CloudSideInv, CloudSideShape
<1>. QED
  BY <1>1, <1>2, <1>3 DEF OutcomesInv

\* ... the semantic cache, ...
LEMMA CacheStays == ASSUME CacheInv, UNCHANGED cacheVars PROVE CacheInv'
  BY DEF cacheVars, CacheInv, RepliesOwn, RepliesFresh

\* ... the router, ...
LEMMA RoutingStays == ASSUME RoutingInv, UNCHANGED routingVars PROVE RoutingInv'
  BY DEF routingVars, RoutingInv, RoutedOnRecentSpend

\* ... the file under migration, ...
LEMMA MigrationsStay == ASSUME MigrationsInv, UNCHANGED migrationVars PROVE MigrationsInv'
<1>0. UNCHANGED <<columns, starters, downgraded, requestedModel, cut>>
  BY DEF migrationVars
<1>1. FillInv'
  BY <1>0 DEF MigrationsInv, FillInv
<1>. QED
  BY <1>0, <1>1 DEF MigrationsInv

\* ... the stream, ...
LEMMA UsageStays == ASSUME UsageInv, UNCHANGED usageVars PROVE UsageInv'
<1>0. UNCHANGED <<upstream, buffered, chunkEnds, streamState, whole, usageRecord,
                  ledgerRow, today, release>>
  BY DEF usageVars
<1>. QED
  BY <1>0 DEF UsageInv, UsageTypeOK, PricedOnce, SameRateTwice

\* ... the trees of runs, ...
LEMMA RunsStay == ASSUME RunsInv, UNCHANGED treeVars PROVE RunsInv'
<1>0. UNCHANGED <<runs, runWriters, overtakenRun, runSpend, rollup>>
  BY DEF treeVars
<1>1. RunsShape'
  BY <1>0 DEF RunsInv, RunsShape
<1>2. /\ \A r : RunKnown(r)' <=> RunKnown(r)
      /\ \A r, space : SameSpace(r, space)' <=> SameSpace(r, space)
      /\ \A r, space, p : RunAllowed(r, space, p)' <=> RunAllowed(r, space, p)
  BY <1>0 DEF RunKnown, SameSpace, RunAllowed, Mentions
<1>3. ApartInv'
  BY <1>0, <1>2 DEF RunsInv, ApartInv
<1>4. RollupInv'
  BY <1>0 DEF RunsInv, RollupInv, Left
<1>. QED
  BY <1>1, <1>3, <1>4 DEF RunsInv

\* ... the links of requests.
LEMMA LinksStay == ASSUME LinksInv, UNCHANGED linkVars PROVE LinksInv'
<1>0. UNCHANGED <<requests, linkWriters, writeLock>>
  BY DEF linkVars
<1>1. LinksShape'
  BY <1>0 DEF LinksInv, LinksShape
<1>2. \A space : Links(space)' = Links(space)
  BY <1>0 DEF Links, LinksTo, Stored
<1>3. \A space, e : Reaches(space, e)' = Reaches(space, e)
  BY <1>2 DEF Reaches
<1>4. LockInv' /\ LinksAcyclic'
  BY <1>0, <1>3 DEF LinksInv, LockInv, LinksAcyclic
<1>. QED
  BY <1>1, <1>4 DEF LinksInv

\* A step that changes nothing keeps the invariants.
LEMMA LocalStays == ASSUME LocalInv, UNCHANGED localVars PROVE LocalInv'
<1>0. /\ part' = part
      /\ UNCHANGED discoveryVars /\ UNCHANGED localAlertVars /\ UNCHANGED outcomeVars
      /\ UNCHANGED cacheVars /\ UNCHANGED routingVars /\ UNCHANGED migrationVars
      /\ UNCHANGED usageVars
  BY DEF localVars
<1>1. UNCHANGED scanVars /\ UNCHANGED anomalyVars /\ UNCHANGED agentRunVars
  BY DEF localVars
<1>2. UNCHANGED logVars /\ UNCHANGED cursorVars /\ UNCHANGED detectVars /\ sample' = sample
  BY <1>1 DEF scanVars, anomalyVars
<1>3. UNCHANGED treeVars /\ UNCHANGED linkVars
  BY <1>1 DEF agentRunVars
<1>4. AnomalyInv => AnomalyInv'
  <2>. SUFFICES ASSUME AnomalyInv PROVE AnomalyInv'
    OBVIOUS
  <2>1. sample \in Seq(0..SampleMax)
    BY DEF AnomalyInv, AnomalyShape
  <2>. QED
    BY <1>2, <2>1, AnomalyStays
<1>5. /\ DiscoveryInv => DiscoveryInv'
      /\ AlertsInv => AlertsInv'
      /\ OutcomesInv => OutcomesInv'
      /\ CacheInv => CacheInv'
      /\ RoutingInv => RoutingInv'
      /\ MigrationsInv => MigrationsInv'
      /\ UsageInv => UsageInv'
  BY <1>0, DiscoveryStays, AlertsStay, OutcomesStay, CacheStays, RoutingStays,
     MigrationsStay, UsageStays
<1>6. /\ ScanLogInv => ScanLogInv'
      /\ ScanCursorInv => ScanCursorInv'
      /\ RunsInv => RunsInv'
      /\ LinksInv => LinksInv'
  BY <1>2, <1>3, ScanLogStays, ScanCursorStays, RunsStay, LinksStay
<1>. QED
  BY <1>0, <1>4, <1>5, <1>6 DEF LocalInv

\* Every step keeps the invariant of the part that takes it.
LEMMA LocalStep == LocalInv /\ [LocalNext]_localVars => LocalInv'
<1>. SUFFICES ASSUME LocalInv, [LocalNext]_localVars PROVE LocalInv'
  OBVIOUS
<1>1. CASE UNCHANGED localVars
  BY <1>1, LocalStays
<1>2. CASE LocalNext
  <2>0. part' = part
    BY <1>2 DEF LocalNext
  <2>1. CASE part \in {"inventory", "discovery"} /\ DiscoveryNext
    BY <2>0, <2>1, DiscoveryStep DEF LocalInv
  <2>2. CASE part = "alerts" /\ LocalAlertsNext
    BY <2>0, <2>2, AlertsStep DEF LocalInv
  <2>3. CASE part = "outcomes" /\ OutcomesNext
    BY <2>0, <2>3, OutcomesStep DEF LocalInv
  <2>4. CASE part = "cache" /\ CacheNext
    BY <2>0, <2>4, CacheStep DEF LocalInv
  <2>5. CASE part = "routing" /\ RoutingNext
    BY <2>0, <2>5, RoutingStep DEF LocalInv
  <2>6. CASE part = "scan_logs" /\ LogNext /\ UNCHANGED cursorVars
    BY <2>0, <2>6, ScanLogStep, ScanCursorStays DEF LocalInv
  <2>7. CASE part = "scan_cursor" /\ CursorNext /\ UNCHANGED logVars
    BY <2>0, <2>7, ScanCursorStep, ScanLogStays DEF LocalInv
  <2>8. CASE part = "migrations" /\ MigrationsNext
    BY <2>0, <2>8, MigrationsStep DEF LocalInv
  <2>9. CASE part = "anomaly" /\ DetectNext
    BY <2>0, <2>9, AnomalyStep DEF LocalInv
  <2>10. CASE part = "deviation" /\ DrawSample
    BY <2>0, <2>10, DrawStep DEF LocalInv
  <2>11. CASE part = "usage" /\ UsageNext
    BY <2>0, <2>11, UsageStep DEF LocalInv
  <2>12. CASE part = "run_trees" /\ TreeNext /\ UNCHANGED linkVars
    BY <2>0, <2>12, RunsStep, LinksStay DEF LocalInv
  <2>13. CASE part = "request_links" /\ LinkNext /\ UNCHANGED treeVars
    BY <2>0, <2>13, LinksStep, RunsStay DEF LocalInv
  <2>. QED
    BY <1>2, <2>1, <2>2, <2>3, <2>4, <2>5, <2>6, <2>7, <2>8, <2>9, <2>10, <2>11, <2>12, <2>13
    DEF LocalNext, DiscoveryNext
<1>. QED
  BY <1>1, <1>2

\* Type correctness of every part: rows, checks, scans, processes and records
\* stay within what their modules declare, for any number of each.
THEOREM LocalTypes == LocalSpec => []LocalTypeOK
<1>1. LocalInv => LocalTypeOK
  BY DiscoverySafe, AlertsSafe, OutcomesSafe, CacheTyped, RoutingTyped, ScanTyped,
     MigrationsSafe, AnomalySafe, AgentRunsTyped
  DEF LocalInv, LocalTypeOK, UsageInv
<1>. QED
  BY LocalBegin, LocalStep, <1>1, PTL DEF LocalSpec

\* However many detectors, requests and checks overlap, every asset, crossing and
\* anomaly is announced, no dedup entry swallows one, and repeats are bounded
\* (discovery, alerts, anomaly; the statistics of the deviation are data).
THEOREM AnnouncedAlways == LocalSpec => [](part # "deviation" => DetectedOnce)
<1>1. LocalInv => (part # "deviation" => DetectedOnce)
  BY DiscoverySafe, AlertsSafe, AnomalySafe DEF LocalInv, DetectedOnce
<1>. QED
  BY LocalBegin, LocalStep, <1>1, PTL DEF LocalSpec

\* A semantic cache hit is the client's own and fresh, the router spends by a sum
\* at most its time to live old, and a row is classed by the rates that priced it
\* (the sums over events and tables that make the bill are recursive).
THEOREM ServedRight ==
    LocalSpec => []( /\ part # "usage" => ServedAndBilled
                     /\ part = "usage" => SameRateTwice )
<1>1. LocalInv => /\ part # "usage" => ServedAndBilled
                  /\ part = "usage" => SameRateTwice
  BY DEF LocalInv, ServedAndBilled, CacheInv, RoutingInv, UsageInv
<1>. QED
  BY LocalBegin, LocalStep, <1>1, PTL DEF LocalSpec

\* The importers bring every finished line into the ledger once, a cached Cursor
\* database has been imported, and a process that reports ready has every column
\* and no invented value, for any number of lines, scans and processes.
THEOREM LedgerComplete == LocalSpec => []LedgerFilled
<1>1. LocalInv => LedgerFilled
  BY ScanLogSafe, ScanCursorSafe, MigrationsSafe DEF LocalInv, LedgerFilled
<1>. QED
  BY LocalBegin, LocalStep, <1>1, PTL DEF LocalSpec

\* Trees of runs keep to a workspace and count once, links of requests close no
\* cycle, histories have no gap and a caller's outcome stays the caller's, for
\* any number of runs, requests and writers.
THEOREM LedgerConsistent == LocalSpec => []LedgerLinked
<1>1. LocalInv => LedgerLinked
  BY RunsSafe, OutcomesSafe DEF LocalInv, LedgerLinked, LinksInv
<1>. QED
  BY LocalBegin, LocalStep, <1>1, PTL DEF LocalSpec

\* The cloud never changes an outcome without a line of history, and no upsert
\* moves a run to another workspace.
THEOREM LocalStepsNeverTaken == LocalSpec => LocalStepsSafe
<1>1. LocalInv /\ [LocalNext]_localVars =>
        [\A p \in PullRequests : (cloudRow[p] # {} /\ cloudRow'[p] # cloudRow[p])
           => cloudHistory'[p] # cloudHistory[p]]_outcomeVars
  <2>. SUFFICES ASSUME LocalInv, LocalNext, outcomeVars' # outcomeVars
                PROVE  \A p \in PullRequests : (cloudRow[p] # {} /\ cloudRow'[p] # cloudRow[p])
                         => cloudHistory'[p] # cloudHistory[p]
    BY DEF localVars
  <2>1. part = "outcomes" /\ OutcomesNext
    BY DEF LocalNext
  <2>. QED
    BY <2>1, ReplayStep DEF LocalInv
<1>2. LocalInv /\ [LocalNext]_localVars =>
        [\A r \in RunIds : RunKnown(r) => runs'[r].space = runs[r].space]_runs
  <2>. SUFFICES ASSUME LocalInv, LocalNext, runs' # runs
                PROVE  \A r \in RunIds : RunKnown(r) => runs'[r].space = runs[r].space
    BY DEF localVars, agentRunVars, treeVars
  <2>1. part = "run_trees" /\ TreeNext
    BY DEF LocalNext, agentRunVars, treeVars
  <2>. QED
    BY <2>1, SpaceKept DEF LocalInv, RunsInv
<1>3. LocalSpec => ReplayHarmless
  BY LocalBegin, LocalStep, <1>1, PTL DEF LocalSpec, ReplayHarmless
<1>4. LocalSpec => RunKeepsSpace
  BY LocalBegin, LocalStep, <1>2, PTL DEF LocalSpec, RunKeepsSpace
<1>. QED
  BY <1>3, <1>4 DEF LocalStepsSafe
=============================================================================
