------------------------- MODULE MapEntitiesProofs -------------------------
(***************************************************************************)
(* The safety properties of the entities map authors wire together, for    *)
(* every map with finitely many entities: nothing is left waiting for a    *)
(* think that is not set, and multisources know what their buttons show.   *)
(* What an entity may be in the middle of stands on the stack of calls:    *)
(* the invariant says which calls excuse it from what it holds otherwise.  *)
(***************************************************************************)
EXTENDS MapEntities, FiniteSetTheorems, SequenceTheorems, TLAPS

-----------------------------------------------------------------------------
(* The inductive invariant. *)

Ops == {"use", "kill", "fire", "activate", "return", "rearm", "moveDone", "open", "turn", "realign", "fired", "triggered"}
Caller == Entities \cup {Stranger, NoName} \cup Names \cup Nat
Frames == {f \in [op : Ops, ent : Caller, by : Caller] : f.op = "fire" => f.ent \notin Buttons}
Clones == [id : Nat, of : Managers, index : Nat, first : BOOLEAN]

CallTypes ==
  /\ stack \in Seq(Frames)
  /\ delayed \in Seq((Names \cup {NoName}) \X (Names \cup {NoName}))
  /\ clones \subseteq Clones /\ \A c \in clones : c.id \in 1..made
  /\ members \in [Sources -> Seq(Entities \cup Nat)]

\* These calls are made at once.
Shallow == \A k \in DOMAIN stack : stack[k].op \in {"moveDone", "activate"} => k = 1

Pending(op, e) == \E k \in DOMAIN stack : stack[k].op = op /\ stack[k].ent = e

Going(e) == state[e] \in {"goingUp", "goingDown"}
Returning(e) == ~Has(e, "stay") /\ ~Has(e, "toggle") /\ ~Has(e, "noReturn")

\* A mover that moves, returns or sounds has its think, or its next call is being made.
MoverOK(e) ==
  /\ Running("moveDone", e) => \/ state[e] = "goingUp" /\ pos[e] = "high"
                               \/ state[e] = "goingDown" /\ pos[e] = "low"
  /\ Going(e) => \/ think[e] = "moveDone"
                 \/ Running("moveDone", e)
                 \/ e \in Buttons /\ map.master[e] # NoName /\ state[e] = "goingUp" /\ pos[e] = "high"
  /\ think[e] = "moveDone" => Going(e)
  /\ state[e] = "top" /\ Returning(e) => \/ think[e] \in {"return", "goDown"}
                                         \/ (Running("return", e) \/ Running("turn", e)) /\ Alive(e)
  /\ think[e] = "hitBottom" => state[e] = "bottom" \/ Running("moveDone", e)
  /\ e \in sound => ~Has(e, "silent") /\ (think[e] \in {"moveDone", "hitBottom"} \/ Running("moveDone", e))

\* A button that cannot be pushed back is where its state says, and returns only from its top.
ButtonOK(b) ==
  /\ state[b] = "bottom" => pos[b] = "low"
  /\ state[b] = "top" => pos[b] = "high"
  /\ Running("activate", b) => state[b] = "bottom"
  /\ \A k \in DOMAIN stack : stack[k].op = "return" /\ stack[k].ent = b =>
         Has(b, "toggle") \/ (k = 1 /\ state[b] = "top")
  /\ think[b] = "return" => ~Has(b, "toggle") /\ state[b] = "top"

\* A manager that takes no use fires on, a counter that ran out has fired or is about to.
FiringOK(m) == m \in running => think[m] \in {"managerStart", "managerThink"} \/ Pending("fired", m)

CountOK(c) ==
  /\ left[c] > 0 => think[c] = "none" /\ ~Pending("triggered", c)
  /\ left[c] <= 0 => think[c] = "remove" \/ c \in removed \/ map.master[c] # NoName \/ Pending("triggered", c)

MembersKnown ==
  \A s \in Sources :
    /\ think[s] = "register" => members[s] = <<>>
    /\ \A i, j \in DOMAIN members[s] : members[s][i] = members[s][j] => i = j
    /\ \A i \in DOMAIN members[s] : members[s][i] \notin Managers \cup Nat =>
           map.target[members[s][i]] = map.name[s] /\ map.name[s] # NoName

Up(b) == state[b] \in {"top", "goingDown"}
Plain(b) == ~Has(b, "toggle") /\ ~Has(b, "delay")
UseOf(s, b) == [op |-> "use", ent |-> s, by |-> b]
Absent(f) == \A k \in DOMAIN stack : stack[k] # f
Once(f) == \A k, l \in DOMAIN stack : stack[k] = f /\ stack[l] = f => k = l

\* A button and a multisource that it is wired to.
Wired(s, b) ==
  /\ s \notin disturbed /\ Alive(s) /\ Alive(b) /\ Plain(b)
  /\ map.target[b] = map.name[s] /\ map.name[s] # NoName

\* The input is what the button's state says, but for the one use that is about to be made; no use of it precedes
\* the button's arrival.
InputOK(s, b) ==
  Wired(s, b) =>
    /\ Running("moveDone", b) => Absent(UseOf(s, b))
    /\ Once(UseOf(s, b))
    /\ think[s] = "register" => (Up(b) <=> ~Absent(UseOf(s, b)))
    /\ \A i \in DOMAIN members[s] : members[s][i] = b => (input[s][i] <=> (Up(b) <=> Absent(UseOf(s, b))))

Linked ==
  /\ Shallow /\ MembersKnown
  /\ \A e \in Movers : MoverOK(e)
  /\ \A b \in Buttons : ButtonOK(b)
  /\ \A m \in Managers : FiringOK(m)
  /\ \A c \in Counters : CountOK(c)
  /\ \A s \in Sources, b \in Buttons : InputOK(s, b)

MapInv == TypeOK /\ CallTypes /\ Linked

-----------------------------------------------------------------------------
(* The stack of calls. *)

Rest == IF stack = <<>> THEN <<>> ELSE Tail(stack)

\* The running call, if there is one, ends and makes the calls of frames: what is on the stack then.
LEMMA StackStep ==
  ASSUME stack \in Seq(Frames), NEW frames \in Seq(Frames), stack' = frames \o Rest
  PROVE  /\ stack' \in Seq(Frames)
         /\ \A k \in DOMAIN stack' : \/ k \in DOMAIN frames /\ stack'[k] = frames[k]
                                     \/ /\ \E j \in DOMAIN stack : j > 1 /\ j = k - Len(frames) + 1 /\ stack'[k] = stack[j]
                                        /\ k = 1 => frames = <<>>
         /\ \A k \in DOMAIN frames : k \in DOMAIN stack' /\ stack'[k] = frames[k]
         /\ \A j \in DOMAIN stack : j > 1 =>
                j - 1 + Len(frames) \in DOMAIN stack' /\ stack'[j - 1 + Len(frames)] = stack[j]
         /\ stack' # <<>> => 1 \in DOMAIN stack' /\ Head(stack') = stack'[1]
<1>1. CASE stack = <<>>
  <2>1. stack' = frames
    BY <1>1 DEF Rest
  <2> QED BY <1>1, <2>1
<1>2. CASE stack # <<>>
  <2>1. stack' = frames \o Tail(stack)
    BY <1>2 DEF Rest
  <2>2. Tail(stack) \in Seq(Frames) /\ Len(Tail(stack)) = Len(stack) - 1 /\ Len(stack) \in Nat /\ Len(stack) > 0
        /\ \A i \in 1..Len(Tail(stack)) : Tail(stack)[i] = stack[i + 1]
    BY <1>2
  <2>3. /\ stack' \in Seq(Frames) /\ Len(stack') = Len(frames) + Len(stack) - 1
        /\ \A i \in 1..Len(stack') : stack'[i] = IF i <= Len(frames) THEN frames[i] ELSE stack[i - Len(frames) + 1]
    BY <2>1, <2>2
  <2>4. /\ DOMAIN stack = 1..Len(stack) /\ DOMAIN stack' = 1..Len(stack') /\ DOMAIN frames = 1..Len(frames)
        /\ Len(frames) \in Nat
    BY <2>3
  <2>5. ASSUME NEW k \in DOMAIN stack'
        PROVE  \/ k \in DOMAIN frames /\ stack'[k] = frames[k]
               \/ /\ \E j \in DOMAIN stack : j > 1 /\ j = k - Len(frames) + 1 /\ stack'[k] = stack[j]
                  /\ k = 1 => frames = <<>>
    <3>1. CASE k <= Len(frames)
      BY <2>3, <2>4, <3>1
    <3>2. CASE k > Len(frames)
      <4>1. k - Len(frames) + 1 \in DOMAIN stack /\ k - Len(frames) + 1 > 1
        BY <2>2, <2>3, <2>4, <3>2
      <4>2. stack'[k] = stack[k - Len(frames) + 1]
        <5>1. k \in 1..Len(stack') /\ ~(k <= Len(frames))
          BY <2>4, <3>2
        <5>2. stack'[k] = IF k <= Len(frames) THEN frames[k] ELSE stack[k - Len(frames) + 1]
          BY <2>3, <5>1
        <5> QED BY <5>1, <5>2
      <4>3. k = 1 => frames = <<>>
        BY <2>4, <3>2
      <4> QED BY <4>1, <4>2, <4>3
    <3> QED BY <2>4, <3>1, <3>2
  <2>6. \A k \in DOMAIN frames : k \in DOMAIN stack' /\ stack'[k] = frames[k]
    BY <2>2, <2>3, <2>4
  <2>7. \A j \in DOMAIN stack : j > 1 =>
            j - 1 + Len(frames) \in DOMAIN stack' /\ stack'[j - 1 + Len(frames)] = stack[j]
    <3> SUFFICES ASSUME NEW j \in DOMAIN stack, j > 1
                 PROVE  j - 1 + Len(frames) \in DOMAIN stack' /\ stack'[j - 1 + Len(frames)] = stack[j]
      OBVIOUS
    <3> DEFINE k == j - 1 + Len(frames)
    <3>1. j \in Int /\ j <= Len(stack) /\ Len(frames) \in Nat /\ Len(stack) \in Nat
      BY <2>2, <2>4
    <3>6. Len(stack') = Len(frames) + Len(stack) - 1
      BY <2>3
    <3>2. k \in 1..Len(stack') /\ ~(k <= Len(frames)) /\ k - Len(frames) + 1 = j
      BY <3>1, <3>6
    <3>3. stack'[k] = IF k <= Len(frames) THEN frames[k] ELSE stack[k - Len(frames) + 1]
      BY <2>3, <3>2
    <3>4. k \in DOMAIN stack'
      BY <2>4, <3>2
    <3>5. stack'[k] = stack[j]
      BY <3>2, <3>3
    <3> QED BY <3>4, <3>5
  <2>8. stack' # <<>> => 1 \in DOMAIN stack' /\ Head(stack') = stack'[1]
    BY <2>3, <2>4
  <2> QED BY <2>3, <2>5, <2>6, <2>7, <2>8
<1> QED BY <1>1, <1>2

\* The running call is the first of the stack.
LEMMA Top ==
  ASSUME stack \in Seq(Frames), NEW op, NEW e
  PROVE  Running(op, e) <=> 1 \in DOMAIN stack /\ stack[1].op = op /\ stack[1].ent = e
<1>1. stack # <<>> <=> 1 \in DOMAIN stack
  OBVIOUS
<1>2. stack # <<>> => Head(stack) = stack[1]
  OBVIOUS
<1> QED BY <1>1, <1>2 DEF Running

\* The call that runs after a step is the first of the stack then.
LEMMA TopAfter ==
  ASSUME stack' \in Seq(Frames), NEW op, NEW e
  PROVE  Running(op, e)' <=> 1 \in DOMAIN stack' /\ stack'[1].op = op /\ stack'[1].ent = e
<1>1. stack' # <<>> <=> 1 \in DOMAIN stack'
  OBVIOUS
<1>2. stack' # <<>> => Head(stack') = stack'[1]
  OBVIOUS
<1> QED BY <1>1, <1>2 DEF Running

\* A call ends by making others, or none.
LEMMA CallsStack ==
  ASSUME stack \in Seq(Frames), NEW frames, Calls(frames), stack # <<>>
  PROVE  stack' = frames \o Rest
BY DEF Calls, Rest

LEMMA NoCalls == <<>> \in Seq(Frames) /\ DOMAIN <<>> = {}
OBVIOUS

\* A call that is made alone.
LEMMA OneCall ==
  ASSUME NEW op \in Ops, NEW e \in Caller, NEW by \in Caller, op # "fire",
         NEW f, f = [op |-> op, ent |-> e, by |-> by]
  PROVE  <<f>> \in Seq(Frames) /\ DOMAIN <<f>> = {1} /\ <<f>>[1] = f
<1>1. f \in Frames
  BY DEF Frames
<1> QED BY <1>1

-----------------------------------------------------------------------------
(* The order in which the engine finds entities, and the calls made in it. *)

\* What the keys of a map are.
LEMMA MapFacts ==
  ASSUME map \in Maps
  PROVE  /\ Present \subseteq Entities /\ IsFiniteSet(Present)
         /\ \A d, e \in Present : map.edict[d] \in Nat /\ (map.edict[d] = map.edict[e] => d = e)
         /\ map.name \in [Entities -> Names \cup {NoName}] /\ map.target \in [Entities -> Names \cup {NoName}]
         /\ map.kill \in [Entities -> Names \cup {NoName}] /\ map.close \in [Entities -> Names \cup {NoName}]
         /\ map.master \in [Entities -> Names \cup {NoName}]
         /\ map.fires \in [Managers -> Seq(Names)]
BY MapsAssumption DEF Present

\* InOrder lists the entities of a set, each once.
LEMMA OrderLists ==
  ASSUME map \in Maps, NEW es \in SUBSET Present
  PROVE  /\ InOrder(es) \in Seq(es)
         /\ \A e \in es : \E k \in DOMAIN InOrder(es) : InOrder(es)[k] = e
         /\ \A k, l \in DOMAIN InOrder(es) : InOrder(es)[k] = InOrder(es)[l] => k = l
<1> DEFINE Before(e) == {d \in es : map.edict[d] < map.edict[e]}
           n == Cardinality(es)
           Pick(k) == CHOOSE e \in es : Cardinality(Before(e)) = k - 1
           rank == [e \in es |-> Cardinality(Before(e)) + 1]
<1>1. IsFiniteSet(es) /\ n \in Nat
  BY MapFacts, FS_Subset, FS_CardinalityType
<1>2. \A d, e \in es : map.edict[d] \in Nat /\ (map.edict[d] = map.edict[e] => d = e)
  BY MapFacts
<1>3. ASSUME NEW e \in es
      PROVE  IsFiniteSet(Before(e)) /\ Cardinality(Before(e)) \in Nat /\ Cardinality(Before(e)) < n
  <2>1. Before(e) \in SUBSET es /\ Before(e) # es
    BY <1>2
  <2> QED BY <1>1, <2>1, FS_Subset, FS_CardinalityType
<1>4. ASSUME NEW d \in es, NEW e \in es, map.edict[d] < map.edict[e]
      PROVE  Cardinality(Before(d)) < Cardinality(Before(e))
  <2>1. Before(d) \in SUBSET Before(e) /\ Before(d) # Before(e)
    BY <1>2, <1>4
  <2> HIDE DEF Before
  <2> QED BY <1>1, <1>3, <2>1, FS_Subset
<1>8. InOrder(es) = [k \in 1..n |-> Pick(k)]
  BY DEF InOrder
<1> HIDE DEF Before
<1>5. rank \in Injection(es, 1..n)
  <2>1. rank \in [es -> 1..n]
    BY <1>1, <1>3
  <2>2. ASSUME NEW d \in es, NEW e \in es, rank[d] = rank[e] PROVE d = e
    <3>1. Cardinality(Before(d)) = Cardinality(Before(e))
      BY <1>3, <2>2
    <3>2. ~(map.edict[d] < map.edict[e]) /\ ~(map.edict[e] < map.edict[d])
      BY <1>3, <1>4, <3>1
    <3> QED BY <1>2, <3>2
  <2> QED BY <2>1, <2>2 DEF Injection, IsInjective
<1>6. rank \in Surjection(es, 1..n)
  <2>1. IsFiniteSet(1..n) /\ Cardinality(1..n) = n
    BY <1>1, FS_Interval
  <2> QED BY <1>5, <2>1, FS_Injection
<1>7. ASSUME NEW k \in 1..n
      PROVE  InOrder(es)[k] \in es /\ rank[InOrder(es)[k]] = k
  <2>1. PICK e \in es : rank[e] = k
    BY <1>6 DEF Surjection
  <2>2. Cardinality(Before(e)) = k - 1
    BY <1>3, <2>1
  <2>3. Pick(k) \in es /\ Cardinality(Before(Pick(k))) = k - 1
    BY <2>2
  <2>4. InOrder(es)[k] = Pick(k)
    BY <1>8
  <2> HIDE DEF Pick
  <2> QED BY <1>3, <2>3, <2>4
<1> HIDE DEF Pick
<1>9. InOrder(es) \in Seq(es)
  <2>1. InOrder(es) \in [1..n -> es]
    BY <1>7, <1>8
  <2> QED BY <1>1, <2>1, SeqDef
<1>10. \A e \in es : \E k \in 1..n : InOrder(es)[k] = e
  <2> SUFFICES ASSUME NEW e \in es PROVE InOrder(es)[rank[e]] = e /\ rank[e] \in 1..n
    OBVIOUS
  <2>1. rank[e] \in 1..n
    BY <1>5 DEF Injection
  <2>2. InOrder(es)[rank[e]] \in es /\ rank[InOrder(es)[rank[e]]] = rank[e]
    BY <1>7, <2>1
  <2> QED BY <1>5, <2>1, <2>2 DEF Injection, IsInjective
<1>11. \A k, l \in 1..n : InOrder(es)[k] = InOrder(es)[l] => k = l
  BY <1>7
<1> QED BY <1>8, <1>9, <1>10, <1>11

\* Only entities of the map are found.
LEMMA NamedPresent == \A n : Named(n) \subseteq Present
BY DEF Named

\* What is used is used once.
LEMMA UseAllCalls ==
  ASSUME map \in Maps, NEW es \in SUBSET Present, NEW caller \in Caller
  PROVE  /\ UseAll(es, caller) \in Seq(Frames)
         /\ \A k \in DOMAIN UseAll(es, caller) :
                \E e \in es : UseAll(es, caller)[k] = UseOf(e, caller)
         /\ \A e \in es : \E k \in DOMAIN UseAll(es, caller) : UseAll(es, caller)[k] = UseOf(e, caller)
         /\ \A k, l \in DOMAIN UseAll(es, caller) :
                UseAll(es, caller)[k] = UseAll(es, caller)[l] => k = l
<1> DEFINE q == InOrder(es)
           p == UseAll(es, caller)
<1>1. q \in Seq(es) /\ (\A e \in es : \E k \in DOMAIN q : q[k] = e) /\ (\A k, l \in DOMAIN q : q[k] = q[l] => k = l)
  BY OrderLists
<1>2. p = [i \in DOMAIN q |-> UseOf(q[i], caller)]
  BY DEF UseAll, UseOf
<1> HIDE DEF p, q
<1>3. \A e \in es : e \in Caller /\ UseOf(e, caller) \in Frames
  BY MapFacts DEF Caller, Frames, Ops, UseOf
<1>4. \A d, e : UseOf(d, caller) = UseOf(e, caller) => d = e
  BY DEF UseOf
<1>5. DOMAIN p = DOMAIN q /\ \A k \in DOMAIN q : p[k] = UseOf(q[k], caller) /\ q[k] \in es
  BY <1>1, <1>2
<1>6. DOMAIN q = 1..Len(q) /\ Len(q) \in Nat
  BY <1>1
<1>7. p \in Seq(Frames)
  <2>1. p \in [1..Len(q) -> Frames]
    BY <1>2, <1>3, <1>5, <1>6
  <2> QED BY <1>6, <2>1, SeqDef
<1>8. \A k \in DOMAIN p : \E e \in es : p[k] = UseOf(e, caller)
  BY <1>5
<1>9. \A e \in es : \E k \in DOMAIN p : p[k] = UseOf(e, caller)
  BY <1>1, <1>5
<1>10. \A k, l \in DOMAIN p : p[k] = p[l] => k = l
  BY <1>1, <1>4, <1>5
<1> QED BY <1>7, <1>8, <1>9, <1>10 DEF p, q

\* The kill target and the targets of an entity are killed and used by it, the latter once each.
LEMMA UseTargetsCalls ==
  ASSUME map \in Maps, NEW e \in Entities
  PROVE  /\ UseTargets(e) \in Seq(Frames)
         /\ \A k \in DOMAIN UseTargets(e) : \/ UseTargets(e)[k].op = "kill"
                                            \/ UseTargets(e)[k].op = "use" /\ UseTargets(e)[k].by = e
         /\ ~Has(e, "delay") => \A s \in Named(map.target[e]) :
                /\ \E k \in DOMAIN UseTargets(e) : UseTargets(e)[k] = UseOf(s, e)
                /\ \A k, l \in DOMAIN UseTargets(e) :
                       UseTargets(e)[k] = UseOf(s, e) /\ UseTargets(e)[l] = UseOf(s, e) => k = l
<1> DEFINE q == Killing(map.kill[e])
           p == FireTargets(map.target[e], e)
<1>1. q \in Seq(Frames) /\ \A k \in DOMAIN q : q[k].op = "kill"
  <2>1. map.kill[e] \in Caller /\ NoName \in Caller
    BY MapFacts DEF Caller
  <2>2. [op |-> "kill", ent |-> NoName, by |-> map.kill[e]] \in Frames
    BY <2>1 DEF Frames, Ops
  <2> QED BY <2>2 DEF Killing
<1>2. e \in Caller /\ Named(map.target[e]) \in SUBSET Present
  BY NamedPresent DEF Caller
<1>3. /\ p \in Seq(Frames)
      /\ \A k \in DOMAIN p : \E s \in Named(map.target[e]) : p[k] = UseOf(s, e)
      /\ \A s \in Named(map.target[e]) : \E k \in DOMAIN p : p[k] = UseOf(s, e)
      /\ \A k, l \in DOMAIN p : p[k] = p[l] => k = l
  BY <1>2, UseAllCalls DEF FireTargets
<1>4. CASE ~Targeting(e)
  <2>1. UseTargets(e) = <<>>
    BY <1>4 DEF UseTargets
  <2>2. ~Has(e, "delay") => Named(map.target[e]) = {}
    BY <1>4 DEF Targeting, Named
  <2> QED BY <2>1, <2>2
<1>5. CASE Targeting(e)
  <2>1. UseTargets(e) = q \o p
    BY <1>5 DEF UseTargets
  <2> HIDE DEF q, p
  <2>2. /\ q \o p \in Seq(Frames) /\ DOMAIN (q \o p) = 1..(Len(q) + Len(p)) /\ Len(q) \in Nat /\ Len(p) \in Nat
        /\ DOMAIN q = 1..Len(q) /\ DOMAIN p = 1..Len(p)
        /\ \A k \in DOMAIN (q \o p) : (q \o p)[k] = IF k <= Len(q) THEN q[k] ELSE p[k - Len(q)]
    BY <1>1, <1>3
  <2>3. ASSUME NEW k \in DOMAIN (q \o p)
        PROVE  \/ k \in DOMAIN q /\ (q \o p)[k] = q[k] /\ q[k].op = "kill"
               \/ k - Len(q) \in DOMAIN p /\ (q \o p)[k] = p[k - Len(q)]
    <3>1. CASE k <= Len(q)
      BY <1>1, <2>2, <3>1
    <3>2. CASE k > Len(q)
      BY <2>2, <3>2
    <3> QED BY <2>2, <3>1, <3>2
  <2>4. \A s : UseOf(s, e).op = "use" /\ UseOf(s, e).by = e
    BY DEF UseOf
  <2>8. \A k \in DOMAIN p : p[k].op = "use" /\ p[k].by = e
    BY <1>3, <2>4
  <2>5. \A k \in DOMAIN (q \o p) : (q \o p)[k].op = "kill" \/ ((q \o p)[k].op = "use" /\ (q \o p)[k].by = e)
    <3> SUFFICES ASSUME NEW k \in DOMAIN (q \o p)
                 PROVE  (q \o p)[k].op = "kill" \/ ((q \o p)[k].op = "use" /\ (q \o p)[k].by = e)
      OBVIOUS
    <3>1. CASE (q \o p)[k] = q[k] /\ q[k].op = "kill"
      <4>1. (q \o p)[k].op = q[k].op
        BY <3>1, Zenon
      <4> QED BY <3>1, <4>1
    <3>2. CASE k - Len(q) \in DOMAIN p /\ (q \o p)[k] = p[k - Len(q)]
      <4>1. p[k - Len(q)].op = "use" /\ p[k - Len(q)].by = e
        BY <2>8, <3>2
      <4> QED BY <3>2, <4>1
    <3> QED BY <2>3, <3>1, <3>2
  <2>6. ASSUME NEW s \in Named(map.target[e]) PROVE \E k \in DOMAIN (q \o p) : (q \o p)[k] = UseOf(s, e)
    <3>1. PICK l \in DOMAIN p : p[l] = UseOf(s, e)
      BY <1>3
    <3>2. l + Len(q) \in DOMAIN (q \o p) /\ ~(l + Len(q) <= Len(q)) /\ (l + Len(q)) - Len(q) = l
      BY <2>2
    <3>3. (q \o p)[l + Len(q)] = p[l]
      BY <2>2, <3>2
    <3> QED BY <3>1, <3>2, <3>3
  <2>7. ASSUME NEW s, NEW k \in DOMAIN (q \o p), NEW l \in DOMAIN (q \o p),
               (q \o p)[k] = UseOf(s, e), (q \o p)[l] = UseOf(s, e)
        PROVE  k = l
    <3>1. k - Len(q) \in DOMAIN p /\ p[k - Len(q)] = UseOf(s, e) /\ l - Len(q) \in DOMAIN p /\ p[l - Len(q)] = UseOf(s, e)
      BY <2>3, <2>4, <2>7
    <3>2. k - Len(q) = l - Len(q)
      BY <1>3, <3>1
    <3> QED BY <2>2, <3>2
  <2> QED BY <2>1, <2>2, <2>5, <2>6, <2>7
<1> QED BY <1>4, <1>5

\* Concatenation of calls, for what every one of them is, or of other sequences.
LEMMA Concatenated ==
  ASSUME NEW S, NEW p \in Seq(S), NEW q \in Seq(S)
  PROVE  /\ p \o q \in Seq(S)
         /\ \A k \in DOMAIN (p \o q) : \/ k \in DOMAIN p /\ (p \o q)[k] = p[k]
                                       \/ k - Len(p) \in DOMAIN q /\ (p \o q)[k] = q[k - Len(p)] /\ (k = 1 => p = <<>>)
         /\ \A k \in DOMAIN p : k \in DOMAIN (p \o q) /\ (p \o q)[k] = p[k]
         /\ \A k \in DOMAIN q : k + Len(p) \in DOMAIN (p \o q) /\ (p \o q)[k + Len(p)] = q[k]
<1>1. /\ p \o q \in Seq(S) /\ DOMAIN (p \o q) = 1..(Len(p) + Len(q)) /\ Len(p) \in Nat /\ Len(q) \in Nat
      /\ DOMAIN p = 1..Len(p) /\ DOMAIN q = 1..Len(q)
      /\ \A k \in DOMAIN (p \o q) : (p \o q)[k] = IF k <= Len(p) THEN p[k] ELSE q[k - Len(p)]
  OBVIOUS
<1>2. p # <<>> => Len(p) > 0
  OBVIOUS
<1>3. ASSUME NEW k \in DOMAIN (p \o q)
      PROVE  \/ k \in DOMAIN p /\ (p \o q)[k] = p[k]
             \/ k - Len(p) \in DOMAIN q /\ (p \o q)[k] = q[k - Len(p)] /\ (k = 1 => p = <<>>)
  <2>1. CASE k <= Len(p)
    BY <1>1, <2>1
  <2>2. CASE k > Len(p)
    BY <1>1, <1>2, <2>2
  <2> QED BY <1>1, <2>1, <2>2
<1>4. \A k \in DOMAIN p : k \in DOMAIN (p \o q) /\ (p \o q)[k] = p[k]
  BY <1>1
<1>5. ASSUME NEW k \in DOMAIN q PROVE k + Len(p) \in DOMAIN (p \o q) /\ (p \o q)[k + Len(p)] = q[k]
  <2>1. k + Len(p) \in DOMAIN (p \o q) /\ ~(k + Len(p) <= Len(p)) /\ (k + Len(p)) - Len(p) = k
    BY <1>1
  <2>2. (p \o q)[k + Len(p)] = IF k + Len(p) <= Len(p) THEN p[k + Len(p)] ELSE q[(k + Len(p)) - Len(p)]
    BY <1>1, <2>1
  <2> QED BY <2>1, <2>2
<1> QED BY <1>1, <1>3, <1>4, <1>5

\* Which calls the helpers put on the stack.
LEMMA FireTargetsCalls ==
  ASSUME map \in Maps, NEW n, NEW caller \in Caller
  PROVE  /\ FireTargets(n, caller) \in Seq(Frames)
         /\ \A k \in DOMAIN FireTargets(n, caller) :
                FireTargets(n, caller)[k].op = "use" /\ FireTargets(n, caller)[k].by = caller
<1>1. Named(n) \in SUBSET Present
  BY NamedPresent
<1>2. \A e : UseOf(e, caller).op = "use" /\ UseOf(e, caller).by = caller
  BY DEF UseOf
<1> QED BY <1>1, <1>2, UseAllCalls DEF FireTargets

LEMMA KillingCalls ==
  ASSUME NEW n \in Names \cup {NoName}
  PROVE  Killing(n) \in Seq(Frames) /\ \A k \in DOMAIN Killing(n) : Killing(n)[k].op = "kill"
<1>1. [op |-> "kill", ent |-> NoName, by |-> n] \in Frames
  BY DEF Frames, Ops, Caller
<1> QED BY <1>1 DEF Killing

LEMMA TurnAllCalls ==
  ASSUME map \in Maps, NEW op \in {"turn", "realign"}, NEW es \in SUBSET Present, NEW d \in Caller
  PROVE  TurnAll(op, es, d) \in Seq(Frames) /\ \A k \in DOMAIN TurnAll(op, es, d) : TurnAll(op, es, d)[k].op = op
<1> DEFINE q == InOrder(es)
           f(e) == [op |-> op, ent |-> e, by |-> d]
           p == TurnAll(op, es, d)
<1>1. q \in Seq(es)
  BY OrderLists
<1>2. p = [i \in DOMAIN q |-> f(q[i])]
  BY DEF TurnAll
<1> HIDE DEF p, q
<1>3. \A e \in es : f(e) \in Frames /\ f(e).op = op
  BY MapFacts DEF Frames, Ops, Caller
<1> HIDE DEF f
<1>4. DOMAIN q = 1..Len(q) /\ Len(q) \in Nat /\ \A i \in DOMAIN q : q[i] \in es
  BY <1>1
<1>5. p \in Seq(Frames)
  <2>1. p \in [1..Len(q) -> Frames]
    BY <1>2, <1>3, <1>4
  <2> QED BY <1>4, <2>1, SeqDef
<1> QED BY <1>2, <1>3, <1>4, <1>5 DEF p

LEMMA FireDueCalls ==
  ASSUME map \in Maps, NEW m \in Managers, NEW i \in Nat, NEW n \in 0..Len(map.fires[m]), NEW caller \in Caller \ Buttons
  PROVE  FireDue(m, i, n, caller) \in Seq(Frames) /\ \A k \in DOMAIN FireDue(m, i, n, caller) : FireDue(m, i, n, caller)[k].op = "fire"
<1> DEFINE f(k) == [op |-> "fire", ent |-> caller, by |-> map.fires[m][i + k]]
           p == FireDue(m, i, n, caller)
<1>1. map.fires[m] \in Seq(Names) /\ Len(map.fires[m]) \in Nat /\ n \in Nat
  BY MapFacts
<1>2. p = [k \in 1..(n - i) |-> f(k)]
  BY DEF FireDue
<1>3. ASSUME NEW k \in 1..(n - i) PROVE f(k) \in Frames /\ f(k).op = "fire"
  <2>1. i + k \in 1..Len(map.fires[m])
    BY <1>1
  <2>2. map.fires[m][i + k] \in Names
    BY <1>1, <2>1
  <2> QED BY <2>2 DEF Frames, Ops, Caller
<1> HIDE DEF f, p
<1>4. CASE n - i \in Nat
  <2>1. p \in [1..(n - i) -> Frames]
    BY <1>2, <1>3
  <2>2. p \in Seq(Frames)
    BY <1>4, <2>1, SeqDef
  <2> QED BY <1>2, <1>3, <2>2 DEF p
<1>5. CASE n - i \notin Nat
  <2>1. p \in [1..0 -> Frames]
    <3>1. 1..(n - i) = 1..0
      BY <1>1, <1>5
    <3> QED BY <1>2, <1>3, <3>1
  <2>2. p \in Seq(Frames)
    BY <2>1, SeqDef
  <2> QED BY <1>2, <1>3, <2>2 DEF p
<1> QED BY <1>4, <1>5


-----------------------------------------------------------------------------
(* A step of one entity, as the others see it. *)

\* Only e changes, and the running call, which is of e if others count on it, makes the calls of frames.
Step(e, frames) ==
  /\ frames \in Seq(Frames) /\ stack' = frames \o Rest
  /\ map' = map /\ removed \subseteq removed'
  /\ \A d \in Entities : d # e => think'[d] = think[d]
  /\ \A d \in Movers : d # e => state'[d] = state[d] /\ pos'[d] = pos[d] /\ (d \in sound' => d \in sound)
  /\ \A m \in Managers : m # e => (m \in running' => m \in running)
  /\ \A c \in Counters : c # e => left'[c] = left[c]
  /\ 1 \in DOMAIN stack /\ stack[1].op \in {"moveDone", "return", "activate", "fired", "triggered", "turn"} =>
         stack[1].ent = e \/ (stack[1].op = "turn" /\ ~Alive(stack[1].ent))
  /\ \A k \in DOMAIN frames :
         /\ frames[k].op \in {"moveDone", "activate"} => k = 1
         /\ frames[k].op \in {"moveDone", "triggered"} => frames[k].ent = e
         /\ frames[k].op = "activate" /\ frames[k].ent # e => state[frames[k].ent] = "bottom"
         /\ frames[k].op = "return" /\ frames[k].ent # e => Has(frames[k].ent, "toggle")

\* What may be on the stack afterwards.
LEMMA StepCalls ==
  ASSUME MapInv, NEW e, NEW frames, Step(e, frames)
  PROVE  /\ stack' \in Seq(Frames)
         /\ \A k \in DOMAIN stack' :
              \/ k \in DOMAIN frames /\ stack'[k] = frames[k]
              \/ /\ \E j \in DOMAIN stack : j > 1 /\ stack'[k] = stack[j]
                 /\ stack'[k].op \notin {"moveDone", "activate"}
                 /\ stack'[k].op = "return" /\ stack'[k].ent \in Buttons => Has(stack'[k].ent, "toggle")
         /\ \A k \in DOMAIN frames : k \in DOMAIN stack' /\ stack'[k] = frames[k]
         /\ \A j \in DOMAIN stack : j > 1 => \E k \in DOMAIN stack' : stack'[k] = stack[j]
         /\ Shallow'
<1>1. stack \in Seq(Frames) /\ Shallow /\ \A b \in Buttons : ButtonOK(b)
  BY DEF MapInv, Linked, CallTypes
<1>2. /\ stack' \in Seq(Frames)
      /\ \A k \in DOMAIN stack' : \/ k \in DOMAIN frames /\ stack'[k] = frames[k]
                                  \/ \E j \in DOMAIN stack : j > 1 /\ stack'[k] = stack[j]
      /\ \A k \in DOMAIN frames : k \in DOMAIN stack' /\ stack'[k] = frames[k]
      /\ \A j \in DOMAIN stack : j > 1 => \E k \in DOMAIN stack' : stack'[k] = stack[j]
  <2>1. frames \in Seq(Frames) /\ stack' = frames \o Rest
    BY DEF Step
  <2>2. /\ stack' \in Seq(Frames)
        /\ \A k \in DOMAIN stack' : \/ k \in DOMAIN frames /\ stack'[k] = frames[k]
                                    \/ /\ \E j \in DOMAIN stack : j > 1 /\ j = k - Len(frames) + 1 /\ stack'[k] = stack[j]
                                       /\ k = 1 => frames = <<>>
        /\ \A k \in DOMAIN frames : k \in DOMAIN stack' /\ stack'[k] = frames[k]
        /\ \A j \in DOMAIN stack : j > 1 =>
               j - 1 + Len(frames) \in DOMAIN stack' /\ stack'[j - 1 + Len(frames)] = stack[j]
    BY <1>1, <2>1, StackStep
  <2> QED BY <2>2
<1>3. ASSUME NEW j \in DOMAIN stack, j > 1
      PROVE  /\ stack[j].op \notin {"moveDone", "activate"}
             /\ stack[j].op = "return" /\ stack[j].ent \in Buttons => Has(stack[j].ent, "toggle")
  BY <1>1, <1>3 DEF Shallow, ButtonOK
<1>4. \A k \in DOMAIN stack' :
        \/ k \in DOMAIN frames /\ stack'[k] = frames[k]
        \/ /\ \E j \in DOMAIN stack : j > 1 /\ stack'[k] = stack[j]
           /\ stack'[k].op \notin {"moveDone", "activate"}
           /\ stack'[k].op = "return" /\ stack'[k].ent \in Buttons => Has(stack'[k].ent, "toggle")
  <2> SUFFICES ASSUME NEW k \in DOMAIN stack', ~(k \in DOMAIN frames /\ stack'[k] = frames[k])
               PROVE  /\ \E j \in DOMAIN stack : j > 1 /\ stack'[k] = stack[j]
                      /\ stack'[k].op \notin {"moveDone", "activate"}
                      /\ stack'[k].op = "return" /\ stack'[k].ent \in Buttons => Has(stack'[k].ent, "toggle")
    OBVIOUS
  <2>1. PICK j \in DOMAIN stack : j > 1 /\ stack'[k] = stack[j]
    BY <1>2
  <2> QED BY <1>3, <2>1
<1>5. Shallow'
  BY <1>4 DEF Shallow, Step
<1> QED BY <1>2, <1>4, <1>5

\* The other movers, managers and counters keep what holds of them.
LEMMA OthersMove ==
  ASSUME MapInv, NEW e, NEW frames, Step(e, frames), NEW d \in Movers, d # e
  PROVE  MoverOK(d)' /\ (d \in Buttons => ButtonOK(d)')
<1>1. MoverOK(d) /\ (d \in Buttons => ButtonOK(d)) /\ stack \in Seq(Frames)
  BY DEF MapInv, Linked, CallTypes
<1>2. /\ stack' \in Seq(Frames)
      /\ \A k \in DOMAIN stack' :
           \/ k \in DOMAIN frames /\ stack'[k] = frames[k]
           \/ /\ stack'[k].op \notin {"moveDone", "activate"}
              /\ stack'[k].op = "return" /\ stack'[k].ent \in Buttons => Has(stack'[k].ent, "toggle")
  BY StepCalls
<1>3. /\ map' = map /\ removed \subseteq removed' /\ d \in Entities
      /\ state'[d] = state[d] /\ pos'[d] = pos[d] /\ think'[d] = think[d] /\ (d \in sound' => d \in sound)
  BY DEF Step, Entities
<1>4. ~Running("moveDone", d) /\ ((Running("return", d) \/ Running("turn", d)) => ~Alive(d))
  BY <1>1, Top DEF Step
<1>5. ~Running("moveDone", d)'
  BY <1>2, TopAfter DEF Step
<1>6. MoverOK(d)'
  BY <1>1, <1>3, <1>4, <1>5 DEF MoverOK, Going, Returning, Has
<1>7. ASSUME d \in Buttons PROVE ButtonOK(d)'
  <2>1. Running("activate", d)' => state[d] = "bottom"
    BY <1>2, TopAfter DEF Step
  <2>2. \A k \in DOMAIN stack' : stack'[k].op = "return" /\ stack'[k].ent = d => Has(d, "toggle")
    BY <1>2, <1>7 DEF Step
  <2> QED BY <1>1, <1>3, <1>7, <2>1, <2>2 DEF ButtonOK, Has
<1> QED BY <1>6, <1>7

LEMMA OthersFire ==
  ASSUME MapInv, NEW e, NEW frames, Step(e, frames)
  PROVE  /\ \A m \in Managers : m # e => FiringOK(m)'
         /\ \A c \in Counters : c # e => CountOK(c)'
<1>1. stack \in Seq(Frames) /\ (\A m \in Managers : FiringOK(m)) /\ (\A c \in Counters : CountOK(c))
  BY DEF MapInv, Linked, CallTypes
<1>2. /\ \A k \in DOMAIN stack' : \/ k \in DOMAIN frames /\ stack'[k] = frames[k]
                                  \/ \E j \in DOMAIN stack : j > 1 /\ stack'[k] = stack[j]
      /\ \A j \in DOMAIN stack : j > 1 => \E k \in DOMAIN stack' : stack'[k] = stack[j]
  BY StepCalls
<1>3. \A op, d : (1 \in DOMAIN stack => ~(stack[1].op = op /\ stack[1].ent = d)) /\ Pending(op, d) => Pending(op, d)'
  <2> SUFFICES ASSUME NEW op, NEW d, 1 \in DOMAIN stack => ~(stack[1].op = op /\ stack[1].ent = d), Pending(op, d)
               PROVE  Pending(op, d)'
    OBVIOUS
  <2>1. PICK j \in DOMAIN stack : stack[j].op = op /\ stack[j].ent = d
    BY DEF Pending
  <2>2. j > 1
    BY <1>1, <2>1
  <2> QED BY <1>2, <2>1, <2>2 DEF Pending
<1>4. \A d : d # e /\ Pending("triggered", d)' => Pending("triggered", d)
  BY <1>2 DEF Pending, Step
<1>5. ASSUME NEW m \in Managers, m # e PROVE FiringOK(m)'
  <2>1. Pending("fired", m) => Pending("fired", m)'
    BY <1>3, <1>5 DEF Step
  <2>2. think'[m] = think[m] /\ (m \in running' => m \in running)
    BY <1>5 DEF Step, Entities
  <2> QED BY <1>1, <2>1, <2>2 DEF FiringOK
<1>6. ASSUME NEW c \in Counters, c # e PROVE CountOK(c)'
  <2>1. Pending("triggered", c) => Pending("triggered", c)'
    BY <1>3, <1>6 DEF Step
  <2>2. think'[c] = think[c] /\ left'[c] = left[c] /\ map' = map /\ (c \in removed => c \in removed')
    BY <1>6 DEF Step, Entities
  <2> QED BY <1>1, <1>4, <1>6, <2>1, <2>2 DEF CountOK
<1> QED BY <1>5, <1>6

\* The calls that e itself counts on, if it is a mover.
LEMMA OwnCalls ==
  ASSUME MapInv, NEW e, NEW frames, Step(e, frames)
  PROVE  /\ \A op \in {"moveDone", "activate"} : Running(op, e)' =>
                1 \in DOMAIN frames /\ frames[1].op = op /\ frames[1].ent = e
         /\ \A op : 1 \in DOMAIN frames /\ frames[1].op = op /\ frames[1].ent = e => Running(op, e)'
         /\ \A k \in DOMAIN stack' : stack'[k].op = "return" /\ stack'[k].ent = e /\ e \in Buttons =>
                Has(e, "toggle") \/ (k \in DOMAIN frames /\ frames[k].op = "return")
BY StepCalls, TopAfter

\* A call that is neither made nor ends.
LEMMA CallStays ==
  ASSUME stack \in Seq(Frames), NEW frames \in Seq(Frames), stack' = frames \o Rest,
         NEW f, \A k \in DOMAIN frames : frames[k] # f, 1 \in DOMAIN stack => stack[1] # f
  PROVE  (Absent(f)' <=> Absent(f)) /\ (Once(f) => Once(f)')
<1>1. /\ \A k \in DOMAIN stack' :
           \/ k \in DOMAIN frames /\ stack'[k] = frames[k]
           \/ \E j \in DOMAIN stack : j > 1 /\ j = k - Len(frames) + 1 /\ stack'[k] = stack[j]
      /\ \A j \in DOMAIN stack : j > 1 =>
             j - 1 + Len(frames) \in DOMAIN stack' /\ stack'[j - 1 + Len(frames)] = stack[j]
      /\ DOMAIN stack \subseteq Nat \ {0} /\ DOMAIN stack' \subseteq Int /\ Len(frames) \in Nat
  <2>1. /\ stack' \in Seq(Frames)
        /\ \A k \in DOMAIN stack' : \/ k \in DOMAIN frames /\ stack'[k] = frames[k]
                                    \/ /\ \E j \in DOMAIN stack : j > 1 /\ j = k - Len(frames) + 1 /\ stack'[k] = stack[j]
                                       /\ k = 1 => frames = <<>>
        /\ \A j \in DOMAIN stack : j > 1 =>
               j - 1 + Len(frames) \in DOMAIN stack' /\ stack'[j - 1 + Len(frames)] = stack[j]
    BY StackStep
  <2>2. DOMAIN stack \subseteq Nat \ {0} /\ DOMAIN stack' \subseteq Int /\ Len(frames) \in Nat
    BY <2>1
  <2> QED BY <2>1, <2>2
<1>2. ASSUME NEW k \in DOMAIN stack', stack'[k] = f
      PROVE  k - Len(frames) + 1 \in DOMAIN stack /\ stack[k - Len(frames) + 1] = f
  BY <1>1, <1>2
<1>3. ASSUME NEW j \in DOMAIN stack, stack[j] = f PROVE j > 1
  BY <1>1, <1>3
<1>4. Absent(f) => Absent(f)'
  BY <1>2 DEF Absent
<1>5. Absent(f)' => Absent(f)
  BY <1>1, <1>3 DEF Absent
<1>6. ASSUME Once(f) PROVE Once(f)'
  <2> SUFFICES ASSUME NEW k \in DOMAIN stack', NEW l \in DOMAIN stack', stack'[k] = f, stack'[l] = f
               PROVE  k = l
    BY DEF Once
  <2>1. k - Len(frames) + 1 = l - Len(frames) + 1
    BY <1>2, <1>6 DEF Once
  <2> QED BY <1>1, <2>1
<1> QED BY <1>4, <1>5, <1>6

\* A step that does not touch the multisource s or change what button b says.
LEMMA InputKept ==
  ASSUME MapInv, NEW e, NEW frames, Step(e, frames), NEW s \in Sources, NEW b \in Buttons,
         disturbed \subseteq disturbed', members'[s] = members[s], input'[s] = input[s],
         think'[s] = "register" <=> think[s] = "register",
         1 \in DOMAIN stack => stack[1] # UseOf(s, b),
         \A k \in DOMAIN frames : frames[k] # UseOf(s, b),
         Plain(b) => (Up(b)' <=> Up(b)),
         Wired(s, b) /\ Running("moveDone", b)' => Absent(UseOf(s, b))
  PROVE  InputOK(s, b)'
<1> SUFFICES ASSUME Wired(s, b)'
             PROVE  /\ Running("moveDone", b)' => Absent(UseOf(s, b))'
                    /\ Once(UseOf(s, b))'
                    /\ (think[s] = "register")' => (Up(b)' <=> ~Absent(UseOf(s, b))')
                    /\ \A i \in DOMAIN members'[s] : members'[s][i] = b => (input'[s][i] <=> (Up(b)' <=> Absent(UseOf(s, b))'))
  BY DEF InputOK, UseOf
<1>1. Wired(s, b) /\ Plain(b)
  BY DEF Wired, Alive, Plain, Has, Step, Present
<1>2. /\ Running("moveDone", b) => Absent(UseOf(s, b))
      /\ Once(UseOf(s, b))
      /\ think[s] = "register" => (Up(b) <=> ~Absent(UseOf(s, b)))
      /\ \A i \in DOMAIN members[s] : members[s][i] = b => (input[s][i] <=> (Up(b) <=> Absent(UseOf(s, b))))
  BY <1>1 DEF MapInv, Linked, InputOK
<1>3. (Absent(UseOf(s, b))' <=> Absent(UseOf(s, b))) /\ (Once(UseOf(s, b)) => Once(UseOf(s, b))')
  <2>1. stack \in Seq(Frames) /\ frames \in Seq(Frames) /\ stack' = frames \o Rest
    BY DEF MapInv, Linked, CallTypes, Step
  <2>2. UseOf(s, b)' = UseOf(s, b)
    BY DEF UseOf
  <2> HIDE DEF UseOf
  <2>3. PICK f : f = UseOf(s, b)
    OBVIOUS
  <2>4. (Absent(f)' <=> Absent(f)) /\ (Once(f) => Once(f)')
    BY <2>1, <2>3, CallStays
  <2> QED BY <2>2, <2>3, <2>4
<1> QED BY <1>1, <1>2, <1>3

-----------------------------------------------------------------------------
(* The actions, one after the other. *)

\* The call that runs is the first on the stack; between two calls of the engine there is none.
LEMMA Running1 ==
  ASSUME MapInv, NEW op, NEW e, Running(op, e)
  PROVE  /\ 1 \in DOMAIN stack /\ stack[1].op = op /\ stack[1].ent = e /\ Head(stack) = stack[1]
         /\ \A frames : Calls(frames) => stack' = frames \o Rest
         /\ stack # <<>>
<1>1. stack \in Seq(Frames) /\ stack # <<>>
  BY DEF MapInv, CallTypes, Running
<1> QED BY <1>1, Top, CallsStack DEF Running, Calls, Rest

LEMMA Idle1 ==
  ASSUME stack = <<>>
  PROVE  /\ 1 \notin DOMAIN stack
         /\ \A op, e : ~Running(op, e) /\ ~Pending(op, e)
         /\ \A f : Absent(f)
         /\ \A frames \in Seq(Frames) : stack' = frames => stack' = frames \o Rest
         /\ stack' = stack => stack' = <<>> \o Rest
<1>1. DOMAIN stack = {}
  OBVIOUS
<1> QED BY <1>1 DEF Running, Pending, Absent, Rest

\* The multisource s and the button b have nothing to do with a step that makes these calls.
Untouched(s, b, frames) ==
  /\ 1 \in DOMAIN stack => stack[1] # UseOf(s, b)
  /\ \A k \in DOMAIN frames : frames[k] # UseOf(s, b)
  /\ Plain(b) => (Up(b)' <=> Up(b))
  /\ Wired(s, b) /\ Running("moveDone", b)' => Absent(UseOf(s, b))

\* It is enough to look at the entity itself, and at the multisources and buttons that the step may disturb.
LEMMA StepLinks ==
  ASSUME MapInv, NEW e, NEW frames, Step(e, frames), e \notin Sources, UNCHANGED sources,
         e \in Movers => MoverOK(e)', e \in Buttons => ButtonOK(e)',
         e \in Managers => FiringOK(e)', e \in Counters => CountOK(e)',
         \A s \in Sources, b \in Buttons : InputOK(s, b)' \/ Untouched(s, b, frames)
  PROVE  stack' \in Seq(Frames) /\ Linked'
<1>1. stack' \in Seq(Frames) /\ Shallow'
  BY StepCalls
<1>2. \A d \in Movers : MoverOK(d)'
  BY OthersMove
<1>3. \A b \in Buttons : ButtonOK(b)'
  BY OthersMove DEF Movers
<1>4. (\A m \in Managers : FiringOK(m)') /\ (\A c \in Counters : CountOK(c)')
  BY OthersFire
<1>5. members' = members /\ input' = input /\ disturbed' = disturbed /\ map' = map
      /\ \A s \in Sources : think'[s] = think[s]
  BY DEF sources, Step, Entities
<1>6. MembersKnown'
  BY <1>5 DEF MapInv, Linked, MembersKnown
<1>7. ASSUME NEW s \in Sources, NEW b \in Buttons PROVE InputOK(s, b)'
  <2>1. CASE Untouched(s, b, frames)
    BY <1>5, <2>1, InputKept DEF Untouched
  <2> QED BY <2>1
<1> QED BY <1>1, <1>2, <1>3, <1>4, <1>6, <1>7 DEF Linked

\* A step of nobody in particular.
LEMMA QuietStep ==
  ASSUME MapInv, NEW frames, Step(Stranger, frames), UNCHANGED sources,
         \A s \in Sources, b \in Buttons : InputOK(s, b)' \/ Untouched(s, b, frames)
  PROVE  stack' \in Seq(Frames) /\ Linked'
<1>1. Stranger \notin Sources \cup Movers \cup Buttons \cup Managers \cup Counters
  BY NamesAssumption DEF Entities, Movers
<1> QED BY <1>1, StepLinks

\* An entity is of one class.
LEMMA Classes ==
  /\ \A e \in Movers : e \in Entities /\ e \in Caller /\ e \notin Sources \cup Managers \cup Counters \cup Triggers
  /\ \A e \in Sources \cup Managers \cup Counters \cup Triggers : e \in Entities /\ e \in Caller /\ e \notin Movers
  /\ \A e \in Buttons : e \notin Doors
  /\ Sources \cap (Managers \cup Counters \cup Triggers) = {} /\ Managers \cap (Counters \cup Triggers) = {}
  /\ Counters \cap Triggers = {}
  /\ Stranger \notin Entities /\ Stranger \in Caller /\ Stranger \notin Buttons
  /\ \A n \in Nat : n \in Caller /\ n \notin Entities /\ n \notin Buttons
BY ClassesAssumption, NamesAssumption, ClonesAssumption DEF Movers, Entities, Caller

\* LinearMove in the call of a mover.
LEMMA MoveLinks ==
  ASSUME MapInv, NEW e \in Movers, NEW dest, NEW st,
         (dest = "high" /\ st = "goingUp") \/ (dest = "low" /\ st = "goingDown"),
         LinearMove(e, dest, st),
         NEW op, Running(op, e),
         UNCHANGED <<sources, managers, left, removed, rest>>,
         \A d \in sound' : d \in sound \/ (d = e /\ ~Has(e, "silent")),
         e \in Buttons => /\ think[e] = "return" \/ Plain(e) => pos[e] # dest
                          /\ Plain(e) => (Up(e) <=> st = "goingDown")
  PROVE  stack' \in Seq(Frames) /\ Linked'
<1> DEFINE frames == IF pos[e] = dest THEN <<Frame("moveDone", e)>> ELSE <<>>
<1>1. /\ state' = [state EXCEPT ![e] = st]
      /\ think' = [think EXCEPT ![e] = IF pos[e] = dest THEN @ ELSE "moveDone"]
      /\ pos' = pos /\ Calls(frames)
  BY DEF LinearMove
<1>2. /\ 1 \in DOMAIN stack /\ stack[1].ent = e
      /\ stack' = frames \o Rest
  BY <1>1, Running1
<1>3. /\ frames \in Seq(Frames)
      /\ \A k \in DOMAIN frames : k = 1 /\ frames[k].op = "moveDone" /\ frames[k].ent = e /\ pos[e] = dest
      /\ pos[e] = dest => 1 \in DOMAIN frames
  <2>1. "moveDone" \in Ops /\ e \in Caller
    BY Classes DEF Ops
  <2>2. Frame("moveDone", e) = [op |-> "moveDone", ent |-> e, by |-> e]
    BY DEF Frame
  <2>3. <<Frame("moveDone", e)>> \in Seq(Frames) /\ DOMAIN <<Frame("moveDone", e)>> = {1}
        /\ <<Frame("moveDone", e)>>[1] = Frame("moveDone", e)
    BY <2>1, <2>2, OneCall
  <2> QED BY <2>2, <2>3, NoCalls
<1> HIDE DEF frames
<1>4. /\ state \in [Movers -> {"bottom", "goingUp", "top", "goingDown"}] /\ DOMAIN think = Entities /\ e \in Entities
      /\ sound \subseteq Doors
  BY Classes DEF MapInv, TypeOK
<1>5. /\ map' = map /\ removed' = removed /\ running' = running /\ left' = left /\ UNCHANGED sources
  BY DEF rest, managers
<1>6. Step(e, frames)
  BY <1>1, <1>2, <1>3, <1>4, <1>5 DEF Step
<1>7. MoverOK(e) /\ (e \in Buttons => ButtonOK(e))
  BY DEF MapInv, Linked
<1>8. /\ Running("moveDone", e)' <=> pos[e] = dest
      /\ ~Running("activate", e)'
      /\ \A k \in DOMAIN stack' : stack'[k].op = "return" /\ stack'[k].ent = e /\ e \in Buttons => Has(e, "toggle")
  <2>1. /\ \A o \in {"moveDone", "activate"} : Running(o, e)' =>
                1 \in DOMAIN frames /\ frames[1].op = o /\ frames[1].ent = e
        /\ \A o : 1 \in DOMAIN frames /\ frames[1].op = o /\ frames[1].ent = e => Running(o, e)'
        /\ \A k \in DOMAIN stack' : stack'[k].op = "return" /\ stack'[k].ent = e /\ e \in Buttons =>
                Has(e, "toggle") \/ (k \in DOMAIN frames /\ frames[k].op = "return")
    BY <1>6, OwnCalls
  <2> QED BY <1>3, <2>1
<1>9. state'[e] = st /\ pos'[e] = pos[e] /\ think'[e] = IF pos[e] = dest THEN think[e] ELSE "moveDone"
  BY <1>1, <1>4
<1>10. MoverOK(e)'
  BY <1>5, <1>7, <1>8, <1>9 DEF MoverOK, Going, Returning, Has
<1>11. e \in Buttons => ButtonOK(e)'
  BY <1>5, <1>7, <1>8, <1>9 DEF ButtonOK, Has
<1>12. ASSUME NEW s \in Sources, NEW b \in Buttons PROVE Untouched(s, b, frames)
  <2>1. stack[1] # UseOf(s, b) /\ \A k \in DOMAIN frames : frames[k] # UseOf(s, b)
    BY <1>2, <1>3, Classes DEF UseOf
  <2>2. Plain(b) => (Up(b)' <=> Up(b))
    BY <1>1, <1>4, <1>9 DEF Up, Movers
  <2>3. Wired(s, b) => ~Running("moveDone", b)'
    <3>1. b # e => ~Running("moveDone", b)'
      <4>1. stack \in Seq(Frames) /\ stack' \in Seq(Frames) /\ \A k \in DOMAIN stack' :
              (k \in DOMAIN frames /\ stack'[k] = frames[k]) \/ stack'[k].op \notin {"moveDone", "activate"}
        BY <1>6, StepCalls DEF MapInv, CallTypes
      <4> QED BY <1>3, <4>1, TopAfter
    <3> QED BY <1>8, <3>1 DEF Wired
  <2> QED BY <2>1, <2>2, <2>3 DEF Untouched
<1> QED BY <1>5, <1>6, <1>10, <1>11, <1>12, Classes, StepLinks

\* Calls that only use, kill, or fire, of somebody who is no button, are no concern of the movers and the buttons.
Plainly(frames) ==
  \A k \in DOMAIN frames : /\ frames[k].op \notin {"moveDone", "activate", "triggered", "return"}
                           /\ frames[k].op = "use" => frames[k].by \notin Buttons

\* The running call ends and makes such calls, and nothing changes but what no invariant speaks about.
LEMMA PlainLinks ==
  ASSUME MapInv, NEW frames \in Seq(Frames), stack' = frames \o Rest, Plainly(frames),
         1 \in DOMAIN stack =>
           /\ stack[1].op \in {"moveDone", "return", "activate", "fired", "triggered", "turn"} =>
                stack[1].op = "turn" /\ ~Alive(stack[1].ent)
           /\ stack[1].op = "use" => stack[1].ent \notin Sources \/ ~Alive(stack[1].ent),
         UNCHANGED <<moving, sources, running, left, map>>, sound' \subseteq sound, removed \subseteq removed'
  PROVE  stack' \in Seq(Frames) /\ Linked'
<1>1. Step(Stranger, frames)
  BY DEF Step, moving, Plainly
<1>2. ASSUME NEW s \in Sources, NEW b \in Buttons PROVE InputOK(s, b)' \/ Untouched(s, b, frames)
  <2>1. UseOf(s, b).op = "use" /\ UseOf(s, b).ent = s /\ UseOf(s, b).by = b
    BY DEF UseOf
  <2>2. \A k \in DOMAIN frames : frames[k] # UseOf(s, b)
    BY <2>1 DEF Plainly
  <2>3. Wired(s, b)' => Wired(s, b) /\ Alive(s)
    BY DEF Wired, Alive, Plain, Has, Present, sources
  <2>4. Wired(s, b)' => (1 \in DOMAIN stack => stack[1] # UseOf(s, b))
    BY <2>1, <2>3
  <2>5. Up(b)' <=> Up(b)
    BY DEF Up, moving
  <2>6. ~Running("moveDone", b)'
    <3>1. stack \in Seq(Frames) /\ stack' \in Seq(Frames) /\ \A k \in DOMAIN stack' :
            (k \in DOMAIN frames /\ stack'[k] = frames[k]) \/ stack'[k].op \notin {"moveDone", "activate"}
      BY <1>1, StepCalls DEF MapInv, CallTypes
    <3> QED BY <3>1, TopAfter DEF Plainly
  <2>7. CASE Wired(s, b)'
    BY <2>2, <2>4, <2>5, <2>6, <2>7 DEF Untouched
  <2>8. CASE ~Wired(s, b)'
    BY <2>8 DEF InputOK
  <2> QED BY <2>7, <2>8
<1> QED BY <1>1, <1>2, QuietStep

LEMMA ActivateLinks ==
  ASSUME MapInv, NEW b \in Buttons, Activate(b)
  PROVE  stack' \in Seq(Frames) /\ Linked'
<1>1. /\ Running("activate", b) /\ ButtonActivate(b)
      /\ UNCHANGED <<sounds, sources, managers, left, removed, rest>>
  BY DEF Activate
<1>2. b \in Movers /\ state[b] = "bottom" /\ pos[b] = "low" /\ sound' = sound
  BY <1>1 DEF MapInv, Linked, ButtonOK, Movers, sounds
<1>3. CASE Unlocked(b)
  <2>1. LinearMove(b, "high", "goingUp")
    BY <1>1, <1>3 DEF ButtonActivate
  <2> QED BY <1>1, <1>2, <2>1, MoveLinks DEF Up
<1>4. CASE ~Unlocked(b)
  <2>1. Calls(<<>>) /\ UNCHANGED moving
    BY <1>1, <1>4 DEF ButtonActivate
  <2>2. 1 \in DOMAIN stack /\ stack[1].op = "activate" /\ stack[1].ent = b /\ stack' = <<>> \o Rest
    BY <1>1, <2>1, Running1
  <2>3. <<>> \in Seq(Frames) /\ DOMAIN <<>> = {} /\ UNCHANGED <<running, left, removed, map>> /\ removed \subseteq removed'
    BY <1>1, NoCalls DEF managers, rest
  <2>4. Step(b, <<>>)
    BY <1>2, <2>1, <2>2, <2>3 DEF Step, moving
  <2>5. MoverOK(b)' /\ ButtonOK(b)'
    <3>1. /\ ~Running("moveDone", b)' /\ ~Running("activate", b)'
          /\ \A k \in DOMAIN stack' : stack'[k].op = "return" /\ stack'[k].ent = b => Has(b, "toggle")
      BY <2>3, <2>4, OwnCalls
    <3>2. MoverOK(b) /\ ButtonOK(b) /\ ~Running("moveDone", b) /\ map' = map
      BY <1>2, <2>2, <2>3, Top DEF MapInv, Linked, CallTypes
    <3> QED BY <1>2, <2>1, <3>1, <3>2 DEF MoverOK, ButtonOK, Going, Returning, Has, moving
  <2>6. ASSUME NEW s \in Sources, NEW d \in Buttons PROVE Untouched(s, d, <<>>)
    <3>1. stack[1] # UseOf(s, d)
      BY <2>2 DEF UseOf
    <3>2. ~Running("moveDone", d)'
      <4>1. stack' \in Seq(Frames) /\ \A k \in DOMAIN stack' : stack'[k].op \notin {"moveDone", "activate"}
        BY <2>3, <2>4, StepCalls
      <4> QED BY <4>1, TopAfter
    <3> QED BY <2>1, <2>3, <3>1, <3>2 DEF Untouched, Up, moving
  <2> QED BY <1>1, <1>2, <2>4, <2>5, <2>6, Classes, StepLinks
<1> QED BY <1>3, <1>4

LEMMA ButtonReturnLinks ==
  ASSUME MapInv, NEW b \in Buttons, ButtonReturn(b)
  PROVE  stack' \in Seq(Frames) /\ Linked'
<1>1. /\ Running("return", b) /\ LinearMove(b, "low", "goingDown")
      /\ UNCHANGED <<sounds, sources, managers, left, removed, rest>>
  BY DEF ButtonReturn
<1>2. b \in Movers /\ sound' = sound
  BY <1>1 DEF Movers, sounds
<1>3. ButtonOK(b)
  BY DEF MapInv, Linked
<1>4. Has(b, "toggle") \/ (state[b] = "top" /\ pos[b] = "high")
  BY <1>1, <1>3, Running1 DEF ButtonOK
<1>5. think[b] = "return" \/ Plain(b) => ~Has(b, "toggle")
  BY <1>3 DEF ButtonOK, Plain
<1> QED BY <1>1, <1>2, <1>4, <1>5, MoveLinks DEF Up

\* DoorGoUp and DoorGoDown, whoever calls them.
LEMMA DoorMoves ==
  ASSUME MapInv, NEW d \in Doors, NEW op, Running(op, d), DoorGoUp(d) \/ DoorGoDown(d),
         UNCHANGED <<sources, managers, left, removed, rest>>
  PROVE  stack' \in Seq(Frames) /\ Linked'
<1>1. d \in Movers /\ d \notin Buttons
  BY Classes DEF Movers
<1>2. \A e \in sound' : e \in sound \/ (e = d /\ ~Has(d, "silent"))
  BY DEF DoorGoUp, DoorGoDown
<1>3. LinearMove(d, "high", "goingUp") \/ LinearMove(d, "low", "goingDown")
  BY DEF DoorGoUp, DoorGoDown
<1> QED BY <1>1, <1>2, <1>3, MoveLinks

LEMMA OpenLinks ==
  ASSUME MapInv, NEW d \in Doors, Open(d)
  PROVE  stack' \in Seq(Frames) /\ Linked'
BY DoorMoves DEF Open, DoorActivate

LEMMA TurnLinks ==
  ASSUME MapInv, NEW d \in Doors, Turn(d)
  PROVE  stack' \in Seq(Frames) /\ Linked'
BY DoorMoves DEF Turn

LEMMA RealignLinks ==
  ASSUME MapInv, NEW d \in Doors, Realign(d)
  PROVE  stack' \in Seq(Frames) /\ Linked'
<1> DEFINE f == Frame("turn", d)
<1>1. /\ Running("realign", d) /\ Calls(<<f>>) /\ d \in Movers /\ d \notin Buttons
      /\ UNCHANGED <<state, think, sound, sources, running, left, removed, map>>
      /\ \A e \in Movers : e # d => pos'[e] = pos[e]
  BY Classes DEF Realign, MapInv, TypeOK, Movers, sounds, managers, rest
<1>2. f = [op |-> "turn", ent |-> d, by |-> d] /\ "turn" \in Ops /\ d \in Caller
  BY <1>1, Classes DEF Frame, Ops
<1>3. <<f>> \in Seq(Frames) /\ DOMAIN <<f>> = {1} /\ <<f>>[1] = f /\ f.op = "turn" /\ f.ent = d
  BY <1>2, OneCall
<1> HIDE DEF f
<1>4. 1 \in DOMAIN stack /\ stack[1].op = "realign" /\ stack[1].ent = d /\ stack' = <<f>> \o Rest
  BY <1>1, Running1
<1>5. Step(d, <<f>>)
  BY <1>1, <1>3, <1>4 DEF Step
<1>6. ~Running("moveDone", d) /\ \A e : ~Running("moveDone", e)'
  <2>1. Running("turn", d)'
    BY <1>3, <1>5, OwnCalls
  <2> QED BY <1>1, <2>1 DEF Running
<1>7. MoverOK(d)'
  <2>1. MoverOK(d) /\ ~Running("return", d) /\ ~Running("turn", d)
    BY <1>1 DEF MapInv, Linked, Running
  <2> QED BY <1>1, <1>6, <2>1 DEF MoverOK, Going, Returning, Has
<1>8. ASSUME NEW s \in Sources, NEW b \in Buttons PROVE Untouched(s, b, <<f>>)
  <2>1. UseOf(s, b).op = "use"
    BY DEF UseOf
  <2>2. (1 \in DOMAIN stack => stack[1] # UseOf(s, b)) /\ \A k \in DOMAIN <<f>> : <<f>>[k] # UseOf(s, b)
    BY <1>3, <1>4, <2>1
  <2>3. Up(b)' <=> Up(b)
    BY <1>1 DEF Up
  <2> QED BY <1>1, <1>6, <2>2, <2>3 DEF Untouched
<1> QED BY <1>1, <1>5, <1>7, <1>8, Classes, StepLinks

LEMMA DoorUseLinks ==
  ASSUME MapInv, NEW d \in Doors, Running("use", d), DoorUse(d)
  PROVE  stack' \in Seq(Frames) /\ Linked'
<1>1. CASE CanActivate(d)
  BY <1>1, DoorMoves DEF DoorUse, DoorActivate
<1>2. CASE ~CanActivate(d)
  <2>1. Calls(<<>>) /\ UNCHANGED <<moving, sounds, sources, managers, left, removed, rest>>
    BY <1>2 DEF DoorUse
  <2>2. 1 \in DOMAIN stack /\ stack[1].op = "use" /\ stack[1].ent = d /\ stack' = <<>> \o Rest /\ d \notin Sources
    BY <2>1, Running1, Classes DEF Movers
  <2>3. <<>> \in Seq(Frames) /\ Plainly(<<>>)
    BY NoCalls DEF Plainly
  <2> QED BY <2>1, <2>2, <2>3, PlainLinks DEF sounds, managers, rest
<1> QED BY <1>1, <1>2

\* A button is made to move; only one that toggles fires its targets before.
LEMMA PressLinks ==
  ASSUME MapInv, NEW b \in Buttons, NEW frames \in Seq(Frames), stack' = frames \o Rest,
         1 \in DOMAIN stack => stack[1].op = "use" /\ stack[1].ent = b,
         \A k \in DOMAIN frames :
           /\ frames[k].op \notin {"moveDone", "triggered"}
           /\ frames[k].op = "activate" => k = 1 /\ frames[k].ent = b /\ state[b] = "bottom"
           /\ frames[k].op = "return" => frames[k].ent = b /\ Has(b, "toggle")
           /\ frames[k].op = "use" => frames[k].by = b /\ Has(b, "toggle"),
         UNCHANGED <<moving, sounds, sources, managers, left, removed, map>>
  PROVE  stack' \in Seq(Frames) /\ Linked'
<1>1. Step(Stranger, frames)
  BY DEF Step, moving, sounds, managers
<1>2. ASSUME NEW s \in Sources, NEW d \in Buttons PROVE InputOK(s, d)' \/ Untouched(s, d, frames)
  <2>1. UseOf(s, d).op = "use" /\ UseOf(s, d).ent = s /\ UseOf(s, d).by = d
    BY DEF UseOf
  <2>2. Plain(d) => \A k \in DOMAIN frames : frames[k] # UseOf(s, d)
    BY <2>1 DEF Plain
  <2>3. 1 \in DOMAIN stack => stack[1] # UseOf(s, d)
    BY <2>1, Classes DEF Movers
  <2>4. Up(d)' <=> Up(d)
    BY DEF Up, moving
  <2>5. ~Running("moveDone", d)'
    <3>1. stack' \in Seq(Frames) /\ \A k \in DOMAIN stack' :
            (k \in DOMAIN frames /\ stack'[k] = frames[k]) \/ stack'[k].op \notin {"moveDone", "activate"}
      BY <1>1, StepCalls
    <3> QED BY <3>1, TopAfter
  <2>6. CASE Plain(d)
    BY <2>2, <2>3, <2>4, <2>5, <2>6 DEF Untouched
  <2>7. CASE ~Plain(d)
    BY <2>7 DEF InputOK, Wired, Plain, Has
  <2> QED BY <2>6, <2>7
<1> QED BY <1>1, <1>2, QuietStep

\* The calls that a button answers with.
LEMMA ResponseCalls ==
  ASSUME NEW b \in Buttons, NEW p, p \in {<<>>, <<Frame("activate", b)>>, <<Frame("return", b)>>}
  PROVE  /\ p \in Seq(Frames)
         /\ \A k \in DOMAIN p : /\ k = 1 /\ p[k].ent = b /\ p[k].op \in {"activate", "return"}
                                /\ p[k].op = "activate" => p = <<Frame("activate", b)>>
                                /\ p[k].op = "return" => p = <<Frame("return", b)>>
<1>1. Frame("activate", b).op = "activate" /\ Frame("activate", b).ent = b /\ Frame("return", b).op = "return"
      /\ Frame("return", b).ent = b /\ Frame("activate", b) \in Frames /\ Frame("return", b) \in Frames
  BY DEF Frame, Frames, Ops, Caller, Entities, Movers
<1>2. CASE p = <<>>
  BY <1>2
<1>3. CASE p = <<Frame("activate", b)>>
  <2>1. DOMAIN p = {1} /\ p[1] = Frame("activate", b)
    BY <1>3
  <2> QED BY <1>1, <1>3, <2>1
<1>4. CASE p = <<Frame("return", b)>>
  <2>1. DOMAIN p = {1} /\ p[1] = Frame("return", b)
    BY <1>4
  <2> QED BY <1>1, <1>4, <2>1
<1> QED BY <1>2, <1>3, <1>4

LEMMA ButtonUseLinks ==
  ASSUME MapInv, NEW b \in Buttons, Running("use", b), ButtonUse(b)
  PROVE  stack' \in Seq(Frames) /\ Linked'
<1>1. UNCHANGED <<moving, sounds, sources, managers, left, removed, map>>
  BY DEF ButtonUse, rest
<1>2. PICK p : /\ Calls(p)
               /\ \/ p = <<>>
                  \/ p = <<Frame("activate", b)>> /\ state[b] = "bottom"
                  \/ p = <<Frame("return", b)>> /\ Has(b, "toggle")
  BY DEF ButtonUse
<1>3. /\ p \in Seq(Frames)
      /\ \A k \in DOMAIN p : /\ k = 1 /\ p[k].ent = b /\ p[k].op \in {"activate", "return"}
                             /\ p[k].op = "activate" => p = <<Frame("activate", b)>>
                             /\ p[k].op = "return" => p = <<Frame("return", b)>>
  BY <1>2, ResponseCalls
<1>4. <<Frame("activate", b)>> # <<Frame("return", b)>> /\ <<Frame("activate", b)>> # <<>> /\ <<Frame("return", b)>> # <<>>
  BY DEF Frame
<1>5. \A k \in DOMAIN p : /\ p[k].op = "activate" => state[b] = "bottom"
                          /\ p[k].op = "return" => Has(b, "toggle")
  BY <1>2, <1>3, <1>4
<1>6. stack' = p \o Rest /\ 1 \in DOMAIN stack /\ stack[1].op = "use" /\ stack[1].ent = b
  BY <1>2, Running1
<1> QED BY <1>1, <1>3, <1>5, <1>6, PressLinks

LEMMA ButtonShotLinks ==
  ASSUME MapInv, NEW b \in Buttons, ButtonShot(b)
  PROVE  stack' \in Seq(Frames) /\ Linked'
<1>1. UNCHANGED <<moving, sounds, sources, managers, left, removed, map>> /\ stack = <<>> /\ stack' = Response(b)
  BY DEF ButtonShot, Input, Idle
<1> DEFINE p == Response(b)
<1>2. \/ p = <<>>
      \/ p = <<Frame("activate", b)>> /\ state[b] = "bottom"
      \/ p = <<Frame("return", b)>> /\ Has(b, "toggle")
  BY DEF Response
<1> HIDE DEF p
<1>3. /\ p \in Seq(Frames)
      /\ \A k \in DOMAIN p : /\ k = 1 /\ p[k].ent = b /\ p[k].op \in {"activate", "return"}
                             /\ p[k].op = "activate" => p = <<Frame("activate", b)>>
                             /\ p[k].op = "return" => p = <<Frame("return", b)>>
  BY <1>2, ResponseCalls
<1>4. <<Frame("activate", b)>> # <<Frame("return", b)>> /\ <<Frame("activate", b)>> # <<>> /\ <<Frame("return", b)>> # <<>>
  BY DEF Frame
<1>5. \A k \in DOMAIN p : /\ p[k].op = "activate" => state[b] = "bottom"
                          /\ p[k].op = "return" => Has(b, "toggle")
  BY <1>2, <1>3, <1>4
<1>6. stack' = p \o Rest /\ 1 \notin DOMAIN stack
  BY <1>1, <1>3, Idle1 DEF p
<1> QED BY <1>1, <1>3, <1>5, <1>6, PressLinks

LEMMA ButtonTouchLinks ==
  ASSUME MapInv, NEW b \in Buttons, ButtonTouch(b)
  PROVE  stack' \in Seq(Frames) /\ Linked'
<1> DEFINE p == Response(b)
           q == IF state[b] = "top" THEN UseTargets(b) ELSE <<>>
<1>1. /\ UNCHANGED <<moving, sounds, sources, managers, left, removed, map>> /\ stack = <<>> /\ p # <<>>
      /\ stack' = IF state[b] = "top" THEN UseTargets(b) \o p ELSE p
  BY DEF ButtonTouch, Input, Idle
<1>2. \/ p = <<>>
      \/ p = <<Frame("activate", b)>> /\ state[b] = "bottom"
      \/ p = <<Frame("return", b)>> /\ Has(b, "toggle") /\ state[b] = "top"
  BY DEF Response
<1> HIDE DEF p
<1>3. /\ p \in Seq(Frames)
      /\ \A k \in DOMAIN p : /\ k = 1 /\ p[k].ent = b /\ p[k].op \in {"activate", "return"}
                             /\ p[k].op = "activate" => p = <<Frame("activate", b)>>
                             /\ p[k].op = "return" => p = <<Frame("return", b)>>
  BY <1>2, ResponseCalls
<1>4. <<Frame("activate", b)>> # <<Frame("return", b)>> /\ <<Frame("activate", b)>> # <<>> /\ <<Frame("return", b)>> # <<>>
  BY DEF Frame
<1>5. \A k \in DOMAIN p : /\ p[k].op = "activate" => state[b] = "bottom"
                          /\ p[k].op = "return" => Has(b, "toggle")
  BY <1>2, <1>3, <1>4
<1>6. /\ q \in Seq(Frames) /\ \A k \in DOMAIN q : /\ q[k].op \in {"use", "kill"} /\ Has(b, "toggle") /\ state[b] = "top"
                                                  /\ q[k].op = "use" => q[k].by = b
  <2>1. CASE state[b] = "top"
    <3>1. map \in Maps /\ b \in Entities
      BY DEF MapInv, TypeOK, Entities, Movers
    <3>2. Has(b, "toggle")
      BY <1>1, <1>2, <2>1
    <3> QED BY <2>1, <3>1, <3>2, UseTargetsCalls
  <2>2. CASE state[b] # "top"
    BY <2>2, NoCalls
  <2> QED BY <2>1, <2>2
<1>7. stack' = q \o p
  BY <1>1, <1>3
<1> HIDE DEF q
<1>8. /\ q \o p \in Seq(Frames)
      /\ \A k \in DOMAIN (q \o p) : \/ k \in DOMAIN q /\ (q \o p)[k] = q[k]
                                    \/ /\ k - Len(q) \in DOMAIN p /\ (q \o p)[k] = p[k - Len(q)]
                                       /\ k = 1 => q = <<>>
  BY <1>3, <1>6, Concatenated
<1>9. stack' = (q \o p) \o Rest /\ 1 \notin DOMAIN stack
  BY <1>1, <1>7, <1>8, Idle1
<1>10. ASSUME NEW k \in DOMAIN (q \o p)
       PROVE  /\ (q \o p)[k].op \notin {"moveDone", "triggered"}
              /\ (q \o p)[k].op = "activate" => k = 1 /\ (q \o p)[k].ent = b /\ state[b] = "bottom"
              /\ (q \o p)[k].op = "return" => (q \o p)[k].ent = b /\ Has(b, "toggle")
              /\ (q \o p)[k].op = "use" => (q \o p)[k].by = b /\ Has(b, "toggle")
  <2>1. CASE k \in DOMAIN q /\ (q \o p)[k] = q[k]
    BY <1>6, <2>1
  <2>2. CASE k - Len(q) \in DOMAIN p /\ (q \o p)[k] = p[k - Len(q)]
    <3>1. p[k - Len(q)].op = "activate" => k = 1
      <4>1. ASSUME p[k - Len(q)].op = "activate" PROVE q = <<>>
        <5>1. state[b] # "top"
          BY <1>5, <2>2, <4>1
        <5> QED BY <5>1 DEF q
      <4>2. k - Len(q) = 1 /\ (q = <<>> => Len(q) = 0)
        BY <1>3, <2>2
      <4> QED BY <1>8, <4>1, <4>2
    <3> QED BY <1>3, <1>5, <2>2, <3>1
  <2> QED BY <1>8, <2>1, <2>2
<1> QED BY <1>1, <1>8, <1>9, <1>10, PressLinks

LEMMA PlayerUseLinks ==
  ASSUME MapInv, NEW e \in Movers, PlayerUse(e)
  PROVE  stack' \in Seq(Frames) /\ Linked'
<1> DEFINE f == [op |-> "use", ent |-> e, by |-> Stranger]
<1>1. /\ UNCHANGED <<moving, sounds, sources, managers, left, removed, map>> /\ stack = <<>>
      /\ stack' = <<f>>
  BY DEF PlayerUse, Input, Idle
<1>2. f.op = "use" /\ f.by \notin Buttons /\ "use" \in Ops /\ e \in Caller /\ Stranger \in Caller
  BY Classes DEF Ops
<1>3. <<f>> \in Seq(Frames) /\ DOMAIN <<f>> = {1} /\ <<f>>[1] = f
  BY <1>2, OneCall
<1>4. Plainly(<<f>>)
  BY <1>2, <1>3 DEF Plainly
<1>5. stack' = <<f>> \o Rest /\ 1 \notin DOMAIN stack
  BY <1>1, <1>3, Idle1
<1> QED BY <1>1, <1>3, <1>4, <1>5, PlainLinks DEF sounds, managers

LEMMA RearmLinks ==
  ASSUME MapInv, NEW b \in Buttons, Rearm(b)
  PROVE  stack' \in Seq(Frames) /\ Linked'
<1>1. UNCHANGED <<moving, sounds, sources, managers, left, removed, map>> /\ Running("rearm", b) /\ Calls(<<>>)
  BY DEF Rearm, rest
<1>2. 1 \in DOMAIN stack /\ stack[1].op = "rearm" /\ stack' = <<>> \o Rest
  BY <1>1, Running1
<1>3. <<>> \in Seq(Frames) /\ Plainly(<<>>)
  BY NoCalls DEF Plainly
<1> QED BY <1>1, <1>2, <1>3, PlainLinks DEF sounds, managers

LEMMA UnusedLinks ==
  ASSUME MapInv, NEW e \in Entities, UseRemoved(e) \/ (e \in Triggers /\ Running("use", e) /\ UseTrigger(e))
  PROVE  stack' \in Seq(Frames) /\ Linked'
<1>1. UNCHANGED <<moving, sounds, sources, managers, left, removed, map>> /\ Calls(<<>>)
  BY DEF UseRemoved, UseTrigger, rest
<1>2. /\ 1 \in DOMAIN stack /\ stack[1].ent = e /\ stack' = <<>> \o Rest
      /\ \/ stack[1].op \in {"use", "turn", "realign"} /\ ~Alive(e)
         \/ stack[1].op = "use" /\ e \notin Sources
  BY <1>1, Running1, Classes DEF UseRemoved
<1>3. <<>> \in Seq(Frames) /\ Plainly(<<>>)
  BY NoCalls DEF Plainly
<1> QED BY <1>1, <1>2, <1>3, PlainLinks DEF sounds, managers

LEMMA DoorTouchLinks ==
  ASSUME MapInv, NEW d \in Doors, DoorTouch(d)
  PROVE  stack' \in Seq(Frames) /\ Linked'
<1>1. /\ UNCHANGED <<moving, sounds, sources, managers, left, removed, map>> /\ stack = <<>>
      /\ stack' = <<Frame("open", d)>>
  BY DEF DoorTouch, Input, Idle
<1>2. Frame("open", d) = [op |-> "open", ent |-> d, by |-> d] /\ "open" \in Ops /\ d \in Caller
  BY Classes DEF Frame, Ops, Movers
<1>3. <<Frame("open", d)>> \in Seq(Frames) /\ DOMAIN <<Frame("open", d)>> = {1} /\ <<Frame("open", d)>>[1] = Frame("open", d)
  BY <1>2, OneCall
<1>4. Plainly(<<Frame("open", d)>>)
  BY <1>2, <1>3 DEF Plainly
<1>5. stack' = <<Frame("open", d)>> \o Rest /\ 1 \notin DOMAIN stack
  BY <1>1, <1>3, Idle1
<1> QED BY <1>1, <1>3, <1>4, <1>5, PlainLinks DEF sounds, managers

LEMMA BlockedLinks ==
  ASSUME MapInv, NEW d \in Doors, Blocked(d)
  PROVE  stack' \in Seq(Frames) /\ Linked'
<1> DEFINE back == {e \in Named(map.name[d]) \cup {d} : e \in Doors /\ ~Has(e, "stay")}
           p == TurnAll("turn", back \cap {d}, d)
           q == TurnAll("realign", back \ {d}, d)
<1>1. /\ UNCHANGED <<moving, sounds, sources, managers, left, removed, map>> /\ stack = <<>> /\ Alive(d)
      /\ stack' = p \o q /\ map \in Maps
  BY DEF Blocked, Input, Idle, MapInv, TypeOK
<1>2. back \cap {d} \in SUBSET Present /\ back \ {d} \in SUBSET Present
  BY <1>1, NamedPresent DEF Alive
<1>3. p \in Seq(Frames) /\ q \in Seq(Frames) /\ (\A k \in DOMAIN p : p[k].op = "turn") /\ (\A k \in DOMAIN q : q[k].op = "realign")
  BY <1>1, <1>2, TurnAllCalls, Classes DEF Movers
<1> HIDE DEF p, q, back
<1>4. /\ p \o q \in Seq(Frames)
      /\ \A k \in DOMAIN (p \o q) : \/ k \in DOMAIN p /\ (p \o q)[k] = p[k]
                                    \/ /\ k - Len(p) \in DOMAIN q /\ (p \o q)[k] = q[k - Len(p)]
                                       /\ k = 1 => p = <<>>
  BY <1>3, Concatenated
<1>5. \A k \in DOMAIN (p \o q) : (p \o q)[k].op \in {"turn", "realign"}
  <2> SUFFICES ASSUME NEW k \in DOMAIN (p \o q) PROVE (p \o q)[k].op \in {"turn", "realign"}
    OBVIOUS
  <2>1. CASE k \in DOMAIN p /\ (p \o q)[k] = p[k]
    BY <1>3, <2>1
  <2>2. CASE k - Len(p) \in DOMAIN q /\ (p \o q)[k] = q[k - Len(p)]
    BY <1>3, <2>2
  <2> QED BY <1>4, <2>1, <2>2
<1>6. Plainly(p \o q)
  BY <1>5 DEF Plainly
<1>7. stack' = (p \o q) \o Rest /\ 1 \notin DOMAIN stack
  BY <1>1, <1>4, Idle1
<1> QED BY <1>1, <1>4, <1>6, <1>7, PlainLinks DEF sounds, managers

LEMMA KillLinks ==
  ASSUME MapInv, Kill
  PROVE  stack' \in Seq(Frames) /\ Linked'
<1>1. /\ UNCHANGED <<moving, sounds, sources, running, left, map>> /\ removed \subseteq removed'
      /\ Running("kill", Head(stack).ent) /\ Calls(<<>>)
  BY DEF Kill, rest, Running
<1>2. 1 \in DOMAIN stack /\ stack[1].op = "kill" /\ stack' = <<>> \o Rest
  BY <1>1, Running1
<1>3. <<>> \in Seq(Frames) /\ Plainly(<<>>)
  BY NoCalls DEF Plainly
<1> QED BY <1>1, <1>2, <1>3, PlainLinks DEF sounds

LEMMA FireLinks ==
  ASSUME MapInv, Fire
  PROVE  stack' \in Seq(Frames) /\ Linked'
<1> DEFINE f == Head(stack)
           p == FireTargets(f.by, f.ent)
<1>1. /\ UNCHANGED <<moving, sounds, sources, managers, left, removed, map>>
      /\ Running("fire", f.ent) /\ Calls(p)
  BY DEF Fire, rest, Running
<1>2. 1 \in DOMAIN stack /\ stack[1].op = "fire" /\ stack' = p \o Rest /\ f = stack[1]
  BY <1>1, Running1
<1>3. f \in Frames /\ f.op = "fire"
  BY <1>2 DEF MapInv, CallTypes
<1>4. f.ent \in Caller /\ f.ent \notin Buttons /\ map \in Maps
  BY <1>3 DEF Frames, MapInv, TypeOK
<1>5. p \in Seq(Frames) /\ \A k \in DOMAIN p : p[k].op = "use" /\ p[k].by = f.ent
  BY <1>4, FireTargetsCalls
<1>6. Plainly(p)
  BY <1>4, <1>5 DEF Plainly
<1> HIDE DEF p
<1> QED BY <1>1, <1>2, <1>5, <1>6, PlainLinks DEF sounds, managers

LEMMA DelayThinkLinks ==
  ASSUME MapInv, NEW i \in DOMAIN delayed, DelayThink(i)
  PROVE  stack' \in Seq(Frames) /\ Linked'
<1> DEFINE p == Killing(delayed[i][2])
           q == FireTargets(delayed[i][1], Stranger)
<1>1. /\ UNCHANGED <<moving, sounds, sources, managers, left, removed, map>> /\ stack = <<>>
      /\ stack' = p \o q /\ map \in Maps
  BY DEF DelayThink, rest, MapInv, TypeOK
<1>2. delayed[i][2] \in Names \cup {NoName} /\ Stranger \in Caller /\ Stranger \notin Buttons
  BY Classes DEF MapInv, CallTypes
<1>3. /\ p \in Seq(Frames) /\ \A k \in DOMAIN p : p[k].op = "kill"
      /\ q \in Seq(Frames) /\ \A k \in DOMAIN q : q[k].op = "use" /\ q[k].by = Stranger
  BY <1>1, <1>2, KillingCalls, FireTargetsCalls
<1> HIDE DEF p, q
<1>4. /\ p \o q \in Seq(Frames)
      /\ \A k \in DOMAIN (p \o q) : \/ k \in DOMAIN p /\ (p \o q)[k] = p[k]
                                    \/ /\ k - Len(p) \in DOMAIN q /\ (p \o q)[k] = q[k - Len(p)]
                                       /\ k = 1 => p = <<>>
  BY <1>3, Concatenated
<1>5. ASSUME NEW k \in DOMAIN (p \o q)
      PROVE  (p \o q)[k].op \in {"use", "kill"} /\ ((p \o q)[k].op = "use" => (p \o q)[k].by \notin Buttons)
  <2>1. CASE k \in DOMAIN p /\ (p \o q)[k] = p[k]
    BY <1>3, <2>1
  <2>2. CASE k - Len(p) \in DOMAIN q /\ (p \o q)[k] = q[k - Len(p)]
    BY <1>2, <1>3, <2>2
  <2> QED BY <1>4, <2>1, <2>2
<1>6. Plainly(p \o q)
  BY <1>5 DEF Plainly
<1>7. stack' = (p \o q) \o Rest /\ 1 \notin DOMAIN stack
  BY <1>1, <1>4, Idle1
<1> QED BY <1>1, <1>4, <1>6, <1>7, PlainLinks DEF sounds, managers

LEMMA CloneThinkLinks ==
  ASSUME MapInv, NEW c \in clones, CloneThink(c)
  PROVE  stack' \in Seq(Frames) /\ Linked'
<1> DEFINE m == c.of
           i == c.index
<1>1. /\ UNCHANGED <<moving, sounds, sources, running, left, removed, map>> /\ stack = <<>> /\ map \in Maps
  BY DEF CloneThink, rest, MapInv, TypeOK
<1>2. m \in Managers /\ i \in Nat /\ c.id \in Caller \ Buttons
  <2>1. c \in Clones
    BY DEF MapInv, CallTypes
  <2> QED BY <2>1, Classes DEF Clones
<1>3. PICK n \in 0..Len(map.fires[m]) : stack' = FireDue(m, i, n, c.id)
  BY DEF CloneThink
<1> DEFINE p == FireDue(m, i, n, c.id)
<1>4. p \in Seq(Frames) /\ \A k \in DOMAIN p : p[k].op = "fire"
  BY <1>1, <1>2, <1>3, FireDueCalls
<1>5. Plainly(p)
  BY <1>4 DEF Plainly
<1>6. stack' = p \o Rest /\ 1 \notin DOMAIN stack
  BY <1>1, <1>3, <1>4, Idle1
<1> HIDE DEF p
<1> QED BY <1>1, <1>4, <1>5, <1>6, PlainLinks DEF sounds

\* The types that the lemmas about thinks need.
LEMMA MoverTypes ==
  ASSUME MapInv
  PROVE  /\ state \in [Movers -> {"bottom", "goingUp", "top", "goingDown"}] /\ pos \in [Movers -> {"low", "between", "high"}]
         /\ DOMAIN think = Entities /\ Movers \subseteq Entities /\ sound \subseteq Doors /\ map \in Maps
         /\ stack \in Seq(Frames)
BY DEF MapInv, TypeOK, CallTypes, Entities

\* A think of a mover.
LEMMA ThinkStep ==
  ASSUME MapInv, NEW e \in Movers, stack = <<>>, NEW frames \in Seq(Frames), stack' = frames,
         \A k \in DOMAIN frames : k = 1 /\ frames[k].op \in {"moveDone", "return", "turn"} /\ frames[k].ent = e,
         UNCHANGED <<state, sources, managers, left, removed, map>>, sound' \subseteq sound,
         \A d \in Entities : d # e => think'[d] = think[d],
         \A d \in Movers : d # e => pos'[d] = pos[d]
  PROVE  /\ \A op : Running(op, e)' <=> 1 \in DOMAIN frames /\ frames[1].op = op
         /\ \A k \in DOMAIN stack' : k = 1
         /\ \A op : ~Running(op, e)
         /\ MoverOK(e) /\ (e \in Buttons => ButtonOK(e))
         /\ e \in Entities /\ DOMAIN think = Entities /\ pos \in [Movers -> {"low", "between", "high"}]
         /\ MoverOK(e)' /\ (e \in Buttons => ButtonOK(e)') => stack' \in Seq(Frames) /\ Linked'
<1>1. /\ 1 \notin DOMAIN stack /\ stack' = frames \o Rest
      /\ \A op, d : ~Running(op, d)
      /\ \A f : Absent(f)
  BY Idle1
<1>2. Step(e, frames)
  BY <1>1 DEF Step, managers
<1>3. \A op : Running(op, e)' <=> 1 \in DOMAIN frames /\ frames[1].op = op
  BY TopAfter
<1>4. ASSUME MoverOK(e)', e \in Buttons => ButtonOK(e)' PROVE stack' \in Seq(Frames) /\ Linked'
  <2>1. ASSUME NEW s \in Sources, NEW b \in Buttons PROVE Untouched(s, b, frames)
    <3>1. \A k \in DOMAIN frames : frames[k] # UseOf(s, b)
      BY DEF UseOf
    <3>2. Up(b)' <=> Up(b)
      BY DEF Up
    <3> QED BY <1>1, <3>1, <3>2 DEF Untouched
  <2> QED BY <1>2, <1>4, <2>1, Classes, StepLinks
<1> QED BY <1>1, <1>3, <1>4, Classes DEF MapInv, Linked, TypeOK

LEMMA DoorQuietLinks ==
  ASSUME MapInv, NEW d \in Doors, DoorQuiet(d)
  PROVE  stack' \in Seq(Frames) /\ Linked'
<1>1. /\ stack = <<>> /\ stack' = <<>> /\ d \in Movers /\ think[d] = "hitBottom" /\ d \notin Buttons
      /\ think' = [think EXCEPT ![d] = "none"]
      /\ sound' = IF Has(d, "silent") THEN sound ELSE sound \ {d}
      /\ UNCHANGED <<state, pos, sources, managers, left, removed, map>>
  BY Classes DEF DoorQuiet, Idle, Movers, rest
<1>2. /\ \A op : Running(op, d)' <=> 1 \in DOMAIN <<>> /\ <<>>[1].op = op
      /\ \A op : ~Running(op, d)
      /\ MoverOK(d) /\ d \in Entities /\ DOMAIN think = Entities
      /\ MoverOK(d)' => stack' \in Seq(Frames) /\ Linked'
  BY <1>1, NoCalls, MoverTypes, ThinkStep
<1>3. think'[d] = "none" /\ ~Running("moveDone", d)'
  BY <1>1, <1>2
<1>4. state[d] = "bottom"
  BY <1>1, <1>2 DEF MoverOK
<1>5. MoverOK(d)'
  BY <1>1, <1>2, <1>3, <1>4 DEF MoverOK, Going, Has
<1> QED BY <1>2, <1>5

LEMMA PushLinks ==
  ASSUME MapInv, NEW e \in Movers, Push(e)
  PROVE  stack' \in Seq(Frames) /\ Linked'
<1>1. /\ stack = <<>> /\ stack' = <<>> /\ think[e] = "moveDone"
      /\ pos' = [pos EXCEPT ![e] = "between"]
      /\ UNCHANGED <<state, think, sound, sources, managers, left, removed, map>>
  BY DEF Push, Idle, rest, sounds
<1>2. /\ \A op : Running(op, e)' <=> 1 \in DOMAIN <<>> /\ <<>>[1].op = op
      /\ \A k \in DOMAIN stack' : k = 1
      /\ \A op : ~Running(op, e)
      /\ MoverOK(e) /\ (e \in Buttons => ButtonOK(e))
      /\ MoverOK(e)' /\ (e \in Buttons => ButtonOK(e)') => stack' \in Seq(Frames) /\ Linked'
  BY <1>1, NoCalls, MoverTypes, ThinkStep
<1>3. ~Running("moveDone", e)' /\ ~Running("activate", e)' /\ DOMAIN stack' = {}
  BY <1>1, <1>2
<1>4. Going(e)
  BY <1>1, <1>2 DEF MoverOK
<1>5. MoverOK(e)'
  BY <1>1, <1>2, <1>3, <1>4 DEF MoverOK, Going, Has
<1>6. e \in Buttons => ButtonOK(e)'
  BY <1>1, <1>2, <1>3, <1>4 DEF ButtonOK, Going
<1> QED BY <1>2, <1>5, <1>6

LEMMA ArriveLinks ==
  ASSUME MapInv, NEW e \in Movers, Arrive(e)
  PROVE  stack' \in Seq(Frames) /\ Linked'
<1> DEFINE f == Frame("moveDone", e)
<1>1. /\ stack = <<>> /\ stack' = <<f>> /\ think[e] = "moveDone"
      /\ pos' = [pos EXCEPT ![e] = IF state[e] = "goingUp" THEN "high" ELSE "low"]
      /\ think' = [think EXCEPT ![e] = "none"]
      /\ UNCHANGED <<state, sound, sources, managers, left, removed, map>>
  BY DEF Arrive, Idle, rest, sounds
<1>2. f = [op |-> "moveDone", ent |-> e, by |-> e] /\ "moveDone" \in Ops /\ e \in Caller
  BY Classes DEF Frame, Ops
<1>3. <<f>> \in Seq(Frames) /\ DOMAIN <<f>> = {1} /\ <<f>>[1] = f /\ f.op = "moveDone" /\ f.ent = e
  BY <1>2, OneCall
<1> HIDE DEF f
<1>4. /\ \A op : Running(op, e)' <=> 1 \in DOMAIN <<f>> /\ <<f>>[1].op = op
      /\ MoverOK(e)
      /\ e \in Entities /\ DOMAIN think = Entities /\ pos \in [Movers -> {"low", "between", "high"}]
      /\ MoverOK(e)' /\ (e \in Buttons => ButtonOK(e)') => stack' \in Seq(Frames) /\ Linked'
  BY <1>1, <1>3, MoverTypes, ThinkStep
<1>5. Running("moveDone", e)' /\ ~Running("activate", e)' /\ think'[e] = "none"
      /\ pos'[e] = IF state[e] = "goingUp" THEN "high" ELSE "low"
  BY <1>1, <1>3, <1>4
<1>6. Going(e)
  BY <1>1, <1>4 DEF MoverOK
<1>7. MoverOK(e)'
  BY <1>1, <1>4, <1>5, <1>6 DEF MoverOK, Going, Has
<1>8. ButtonOK(e)'
  <2>1. \A k \in DOMAIN stack' : stack'[k].op = "moveDone"
    BY <1>1, <1>3
  <2> QED BY <1>1, <1>5, <1>6, <2>1 DEF ButtonOK, Going
<1> QED BY <1>4, <1>7, <1>8

LEMMA WaitOverLinks ==
  ASSUME MapInv, NEW e \in Movers, WaitOver(e)
  PROVE  stack' \in Seq(Frames) /\ Linked'
<1> DEFINE o == IF e \in Buttons THEN "return" ELSE "turn"
           f == Frame(o, e)
<1>1. /\ stack = <<>> /\ stack' = <<f>> /\ think[e] \in {"return", "goDown"} /\ Alive(e)
      /\ think' = [think EXCEPT ![e] = "none"]
      /\ UNCHANGED <<state, pos, sound, sources, managers, left, removed, map>>
  BY DEF WaitOver, Idle, rest, sounds
<1>2. f = [op |-> o, ent |-> e, by |-> e] /\ o \in Ops \ {"fire"} /\ e \in Caller
  BY Classes DEF Frame, Ops
<1>3. <<f>> \in Seq(Frames) /\ DOMAIN <<f>> = {1} /\ <<f>>[1] = f /\ f.op = o /\ f.ent = e
  BY <1>2, OneCall
<1> HIDE DEF f
<1>4. /\ \A op : Running(op, e)' <=> 1 \in DOMAIN <<f>> /\ <<f>>[1].op = op
      /\ \A op : ~Running(op, e)
      /\ \A k \in DOMAIN stack' : k = 1
      /\ MoverOK(e) /\ (e \in Buttons => ButtonOK(e))
      /\ e \in Entities /\ DOMAIN think = Entities
      /\ MoverOK(e)' /\ (e \in Buttons => ButtonOK(e)') => stack' \in Seq(Frames) /\ Linked'
  BY <1>1, <1>3, MoverTypes, ThinkStep
<1>5. Running(o, e)' /\ ~Running("moveDone", e)' /\ ~Running("activate", e)' /\ think'[e] = "none"
  BY <1>1, <1>3, <1>4
<1>6. Alive(e)'
  BY <1>1 DEF Alive, Present
<1>7. MoverOK(e)'
  BY <1>1, <1>4, <1>5, <1>6 DEF MoverOK, Going, Has
<1>8. ASSUME e \in Buttons PROVE ButtonOK(e)'
  <2>1. think[e] = "return"
    BY <1>1, <1>8 DEF MapInv, TypeOK
  <2>2. state[e] = "top"
    BY <1>4, <1>8, <2>1 DEF ButtonOK
  <2> QED BY <1>1, <1>4, <1>5, <1>8, <2>2 DEF ButtonOK
<1> QED BY <1>4, <1>7, <1>8

\* The end of a movement.
LEMMA DoneStep ==
  ASSUME MapInv, NEW e \in Movers, Running("moveDone", e), NEW frames \in Seq(Frames), Calls(frames),
         \A k \in DOMAIN frames : frames[k].op \in {"use", "kill", "rearm"} /\ (frames[k].op = "use" => frames[k].by = e),
         UNCHANGED <<pos, sources, managers, left, removed, rest>>, sound' \subseteq sound,
         \A d \in Movers : d # e => state'[d] = state[d],
         \A d \in Entities : d # e => think'[d] = think[d]
  PROVE  /\ Step(e, frames)
         /\ ~Running("moveDone", e)' /\ ~Running("activate", e)'
         /\ \A k \in DOMAIN stack' : stack'[k].op = "return" /\ stack'[k].ent = e /\ e \in Buttons => Has(e, "toggle")
         /\ MoverOK(e) /\ (e \in Buttons => ButtonOK(e)) /\ map' = map /\ e \in Entities
         /\ /\ MoverOK(e)' /\ (e \in Buttons => ButtonOK(e)')
            /\ \A s \in Sources : e \in Buttons => InputOK(s, e)' \/ (state'[e] = state[e] /\ frames = <<>>)
            => stack' \in Seq(Frames) /\ Linked'
<1>1. 1 \in DOMAIN stack /\ stack[1].op = "moveDone" /\ stack[1].ent = e /\ stack' = frames \o Rest
  BY Running1
<1>2. Step(e, frames)
  BY <1>1 DEF Step, managers, rest
<1>3. /\ ~Running("moveDone", e)' /\ ~Running("activate", e)'
      /\ \A k \in DOMAIN stack' : stack'[k].op = "return" /\ stack'[k].ent = e /\ e \in Buttons => Has(e, "toggle")
  <2>1. /\ \A o \in {"moveDone", "activate"} : Running(o, e)' =>
                1 \in DOMAIN frames /\ frames[1].op = o /\ frames[1].ent = e
        /\ \A k \in DOMAIN stack' : stack'[k].op = "return" /\ stack'[k].ent = e /\ e \in Buttons =>
                Has(e, "toggle") \/ (k \in DOMAIN frames /\ frames[k].op = "return")
    BY <1>2, OwnCalls
  <2> QED BY <2>1
<1>4. ASSUME MoverOK(e)', e \in Buttons => ButtonOK(e)',
             \A s \in Sources : e \in Buttons => InputOK(s, e)' \/ (state'[e] = state[e] /\ frames = <<>>)
      PROVE  stack' \in Seq(Frames) /\ Linked'
  <2>1. ASSUME NEW s \in Sources, NEW b \in Buttons PROVE InputOK(s, b)' \/ Untouched(s, b, frames)
    <3>1. UseOf(s, b).op = "use" /\ UseOf(s, b).by = b
      BY DEF UseOf
    <3>2. stack[1] # UseOf(s, b)
      BY <1>1, <3>1
    <3>3. ~Running("moveDone", b)'
      <4>1. stack' \in Seq(Frames) /\ \A k \in DOMAIN stack' :
              (k \in DOMAIN frames /\ stack'[k] = frames[k]) \/ stack'[k].op \notin {"moveDone", "activate"}
        BY <1>2, StepCalls
      <4> QED BY <4>1, TopAfter
    <3>4. b # e => (\A k \in DOMAIN frames : frames[k] # UseOf(s, b)) /\ state'[b] = state[b]
      BY <3>1 DEF Movers
    <3>5. frames = <<>> => \A k \in DOMAIN frames : frames[k] # UseOf(s, b)
      BY NoCalls
    <3>6. CASE (\A k \in DOMAIN frames : frames[k] # UseOf(s, b)) /\ state'[b] = state[b]
      <4>1. Up(b)' <=> Up(b)
        BY <3>6 DEF Up
      <4> QED BY <3>2, <3>3, <3>6, <4>1 DEF Untouched
    <3> QED BY <1>4, <3>4, <3>5, <3>6
  <2> QED BY <1>2, <1>4, <2>1, Classes, StepLinks DEF rest
<1> QED BY <1>2, <1>3, <1>4, Classes DEF MapInv, Linked, rest

\* A button that arrives tells its multisources, each once.
LEMMA InputTurns ==
  ASSUME MapInv, NEW b \in Buttons, Running("moveDone", b), NEW frames, Step(b, frames), UNCHANGED sources,
         Plain(b) => (Up(b)' <=> ~Up(b)), ~Running("moveDone", b)', NEW s \in Sources,
         Wired(s, b) => /\ \E k \in DOMAIN frames : frames[k] = UseOf(s, b)
                        /\ \A k, l \in DOMAIN frames : frames[k] = UseOf(s, b) /\ frames[l] = UseOf(s, b) => k = l
  PROVE  InputOK(s, b)'
<1> SUFFICES ASSUME Wired(s, b)'
             PROVE  /\ Once(UseOf(s, b))'
                    /\ (think[s] = "register")' => (Up(b)' <=> ~Absent(UseOf(s, b))')
                    /\ \A i \in DOMAIN members'[s] : members'[s][i] = b => (input'[s][i] <=> (Up(b)' <=> Absent(UseOf(s, b))'))
  BY DEF InputOK, UseOf
<1>1. Wired(s, b) /\ Plain(b) /\ members' = members /\ input' = input /\ think'[s] = think[s]
  BY Classes DEF Wired, Alive, Plain, Has, Step, Present, sources, Movers
<1>2. /\ Absent(UseOf(s, b))
      /\ think[s] = "register" => ~Up(b)
      /\ \A i \in DOMAIN members[s] : members[s][i] = b => (input[s][i] <=> Up(b))
  BY <1>1 DEF MapInv, Linked, InputOK
<1>3. UseOf(s, b)' = UseOf(s, b)
  BY DEF UseOf
<1> HIDE DEF UseOf
<1>4. ASSUME NEW k \in DOMAIN stack', stack'[k] = UseOf(s, b) PROVE k \in DOMAIN frames /\ frames[k] = UseOf(s, b)
  BY <1>2, <1>4, StepCalls DEF Absent
<1>5. ~Absent(UseOf(s, b))'
  BY <1>1, <1>3, StepCalls DEF Absent
<1>6. Once(UseOf(s, b))'
  BY <1>1, <1>3, <1>4 DEF Once
<1> QED BY <1>1, <1>2, <1>5, <1>6

LEMMA TriggerAndWaitLinks ==
  ASSUME MapInv, NEW b \in Buttons, Running("moveDone", b), state[b] = "goingUp", TriggerAndWait(b),
         UNCHANGED <<pos, sounds, sources, managers, left, removed, rest>>
  PROVE  stack' \in Seq(Frames) /\ Linked'
<1>1. b \in Movers /\ sound' = sound /\ MoverOK(b) /\ map \in Maps /\ b \in Entities
  BY Classes DEF Movers, sounds, MapInv, Linked, TypeOK
<1>2. pos[b] = "high" /\ pos' = pos /\ b \notin sound
  BY <1>1, Classes DEF MoverOK, MapInv, TypeOK
<1>3. CASE ~Unlocked(b)
  <2>1. think' = [think EXCEPT ![b] = "none"] /\ Calls(<<>>) /\ state' = state
    BY <1>3 DEF TriggerAndWait
  <2>2. /\ ~Running("moveDone", b)' /\ ~Running("activate", b)'
        /\ \A k \in DOMAIN stack' : stack'[k].op = "return" /\ stack'[k].ent = b => Has(b, "toggle")
        /\ ButtonOK(b) /\ map' = map
        /\ MoverOK(b)' /\ ButtonOK(b)' => stack' \in Seq(Frames) /\ Linked'
    BY <1>1, <2>1, NoCalls, MoverTypes, DoneStep
  <2>3. map.master[b] # NoName
    BY <1>3 DEF Unlocked, Named
  <2>4. think'[b] = "none"
    BY <1>1, <2>1, MoverTypes
  <2>5. MoverOK(b)'
    BY <1>1, <1>2, <2>1, <2>2, <2>3, <2>4 DEF MoverOK, Going, Has
  <2>6. ButtonOK(b)'
    BY <1>2, <2>1, <2>2, <2>4 DEF ButtonOK, Has
  <2> QED BY <2>2, <2>5, <2>6
<1>4. CASE Unlocked(b)
  <2> DEFINE p == UseTargets(b)
  <2>1. /\ state' = [state EXCEPT ![b] = "top"]
        /\ think' = [think EXCEPT ![b] = IF Has(b, "stay") \/ Has(b, "toggle") THEN "none" ELSE "return"]
        /\ Calls(p)
    BY <1>4 DEF TriggerAndWait
  <2>2. /\ p \in Seq(Frames) /\ \A k \in DOMAIN p : p[k].op = "kill" \/ (p[k].op = "use" /\ p[k].by = b)
        /\ ~Has(b, "delay") => \A s \in Named(map.target[b]) :
                /\ \E k \in DOMAIN p : p[k] = UseOf(s, b)
                /\ \A k, l \in DOMAIN p : p[k] = UseOf(s, b) /\ p[l] = UseOf(s, b) => k = l
    BY <1>1, UseTargetsCalls
  <2> HIDE DEF p
  <2>3. /\ Step(b, p)
        /\ ~Running("moveDone", b)' /\ ~Running("activate", b)'
        /\ \A k \in DOMAIN stack' : stack'[k].op = "return" /\ stack'[k].ent = b => Has(b, "toggle")
        /\ map' = map
        /\ MoverOK(b)' /\ ButtonOK(b)' /\ (\A s \in Sources : InputOK(s, b)') => stack' \in Seq(Frames) /\ Linked'
    BY <1>1, <2>1, <2>2, MoverTypes, DoneStep
  <2>4. state'[b] = "top" /\ think'[b] = IF Has(b, "stay") \/ Has(b, "toggle") THEN "none" ELSE "return"
    BY <1>1, <2>1, MoverTypes
  <2>5. MoverOK(b)'
    BY <1>1, <1>2, <2>3, <2>4 DEF MoverOK, Going, Returning, Has
  <2>6. ButtonOK(b)'
    BY <1>2, <2>3, <2>4 DEF ButtonOK, Has
  <2>7. ASSUME NEW s \in Sources PROVE InputOK(s, b)'
    <3>1. Up(b)' <=> ~Up(b)
      BY <2>4 DEF Up
    <3>2. Wired(s, b) => s \in Named(map.target[b]) /\ ~Has(b, "delay")
      BY DEF Wired, Named, Alive, Plain
    <3> QED BY <2>2, <2>3, <3>1, <3>2, InputTurns
  <2> QED BY <2>3, <2>5, <2>6, <2>7
<1> QED BY <1>3, <1>4

LEMMA ButtonBackHomeLinks ==
  ASSUME MapInv, NEW b \in Buttons, Running("moveDone", b), state[b] # "goingUp", ButtonBackHome(b),
         UNCHANGED <<pos, sounds, sources, managers, left, removed, rest>>
  PROVE  stack' \in Seq(Frames) /\ Linked'
<1> DEFINE own == Named(map.target[b]) \cap Sources
           p == IF Has(b, "toggle") THEN UseTargets(b) ELSE <<>>
           q == UseAll(own, b)
           r == <<Frame("rearm", b)>>
<1>1. b \in Movers /\ sound' = sound /\ MoverOK(b) /\ map \in Maps /\ b \in Entities /\ b \in Caller
  BY Classes DEF Movers, sounds, MapInv, Linked, TypeOK
<1>2. pos[b] = "low" /\ pos' = pos /\ b \notin sound /\ state[b] = "goingDown"
  BY <1>1, Classes DEF MoverOK, MapInv, TypeOK
<1>3. /\ state' = [state EXCEPT ![b] = "bottom"]
      /\ think' = [think EXCEPT ![b] = "none"]
      /\ Calls(p \o q \o r)
  BY DEF ButtonBackHome
<1>4. p \in Seq(Frames) /\ (~Has(b, "toggle") => p = <<>>)
      /\ \A k \in DOMAIN p : p[k].op = "kill" \/ (p[k].op = "use" /\ p[k].by = b)
  <2>1. CASE Has(b, "toggle")
    BY <1>1, <2>1, UseTargetsCalls
  <2>2. CASE ~Has(b, "toggle")
    BY <2>2, NoCalls
  <2> QED BY <2>1, <2>2
<1>5. /\ q \in Seq(Frames)
      /\ \A k \in DOMAIN q : q[k].op = "use" /\ q[k].by = b
      /\ \A s \in own : \E k \in DOMAIN q : q[k] = UseOf(s, b)
      /\ \A k, l \in DOMAIN q : q[k] = q[l] => k = l
  <2>1. own \in SUBSET Present
    BY NamedPresent
  <2>2. \A e : UseOf(e, b).op = "use" /\ UseOf(e, b).by = b
    BY DEF UseOf
  <2> HIDE DEF own
  <2>3. /\ q \in Seq(Frames)
        /\ \A k \in DOMAIN q : \E e \in own : q[k] = UseOf(e, b)
        /\ \A e \in own : \E k \in DOMAIN q : q[k] = UseOf(e, b)
        /\ \A k, l \in DOMAIN q : q[k] = q[l] => k = l
    BY <1>1, <2>1, UseAllCalls
  <2> QED BY <2>2, <2>3
<1>6. r \in Seq(Frames) /\ \A k \in DOMAIN r : r[k].op = "rearm"
  <2>1. Frame("rearm", b) = [op |-> "rearm", ent |-> b, by |-> b] /\ "rearm" \in Ops
    BY DEF Frame, Ops
  <2>2. r \in Seq(Frames) /\ DOMAIN r = {1} /\ r[1] = Frame("rearm", b)
    BY <1>1, <2>1, OneCall
  <2> QED BY <2>1, <2>2
<1> HIDE DEF p, q, r
<1> DEFINE t == (p \o q) \o r
<1>7. /\ p \o q \in Seq(Frames)
      /\ \A k \in DOMAIN (p \o q) : \/ k \in DOMAIN p /\ (p \o q)[k] = p[k]
                                    \/ /\ k - Len(p) \in DOMAIN q /\ (p \o q)[k] = q[k - Len(p)]
                                       /\ k = 1 => p = <<>>
  BY <1>4, <1>5, Concatenated
<1>8. /\ t \in Seq(Frames)
      /\ \A k \in DOMAIN t : \/ k \in DOMAIN (p \o q) /\ t[k] = (p \o q)[k]
                             \/ /\ k - Len(p \o q) \in DOMAIN r /\ t[k] = r[k - Len(p \o q)]
                                /\ k = 1 => p \o q = <<>>
      /\ \A k \in DOMAIN (p \o q) : k \in DOMAIN t /\ t[k] = (p \o q)[k]
  BY <1>6, <1>7, Concatenated
<1> HIDE DEF t
<1>9. \A k \in DOMAIN (p \o q) : (p \o q)[k].op \in {"use", "kill"} /\ ((p \o q)[k].op = "use" => (p \o q)[k].by = b)
  <2> SUFFICES ASSUME NEW k \in DOMAIN (p \o q)
               PROVE  (p \o q)[k].op \in {"use", "kill"} /\ ((p \o q)[k].op = "use" => (p \o q)[k].by = b)
    OBVIOUS
  <2>1. CASE k \in DOMAIN p /\ (p \o q)[k] = p[k]
    BY <1>4, <2>1
  <2>2. CASE k - Len(p) \in DOMAIN q /\ (p \o q)[k] = q[k - Len(p)]
    BY <1>5, <2>2
  <2> QED BY <1>7, <2>1, <2>2
<1>10. \A k \in DOMAIN t : t[k].op \in {"use", "kill", "rearm"} /\ (t[k].op = "use" => t[k].by = b)
  <2> SUFFICES ASSUME NEW k \in DOMAIN t
               PROVE  t[k].op \in {"use", "kill", "rearm"} /\ (t[k].op = "use" => t[k].by = b)
    OBVIOUS
  <2>1. CASE k \in DOMAIN (p \o q) /\ t[k] = (p \o q)[k]
    BY <1>9, <2>1
  <2>2. CASE k - Len(p \o q) \in DOMAIN r /\ t[k] = r[k - Len(p \o q)]
    BY <1>6, <2>2
  <2> QED BY <1>8, <2>1, <2>2
<1>11. Calls(t)
  BY <1>3 DEF t
<1>12. /\ Step(b, t)
       /\ ~Running("moveDone", b)' /\ ~Running("activate", b)'
       /\ \A k \in DOMAIN stack' : stack'[k].op = "return" /\ stack'[k].ent = b => Has(b, "toggle")
       /\ map' = map
       /\ MoverOK(b)' /\ ButtonOK(b)' /\ (\A s \in Sources : InputOK(s, b)') => stack' \in Seq(Frames) /\ Linked'
  BY <1>1, <1>2, <1>3, <1>8, <1>10, <1>11, MoverTypes, DoneStep
<1>13. state'[b] = "bottom" /\ think'[b] = "none"
  BY <1>1, <1>3, MoverTypes
<1>14. MoverOK(b)'
  BY <1>1, <1>2, <1>12, <1>13 DEF MoverOK, Going, Returning, Has
<1>15. ButtonOK(b)'
  BY <1>2, <1>12, <1>13 DEF ButtonOK, Has
<1>16. ASSUME NEW s \in Sources PROVE InputOK(s, b)'
  <2>1. Up(b)' <=> ~Up(b)
    BY <1>2, <1>13 DEF Up
  <2>2. ASSUME Wired(s, b)
        PROVE  /\ \E k \in DOMAIN t : t[k] = UseOf(s, b)
               /\ \A k, l \in DOMAIN t : t[k] = UseOf(s, b) /\ t[l] = UseOf(s, b) => k = l
    <3>1. s \in own /\ p = <<>>
      BY <1>4, <2>2 DEF Wired, Named, Alive, Plain
    <3>2. p \o q = q
      BY <1>5, <3>1
    <3>3. UseOf(s, b).op = "use"
      BY DEF UseOf
    <3>4. ASSUME NEW k \in DOMAIN t, t[k] = UseOf(s, b) PROVE k \in DOMAIN q /\ q[k] = UseOf(s, b)
      <4>1. CASE k \in DOMAIN (p \o q) /\ t[k] = (p \o q)[k]
        BY <3>2, <3>4, <4>1
      <4>2. CASE k - Len(p \o q) \in DOMAIN r /\ t[k] = r[k - Len(p \o q)]
        BY <1>6, <3>3, <3>4, <4>2
      <4> QED BY <1>8, <4>1, <4>2
    <3>5. \E k \in DOMAIN t : t[k] = UseOf(s, b)
      BY <1>5, <1>8, <3>1, <3>2
    <3> QED BY <1>5, <3>4, <3>5
  <2> QED BY <1>12, <2>1, <2>2, InputTurns
<1> QED BY <1>12, <1>14, <1>15, <1>16

LEMMA DoorHitTopLinks ==
  ASSUME MapInv, NEW d \in Doors, Running("moveDone", d), state[d] = "goingUp", DoorHitTop(d),
         UNCHANGED <<pos, sources, managers, left, removed, rest>>
  PROVE  stack' \in Seq(Frames) /\ Linked'
<1> DEFINE p == IF Has(d, "startOpen") THEN FireTargets(map.close[d], d) ELSE <<>>
           q == UseTargets(d)
<1>1. d \in Movers /\ MoverOK(d) /\ map \in Maps /\ d \in Entities /\ d \in Caller /\ d \notin Buttons
  BY Classes DEF Movers, MapInv, Linked, TypeOK
<1>2. /\ state' = [state EXCEPT ![d] = "top"]
      /\ think' = [think EXCEPT ![d] = IF Has(d, "noReturn") \/ Has(d, "stay") THEN "none" ELSE "goDown"]
      /\ sound' = IF Has(d, "silent") THEN sound ELSE sound \ {d}
      /\ Calls(p \o q)
  BY DEF DoorHitTop
<1>3. p \in Seq(Frames) /\ \A k \in DOMAIN p : p[k].op = "use" /\ p[k].by = d
  BY <1>1, NoCalls, FireTargetsCalls
<1>4. q \in Seq(Frames) /\ \A k \in DOMAIN q : q[k].op = "kill" \/ (q[k].op = "use" /\ q[k].by = d)
  BY <1>1, UseTargetsCalls
<1> HIDE DEF p, q
<1>5. /\ p \o q \in Seq(Frames)
      /\ \A k \in DOMAIN (p \o q) : \/ k \in DOMAIN p /\ (p \o q)[k] = p[k]
                                    \/ /\ k - Len(p) \in DOMAIN q /\ (p \o q)[k] = q[k - Len(p)]
                                       /\ k = 1 => p = <<>>
  BY <1>3, <1>4, Concatenated
<1>6. \A k \in DOMAIN (p \o q) : (p \o q)[k].op \in {"use", "kill", "rearm"} /\ ((p \o q)[k].op = "use" => (p \o q)[k].by = d)
  <2> SUFFICES ASSUME NEW k \in DOMAIN (p \o q)
               PROVE  (p \o q)[k].op \in {"use", "kill", "rearm"} /\ ((p \o q)[k].op = "use" => (p \o q)[k].by = d)
    OBVIOUS
  <2>1. CASE k \in DOMAIN p /\ (p \o q)[k] = p[k]
    BY <1>3, <2>1
  <2>2. CASE k - Len(p) \in DOMAIN q /\ (p \o q)[k] = q[k - Len(p)]
    BY <1>4, <2>2
  <2> QED BY <1>5, <2>1, <2>2
<1>7. /\ ~Running("moveDone", d)'
      /\ map' = map
      /\ MoverOK(d)' => stack' \in Seq(Frames) /\ Linked'
  BY <1>1, <1>2, <1>5, <1>6, MoverTypes, DoneStep
<1>8. /\ state'[d] = "top" /\ think'[d] = IF Has(d, "noReturn") \/ Has(d, "stay") THEN "none" ELSE "goDown"
      /\ d \notin sound'
  BY <1>1, <1>2, MoverTypes DEF MoverOK
<1>9. MoverOK(d)'
  BY <1>7, <1>8 DEF MoverOK, Going, Returning, Has
<1> QED BY <1>7, <1>9

LEMMA DoorHitBottomLinks ==
  ASSUME MapInv, NEW d \in Doors, Running("moveDone", d), state[d] # "goingUp", DoorHitBottom(d),
         UNCHANGED <<pos, sources, managers, left, removed, rest>>
  PROVE  stack' \in Seq(Frames) /\ Linked'
<1> DEFINE p == UseTargets(d)
           q == IF Has(d, "startOpen") THEN <<>> ELSE FireTargets(map.close[d], d)
<1>1. d \in Movers /\ MoverOK(d) /\ map \in Maps /\ d \in Entities /\ d \in Caller /\ d \notin Buttons
  BY Classes DEF Movers, MapInv, Linked, TypeOK
<1>2. /\ state' = [state EXCEPT ![d] = "bottom"]
      /\ think' = [think EXCEPT ![d] = "hitBottom"]
      /\ sound' = sound
      /\ Calls(p \o q)
  BY DEF DoorHitBottom
<1>3. q \in Seq(Frames) /\ \A k \in DOMAIN q : q[k].op = "use" /\ q[k].by = d
  BY <1>1, NoCalls, FireTargetsCalls
<1>4. p \in Seq(Frames) /\ \A k \in DOMAIN p : p[k].op = "kill" \/ (p[k].op = "use" /\ p[k].by = d)
  BY <1>1, UseTargetsCalls
<1> HIDE DEF p, q
<1>5. /\ p \o q \in Seq(Frames)
      /\ \A k \in DOMAIN (p \o q) : \/ k \in DOMAIN p /\ (p \o q)[k] = p[k]
                                    \/ /\ k - Len(p) \in DOMAIN q /\ (p \o q)[k] = q[k - Len(p)]
                                       /\ k = 1 => p = <<>>
  BY <1>3, <1>4, Concatenated
<1>6. \A k \in DOMAIN (p \o q) : (p \o q)[k].op \in {"use", "kill", "rearm"} /\ ((p \o q)[k].op = "use" => (p \o q)[k].by = d)
  <2> SUFFICES ASSUME NEW k \in DOMAIN (p \o q)
               PROVE  (p \o q)[k].op \in {"use", "kill", "rearm"} /\ ((p \o q)[k].op = "use" => (p \o q)[k].by = d)
    OBVIOUS
  <2>1. CASE k \in DOMAIN p /\ (p \o q)[k] = p[k]
    BY <1>4, <2>1
  <2>2. CASE k - Len(p) \in DOMAIN q /\ (p \o q)[k] = q[k - Len(p)]
    BY <1>3, <2>2
  <2> QED BY <1>5, <2>1, <2>2
<1>7. /\ ~Running("moveDone", d)'
      /\ map' = map
      /\ MoverOK(d)' => stack' \in Seq(Frames) /\ Linked'
  BY <1>1, <1>2, <1>5, <1>6, MoverTypes, DoneStep
<1>8. state'[d] = "bottom" /\ think'[d] = "hitBottom"
  BY <1>1, <1>2, MoverTypes
<1>9. MoverOK(d)'
  BY <1>1, <1>2, <1>7, <1>8 DEF MoverOK, Going, Has
<1> QED BY <1>7, <1>9

LEMMA MoveDoneLinks ==
  ASSUME MapInv, NEW e \in Movers, MoveDone(e)
  PROVE  stack' \in Seq(Frames) /\ Linked'
<1>1. Running("moveDone", e) /\ UNCHANGED <<pos, sources, managers, left, removed, rest>>
  BY DEF MoveDone
<1>2. CASE e \in Buttons
  BY <1>1, <1>2, TriggerAndWaitLinks, ButtonBackHomeLinks DEF MoveDone
<1>3. CASE e \notin Buttons
  BY <1>1, <1>3, DoorHitTopLinks, DoorHitBottomLinks DEF MoveDone, Movers
<1> QED BY <1>2, <1>3

\* A step of a manager, a counter or a trigger.
LEMMA LogicLinks ==
  ASSUME MapInv, NEW e \in Managers \cup Counters \cup Triggers, NEW frames \in Seq(Frames), stack' = frames \o Rest,
         1 \in DOMAIN stack => stack[1].ent = e,
         \A k \in DOMAIN frames :
           /\ frames[k].op \in {"use", "kill", "fire", "fired", "triggered"}
           /\ frames[k].op \in {"use", "triggered"} => IF frames[k].op = "use" THEN frames[k].by = e ELSE frames[k].ent = e,
         UNCHANGED <<state, pos, sounds, sources, map>>, removed \subseteq removed',
         \A d \in Entities : d # e => think'[d] = think[d],
         \A m \in Managers : m # e => (m \in running' => m \in running),
         \A c \in Counters : c # e => left'[c] = left[c],
         e \in Managers => FiringOK(e)', e \in Counters => CountOK(e)'
  PROVE  stack' \in Seq(Frames) /\ Linked'
<1>1. Step(e, frames)
  BY DEF Step, sounds
<1>2. e \notin Sources \cup Movers \cup Buttons
  BY Classes DEF Movers
<1>3. ASSUME NEW s \in Sources, NEW b \in Buttons PROVE Untouched(s, b, frames)
  <2>1. UseOf(s, b).op = "use" /\ UseOf(s, b).ent = s /\ UseOf(s, b).by = b
    BY DEF UseOf
  <2>2. (1 \in DOMAIN stack => stack[1] # UseOf(s, b)) /\ \A k \in DOMAIN frames : frames[k] # UseOf(s, b)
    BY <1>2, <2>1
  <2>3. Up(b)' <=> Up(b)
    BY DEF Up
  <2>4. ~Running("moveDone", b)'
    <3>1. stack' \in Seq(Frames) /\ \A k \in DOMAIN stack' :
            (k \in DOMAIN frames /\ stack'[k] = frames[k]) \/ stack'[k].op \notin {"moveDone", "activate"}
      BY <1>1, StepCalls
    <3> QED BY <3>1, TopAfter
  <2> QED BY <2>2, <2>3, <2>4 DEF Untouched
<1> QED BY <1>1, <1>2, <1>3, StepLinks

LEMMA ManagerUseLinks ==
  ASSUME MapInv, NEW m \in Managers, Running("use", m), ManagerUse(m)
  PROVE  stack' \in Seq(Frames) /\ Linked'
<1>1. /\ Calls(<<>>) /\ UNCHANGED <<state, pos, sounds, sources, left, removed, map>>
      /\ \/ running' = running /\ think' = think
         \/ running' = running \cup {m} /\ think' = [think EXCEPT ![m] = "managerStart"]
  BY DEF ManagerUse, rest, managers
<1>2. 1 \in DOMAIN stack /\ stack[1].ent = m /\ stack[1].op = "use" /\ stack' = <<>> \o Rest
  BY <1>1, Running1
<1>3. <<>> \in Seq(Frames) /\ DOMAIN <<>> = {}
  BY NoCalls
<1>4. CASE running' = running /\ think' = think
  BY <1>1, <1>2, <1>3, <1>4, Classes, PlainLinks DEF Plainly, moving, sounds
<1>5. CASE running' = running \cup {m} /\ think' = [think EXCEPT ![m] = "managerStart"]
  <2>1. DOMAIN think = Entities /\ m \in Entities /\ m \notin Counters
    BY MoverTypes, Classes
  <2>2. FiringOK(m)'
    BY <1>5, <2>1 DEF FiringOK
  <2> QED BY <1>1, <1>2, <1>3, <1>5, <2>1, <2>2, LogicLinks
<1> QED BY <1>1, <1>4, <1>5

LEMMA ManagerThinkLinks ==
  ASSUME MapInv, NEW m \in Managers, ManagerThink(m)
  PROVE  stack' \in Seq(Frames) /\ Linked'
<1>1. /\ UNCHANGED <<state, pos, running, sounds, sources, left, removed, map>> /\ stack = <<>> /\ map \in Maps
      /\ think' = [think EXCEPT ![m] = "none"]
  BY MoverTypes DEF ManagerThink, Idle, rest
<1>2. m \in Caller /\ m \notin Buttons /\ index[m] \in Nat /\ m \in Entities /\ m \notin Counters
  BY <1>1, MapFacts, Classes DEF MapInv, TypeOK, Movers
<1>3. PICK n \in 0..Len(map.fires[m]) : stack' = FireDue(m, index[m], n, m) \o <<Frame("fired", m)>>
  BY DEF ManagerThink
<1> DEFINE p == FireDue(m, index[m], n, m)
           q == <<Frame("fired", m)>>
<1>4. p \in Seq(Frames) /\ \A k \in DOMAIN p : p[k].op = "fire"
  BY <1>1, <1>2, FireDueCalls
<1>5. q \in Seq(Frames) /\ DOMAIN q = {1} /\ q[1].op = "fired" /\ q[1].ent = m
  <2>1. Frame("fired", m) = [op |-> "fired", ent |-> m, by |-> m] /\ "fired" \in Ops
    BY DEF Frame, Ops
  <2> QED BY <1>2, <2>1, OneCall
<1>6. stack' = p \o q
  BY <1>3
<1> HIDE DEF p, q
<1>7. /\ p \o q \in Seq(Frames)
      /\ \A k \in DOMAIN (p \o q) : \/ k \in DOMAIN p /\ (p \o q)[k] = p[k]
                                    \/ /\ k - Len(p) \in DOMAIN q /\ (p \o q)[k] = q[k - Len(p)]
                                       /\ k = 1 => p = <<>>
      /\ \A k \in DOMAIN q : k + Len(p) \in DOMAIN (p \o q) /\ (p \o q)[k + Len(p)] = q[k]
  BY <1>4, <1>5, Concatenated
<1>8. \A k \in DOMAIN (p \o q) : (p \o q)[k].op \in {"fire", "fired"}
  <2> SUFFICES ASSUME NEW k \in DOMAIN (p \o q) PROVE (p \o q)[k].op \in {"fire", "fired"}
    OBVIOUS
  <2>1. CASE k \in DOMAIN p /\ (p \o q)[k] = p[k]
    BY <1>4, <2>1
  <2>2. CASE k - Len(p) \in DOMAIN q /\ (p \o q)[k] = q[k - Len(p)]
    BY <1>5, <2>2
  <2> QED BY <1>7, <2>1, <2>2
<1>9. FiringOK(m)'
  <2>1. Pending("fired", m)'
    BY <1>5, <1>6, <1>7 DEF Pending
  <2> QED BY <2>1 DEF FiringOK
<1>10. stack' = (p \o q) \o Rest /\ 1 \notin DOMAIN stack
  BY <1>1, <1>6, <1>7, Idle1
<1>11. \A d \in Entities : d # m => think'[d] = think[d]
  BY <1>1, MoverTypes
<1> DEFINE t == p \o q
<1>12. t \in Seq(Frames) /\ stack' = t \o Rest /\ \A k \in DOMAIN t : t[k].op \in {"fire", "fired"}
  BY <1>7, <1>8, <1>10
<1> HIDE DEF t
<1>13. \A k \in DOMAIN t :
         /\ t[k].op \in {"use", "kill", "fire", "fired", "triggered"}
         /\ t[k].op \in {"use", "triggered"} => IF t[k].op = "use" THEN t[k].by = m ELSE t[k].ent = m
  BY <1>12
<1>14. /\ UNCHANGED <<state, pos, sounds, sources, map>> /\ removed \subseteq removed'
       /\ (\A d \in Managers : d # m => (d \in running' => d \in running))
       /\ (\A c \in Counters : c # m => left'[c] = left[c])
       /\ (m \in Managers => FiringOK(m)') /\ (m \in Counters => CountOK(m)')
       /\ m \in Managers \cup Counters \cup Triggers /\ (1 \in DOMAIN stack => stack[1].ent = m)
  BY <1>1, <1>2, <1>9, <1>10
<1> QED BY <1>11, <1>12, <1>13, <1>14, LogicLinks

LEMMA FiredLinks ==
  ASSUME MapInv, NEW m \in Managers, Fired(m)
  PROVE  stack' \in Seq(Frames) /\ Linked'
<1>1. /\ Running("fired", m) /\ Calls(<<>>) /\ UNCHANGED <<state, pos, sounds, sources, left, removed, map>>
      /\ running' \subseteq running
      /\ \/ think' = think /\ m \notin running'
         \/ think' = [think EXCEPT ![m] = "managerThink"]
  BY DEF Fired, rest
<1>2. 1 \in DOMAIN stack /\ stack[1].ent = m /\ stack' = <<>> \o Rest
  BY <1>1, Running1
<1>3. <<>> \in Seq(Frames) /\ DOMAIN <<>> = {}
  BY NoCalls
<1>4. DOMAIN think = Entities /\ m \in Entities /\ m \notin Counters
  BY MoverTypes, Classes
<1>5. FiringOK(m)' /\ \A d \in Entities : d # m => think'[d] = think[d]
  BY <1>1, <1>4 DEF FiringOK
<1> QED BY <1>1, <1>2, <1>3, <1>4, <1>5, LogicLinks

\* The calls of ActivateMultiTrigger.
LEMMA MultiCalls ==
  ASSUME map \in Maps, NEW t \in Counters \cup Triggers
  PROVE  LET p == UseTargets(t) \o <<Frame("triggered", t)>>
         IN  /\ p \in Seq(Frames)
             /\ \A k \in DOMAIN p : /\ p[k].op \in {"use", "kill", "triggered"}
                                    /\ p[k].op = "use" => p[k].by = t
                                    /\ p[k].op = "triggered" => p[k].ent = t
             /\ \E k \in DOMAIN p : p[k].op = "triggered" /\ p[k].ent = t
<1> DEFINE p == UseTargets(t)
           q == <<Frame("triggered", t)>>
<1>1. t \in Entities /\ t \in Caller
  BY Classes
<1>2. p \in Seq(Frames) /\ \A k \in DOMAIN p : p[k].op = "kill" \/ (p[k].op = "use" /\ p[k].by = t)
  BY <1>1, UseTargetsCalls
<1>3. q \in Seq(Frames) /\ DOMAIN q = {1} /\ q[1].op = "triggered" /\ q[1].ent = t
  <2>1. Frame("triggered", t) = [op |-> "triggered", ent |-> t, by |-> t] /\ "triggered" \in Ops
    BY DEF Frame, Ops
  <2> QED BY <1>1, <2>1, OneCall
<1> HIDE DEF p, q
<1>4. /\ p \o q \in Seq(Frames)
      /\ \A k \in DOMAIN (p \o q) : \/ k \in DOMAIN p /\ (p \o q)[k] = p[k]
                                    \/ /\ k - Len(p) \in DOMAIN q /\ (p \o q)[k] = q[k - Len(p)]
                                       /\ k = 1 => p = <<>>
      /\ \A k \in DOMAIN q : k + Len(p) \in DOMAIN (p \o q) /\ (p \o q)[k + Len(p)] = q[k]
  BY <1>2, <1>3, Concatenated
<1>5. ASSUME NEW k \in DOMAIN (p \o q)
      PROVE  /\ (p \o q)[k].op \in {"use", "kill", "triggered"}
             /\ (p \o q)[k].op = "use" => (p \o q)[k].by = t
             /\ (p \o q)[k].op = "triggered" => (p \o q)[k].ent = t
  <2>1. CASE k \in DOMAIN p /\ (p \o q)[k] = p[k]
    BY <1>2, <2>1
  <2>2. CASE k - Len(p) \in DOMAIN q /\ (p \o q)[k] = q[k - Len(p)]
    BY <1>3, <2>2
  <2> QED BY <1>4, <2>1, <2>2
<1>6. \E k \in DOMAIN (p \o q) : (p \o q)[k].op = "triggered" /\ (p \o q)[k].ent = t
  BY <1>3, <1>4
<1> QED BY <1>4, <1>5, <1>6 DEF p, q

LEMMA CounterUseLinks ==
  ASSUME MapInv, NEW c \in Counters, Running("use", c), CounterUse(c)
  PROVE  stack' \in Seq(Frames) /\ Linked'
<1>1. /\ left' = [left EXCEPT ![c] = IF @ < 0 THEN @ ELSE @ - 1]
      /\ UNCHANGED <<state, pos, think, sounds, sources, running, removed, map>>
      /\ IF left[c] = 1 THEN ActivateMultiTrigger(c, Tail(stack)) ELSE Calls(<<>>)
  BY DEF CounterUse, rest, moving, managers
<1>2. /\ 1 \in DOMAIN stack /\ stack[1].ent = c /\ stack[1].op = "use" /\ stack # <<>> /\ Rest = Tail(stack)
      /\ \A frames : Calls(frames) => stack' = frames \o Rest
  BY Running1 DEF Rest
<1>3. /\ CountOK(c) /\ c \in Entities /\ c \notin Managers /\ c \in Counters \cup Triggers
      /\ map \in Maps /\ left \in [Counters -> Int] /\ stack \in Seq(Frames)
  BY Classes, CountAssumption DEF MapInv, TypeOK, Linked, CallTypes
<1>4. left'[c] = IF left[c] < 0 THEN left[c] ELSE left[c] - 1
  BY <1>1, <1>3
<1>5. PICK p \in Seq(Frames) :
        /\ stack' = p \o Rest
        /\ \A k \in DOMAIN p : /\ p[k].op \in {"use", "kill", "triggered"}
                               /\ p[k].op = "use" => p[k].by = c
                               /\ p[k].op = "triggered" => p[k].ent = c /\ left[c] = 1
        /\ left[c] = 1 /\ map.master[c] = NoName => \E k \in DOMAIN p : p[k].op = "triggered" /\ p[k].ent = c
  <2>1. CASE left[c] # 1
    <3>1. <<>> \in Seq(Frames) /\ DOMAIN <<>> = {} /\ stack' = <<>> \o Rest
      BY <1>1, <1>2, <2>1, NoCalls
    <3> QED BY <2>1, <3>1
  <2>2. CASE left[c] = 1 /\ ~Unlocked(c)
    <3>1. stack' = Rest
      BY <1>1, <1>2, <2>2 DEF ActivateMultiTrigger
    <3>2. Rest \in Seq(Frames)
      BY <1>2, <1>3
    <3>3. <<>> \in Seq(Frames) /\ DOMAIN <<>> = {} /\ stack' = <<>> \o Rest
      BY <3>1, <3>2, NoCalls
    <3>4. map.master[c] # NoName
      BY <2>2 DEF Unlocked, Named
    <3> QED BY <3>3, <3>4
  <2>3. CASE left[c] = 1 /\ Unlocked(c)
    <3> DEFINE q == UseTargets(c)
               r == <<Frame("triggered", c)>>
    <3>1. think[c] = "none"
      BY <1>3, <2>3 DEF CountOK
    <3>2. stack' = q \o r \o Tail(stack)
      BY <1>1, <2>3, <3>1 DEF ActivateMultiTrigger
    <3>3. /\ q \o r \in Seq(Frames)
          /\ \A k \in DOMAIN (q \o r) : /\ (q \o r)[k].op \in {"use", "kill", "triggered"}
                                        /\ (q \o r)[k].op = "use" => (q \o r)[k].by = c
                                        /\ (q \o r)[k].op = "triggered" => (q \o r)[k].ent = c
          /\ \E k \in DOMAIN (q \o r) : (q \o r)[k].op = "triggered" /\ (q \o r)[k].ent = c
      BY <1>3, MultiCalls
    <3> HIDE DEF q, r
    <3>4. stack' = (q \o r) \o Rest
      BY <1>2, <3>2
    <3> QED BY <2>3, <3>3, <3>4
  <2> QED BY <2>1, <2>2, <2>3
<1>6. \A k \in DOMAIN p :
        /\ p[k].op \in {"use", "kill", "fire", "fired", "triggered"}
        /\ p[k].op \in {"use", "triggered"} => IF p[k].op = "use" THEN p[k].by = c ELSE p[k].ent = c
  BY <1>5
<1>7. CountOK(c)'
  <2>1. /\ stack' \in Seq(Frames)
        /\ \A k \in DOMAIN stack' : \/ k \in DOMAIN p /\ stack'[k] = p[k]
                                    \/ /\ \E j \in DOMAIN stack : j > 1 /\ j = k - Len(p) + 1 /\ stack'[k] = stack[j]
                                       /\ k = 1 => p = <<>>
        /\ \A k \in DOMAIN p : k \in DOMAIN stack' /\ stack'[k] = p[k]
        /\ \A j \in DOMAIN stack : j > 1 =>
               j - 1 + Len(p) \in DOMAIN stack' /\ stack'[j - 1 + Len(p)] = stack[j]
    BY <1>3, <1>5, StackStep
  <2>2. Pending("triggered", c) => Pending("triggered", c)'
    <3> SUFFICES ASSUME Pending("triggered", c) PROVE Pending("triggered", c)'
      OBVIOUS
    <3>1. PICK j \in DOMAIN stack : stack[j].op = "triggered" /\ stack[j].ent = c
      BY DEF Pending
    <3>2. j > 1
      BY <1>2, <1>3, <3>1
    <3> QED BY <2>1, <3>1, <3>2 DEF Pending
  <2>3. left[c] # 1 => (Pending("triggered", c)' => Pending("triggered", c))
    <3> SUFFICES ASSUME left[c] # 1, Pending("triggered", c)' PROVE Pending("triggered", c)
      OBVIOUS
    <3>1. PICK k \in DOMAIN stack' : stack'[k].op = "triggered" /\ stack'[k].ent = c
      BY DEF Pending
    <3>2. \E j \in DOMAIN stack : stack'[k] = stack[j]
      BY <1>5, <2>1, <3>1
    <3> QED BY <3>1, <3>2 DEF Pending
  <2>4. left[c] = 1 /\ map.master[c] = NoName => Pending("triggered", c)'
    BY <1>5, <2>1 DEF Pending
  <2>5. think'[c] = think[c] /\ removed' = removed /\ map' = map /\ left[c] \in Int
    BY <1>1, <1>3
  <2>6. CASE left[c] = 1
    BY <1>4, <2>4, <2>5, <2>6 DEF CountOK
  <2>7. CASE left[c] # 1
    BY <1>3, <1>4, <2>2, <2>3, <2>5, <2>7 DEF CountOK
  <2> QED BY <2>6, <2>7
<1>8. /\ UNCHANGED <<state, pos, sounds, sources, map>> /\ removed \subseteq removed'
      /\ (\A d \in Managers : d # c => (d \in running' => d \in running))
      /\ (\A d \in Counters : d # c => left'[d] = left[d])
      /\ (\A d \in Entities : d # c => think'[d] = think[d])
      /\ (c \in Managers => FiringOK(c)') /\ (c \in Counters => CountOK(c)')
      /\ c \in Managers \cup Counters \cup Triggers /\ (1 \in DOMAIN stack => stack[1].ent = c)
  BY <1>1, <1>2, <1>3, <1>7
<1> QED BY <1>5, <1>6, <1>8, LogicLinks

LEMMA MultiTouchLinks ==
  ASSUME MapInv, NEW t \in Triggers, MultiTouch(t)
  PROVE  stack' \in Seq(Frames) /\ Linked'
<1> DEFINE p == UseTargets(t) \o <<Frame("triggered", t)>>
<1>1. /\ UNCHANGED <<moving, sounds, sources, managers, left, removed, map>> /\ stack = <<>>
      /\ think[t] = "none" /\ Unlocked(t) /\ ActivateMultiTrigger(t, <<>>)
  BY DEF MultiTouch, Input, Idle
<1>2. stack' = p \o <<>> /\ map \in Maps /\ t \in Counters \cup Triggers
  BY <1>1, MoverTypes DEF ActivateMultiTrigger
<1>3. /\ p \in Seq(Frames)
      /\ \A k \in DOMAIN p : /\ p[k].op \in {"use", "kill", "triggered"}
                             /\ p[k].op = "use" => p[k].by = t
                             /\ p[k].op = "triggered" => p[k].ent = t
  BY <1>2, MultiCalls
<1> HIDE DEF p
<1>4. stack' = p \o Rest /\ 1 \notin DOMAIN stack
  BY <1>1, <1>2, <1>3, Idle1
<1>5. \A k \in DOMAIN p :
        /\ p[k].op \in {"use", "kill", "fire", "fired", "triggered"}
        /\ p[k].op \in {"use", "triggered"} => IF p[k].op = "use" THEN p[k].by = t ELSE p[k].ent = t
  BY <1>3
<1>6. /\ UNCHANGED <<state, pos, sounds, sources, map>> /\ removed \subseteq removed'
      /\ (\A d \in Managers : d # t => (d \in running' => d \in running))
      /\ (\A d \in Counters : d # t => left'[d] = left[d])
      /\ (\A d \in Entities : d # t => think'[d] = think[d])
      /\ (t \in Managers => FiringOK(t)') /\ (t \in Counters => CountOK(t)')
      /\ t \in Managers \cup Counters \cup Triggers /\ (1 \in DOMAIN stack => stack[1].ent = t)
  BY <1>1, <1>4, Classes DEF moving, managers
<1> QED BY <1>3, <1>4, <1>5, <1>6, LogicLinks

LEMMA TriggeredLinks ==
  ASSUME MapInv, NEW t \in Counters \cup Triggers, Triggered(t)
  PROVE  stack' \in Seq(Frames) /\ Linked'
<1>1. /\ Running("triggered", t) /\ Calls(<<>>) /\ UNCHANGED <<state, pos, sounds, sources, managers, left, removed, map>>
      /\ think' = [think EXCEPT ![t] = IF Waits(t) THEN "waitOver" ELSE "remove"]
  BY DEF Triggered, rest
<1>2. 1 \in DOMAIN stack /\ stack[1].op = "triggered" /\ stack[1].ent = t /\ stack' = <<>> \o Rest
  BY <1>1, Running1
<1>3. <<>> \in Seq(Frames) /\ DOMAIN <<>> = {}
  BY NoCalls
<1>4. DOMAIN think = Entities /\ t \in Entities /\ t \notin Managers
  BY MoverTypes, Classes
<1>5. ASSUME t \in Counters PROVE CountOK(t)'
  <2>1. think'[t] = "remove"
    BY <1>1, <1>4, <1>5, Classes DEF Waits
  <2>2. ~(left[t] > 0)
    BY <1>2, <1>5 DEF MapInv, Linked, CountOK, Pending
  <2> QED BY <1>1, <2>1, <2>2 DEF CountOK
<1>6. /\ UNCHANGED <<state, pos, sounds, sources, map>> /\ removed \subseteq removed'
      /\ (\A d \in Managers : d # t => (d \in running' => d \in running))
      /\ (\A d \in Counters : d # t => left'[d] = left[d])
      /\ (\A d \in Entities : d # t => think'[d] = think[d])
      /\ (t \in Managers => FiringOK(t)') /\ (t \in Counters => CountOK(t)')
      /\ t \in Managers \cup Counters \cup Triggers /\ (1 \in DOMAIN stack => stack[1].ent = t)
  BY <1>1, <1>2, <1>4, <1>5 DEF managers
<1> QED BY <1>2, <1>3, <1>6, LogicLinks

LEMMA TriggerThinkLinks ==
  ASSUME MapInv, NEW t \in Counters \cup Triggers, TriggerThink(t)
  PROVE  stack' \in Seq(Frames) /\ Linked'
<1>1. /\ stack = <<>> /\ stack' = stack /\ UNCHANGED <<state, pos, sounds, sources, managers, left, map>>
      /\ think[t] \in {"waitOver", "remove"}
      /\ think' = [think EXCEPT ![t] = "none"]
      /\ removed' = IF think[t] = "remove" THEN removed \cup {t} ELSE removed
  BY DEF TriggerThink, Idle, rest
<1>2. 1 \notin DOMAIN stack /\ stack' = <<>> \o Rest /\ ~Pending("triggered", t)
  BY <1>1, Idle1
<1>3. <<>> \in Seq(Frames) /\ DOMAIN <<>> = {}
  BY NoCalls
<1>4. DOMAIN think = Entities /\ t \in Entities /\ t \notin Managers
  BY MoverTypes, Classes
<1>5. ASSUME t \in Counters PROVE CountOK(t)'
  <2>1. think'[t] = "none" /\ ~(left[t] > 0) /\ left' = left
    BY <1>1, <1>4, <1>5 DEF MapInv, Linked, CountOK
  <2>2. t \in removed' \/ map.master[t] # NoName \/ ~(left[t] <= 0)
    BY <1>1, <1>2, <1>5 DEF MapInv, Linked, CountOK
  <2> QED BY <1>1, <2>1, <2>2 DEF CountOK
<1>6. /\ UNCHANGED <<state, pos, sounds, sources, map>> /\ removed \subseteq removed'
      /\ (\A d \in Managers : d # t => (d \in running' => d \in running))
      /\ (\A d \in Counters : d # t => left'[d] = left[d])
      /\ (\A d \in Entities : d # t => think'[d] = think[d])
      /\ (t \in Managers => FiringOK(t)') /\ (t \in Counters => CountOK(t)')
      /\ t \in Managers \cup Counters \cup Triggers /\ (1 \in DOMAIN stack => stack[1].ent = t)
  BY <1>1, <1>2, <1>4, <1>5 DEF managers
<1> QED BY <1>2, <1>3, <1>6, LogicLinks

\* A step of a multisource.
LEMMA SourceLinks ==
  ASSUME MapInv, NEW s \in Sources, NEW frames, Step(s, frames), UNCHANGED <<state, pos>>,
         1 \in DOMAIN stack => stack[1].op = "use" /\ stack[1].ent = s,
         \A k \in DOMAIN frames : frames[k].op = "use" /\ frames[k].by = s,
         disturbed \subseteq disturbed', MembersKnown',
         \A t \in Sources : t # s => members'[t] = members[t] /\ input'[t] = input[t],
         \A b \in Buttons : ~Running("moveDone", b)' => InputOK(s, b)'
  PROVE  stack' \in Seq(Frames) /\ Linked'
<1>1. /\ stack' \in Seq(Frames) /\ Shallow'
      /\ \A k \in DOMAIN stack' :
           (k \in DOMAIN frames /\ stack'[k] = frames[k]) \/ stack'[k].op \notin {"moveDone", "activate"}
  BY StepCalls
<1>2. \A b : ~Running("moveDone", b)'
  BY <1>1, TopAfter
<1>3. s \notin Movers \cup Managers \cup Counters \cup Buttons
  BY Classes DEF Movers
<1>4. \A d \in Movers : MoverOK(d)'
  BY <1>3, OthersMove
<1>5. \A b \in Buttons : ButtonOK(b)'
  BY <1>3, OthersMove DEF Movers
<1>6. (\A m \in Managers : FiringOK(m)') /\ (\A c \in Counters : CountOK(c)')
  BY <1>3, OthersFire
<1>7. ASSUME NEW t \in Sources, NEW b \in Buttons PROVE InputOK(t, b)'
  <2>1. CASE t = s
    BY <1>2, <2>1
  <2>2. CASE t # s
    <3>1. UseOf(t, b).op = "use" /\ UseOf(t, b).ent = t /\ UseOf(t, b).by = b
      BY DEF UseOf
    <3>2. (1 \in DOMAIN stack => stack[1] # UseOf(t, b)) /\ \A k \in DOMAIN frames : frames[k] # UseOf(t, b)
      BY <1>3, <2>2, <3>1
    <3>3. (Up(b)' <=> Up(b)) /\ think'[t] = think[t] /\ members'[t] = members[t] /\ input'[t] = input[t]
      BY <2>2, Classes DEF Up, Step
    <3> QED BY <1>2, <3>2, <3>3, InputKept
  <2> QED BY <2>1, <2>2
<1> QED BY <1>1, <1>4, <1>5, <1>6, <1>7 DEF Linked

LEMMA SourceUseLinks ==
  ASSUME MapInv, NEW s \in Sources, Running("use", s), SourceUse(s, Head(stack).by)
  PROVE  stack' \in Seq(Frames) /\ Linked'
<1> DEFINE caller == Head(stack).by
           ms == members[s]
           n == Len(ms)
           i == IF caller \in Range(ms) THEN CHOOSE k \in 1..n : ms[k] = caller ELSE n
           toggled == IF n = 0 THEN input[s] ELSE [input[s] EXCEPT ![i] = ~@]
           p == FireTargets(map.target[s], s)
           frames == IF think[s] # "register" /\ \A k \in DOMAIN toggled : toggled[k] THEN p ELSE <<>>
<1>1. /\ input' = [input EXCEPT ![s] = toggled]
      /\ disturbed' = IF caller \in Range(ms) THEN disturbed ELSE disturbed \cup {s}
      /\ Calls(frames)
      /\ UNCHANGED <<members, state, pos, think, sound, running, left, removed, map>>
  <2>1. UNCHANGED <<members, state, pos, think, sound, running, left, removed, map>>
    BY DEF SourceUse, moving, sounds, managers, rest
  <2>2. /\ input' = [input EXCEPT ![s] = toggled]
        /\ disturbed' = IF caller \in Range(ms) THEN disturbed ELSE disturbed \cup {s}
    BY DEF SourceUse
  <2>3. Calls(frames)
    BY Zenon DEF SourceUse
  <2> QED BY <2>1, <2>2, <2>3
<1>2. /\ 1 \in DOMAIN stack /\ stack[1].op = "use" /\ stack[1].ent = s /\ stack[1].by = caller
      /\ stack' = frames \o Rest
  <2> HIDE DEF frames
  <2> QED BY <1>1, Running1
<1>3. /\ map \in Maps /\ DOMAIN input = Sources /\ DOMAIN input[s] = DOMAIN ms /\ ms \in Seq(Entities \cup Nat)
      /\ stack \in Seq(Frames) /\ MembersKnown /\ s \in Caller /\ s \notin Buttons
  BY Classes DEF MapInv, TypeOK, CallTypes, Linked, Movers
<1>4. p \in Seq(Frames) /\ \A k \in DOMAIN p : p[k].op = "use" /\ p[k].by = s
  BY <1>3, FireTargetsCalls
<1>5. frames \in Seq(Frames) /\ \A k \in DOMAIN frames : frames[k].op = "use" /\ frames[k].by = s
  BY <1>4, NoCalls
<1> HIDE DEF frames, p
<1>6. Step(s, frames)
  BY <1>1, <1>2, <1>5 DEF Step
<1>7. MembersKnown'
  BY <1>1, <1>3 DEF MembersKnown
<1>8. \A t \in Sources : t # s => members'[t] = members[t] /\ input'[t] = input[t]
  BY <1>1, <1>3
<1>9. ASSUME NEW b \in Buttons, ~Running("moveDone", b)' PROVE InputOK(s, b)'
  <2> SUFFICES ASSUME Wired(s, b)'
               PROVE  /\ Once(UseOf(s, b))'
                      /\ (think[s] = "register")' => (Up(b)' <=> ~Absent(UseOf(s, b))')
                      /\ \A j \in DOMAIN members'[s] : members'[s][j] = b => (input'[s][j] <=> (Up(b)' <=> Absent(UseOf(s, b))'))
    BY <1>9 DEF InputOK, UseOf
  <2>1. Wired(s, b) /\ caller \in Range(ms) /\ (Up(b)' <=> Up(b))
    BY <1>1 DEF Wired, Alive, Plain, Has, Present, Up
  <2>2. /\ Once(UseOf(s, b))
        /\ \A j \in DOMAIN ms : ms[j] = b => (input[s][j] <=> (Up(b) <=> Absent(UseOf(s, b))))
    BY <2>1 DEF MapInv, Linked, InputOK
  <2>3. /\ DOMAIN ms = 1..n /\ n \in Nat /\ n # 0 /\ i \in 1..n /\ ms[i] = caller
        /\ think[s] # "register"
    <3>1. PICK k \in DOMAIN ms : ms[k] = caller
      BY <2>1 DEF Range
    <3>2. DOMAIN ms = 1..n /\ n \in Nat
      BY <1>3
    <3>3. \E x \in 1..n : ms[x] = caller
      BY <3>1, <3>2
    <3>4. i \in 1..n /\ ms[i] = caller
      BY <2>1, <3>3
    <3>5. think[s] # "register"
      BY <1>3, <3>1 DEF MembersKnown
    <3> QED BY <3>2, <3>4, <3>5
  <2> HIDE DEF i, n
  <2>4. input'[s] = [input[s] EXCEPT ![i] = ~@] /\ i \in DOMAIN input[s] /\ members'[s] = ms /\ think'[s] = think[s]
    BY <1>1, <1>3, <2>3
  <2>5. UseOf(s, b).op = "use" /\ UseOf(s, b).by = b /\ UseOf(s, b)' = UseOf(s, b)
    BY DEF UseOf
  <2>6. CASE caller = b
    <3>1. stack[1] = UseOf(s, b)
      <4>1. stack[1] \in [op : Ops, ent : Caller, by : Caller]
        BY <1>2, <1>3 DEF Frames
      <4> QED BY <1>2, <2>6, <4>1 DEF UseOf
    <3> HIDE DEF UseOf
    <3>2. ASSUME NEW k \in DOMAIN stack' PROVE stack'[k] # UseOf(s, b)
      <4>1. CASE k \in DOMAIN frames /\ stack'[k] = frames[k]
        BY <1>3, <1>5, <2>5, <4>1
      <4>2. CASE \E j \in DOMAIN stack : j > 1 /\ stack'[k] = stack[j]
        BY <1>2, <2>2, <3>1, <4>2 DEF Once
      <4> QED BY <1>6, <4>1, <4>2, StepCalls
    <3>3. Absent(UseOf(s, b))' /\ Once(UseOf(s, b))'
      BY <2>5, <3>2 DEF Absent, Once
    <3>4. ~Absent(UseOf(s, b))
      BY <1>2, <3>1 DEF Absent
    <3>5. ASSUME NEW j \in DOMAIN members'[s], members'[s][j] = b
          PROVE  input'[s][j] <=> (Up(b)' <=> Absent(UseOf(s, b))')
      <4>1. j = i
        BY <1>3, <2>3, <2>4, <2>6, <3>5 DEF MembersKnown
      <4>2. input'[s][j] <=> ~input[s][j]
        BY <2>4, <4>1
      <4>3. input[s][j] <=> ~Up(b)
        BY <2>2, <2>4, <3>4, <3>5
      <4> QED BY <2>1, <3>3, <4>2, <4>3
    <3> QED BY <2>3, <2>4, <3>3, <3>5
  <2>7. CASE caller # b
    <3>1. stack[1] # UseOf(s, b) /\ \A k \in DOMAIN frames : frames[k] # UseOf(s, b)
      BY <1>2, <1>3, <1>5, <2>5, <2>7
    <3> HIDE DEF UseOf
    <3>2. PICK f : f = UseOf(s, b)
      OBVIOUS
    <3>3. (Absent(f)' <=> Absent(f)) /\ (Once(f) => Once(f)')
      BY <1>2, <1>3, <1>5, <3>1, <3>2, CallStays
    <3>4. (Absent(UseOf(s, b))' <=> Absent(UseOf(s, b))) /\ Once(UseOf(s, b))'
      BY <2>2, <2>5, <3>2, <3>3
    <3>5. ASSUME NEW j \in DOMAIN members'[s], members'[s][j] = b
          PROVE  input'[s][j] <=> (Up(b)' <=> Absent(UseOf(s, b))')
      <4>1. j # i /\ j \in DOMAIN input[s]
        BY <1>3, <2>3, <2>4, <2>7, <3>5
      <4>2. input'[s][j] = input[s][j]
        BY <2>4, <4>1
      <4>3. input[s][j] <=> (Up(b) <=> Absent(UseOf(s, b)))
        BY <2>2, <2>4, <3>5
      <4> QED BY <2>1, <3>4, <4>2, <4>3
    <3> QED BY <2>3, <2>4, <3>4, <3>5
  <2> QED BY <2>6, <2>7
<1>10. disturbed \subseteq disturbed' /\ UNCHANGED <<state, pos>>
  BY <1>1
<1> QED BY <1>2, <1>5, <1>6, <1>7, <1>8, <1>9, <1>10, SourceLinks

\* The entities that a multisource registers.
LEMMA Registered ==
  ASSUME map \in Maps, \A c \in clones : c.id \in 1..made, made \in Nat, NEW n, NEW q \in Listings(Managing(n))
  PROVE  LET ms == InOrder(Firing(n)) \o q
         IN  /\ ms \in Seq(Entities \cup Nat)
             /\ \A i, j \in DOMAIN ms : ms[i] = ms[j] => i = j
             /\ \A i \in DOMAIN ms : ms[i] \notin Managers \cup Nat => map.target[ms[i]] = n /\ n # NoName
<1> DEFINE p == InOrder(Firing(n))
           ids == {c.id : c \in {d \in clones : n \in Range(map.fires[d.of])}}
           ours == {m \in Present \cap Managers : Alive(m) /\ n \in Range(map.fires[m])}
<1>1. Firing(n) \in SUBSET Present /\ Present \subseteq Entities
  BY MapFacts DEF Firing
<1>2. p \in Seq(Firing(n)) /\ (\A k, l \in DOMAIN p : p[k] = p[l] => k = l)
  BY <1>1, OrderLists
<1> HIDE DEF p
<1>9. Managing(n) = ours \cup ids
  BY DEF Managing
<1>10. Managing(n) \subseteq Managers \cup Nat /\ IsFiniteSet(Managing(n))
  <2>1. IsFiniteSet(ours)
    BY FS_Subset, MapFacts
  <2>2. ids \subseteq 1..made
    OBVIOUS
  <2> HIDE DEF ours, ids
  <2>5. IsFiniteSet(1..made)
    BY FS_Interval
  <2>3. IsFiniteSet(ids)
    BY <2>2, <2>5, FS_Subset
  <2>4. IsFiniteSet(ours \cup ids)
    BY <2>1, <2>3, FS_Union
  <2>6. ours \subseteq Managers
    BY DEF ours
  <2>7. ids \subseteq Nat
    BY <2>2
  <2> QED BY <1>9, <2>4, <2>6, <2>7
<1>11. q \in Seq(Managing(n)) /\ (\A k, l \in DOMAIN q : q[k] = q[l] => k = l)
  <2>1. Cardinality(Managing(n)) \in Nat
    BY <1>10, FS_CardinalityType
  <2>2. q \in SetToSeqs(Managing(n))
    BY DEF Listings
  <2>3. q \in [1..Cardinality(Managing(n)) -> Managing(n)] /\ \A k, l \in 1..Cardinality(Managing(n)) : k # l => q[k] # q[l]
    BY <2>2 DEF SetToSeqs
  <2> QED BY <2>1, <2>3, SeqDef
<1> HIDE DEF ours, ids
<1>3. /\ \A k \in DOMAIN p : p[k] \notin Managers \cup Nat /\ map.target[p[k]] = n /\ n # NoName
      /\ \A k \in DOMAIN q : q[k] \in Managers \cup Nat
  <2>1. \A e \in Firing(n) : e \notin Managers \cup Nat /\ map.target[e] = n /\ n # NoName
    BY <1>1, Classes DEF Firing
  <2> QED BY <1>2, <1>10, <1>11, <2>1
<1>4. p \in Seq(Entities \cup Nat) /\ q \in Seq(Entities \cup Nat)
  <2>1. Firing(n) \subseteq Entities \cup Nat /\ Managing(n) \subseteq Entities \cup Nat
    BY <1>1, <1>10, Classes
  <2> QED BY <1>2, <1>11, <2>1
<1>5. /\ p \o q \in Seq(Entities \cup Nat)
      /\ \A k \in DOMAIN (p \o q) : \/ k \in DOMAIN p /\ (p \o q)[k] = p[k]
                                    \/ /\ k - Len(p) \in DOMAIN q /\ (p \o q)[k] = q[k - Len(p)]
                                       /\ k = 1 => p = <<>>
  BY <1>4, Concatenated
<1>6. DOMAIN (p \o q) \subseteq Int /\ Len(p) \in Int
  BY <1>4, <1>5
<1>7. \A i, j \in DOMAIN (p \o q) : (p \o q)[i] = (p \o q)[j] => i = j
  <2> SUFFICES ASSUME NEW i \in DOMAIN (p \o q), NEW j \in DOMAIN (p \o q), (p \o q)[i] = (p \o q)[j]
               PROVE  i = j
    OBVIOUS
  <2>1. CASE i \in DOMAIN p /\ (p \o q)[i] = p[i]
    <3>1. (p \o q)[j] \notin Managers \cup Nat
      BY <1>3, <2>1
    <3>2. ~(j - Len(p) \in DOMAIN q /\ (p \o q)[j] = q[j - Len(p)])
      BY <1>3, <3>1
    <3>3. j \in DOMAIN p /\ (p \o q)[j] = p[j]
      BY <1>5, <3>2
    <3> QED BY <1>2, <2>1, <3>3
  <2>2. CASE i - Len(p) \in DOMAIN q /\ (p \o q)[i] = q[i - Len(p)]
    <3>1. j - Len(p) \in DOMAIN q /\ (p \o q)[j] = q[j - Len(p)]
      BY <1>3, <1>5, <2>2
    <3>2. i - Len(p) = j - Len(p)
      BY <1>11, <2>2, <3>1
    <3> QED BY <1>6, <3>2
  <2> QED BY <1>5, <2>1, <2>2
<1>8. \A i \in DOMAIN (p \o q) : (p \o q)[i] \notin Managers \cup Nat => map.target[(p \o q)[i]] = n /\ n # NoName
  <2> SUFFICES ASSUME NEW i \in DOMAIN (p \o q), (p \o q)[i] \notin Managers \cup Nat
               PROVE  map.target[(p \o q)[i]] = n /\ n # NoName
    OBVIOUS
  <2>1. i \in DOMAIN p /\ (p \o q)[i] = p[i]
    BY <1>3, <1>5
  <2> QED BY <1>3, <2>1
<1> QED BY <1>5, <1>7, <1>8 DEF p

LEMMA RegisterLinks ==
  ASSUME MapInv, NEW s \in Sources, Register(s)
  PROVE  stack' \in Seq(Frames) /\ Linked'
<1>10. PICK q \in Listings(Managing(map.name[s])) :
         LET ms == InOrder(Firing(map.name[s])) \o q
         IN  members' = [members EXCEPT ![s] = ms] /\ input' = [input EXCEPT ![s] = [i \in 1..Len(ms) |-> FALSE]]
  BY DEF Register
<1> DEFINE ms == InOrder(Firing(map.name[s])) \o q
<1>1. /\ stack = <<>> /\ stack' = stack /\ think[s] = "register"
      /\ think' = [think EXCEPT ![s] = "none"]
      /\ members' = [members EXCEPT ![s] = ms]
      /\ input' = [input EXCEPT ![s] = [i \in 1..Len(ms) |-> FALSE]]
      /\ UNCHANGED <<state, pos, disturbed, sound, running, left, removed, map>>
  BY <1>10 DEF Register, Idle, rest, sounds, managers
<1>2. /\ map \in Maps /\ DOMAIN input = Sources /\ DOMAIN think = Entities /\ s \in Entities
      /\ members \in [Sources -> Seq(Entities \cup Nat)] /\ MembersKnown
      /\ made \in Nat /\ \A c \in clones : c.id \in 1..made
  BY Classes DEF MapInv, TypeOK, CallTypes, Linked
<1>3. /\ ms \in Seq(Entities \cup Nat)
      /\ \A i, j \in DOMAIN ms : ms[i] = ms[j] => i = j
      /\ \A i \in DOMAIN ms : ms[i] \notin Managers \cup Nat => map.target[ms[i]] = map.name[s] /\ map.name[s] # NoName
  BY <1>2, Registered
<1> HIDE DEF ms
<1>4. /\ 1 \notin DOMAIN stack /\ stack' = <<>> \o Rest /\ (\A f : Absent(f)) /\ <<>> \in Seq(Frames) /\ DOMAIN <<>> = {}
      /\ DOMAIN stack = {}
  BY <1>1, Idle1, NoCalls
<1>5. think'[s] = "none" /\ \A d \in Entities : d # s => think'[d] = think[d]
  BY <1>1, <1>2
<1>6. Step(s, <<>>)
  BY <1>1, <1>4, <1>5 DEF Step
<1>7. members'[s] = ms /\ \A t \in Sources : t # s => members'[t] = members[t] /\ input'[t] = input[t]
  BY <1>1, <1>2
<1>8. MembersKnown'
  <2> SUFFICES ASSUME NEW t \in Sources
               PROVE  /\ think'[t] = "register" => members'[t] = <<>>
                      /\ \A i, j \in DOMAIN members'[t] : members'[t][i] = members'[t][j] => i = j
                      /\ \A i \in DOMAIN members'[t] : members'[t][i] \notin Managers \cup Nat =>
                             map.target[members'[t][i]] = map.name[t] /\ map.name[t] # NoName
    BY <1>1 DEF MembersKnown
  <2>1. CASE t = s
    BY <1>3, <1>5, <1>7, <2>1
  <2>2. CASE t # s
    BY <1>2, <1>5, <1>7, <2>2, Classes DEF MembersKnown
  <2> QED BY <2>1, <2>2
<1>9. ASSUME NEW b \in Buttons, ~Running("moveDone", b)' PROVE InputOK(s, b)'
  <2> SUFFICES ASSUME Wired(s, b)'
               PROVE  /\ Once(UseOf(s, b))'
                      /\ (think[s] = "register")' => (Up(b)' <=> ~Absent(UseOf(s, b))')
                      /\ \A j \in DOMAIN members'[s] : members'[s][j] = b => (input'[s][j] <=> (Up(b)' <=> Absent(UseOf(s, b))'))
    BY <1>9 DEF InputOK, UseOf
  <2>1. Wired(s, b)
    BY <1>1 DEF Wired, Alive, Plain, Has, Present
  <2>2. ~Up(b)
    BY <1>1, <1>4, <2>1 DEF MapInv, Linked, InputOK
  <2>3. ~Up(b)' /\ Absent(UseOf(s, b))' /\ Once(UseOf(s, b))'
    BY <1>1, <1>4, <2>2 DEF Up, Absent, Once
  <2>4. \A j \in DOMAIN members'[s] : input'[s][j] = FALSE
    <3>1. input'[s] = [j \in 1..Len(ms) |-> FALSE] /\ DOMAIN ms = 1..Len(ms)
      BY <1>1, <1>2, <1>3
    <3> QED BY <1>7, <3>1
  <2> QED BY <1>5, <2>3, <2>4
<1> QED BY <1>1, <1>4, <1>6, <1>7, <1>8, <1>9, SourceLinks

-----------------------------------------------------------------------------
(* Types. *)

Uses == (Names \cup {NoName}) \X (Names \cup {NoName})

\* A sequence without one of its elements; what SUB_UseTargets delays.
LEMMA Removing ==
  ASSUME NEW S, NEW q \in Seq(S), NEW i \in DOMAIN q
  PROVE  RemoveAt(q, i) \in Seq(S)
<1>1. i \in 1..Len(q) /\ Len(q) \in Nat /\ DOMAIN q = 1..Len(q)
  OBVIOUS
<1>2. SubSeq(q, 1, i - 1) \in Seq(S)
  <2>1. \A k \in 1..(i - 1) : q[k] \in S
    BY <1>1
  <2> QED BY <1>1, <2>1, SubSeqProperties
<1>3. SubSeq(q, i + 1, Len(q)) \in Seq(S)
  <2>1. \A k \in (i + 1)..Len(q) : q[k] \in S
    BY <1>1
  <2> QED BY <1>1, <2>1, SubSeqProperties
<1> QED BY <1>2, <1>3 DEF RemoveAt

LEMMA DelayingTypes ==
  ASSUME MapInv, NEW e \in Entities
  PROVE  DelayedUses(e) \in Seq(Uses) /\ delayed \in Seq(Uses)
<1>1. delayed \in Seq(Uses) /\ map \in Maps
  BY DEF MapInv, TypeOK, CallTypes, Uses
<1>2. <<map.target[e], map.kill[e]>> \in Uses
  BY <1>1, MapFacts DEF Uses
<1>3. Append(delayed, <<map.target[e], map.kill[e]>>) \in Seq(Uses)
  BY <1>1, <1>2
<1> QED BY <1>1, <1>3 DEF DelayedUses

\* What the calls of FireTargets, Use and the like do to what is not on the stack.
OtherTypes ==
  /\ delayed \in Seq(Uses)
  /\ clones \subseteq Clones /\ \A c \in clones : c.id \in 1..made
  /\ members \in [Sources -> Seq(Entities \cup Nat)]

ThinkOf(e) ==
  (IF e \in Buttons THEN {"none", "moveDone", "return"} ELSE {}) \cup
  (IF e \in Doors THEN {"none", "moveDone", "goDown", "hitBottom"} ELSE {}) \cup
  (IF e \in Sources THEN {"none", "register"} ELSE {}) \cup
  (IF e \in Managers THEN {"none", "managerStart", "managerThink"} ELSE {}) \cup
  (IF e \in Counters \cup Triggers THEN {"none", "waitOver", "remove"} ELSE {})

ThinkOK ==
  /\ DOMAIN think = Entities
  /\ \A e \in Buttons : think[e] \in {"none", "moveDone", "return"}
  /\ \A e \in Doors : think[e] \in {"none", "moveDone", "goDown", "hitBottom"}
  /\ \A e \in Sources : think[e] \in {"none", "register"}
  /\ \A e \in Managers : think[e] \in {"none", "managerStart", "managerThink"}
  /\ \A e \in Counters \cup Triggers : think[e] \in {"none", "waitOver", "remove"}

\* A think function of the entity is set.
LEMMA ThinkSet ==
  ASSUME TypeOK, NEW e \in Entities, NEW t \in ThinkOf(e), think' = [think EXCEPT ![e] = t]
  PROVE  ThinkOK' /\ DOMAIN think' = DOMAIN think
<1>1. ThinkOK
  BY DEF TypeOK, ThinkOK
<1>2. think'[e] = t /\ DOMAIN think' = Entities /\ \A d \in Entities : d # e => think'[d] = think[d]
  BY <1>1 DEF ThinkOK
<1>3. \A d \in Buttons \cup Doors \cup Sources \cup Managers \cup Counters \cup Triggers : d \in Entities
  BY DEF Entities, Movers
<1>4. CASE e \in Buttons
  BY <1>1, <1>2, <1>3, <1>4, ClassesAssumption DEF ThinkOf, ThinkOK
<1>5. CASE e \in Doors
  BY <1>1, <1>2, <1>3, <1>5, ClassesAssumption DEF ThinkOf, ThinkOK
<1>6. CASE e \in Sources
  BY <1>1, <1>2, <1>3, <1>6, ClassesAssumption DEF ThinkOf, ThinkOK
<1>7. CASE e \in Managers
  BY <1>1, <1>2, <1>3, <1>7, ClassesAssumption DEF ThinkOf, ThinkOK
<1>8. CASE e \in Counters \cup Triggers
  BY <1>1, <1>2, <1>3, <1>8, ClassesAssumption DEF ThinkOf, ThinkOK
<1> QED BY <1>4, <1>5, <1>6, <1>7, <1>8 DEF Entities, Movers

\* The types after each group of actions.
LEMMA LinearMoveTypes ==
  ASSUME TypeOK, NEW e \in Movers, NEW dest, NEW st \in {"goingUp", "goingDown"}, LinearMove(e, dest, st)
  PROVE  ThinkOK' /\ state' \in [Movers -> {"bottom", "goingUp", "top", "goingDown"}] /\ pos' = pos
<1>1. /\ state' = [state EXCEPT ![e] = st] /\ pos' = pos
      /\ think' = [think EXCEPT ![e] = IF pos[e] = dest THEN think[e] ELSE "moveDone"]
  BY DEF LinearMove
<1>2. (IF pos[e] = dest THEN think[e] ELSE "moveDone") \in ThinkOf(e) /\ e \in Entities
  BY Classes DEF TypeOK, ThinkOf, Movers
<1>3. ThinkOK'
  BY <1>1, <1>2, ThinkSet
<1> QED BY <1>1, <1>3 DEF TypeOK

LEMMA ButtonTypes ==
  ASSUME MapInv, NEW b \in Buttons,
         (Running("use", b) /\ ButtonUse(b)) \/ Activate(b) \/ ButtonReturn(b) \/ Rearm(b)
           \/ ButtonTouch(b) \/ ButtonShot(b)
  PROVE  TypeOK' /\ OtherTypes'
<1>1. TypeOK /\ OtherTypes /\ b \in Movers /\ b \in Entities /\ b \notin Doors
      /\ b \notin Sources \cup Managers \cup Counters \cup Triggers
  BY Classes DEF MapInv, CallTypes, OtherTypes, Uses, Movers
<1>2. DelayedUses(b) \in Seq(Uses)
  BY <1>1, DelayingTypes
<1> USE DEF TypeOK, OtherTypes
<1>3. CASE ButtonUse(b)
  BY <1>1, <1>3 DEF ButtonUse, moving, sounds, sources, managers, rest
<1>4. CASE Activate(b)
  <2>1. CASE Unlocked(b)
    <3>1. ThinkOK' /\ state' \in [Movers -> {"bottom", "goingUp", "top", "goingDown"}] /\ pos' = pos
      BY <1>1, <1>4, <2>1, LinearMoveTypes DEF Activate, ButtonActivate
    <3> QED BY <1>1, <1>4, <3>1 DEF Activate, ThinkOK, sounds, sources, managers, rest
  <2>2. CASE ~Unlocked(b)
    BY <1>1, <1>4, <2>2 DEF Activate, ButtonActivate, moving, sounds, sources, managers, rest
  <2> QED BY <2>1, <2>2
<1>5. CASE ButtonReturn(b)
  BY <1>1, <1>5 DEF ButtonReturn, LinearMove, moving, sounds, sources, managers, rest
<1>6. CASE Rearm(b)
  BY <1>1, <1>6 DEF Rearm, moving, sounds, sources, managers, rest
<1>7. CASE ButtonTouch(b)
  BY <1>1, <1>2, <1>7, InputsAssumption DEF ButtonTouch, Input, moving, sounds, sources, managers
<1>8. CASE ButtonShot(b)
  BY <1>1, <1>8, InputsAssumption DEF ButtonShot, Input, moving, sounds, sources, managers
<1> QED BY <1>3, <1>4, <1>5, <1>6, <1>7, <1>8

LEMMA DoorTypes ==
  ASSUME MapInv, NEW d \in Doors,
         (Running("use", d) /\ DoorUse(d)) \/ Open(d) \/ Realign(d) \/ Turn(d) \/ DoorTouch(d) \/ Blocked(d) \/ DoorQuiet(d)
  PROVE  TypeOK' /\ OtherTypes'
<1>1. TypeOK /\ OtherTypes /\ d \in Movers /\ d \in Entities /\ d \notin Buttons
      /\ d \notin Sources \cup Managers \cup Counters \cup Triggers
  BY Classes DEF MapInv, CallTypes, OtherTypes, Uses, Movers
<1> USE DEF TypeOK, OtherTypes
<1>2. ASSUME DoorGoUp(d) \/ DoorGoDown(d), UNCHANGED <<sources, managers, left, delayed, removed, touchable, rest>>
      PROVE  TypeOK' /\ OtherTypes'
  <2>1. ThinkOK' /\ state' \in [Movers -> {"bottom", "goingUp", "top", "goingDown"}] /\ pos' = pos
    BY <1>1, <1>2, LinearMoveTypes DEF DoorGoUp, DoorGoDown
  <2>2. sound' \subseteq Doors /\ quiet' \subseteq Doors
    BY <1>1, <1>2 DEF DoorGoUp, DoorGoDown
  <2> QED BY <1>1, <1>2, <2>1, <2>2 DEF ThinkOK, sources, managers, rest
<1>3. CASE DoorUse(d)
  <2>1. CASE CanActivate(d)
    BY <1>2, <1>3, <2>1 DEF DoorUse, DoorActivate
  <2>2. CASE ~CanActivate(d)
    BY <1>1, <1>3, <2>2 DEF DoorUse, moving, sounds, sources, managers, rest
  <2> QED BY <2>1, <2>2
<1>4. CASE Open(d)
  BY <1>2, <1>4 DEF Open, DoorActivate
<1>5. CASE Turn(d)
  BY <1>2, <1>5 DEF Turn
<1>6. CASE DoorTouch(d)
  BY <1>1, <1>6, InputsAssumption DEF DoorTouch, Input, moving, sounds, sources, managers
<1>7. CASE Blocked(d)
  BY <1>1, <1>7, InputsAssumption DEF Blocked, Input, moving, sounds, sources, managers
<1>8. CASE DoorQuiet(d)
  BY <1>1, <1>8 DEF DoorQuiet, sources, managers, rest
<1>9. CASE Realign(d)
  <2>1. UNCHANGED <<state, think, sounds, sources, managers, left, delayed, removed, touchable, rest>>
    BY <1>9 DEF Realign
  <2>2. pos' = pos \/ \E place \in {"low", "between", "high"} : pos' = [pos EXCEPT ![d] = place]
    BY <1>9 DEF Realign
  <2>3. pos' \in [Movers -> {"low", "between", "high"}]
    <3>1. pos \in [Movers -> {"low", "between", "high"}]
      BY <1>1
    <3> HIDE DEF TypeOK, OtherTypes
    <3> QED BY <2>2, <3>1
  <2> QED BY <1>1, <2>1, <2>3 DEF sounds, sources, managers, rest
<1> QED BY <1>3, <1>4, <1>5, <1>6, <1>7, <1>8, <1>9

LEMMA MovementTypes ==
  ASSUME MapInv, NEW e \in Movers, Push(e) \/ Arrive(e) \/ MoveDone(e) \/ WaitOver(e) \/ PlayerUse(e)
  PROVE  TypeOK' /\ OtherTypes'
<1>1. TypeOK /\ OtherTypes /\ e \in Entities /\ (e \in Buttons => e \notin Doors)
      /\ e \notin Sources \cup Managers \cup Counters \cup Triggers
  BY Classes DEF MapInv, CallTypes, OtherTypes, Uses
<1>2. DelayedUses(e) \in Seq(Uses)
  BY <1>1, DelayingTypes
<1> USE DEF TypeOK, OtherTypes
<1>3. CASE Push(e)
  BY <1>1, <1>3 DEF Push, sounds, sources, managers, rest
<1>4. CASE Arrive(e)
  BY <1>1, <1>4 DEF Arrive, sounds, sources, managers, rest
<1>5. CASE WaitOver(e)
  BY <1>1, <1>5 DEF WaitOver, sounds, sources, managers, rest
<1>6. CASE PlayerUse(e)
  BY <1>1, <1>6, InputsAssumption DEF PlayerUse, Input, moving, sounds, sources, managers
<1>7. CASE MoveDone(e) /\ e \in Buttons
  <2>1. UNCHANGED <<pos, sources, managers, left, removed, rest, sounds>>
    BY <1>7 DEF MoveDone
  <2>2. CASE TriggerAndWait(e)
    <3>1. ThinkOK'
      BY <1>1, <1>7, <2>2, ThinkSet DEF TriggerAndWait, ThinkOf
    <3>2. state' \in [Movers -> {"bottom", "goingUp", "top", "goingDown"}] /\ delayed' \in Seq(Uses)
          /\ touchable' \subseteq Movers \cup Triggers
      <4>1. state' = state \/ state' = [state EXCEPT ![e] = "top"]
        BY <2>2 DEF TriggerAndWait
      <4>2. delayed' = delayed \/ delayed' = DelayedUses(e)
        BY <2>2 DEF TriggerAndWait
      <4>3. touchable' \subseteq touchable \cup {e}
        BY <2>2 DEF TriggerAndWait
      <4>4. state \in [Movers -> {"bottom", "goingUp", "top", "goingDown"}] /\ delayed \in Seq(Uses)
            /\ touchable \subseteq Movers \cup Triggers
        BY <1>1
      <4> HIDE DEF TypeOK, OtherTypes
      <4>5. state' \in [Movers -> {"bottom", "goingUp", "top", "goingDown"}]
        BY <4>1, <4>4
      <4>6. delayed' \in Seq(Uses)
        BY <1>2, <4>2, <4>4
      <4> QED BY <4>3, <4>4, <4>5, <4>6
    <3> QED BY <1>1, <1>7, <2>1, <3>1, <3>2 DEF ThinkOK, sounds, sources, managers, rest
  <2>3. CASE ButtonBackHome(e)
    BY <1>1, <1>2, <1>7, <2>1, <2>3 DEF ButtonBackHome, sounds, sources, managers, rest
  <2> QED BY <1>7, <2>2, <2>3 DEF MoveDone
<1>8. CASE MoveDone(e) /\ e \notin Buttons
  <2>1. UNCHANGED <<pos, sources, managers, left, removed, rest>> /\ e \in Doors
    BY <1>8 DEF MoveDone, Movers
  <2>2. CASE DoorHitTop(e)
    BY <1>1, <1>2, <1>8, <2>1, <2>2 DEF DoorHitTop, sources, managers, rest
  <2>3. CASE DoorHitBottom(e)
    BY <1>1, <1>2, <1>8, <2>1, <2>3 DEF DoorHitBottom, sources, managers, rest
  <2> QED BY <1>8, <2>2, <2>3 DEF MoveDone
<1> QED BY <1>3, <1>4, <1>5, <1>6, <1>7, <1>8

LEMMA SourceTypes ==
  ASSUME MapInv, NEW s \in Sources, SourceUse(s, Head(stack).by) \/ Register(s)
  PROVE  TypeOK' /\ OtherTypes'
<1>1. TypeOK /\ OtherTypes /\ s \in Entities /\ s \notin Movers \cup Managers \cup Counters \cup Triggers
  BY Classes DEF MapInv, CallTypes, OtherTypes, Uses, Movers
<1> USE DEF TypeOK, OtherTypes
<1>2. CASE Register(s)
  <2>4. PICK q \in Listings(Managing(map.name[s])) :
          LET ms == InOrder(Firing(map.name[s])) \o q
          IN  members' = [members EXCEPT ![s] = ms] /\ input' = [input EXCEPT ![s] = [i \in 1..Len(ms) |-> FALSE]]
    BY <1>2 DEF Register
  <2> DEFINE ms == InOrder(Firing(map.name[s])) \o q
  <2>1. /\ think' = [think EXCEPT ![s] = "none"]
        /\ members' = [members EXCEPT ![s] = ms]
        /\ input' = [input EXCEPT ![s] = [i \in 1..Len(ms) |-> FALSE]]
        /\ UNCHANGED <<state, pos, disturbed, sounds, managers, left, delayed, removed, touchable, rest>>
    BY <1>2, <2>4 DEF Register
  <2>2. ms \in Seq(Entities \cup Nat) /\ DOMAIN ms = 1..Len(ms)
    <3>1. ms \in Seq(Entities \cup Nat)
      BY <1>1, Registered
    <3> HIDE DEF ms
    <3> QED BY <3>1
  <2> HIDE DEF ms
  <2>3. DOMAIN input' = Sources /\ \A t \in Sources : DOMAIN input'[t] = DOMAIN members'[t]
    BY <1>1, <2>1, <2>2
  <2> QED BY <1>1, <2>1, <2>2, <2>3 DEF sounds, managers, rest
<1>3. CASE SourceUse(s, Head(stack).by)
  <2>1. /\ UNCHANGED <<members, moving, sounds, managers, left, delayed, removed, touchable, rest>>
        /\ disturbed' \subseteq Sources
    <3>1. disturbed' \in {disturbed, disturbed \cup {s}}
      BY <1>3 DEF SourceUse
    <3>2. UNCHANGED <<members, moving, sounds, managers, left, delayed, removed, touchable, rest>>
      BY <1>3 DEF SourceUse
    <3> QED BY <1>1, <3>1, <3>2
  <2>2. PICK toggled : input' = [input EXCEPT ![s] = toggled] /\ DOMAIN toggled = DOMAIN input[s]
    <3> DEFINE n == Len(members[s])
               i == IF Head(stack).by \in Range(members[s]) THEN CHOOSE k \in 1..n : members[s][k] = Head(stack).by ELSE n
               toggled == IF n = 0 THEN input[s] ELSE [input[s] EXCEPT ![i] = ~@]
    <3>1. input' = [input EXCEPT ![s] = toggled]
      BY <1>3 DEF SourceUse
    <3> HIDE DEF i, n
    <3>2. DOMAIN toggled = DOMAIN input[s]
      OBVIOUS
    <3> QED BY <3>1, <3>2
  <2>3. DOMAIN input' = Sources /\ \A t \in Sources : DOMAIN input'[t] = DOMAIN input[t]
    BY <1>1, <2>2
  <2> QED BY <1>1, <2>1, <2>3 DEF moving, sounds, managers, rest
<1> QED BY <1>2, <1>3

LEMMA ManagerTypes ==
  ASSUME MapInv, NEW m \in Managers, ManagerUse(m) \/ ManagerThink(m) \/ Fired(m)
  PROVE  TypeOK' /\ OtherTypes'
<1>1. TypeOK /\ OtherTypes /\ m \in Entities /\ m \notin Movers \cup Sources \cup Counters \cup Triggers
  BY Classes DEF MapInv, CallTypes, OtherTypes, Uses, Movers
<1>2. \A d \in Managers : Len(map.fires[d]) \in Nat
  BY <1>1, MapFacts DEF TypeOK
<1> USE DEF TypeOK, OtherTypes
<1>3. CASE ManagerUse(m)
  <2> DEFINE new == [id |-> made + 1, of |-> m, index |-> 0, first |-> TRUE]
  <2>1. new \in Clones /\ new.id = made + 1
    BY <1>1 DEF Clones
  <2> HIDE DEF new
  <2>3. UNCHANGED <<state, pos, sounds, sources, left, delayed, removed, touchable, rest>>
    BY <1>3 DEF ManagerUse
  <2>4. ThinkOK'
    <3>1. CASE think' = think
      BY <1>1, <3>1 DEF ThinkOK
    <3>2. CASE think' = [think EXCEPT ![m] = "managerStart"]
      BY <1>1, <3>2, ThinkSet DEF ThinkOf
    <3> QED BY <1>3, <3>1, <3>2 DEF ManagerUse
  <2>5. clones' \subseteq Clones /\ (\A c \in clones' : c.id \in 1..made') /\ made' \in Nat /\ running' \subseteq Managers
    <3>1. /\ (clones' = clones /\ made' = made) \/ (clones' = clones \cup {new} /\ made' = made + 1)
          /\ running' = running \/ running' = running \cup {m}
      BY <1>3 DEF ManagerUse, managers, new
    <3>2. clones \subseteq Clones /\ (\A c \in clones : c.id \in 1..made) /\ made \in Nat /\ running \subseteq Managers
      BY <1>1
    <3> HIDE DEF TypeOK, OtherTypes
    <3> QED BY <2>1, <3>1, <3>2
  <2>6. index' \in [Managers -> Nat] /\ \A d \in Managers : index'[d] <= Len(map.fires[d])
    <3>1. index' = index \/ index' = [index EXCEPT ![m] = 0]
      BY <1>3 DEF ManagerUse, managers
    <3>2. \A d \in Managers : 0 <= Len(map.fires[d])
      BY <1>2
    <3>3. index \in [Managers -> Nat] /\ \A d \in Managers : index[d] <= Len(map.fires[d])
      BY <1>1
    <3> HIDE DEF TypeOK, OtherTypes
    <3>4. CASE index' = [index EXCEPT ![m] = 0]
      <4>1. \A d \in Managers : index'[d] = IF d = m THEN 0 ELSE index[d]
        BY <3>3, <3>4
      <4> QED BY <3>2, <3>3, <3>4, <4>1
    <3> QED BY <3>1, <3>3, <3>4
  <2> QED BY <1>1, <2>3, <2>4, <2>5, <2>6 DEF ThinkOK, sounds, sources, rest
<1>4. CASE ManagerThink(m)
  BY <1>1, <1>2, <1>4 DEF ManagerThink, sounds, sources, rest
<1>5. CASE Fired(m)
  <2>1. ThinkOK'
    <3>1. CASE think' = think
      BY <1>1, <3>1 DEF ThinkOK
    <3>2. CASE think' = [think EXCEPT ![m] = "managerThink"]
      BY <1>1, <3>2, ThinkSet DEF ThinkOf
    <3> QED BY <1>5, <3>1, <3>2 DEF Fired
  <2> QED BY <1>1, <1>5, <2>1 DEF Fired, ThinkOK, sounds, sources, rest
<1> QED BY <1>3, <1>4, <1>5

LEMMA CloneTypes ==
  ASSUME MapInv, NEW c \in clones, CloneThink(c)
  PROVE  TypeOK' /\ OtherTypes'
<1>1. TypeOK /\ OtherTypes
  BY DEF MapInv, CallTypes, OtherTypes, Uses
<1>2. c \in Clones /\ c.of \in Managers
  BY <1>1 DEF OtherTypes, Clones
<1>3. Len(map.fires[c.of]) \in Nat
  BY <1>1, <1>2, MapFacts DEF TypeOK
<1>4. PICK n \in 0..Len(map.fires[c.of]) :
        clones' \subseteq clones \cup {[c EXCEPT !.index = n, !.first = FALSE]}
  <2>1. PICK n \in 0..Len(map.fires[c.of]) :
          clones' = (clones \ {c}) \cup (IF n = Len(map.fires[c.of]) THEN {} ELSE {[c EXCEPT !.index = n, !.first = FALSE]})
    BY Zenon DEF CloneThink
  <2> QED BY <2>1
<1> DEFINE r == [c EXCEPT !.index = n, !.first = FALSE]
<1>5. r \in Clones /\ r.id = c.id
  <2>1. c \in [id : Nat, of : Managers, index : Nat, first : BOOLEAN] /\ n \in Nat
    BY <1>2, <1>3 DEF Clones
  <2>2. r \in [id : Nat, of : Managers, index : Nat, first : BOOLEAN] /\ r.id = c.id
    BY <2>1
  <2> QED BY <2>2 DEF Clones
<1> HIDE DEF r
<1>6. made' = made
  BY DEF CloneThink
<1>7. clones' \subseteq Clones /\ \A d \in clones' : d.id \in 1..made'
  BY <1>1, <1>4, <1>5, <1>6 DEF r, OtherTypes
<1> USE DEF TypeOK, OtherTypes
<1> QED BY <1>1, <1>7 DEF CloneThink, moving, sounds, sources, rest

LEMMA TriggerTypes ==
  ASSUME MapInv, NEW t \in Counters \cup Triggers,
         (t \in Counters /\ CounterUse(t)) \/ (t \in Triggers /\ MultiTouch(t)) \/ Triggered(t) \/ TriggerThink(t)
  PROVE  TypeOK' /\ OtherTypes'
<1>1. TypeOK /\ OtherTypes /\ t \in Entities /\ t \notin Movers \cup Sources \cup Managers
  BY Classes DEF MapInv, CallTypes, OtherTypes, Uses, Movers
<1>2. DelayedUses(t) \in Seq(Uses)
  BY <1>1, DelayingTypes
<1> USE DEF TypeOK, OtherTypes
<1>3. CASE t \in Counters /\ CounterUse(t)
  <2>1. left' \in [Counters -> -1..Count]
    BY <1>1, <1>3, CountAssumption DEF CounterUse
  <2>2. UNCHANGED <<moving, sounds, sources, managers, removed, touchable, rest>> /\ delayed' \in Seq(Uses)
    BY <1>1, <1>2, <1>3 DEF CounterUse, ActivateMultiTrigger
  <2> QED BY <1>1, <2>1, <2>2 DEF moving, sounds, sources, managers, rest
<1>4. CASE t \in Triggers /\ MultiTouch(t)
  BY <1>1, <1>2, <1>4, InputsAssumption DEF MultiTouch, ActivateMultiTrigger, Input, moving, sounds, sources, managers
<1>5. CASE Triggered(t)
  <2>1. ThinkOK'
    BY <1>1, <1>5, ThinkSet DEF Triggered, ThinkOf
  <2>2. touchable' \subseteq touchable
    BY <1>5 DEF Triggered
  <2> QED BY <1>1, <1>5, <2>1, <2>2 DEF Triggered, ThinkOK, sounds, sources, managers, rest
<1>6. CASE TriggerThink(t)
  BY <1>1, <1>6 DEF TriggerThink, sounds, sources, managers, rest
<1> QED BY <1>3, <1>4, <1>5, <1>6

LEMMA PassingTypes ==
  ASSUME MapInv, Kill \/ Fire \/ (\E i \in DOMAIN delayed : DelayThink(i))
                   \/ \E e \in Entities : UseRemoved(e) \/ UseTrigger(e)
  PROVE  TypeOK' /\ OtherTypes'
<1>1. TypeOK /\ OtherTypes
  BY DEF MapInv, CallTypes, OtherTypes, Uses
<1>2. \A i \in DOMAIN delayed : RemoveAt(delayed, i) \in Seq(Uses)
  BY <1>1, Removing DEF OtherTypes
<1>3. \A n : Named(n) \subseteq Entities
  BY <1>1, MapFacts, NamedPresent DEF TypeOK
<1> USE DEF TypeOK, OtherTypes
<1>4. CASE Kill
  BY <1>1, <1>3, <1>4 DEF Kill, moving, sounds, sources, rest
<1>5. CASE Fire
  BY <1>1, <1>5 DEF Fire, moving, sounds, sources, managers, rest
<1>6. ASSUME NEW i \in DOMAIN delayed, DelayThink(i) PROVE TypeOK' /\ OtherTypes'
  BY <1>1, <1>2, <1>6 DEF DelayThink, moving, sounds, sources, managers, rest
<1>7. ASSUME NEW e \in Entities, UseRemoved(e) \/ UseTrigger(e) PROVE TypeOK' /\ OtherTypes'
  BY <1>1, <1>7 DEF UseRemoved, UseTrigger, moving, sounds, sources, managers, rest
<1> QED BY <1>4, <1>5, <1>6, <1>7

-----------------------------------------------------------------------------
(* The invariant holds. *)

LEMMA InitInv == Init => MapInv
<1> SUFFICES ASSUME Init PROVE MapInv
  OBVIOUS
<1>1. /\ stack = <<>> /\ DOMAIN stack = {} /\ (\A op, e : ~Running(op, e) /\ ~Pending(op, e)) /\ \A f : Absent(f)
  BY Idle1 DEF Init
<1>2. /\ \A e \in Movers : think[e] = "none"
      /\ \A e \in Sources : think[e] = "register"
      /\ \A e \in Managers \cup Counters \cup Triggers : think[e] = "none"
  BY Classes DEF Init
<1>3. TypeOK
  <2>1. touchable \subseteq Movers \cup Triggers
    BY DEF Init, Movers
  <2>2. left \in [Counters -> -1..Count]
    BY CountAssumption DEF Init
  <2>3. \A m \in Managers : 0 <= Len(map.fires[m])
    BY MapFacts DEF Init
  <2>4. \A e \in Buttons \cup Doors : think[e] = "none"
    BY <1>2 DEF Movers
  <2>5. /\ map \in Maps
        /\ state \in [Movers -> {"bottom", "goingUp", "top", "goingDown"}]
        /\ pos \in [Movers -> {"low", "between", "high"}]
        /\ DOMAIN think = Entities /\ DOMAIN input = Sources
        /\ \A s \in Sources : DOMAIN input[s] = DOMAIN members[s]
        /\ index \in [Managers -> Nat] /\ \A m \in Managers : index[m] = 0
        /\ sound = {} /\ quiet = {} /\ removed = {} /\ running = {} /\ disturbed = {}
        /\ inputs \in 0..MaxInputs /\ made \in Nat
    BY InputsAssumption DEF Init
  <2> QED BY <1>2, <2>1, <2>2, <2>3, <2>4, <2>5 DEF TypeOK
<1>4. CallTypes
  BY DEF Init, CallTypes
<1>5. Shallow /\ MembersKnown
  BY <1>1 DEF Init, Shallow, MembersKnown
<1>6. \A e \in Movers : MoverOK(e)
  BY <1>1, <1>2 DEF Init, MoverOK, Going
<1>7. \A b \in Buttons : ButtonOK(b)
  BY <1>1, <1>2 DEF Init, ButtonOK, Movers
<1>8. \A m \in Managers : FiringOK(m)
  BY DEF Init, FiringOK
<1>9. \A c \in Counters : CountOK(c)
  BY <1>1, <1>2, CountAssumption DEF Init, CountOK
<1>10. \A s \in Sources, b \in Buttons : InputOK(s, b)
  BY <1>1, <1>2 DEF Init, InputOK, Up, Once, Movers
<1> QED BY <1>3, <1>4, <1>5, <1>6, <1>7, <1>8, <1>9, <1>10 DEF MapInv, Linked

LEMMA StepInv == MapInv /\ [Next]_vars => MapInv'
<1> SUFFICES ASSUME MapInv, [Next]_vars PROVE MapInv'
  OBVIOUS
<1>1. ASSUME TypeOK', OtherTypes', stack' \in Seq(Frames), Linked' PROVE MapInv'
  BY <1>1 DEF MapInv, OtherTypes, CallTypes, Uses
<1>2. ASSUME NEW e \in Entities, Use(e) \/ UseRemoved(e) PROVE MapInv'
  <2>1. CASE UseRemoved(e)
    BY <1>1, <2>1, UnusedLinks, PassingTypes
  <2>2. CASE e \in Buttons /\ Running("use", e) /\ ButtonUse(e)
    BY <1>1, <2>2, ButtonUseLinks, ButtonTypes
  <2>3. CASE e \in Doors /\ Running("use", e) /\ DoorUse(e)
    BY <1>1, <2>3, DoorUseLinks, DoorTypes
  <2>4. CASE e \in Sources /\ Running("use", e) /\ SourceUse(e, Head(stack).by)
    BY <1>1, <2>4, SourceUseLinks, SourceTypes
  <2>5. CASE e \in Managers /\ Running("use", e) /\ ManagerUse(e)
    BY <1>1, <2>5, ManagerUseLinks, ManagerTypes
  <2>6. CASE e \in Counters /\ Running("use", e) /\ CounterUse(e)
    BY <1>1, <2>6, CounterUseLinks, TriggerTypes
  <2>7. CASE e \in Triggers /\ Running("use", e) /\ UseTrigger(e)
    BY <1>1, <2>7, UnusedLinks, PassingTypes
  <2> QED BY <1>2, <2>1, <2>2, <2>3, <2>4, <2>5, <2>6, <2>7 DEF Use
<1>3. ASSUME NEW b \in Buttons, Activate(b) \/ ButtonReturn(b) \/ Rearm(b) \/ ButtonTouch(b) \/ ButtonShot(b) PROVE MapInv'
  BY <1>1, <1>3, ActivateLinks, ButtonReturnLinks, RearmLinks, ButtonTouchLinks, ButtonShotLinks, ButtonTypes
<1>4. ASSUME NEW d \in Doors, Open(d) \/ Realign(d) \/ Turn(d) \/ DoorTouch(d) \/ Blocked(d) \/ DoorQuiet(d) PROVE MapInv'
  BY <1>1, <1>4, OpenLinks, RealignLinks, TurnLinks, DoorTouchLinks, BlockedLinks, DoorQuietLinks, DoorTypes
<1>5. ASSUME NEW e \in Movers, Push(e) \/ Arrive(e) \/ MoveDone(e) \/ WaitOver(e) \/ PlayerUse(e) PROVE MapInv'
  BY <1>1, <1>5, PushLinks, ArriveLinks, MoveDoneLinks, WaitOverLinks, PlayerUseLinks, MovementTypes
<1>6. ASSUME NEW s \in Sources, Register(s) PROVE MapInv'
  BY <1>1, <1>6, RegisterLinks, SourceTypes
<1>7. ASSUME NEW m \in Managers, ManagerThink(m) \/ Fired(m) PROVE MapInv'
  BY <1>1, <1>7, ManagerThinkLinks, FiredLinks, ManagerTypes
<1>8. ASSUME NEW c \in clones, CloneThink(c) PROVE MapInv'
  BY <1>1, <1>8, CloneThinkLinks, CloneTypes
<1>9. ASSUME NEW t \in Counters \cup Triggers, Triggered(t) \/ TriggerThink(t) PROVE MapInv'
  BY <1>1, <1>9, TriggeredLinks, TriggerThinkLinks, TriggerTypes
<1>10. ASSUME NEW t \in Triggers, MultiTouch(t) PROVE MapInv'
  BY <1>1, <1>10, MultiTouchLinks, TriggerTypes
<1>11. ASSUME Kill \/ Fire PROVE MapInv'
  BY <1>1, <1>11, KillLinks, FireLinks, PassingTypes
<1>12. ASSUME NEW i \in DOMAIN delayed, DelayThink(i) PROVE MapInv'
  BY <1>1, <1>12, DelayThinkLinks, PassingTypes
<1>13. CASE Call
  BY <1>2, <1>3, <1>4, <1>5, <1>7, <1>9, <1>11, <1>13 DEF Call
<1>14. CASE Think
  BY <1>4, <1>5, <1>6, <1>7, <1>8, <1>9, <1>12, <1>14 DEF Think, MoverThink
<1>15. CASE Players
  BY <1>3, <1>4, <1>5, <1>10, <1>15 DEF Players
<1>16. CASE UNCHANGED vars
  <2>1. TypeOK' /\ CallTypes'
    BY <1>16 DEF vars, MapInv, TypeOK, CallTypes
  <2>2. Shallow' /\ MembersKnown'
    BY <1>16 DEF vars, MapInv, Linked, Shallow, MembersKnown
  <2>3. /\ \A e \in Movers : MoverOK(e)'
        /\ \A b \in Buttons : ButtonOK(b)'
    BY <1>16 DEF vars, MapInv, Linked, MoverOK, ButtonOK, Going, Returning, Running, Has, Alive, Present
  <2>4. /\ \A m \in Managers : FiringOK(m)'
        /\ \A c \in Counters : CountOK(c)'
    BY <1>16 DEF vars, MapInv, Linked, FiringOK, CountOK, Pending
  <2>5. \A s \in Sources, b \in Buttons : InputOK(s, b)'
    BY <1>16 DEF vars, MapInv, Linked, InputOK, Wired, Running, Absent, Once, UseOf, Up, Plain, Has, Alive, Present
  <2> QED BY <2>1, <2>2, <2>3, <2>4, <2>5 DEF MapInv, Linked
<1> QED BY <1>13, <1>14, <1>15, <1>16 DEF Next

LEMMA Invariance == Spec => []MapInv
<1>1. Init => MapInv
  BY InitInv
<1>2. MapInv /\ [Next]_vars => MapInv'
  BY StepInv
<1> QED BY <1>1, <1>2, PTL DEF Spec

\* The variables hold what the code's members hold, whatever the map.
THEOREM TypeCorrect == Spec => []TypeOK
<1>1. MapInv => TypeOK
  BY DEF MapInv
<1> QED BY <1>1, Invariance, PTL

\* Between two calls of the engine no mover, sound, manager or counter waits for a think that is not set
\* (LinearMove, the move-done functions, ManagerThink, CounterUse), but for what a master locked in the meantime.
THEOREM NothingEverStranded == Spec => []NothingStranded
<1>1. MapInv => NothingStranded
  <2> SUFFICES ASSUME MapInv, stack = <<>> PROVE NothingStranded
    BY DEF NothingStranded
  <2>1. \A op, e : ~Running(op, e) /\ ~Pending(op, e)
    BY Idle1
  <2>2. \A e \in Movers :
         /\ state[e] \in {"goingUp", "goingDown"} =>
              think[e] = "moveDone" \/ (e \in Buttons /\ map.master[e] # NoName /\ state[e] = "goingUp" /\ pos[e] = "high")
         /\ (state[e] = "top" /\ ~Has(e, "stay") /\ ~Has(e, "toggle") /\ ~Has(e, "noReturn")) => think[e] \in {"return", "goDown"}
    BY <2>1 DEF MapInv, Linked, MoverOK, Going, Returning
  <2>3. \A d \in sound : think[d] \in {"moveDone", "hitBottom"}
    BY <2>1 DEF MapInv, Linked, MoverOK, TypeOK, Movers
  <2>4. \A m \in running : think[m] \in {"managerStart", "managerThink"}
    BY <2>1 DEF MapInv, Linked, FiringOK, TypeOK
  <2>5. \A c \in Counters : left[c] <= 0 => think[c] = "remove" \/ c \in removed \/ map.master[c] # NoName
    BY <2>1 DEF MapInv, Linked, CountOK
  <2> QED BY <2>2, <2>3, <2>4, <2>5 DEF NothingStranded
<1> QED BY <1>1, Invariance, PTL

\* A multisource knows which of its buttons are pushed (CMultiSource::Register and Use, ButtonBackHome).
THEOREM SourcesKnow == Spec => []InputsMatch
<1>1. MapInv => InputsMatch
  <2> SUFFICES ASSUME MapInv, stack = <<>>, NEW s \in Sources \ disturbed, NEW i \in DOMAIN members[s],
                      members[s][i] \in Buttons, Alive(members[s][i]), Alive(s),
                      ~Has(members[s][i], "toggle"), ~Has(members[s][i], "delay")
               PROVE  input[s][i] <=> state[members[s][i]] \in {"top", "goingDown"}
    BY DEF InputsMatch
  <2> DEFINE b == members[s][i]
  <2>1. Absent(UseOf(s, b))
    BY Idle1
  <2>2. b \notin Managers \cup Nat
    BY ClassesAssumption, Classes
  <2>3. Wired(s, b)
    BY <2>2 DEF MapInv, Linked, MembersKnown, Wired, Plain
  <2>4. input[s][i] <=> Up(b)
    BY <2>1, <2>3 DEF MapInv, Linked, InputOK
  <2> QED BY <2>4 DEF Up
<1> QED BY <1>1, Invariance, PTL
=============================================================================
