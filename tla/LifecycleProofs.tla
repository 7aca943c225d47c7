--------------------------- MODULE LifecycleProofs ---------------------------
(***************************************************************************)
(* Proofs about the process: its state is well typed, certificate and key  *)
(* belong together, and an edit of the configuration takes effect.         *)
(***************************************************************************)
EXTENDS Lifecycle, FiniteSetTheorems, TLAPS

\* A goroutine has a certificate from obtaining it until it is saved.
IdFits(r) ==
  /\ r.at \in {"writeCrt", "writeKey"} => r.id \in Ids
  /\ r.at \notin {"writeCrt", "writeKey", "load"} => r.id = None
IdInv == \A w \in Workers : pass[w] # None => IdFits(pass[w])

Saving == {w \in Workers : At(w, "writeKey")}

\* As long as no savings overlapped and none was cut short, at most one
\* goroutine has written its certificate and not yet its key.
PairInv ==
  ~overlapped /\ ~cut =>
    /\ Saving = {} => crt = key
    /\ \A w \in Saving : Saving = {w} /\ pass[w].id = crt

\* An edit that is not in force has its event pending, or it was discarded.
ConfigInv == phase # "down" /\ ~event => email = edited \/ skipped

LifeInv == TypeOK /\ IdInv /\ PairInv /\ ConfigInv
-----------------------------------------------------------------------------
LEMMA InitLife == ASSUME Init PROVE LifeInv
<1>1. TypeOK
  <2>1. accKey \in [Emails -> File] /\ account \in [Emails -> File]
    BY DEF Init, File
  <2>2. pass \in [Workers -> Pass \cup {None}]
    BY DEF Init
  <2>3. left \in 0..Life /\ missed \in 0..Margin /\ faults \in 0..MaxFaults /\ crashes \in 0..MaxCrashes
        /\ edits \in 0..MaxEdits
    BY LifecycleAssumption DEF Init
  <2> QED BY <2>1, <2>2, <2>3 DEF Init, TypeOK
<1>2. IdInv /\ PairInv /\ ConfigInv
  BY DEF Init, IdInv, PairInv, ConfigInv, Saving, At
<1> QED BY <1>1, <1>2 DEF LifeInv

LEMMA AddOne ==
  ASSUME NEW S, IsFiniteSet(S), NEW x
  PROVE  IsFiniteSet(S \cup {x}) /\ Cardinality(S \cup {x}) <= Cardinality(S) + 1
<1>1. Cardinality(S) \in Nat
  BY FS_CardinalityType
<1>2. /\ IsFiniteSet(S \cup {x})
      /\ Cardinality(S \cup {x}) = IF x \in S THEN Cardinality(S) ELSE Cardinality(S) + 1
  BY FS_AddElement
<1> QED BY <1>1, <1>2

\* There is a number that neither file nor any other goroutine has.
LEMMA NumberLeft ==
  ASSUME LifeInv, NEW w \in Workers, At(w, "obtain")
  PROVE  \E i \in Ids :
           i \notin {crt, key} \cup {pass[v].id : v \in {x \in Workers : ~Idle(x)}}
<1> DEFINE V == Workers \ {w}
           R == {pass[v].id : v \in V}
           f == [v \in V |-> pass[v].id]
<1>1. IsFiniteSet(Workers) /\ Cardinality(Workers) \in Nat
  <2>1. IsFiniteSet({"new", "old"})
    <3>1. IsFiniteSet({"new"} \cup {"old"})
      BY AddOne, FS_Singleton
    <3>2. {"new"} \cup {"old"} = {"new", "old"}
      OBVIOUS
    <3> QED BY <3>1, <3>2
  <2> QED BY <2>1, LifecycleAssumption, FS_Product, FS_CardinalityType DEF Workers
<1>2. IsFiniteSet(V) /\ Cardinality(V) = Cardinality(Workers) - 1
  BY <1>1, FS_RemoveElement
<1>3. IsFiniteSet(R) /\ Cardinality(R) <= Cardinality(V)
  <2>1. f \in Surjection(V, R)
    BY DEF Surjection
  <2> QED BY <1>2, <2>1, FS_Surjection
<1>4. /\ IsFiniteSet(R \cup {crt} \cup {key})
      /\ Cardinality(R \cup {crt} \cup {key}) <= Cardinality(Workers) + 1
  <2> HIDE DEF R
  <2>1. /\ IsFiniteSet(R \cup {crt}) /\ Cardinality(R \cup {crt}) <= Cardinality(R) + 1
    BY <1>3, AddOne
  <2>2. /\ IsFiniteSet(R \cup {crt} \cup {key})
        /\ Cardinality(R \cup {crt} \cup {key}) <= Cardinality(R \cup {crt}) + 1
    BY <2>1, AddOne
  <2>3. /\ Cardinality(R) \in Nat /\ Cardinality(R \cup {crt}) \in Nat
        /\ Cardinality(R \cup {crt} \cup {key}) \in Nat /\ Cardinality(V) \in Nat
    BY <1>2, <1>3, <2>1, <2>2, FS_CardinalityType
  <2> QED BY <1>1, <1>2, <1>3, <2>1, <2>2, <2>3
<1>5. IsFiniteSet(Ids) /\ Cardinality(Ids) = Cardinality(Workers) + 2
  BY <1>1, FS_Interval DEF Ids
<1>6. ~(Ids \subseteq R \cup {crt} \cup {key})
  BY <1>1, <1>4, <1>5, FS_Subset, FS_CardinalityType
<1>7. pass[w].id = None /\ None \notin Ids
  BY <1>1, LifecycleAssumption DEF LifeInv, IdInv, IdFits, At, Ids
<1> QED BY <1>6, <1>7
-----------------------------------------------------------------------------
(* Steps of the process.                                                   *)

LEMMA CalmLife ==
  ASSUME LifeInv, Boot \/ Edit \/ Discard \/ Calm \/ Started \/ Tick
  PROVE  LifeInv'
<1>1. UNCHANGED <<pass, crt, key, accounts, overlapped, cut>>
  BY DEF Boot, Edit, Discard, Calm, Started, Tick, CertOnly, process, pair
<1>2. IdInv' /\ PairInv'
  BY <1>1 DEF LifeInv, IdInv, IdFits, Ids, PairInv, Saving, At
<1>3. TypeOK'
  <2>1. CASE Boot
    BY <1>1, <2>1 DEF LifeInv, TypeOK, Boot, CertOnly, pair, accounts, budgets
  <2>2. CASE Edit
    BY <1>1, <2>2, LifecycleAssumption
    DEF LifeInv, TypeOK, Edit, CertOnly, pair, accounts, process
  <2>3. CASE Discard
    BY <1>1, <2>3 DEF LifeInv, TypeOK, Discard, CertOnly, pair, accounts, process, budgets
  <2>4. CASE Calm
    BY <1>1, <2>4 DEF LifeInv, TypeOK, Calm, CertOnly, pair, accounts, process, budgets
  <2>5. CASE Started
    BY <1>1, <2>5 DEF LifeInv, TypeOK, Started, CertOnly, pair, accounts, budgets
  <2>6. CASE Tick
    <3>1. left' \in 0..Life /\ missed' \in 0..Margin
      BY <2>6, LifecycleAssumption DEF LifeInv, TypeOK, Tick
    <3> QED BY <1>1, <2>6, <3>1 DEF LifeInv, TypeOK, Tick, config, accounts, budgets
  <2> QED BY <2>1, <2>2, <2>3, <2>4, <2>5, <2>6
<1>4. ConfigInv'
  BY DEF LifeInv, TypeOK, ConfigInv, Boot, Edit, Discard, Calm, Started, Tick, process, config
<1> QED BY <1>2, <1>3, <1>4 DEF LifeInv

\* Whoever has not written its key yet takes its goroutine along: if nobody was
\* writing, the pair is what it was.
LEMMA EndLife ==
  ASSUME LifeInv, End, crashes' \in 0..MaxCrashes, faults' \in 0..MaxFaults
  PROVE  LifeInv'
<1>1. /\ pass' = [w \in Workers |-> None] /\ phase' = "down"
      /\ UNCHANGED <<edited, email, event, recent, skipped, left, missed, accKey, edits, overlapped>>
      /\ crt' \in {crt, Torn} /\ key' \in {key, Torn} /\ todo' = {} /\ done' = {} /\ failed' = {}
  BY DEF End, config
<1>2. account' \in [Emails -> File]
  BY DEF LifeInv, TypeOK, End, File
<1>3. cut' \in BOOLEAN
  BY DEF LifeInv, TypeOK, End
<1>4. TypeOK'
  BY <1>1, <1>2, <1>3 DEF LifeInv, TypeOK
<1>5. IdInv' /\ ConfigInv'
  BY <1>1 DEF IdInv, ConfigInv
<1>6. PairInv'
  <2> SUFFICES ASSUME ~overlapped', ~cut' PROVE crt' = key'
    BY <1>1 DEF PairInv, Saving, At
  <2>1. ~overlapped /\ ~cut /\ crt' = crt /\ key' = key /\ Saving = {}
    BY DEF End, Saving
  <2> QED BY <2>1 DEF LifeInv, PairInv
<1> QED BY <1>4, <1>5, <1>6 DEF LifeInv

\* A pass keeps its place among the goroutines of its node.
LEMMA ReloadLife == ASSUME LifeInv, Reload PROVE LifeInv'
<1>1. /\ UNCHANGED <<edited, recent, crt, key, left, missed, accKey, account, overlapped, cut, budgets>>
      /\ phase' = "start" /\ todo' = Nodes /\ done' = {} /\ failed' = {} /\ email' = edited
      /\ event' = FALSE /\ skipped' = FALSE
  BY DEF Reload, CertOnly, pair, accounts, Unmarshal
<1>2. /\ pass' \in [Workers -> Pass \cup {None}]
      /\ \A n \in Nodes :
           /\ pass'[<<n, "new">>] = None
           /\ pass'[<<n, "old">>] = pass[<<n, "old">>] \/ pass[<<n, "old">>] = None
           /\ pass[<<n, "old">>] = None => pass'[<<n, "old">>] = pass[<<n, "new">>]
           /\ pass[<<n, "old">>] # None => pass[<<n, "new">>] = None
  BY DEF LifeInv, TypeOK, Reload, Idle, Workers
<1>3. TypeOK'
  BY <1>1, <1>2 DEF LifeInv, TypeOK, budgets
<1>4. \A w \in Workers : w = <<w[1], w[2]>> /\ w[1] \in Nodes /\ w[2] \in {"new", "old"}
  BY DEF Workers
<1>5. \A w \in Workers : pass'[w] # None =>
        \E v \in Workers : /\ v = <<w[1], "old">> \/ v = <<w[1], "new">>
                           /\ w = <<w[1], "old">> /\ pass[v] = pass'[w]
  <2> SUFFICES ASSUME NEW w \in Workers, pass'[w] # None
               PROVE  \E v \in Workers : /\ v = <<w[1], "old">> \/ v = <<w[1], "new">>
                                         /\ w = <<w[1], "old">> /\ pass[v] = pass'[w]
    OBVIOUS
  <2>1. PICK n \in Nodes : w = <<n, "old">> \/ w = <<n, "new">>
    BY <1>4
  <2>2. w = <<n, "old">>
    BY <1>2, <2>1
  <2>3. w[1] = n
    BY <2>2
  <2>4. <<n, "old">> \in Workers /\ <<n, "new">> \in Workers
    BY DEF Workers
  <2>5. pass'[w] = pass[<<n, "old">>] \/ pass'[w] = pass[<<n, "new">>]
    BY <1>2, <2>2
  <2> QED BY <2>2, <2>3, <2>4, <2>5
<1>6. IdInv'
  BY <1>5 DEF LifeInv, IdInv, IdFits, Ids
<1>7. ConfigInv'
  BY <1>1 DEF ConfigInv
<1>8. PairInv'
  <2> SUFFICES ASSUME ~overlapped, ~cut
               PROVE  /\ Saving' = {} => crt = key
                      /\ \A w \in Saving' : Saving' = {w} /\ pass'[w].id = crt
    BY <1>1 DEF PairInv
  <2>1. ASSUME NEW w \in Saving PROVE <<w[1], "old">> \in Saving'
    <3>1. w \in Workers /\ pass[w] # None /\ pass[w].at = "writeKey"
      BY DEF Saving, At
    <3>2. PICK n \in Nodes : w = <<n, "old">> \/ w = <<n, "new">>
      BY <1>4, <3>1
    <3>3. w[1] = n
      BY <3>2
    <3>4. <<n, "old">> \in Workers
      BY DEF Workers
    <3>5. pass'[<<n, "old">>] = pass[w]
      BY <1>2, <3>1, <3>2
    <3> QED BY <3>1, <3>3, <3>4, <3>5 DEF Saving, At
  <2>2. ASSUME NEW w \in Saving'
        PROVE  \E v \in Saving : w = <<v[1], "old">> /\ pass[v] = pass'[w]
    <3>1. w \in Workers /\ pass'[w] # None /\ pass'[w].at = "writeKey"
      BY DEF Saving, At
    <3>2. PICK v \in Workers : /\ v = <<w[1], "old">> \/ v = <<w[1], "new">>
                               /\ w = <<w[1], "old">> /\ pass[v] = pass'[w]
      BY <1>5, <3>1
    <3>3. v[1] = w[1] /\ v \in Saving
      BY <3>1, <3>2 DEF Saving, At
    <3> QED BY <3>2, <3>3
  <2>3. Saving' = {} => Saving = {}
    BY <2>1
  <2>4. ASSUME NEW w \in Saving' PROVE Saving' = {w} /\ pass'[w].id = crt
    <3>1. PICK v \in Saving : w = <<v[1], "old">> /\ pass[v] = pass'[w]
      BY <2>2
    <3>2. Saving = {v} /\ pass[v].id = crt
      BY DEF LifeInv, PairInv
    <3>3. \A u \in Saving' : u = w
      BY <2>2, <3>1, <3>2
    <3> QED BY <3>1, <3>2, <3>3
  <2> QED BY <2>3, <2>4 DEF LifeInv, PairInv
<1> QED BY <1>3, <1>6, <1>7, <1>8 DEF LifeInv
-----------------------------------------------------------------------------
(* Steps of a goroutine.                                                   *)

\* A goroutine that neither begins nor ends the writing of a key leaves the
\* agreement of certificate and key alone.
LEMMA MoveLife ==
  ASSUME LifeInv, NEW w \in Workers, NEW r \in Pass \cup {None},
         pass' = [pass EXCEPT ![w] = r], ~At(w, "writeKey"),
         r # None => IdFits(r) /\ r.at # "writeKey",
         UNCHANGED <<crt, key, overlapped, cut>>
  PROVE  /\ pass' \in [Workers -> Pass \cup {None}]
         /\ IdInv' /\ PairInv'
<1>1. /\ pass' \in [Workers -> Pass \cup {None}] /\ pass'[w] = r
      /\ \A v \in Workers \ {w} : pass'[v] = pass[v]
  BY DEF LifeInv, TypeOK
<1>2. IdInv'
  <2> SUFFICES ASSUME NEW v \in Workers, pass'[v] # None PROVE IdFits(pass'[v])
    BY DEF IdInv, IdFits, Ids
  <2> QED BY <1>1 DEF LifeInv, IdInv
<1>3. Saving' = Saving
  BY <1>1 DEF Saving, At
<1>4. \A v \in Saving : pass'[v] = pass[v]
  BY <1>1 DEF Saving, At
<1> QED BY <1>1, <1>2, <1>3, <1>4 DEF LifeInv, PairInv

\* What the goroutine of a node goes on with once it has got somewhere else.
LEMMA GotoLife ==
  ASSUME LifeInv, NEW w \in Workers, NEW l \in Steps, pass[w] # None,
         pass[w].at \notin {"writeCrt", "writeKey", "load"},
         l \notin {"writeCrt", "writeKey"}, Goto(w, l),
         UNCHANGED <<crt, key, overlapped, cut>>
  PROVE  /\ pass' \in [Workers -> Pass \cup {None}]
         /\ IdInv' /\ PairInv'
<1> DEFINE r == [pass[w] EXCEPT !.at = l]
<1>1. pass[w] \in Pass /\ IdFits(pass[w])
  BY DEF LifeInv, TypeOK, IdInv
<1>2. r \in Pass /\ r.at = l /\ r.id = pass[w].id
  BY <1>1 DEF Pass
<1>3. pass' = [pass EXCEPT ![w] = r]
  BY DEF Goto
<1>4. IdFits(r) /\ r.at # "writeKey" /\ ~At(w, "writeKey")
  BY <1>1, <1>2 DEF IdFits, At
<1> QED
  <2> HIDE DEF r
  <2> QED BY <1>2, <1>3, <1>4, MoveLife

\* The same for one that comes to its end.
LEMMA DoneLife ==
  ASSUME LifeInv, NEW w \in Workers, ~At(w, "writeKey"), Done(w),
         UNCHANGED <<crt, key, overlapped, cut>>
  PROVE  /\ pass' \in [Workers -> Pass \cup {None}]
         /\ IdInv' /\ PairInv'
BY MoveLife DEF Done

LEMMA BeginLife ==
  ASSUME LifeInv, NEW n \in Nodes, StartNode(n) \/ StartMonitor(n)
  PROVE  LifeInv'
<1> DEFINE w == <<n, "new">>
           R == [starts : BOOLEAN, at : {"account", "load"}, email : {email}, id : {None}]
<1>1. w \in Workers /\ Idle(w)
  BY DEF StartNode, StartMonitor, Workers
<1>2. UNCHANGED <<crt, key, left, missed, accKey, account, overlapped, cut, faults, crashes, edits>>
  BY DEF StartNode, StartMonitor, CertOnly, budgets, pair, accounts
<1>3. PICK r \in R : pass' = [pass EXCEPT ![w] = r]
  BY DEF StartNode, StartMonitor, Begin
<1>4. r \in Pass /\ IdFits(r) /\ r.at # "writeKey"
  BY DEF LifeInv, TypeOK, Pass, Steps, IdFits
<1>5. pass' \in [Workers -> Pass \cup {None}] /\ IdInv' /\ PairInv'
  <2> HIDE DEF w
  <2> QED BY <1>1, <1>2, <1>3, <1>4, MoveLife DEF At, Idle
<1>6. /\ UNCHANGED <<phase, todo, failed, edited, email, event, recent, skipped>>
      /\ done' \subseteq Nodes
  BY DEF LifeInv, TypeOK, StartNode, StartMonitor, config, process
<1>7. TypeOK' /\ ConfigInv'
  BY <1>2, <1>5, <1>6 DEF LifeInv, TypeOK, ConfigInv
<1> QED BY <1>5, <1>7 DEF LifeInv

\* After an error the process ends, or only the pass.
LEMMA FailLife ==
  ASSUME LifeInv, NEW w \in Workers, pass[w] # None, ~At(w, "writeKey"), Fail(w),
         faults' \in 0..MaxFaults
  PROVE  LifeInv'
<1>1. CASE pass[w].starts
  BY <1>1, EndLife DEF Fail, LifeInv, TypeOK
<1>2. CASE ~pass[w].starts
  <2>1. /\ UNCHANGED <<config, phase, todo, done, pair, accounts, crashes, edits, overlapped, cut>>
        /\ Done(w)
    BY <1>2 DEF Fail
  <2>0. failed' \subseteq Nodes
    BY <1>2 DEF Fail, LifeInv, TypeOK, Workers
  <2>2. pass' \in [Workers -> Pass \cup {None}] /\ IdInv' /\ PairInv'
    BY <2>1, DoneLife DEF pair
  <2>3. TypeOK' /\ ConfigInv'
    BY <2>0, <2>1, <2>2 DEF LifeInv, TypeOK, ConfigInv, config, pair, accounts
  <2> QED BY <2>2, <2>3 DEF LifeInv
<1> QED BY <1>1, <1>2

LEMMA WorkOnlyLife ==
  ASSUME LifeInv, WorkOnly, pass' \in [Workers -> Pass \cup {None}],
         faults' = faults, overlapped' \in BOOLEAN,
         crt' \in Ids \cup {None, Torn}, key' \in Ids \cup {None, Torn}, left' \in 0..Life,
         missed' \in 0..Margin,
         accKey' \in [Emails -> File], account' \in [Emails -> File]
  PROVE  TypeOK' /\ ConfigInv'
BY DEF LifeInv, TypeOK, ConfigInv, WorkOnly, config, process

\* The account's files.
LEMMA AccountLife ==
  ASSUME LifeInv, NEW w \in Workers, MakeKey(w) \/ Encode(w) \/ Register(w) \/ Save(w)
  PROVE  LifeInv'
<1>1. PICK l \in Steps : l \notin {"writeCrt", "writeKey"} /\ Goto(w, l)
  BY DEF MakeKey, Encode, Register, Save, Steps
<1>2. /\ pass[w] # None /\ pass[w].at \notin {"writeCrt", "writeKey", "load"}
      /\ UNCHANGED <<crt, key, left, missed, faults, overlapped, cut>> /\ WorkOnly
  BY DEF MakeKey, Encode, Register, Save, At, pair, WorkOnly
<1>3. pass' \in [Workers -> Pass \cup {None}] /\ IdInv' /\ PairInv'
  BY <1>1, <1>2, GotoLife
<1>4. accKey' \in [Emails -> File] /\ account' \in [Emails -> File]
  BY DEF LifeInv, TypeOK, MakeKey, Encode, Register, Save, accounts, File
<1>5. TypeOK' /\ ConfigInv'
  BY <1>2, <1>3, <1>4, WorkOnlyLife DEF LifeInv, TypeOK
<1> QED BY <1>3, <1>5 DEF LifeInv

LEMMA LoadAccountLife ==
  ASSUME LifeInv, NEW w \in Workers, LoadAccount(w)
  PROVE  LifeInv'
<1>1. pass[w] # None /\ pass[w].at = "account" /\ faults' = faults
  BY DEF LoadAccount, At
<1>2. CASE Fail(w)
  BY <1>1, <1>2, FailLife DEF At, LifeInv, TypeOK
<1>3. CASE ~Fail(w)
  <2>1. /\ UNCHANGED <<crt, key, left, missed, accKey, account, overlapped, cut>> /\ WorkOnly
        /\ \E l \in {"register", "obtain", "check"} : Goto(w, l)
    BY <1>3 DEF LoadAccount, pair, accounts, WorkOnly
  <2>2. pass' \in [Workers -> Pass \cup {None}] /\ IdInv' /\ PairInv'
    BY <1>1, <2>1, GotoLife DEF Steps
  <2>3. TypeOK' /\ ConfigInv'
    BY <1>1, <2>1, <2>2, WorkOnlyLife DEF LifeInv, TypeOK
  <2> QED BY <2>2, <2>3 DEF LifeInv
<1> QED BY <1>2, <1>3

\* The CA.
LEMMA RefuseLife ==
  ASSUME LifeInv, NEW w \in Workers, Refuse(w)
  PROVE  LifeInv'
<1>1. pass[w] # None /\ ~At(w, "writeKey") /\ Fail(w)
  BY DEF Refuse, At
<1>2. faults' \in 0..MaxFaults
  BY LifecycleAssumption DEF LifeInv, TypeOK, Refuse
<1> QED BY <1>1, <1>2, FailLife

LEMMA CheckLife ==
  ASSUME LifeInv, NEW w \in Workers, Check(w)
  PROVE  LifeInv'
<1>1. /\ UNCHANGED <<crt, key, left, missed, accKey, account, faults, overlapped, cut>> /\ WorkOnly
      /\ pass[w] # None /\ pass[w].at = "check"
      /\ Goto(w, "obtain") \/ Done(w)
  BY DEF Check, At, pair, accounts, WorkOnly
<1>2. pass' \in [Workers -> Pass \cup {None}] /\ IdInv' /\ PairInv'
  BY <1>1, GotoLife, DoneLife DEF Steps, At
<1>3. TypeOK' /\ ConfigInv'
  BY <1>1, <1>2, WorkOnlyLife DEF LifeInv, TypeOK
<1> QED BY <1>2, <1>3 DEF LifeInv

LEMMA ObtainLife ==
  ASSUME LifeInv, NEW w \in Workers, Obtain(w)
  PROVE  LifeInv'
<1> DEFINE unused == Ids \ ({crt, key} \cup {pass[v].id : v \in {x \in Workers : ~Idle(x)}})
           i == CHOOSE j \in unused : TRUE
           r == [pass[w] EXCEPT !.at = "writeCrt", !.id = i]
<1>1. /\ UNCHANGED <<crt, key, left, missed, accKey, account, faults, overlapped, cut>> /\ WorkOnly
      /\ At(w, "obtain")
  BY DEF Obtain, pair, accounts, WorkOnly
<1>2. i \in Ids
  BY <1>1, NumberLeft
<1>3. pass' = [pass EXCEPT ![w] = r]
  BY Zenon DEF Obtain
<1>4. pass[w] \in Pass
  BY <1>1 DEF LifeInv, TypeOK, At
<1> HIDE DEF i
<1>5. r \in Pass /\ r.at = "writeCrt" /\ r.id = i
  BY <1>2, <1>4 DEF Pass, Steps
<1>6. IdFits(r)
  BY <1>2, <1>5 DEF IdFits
<1> HIDE DEF r
<1>7. pass' \in [Workers -> Pass \cup {None}] /\ IdInv' /\ PairInv'
  BY <1>1, <1>3, <1>5, <1>6, MoveLife DEF At
<1>8. TypeOK' /\ ConfigInv'
  BY <1>1, <1>7, WorkOnlyLife DEF LifeInv, TypeOK
<1> QED BY <1>7, <1>8 DEF LifeInv

\* The certificate is written: nobody else has written one without its key, or
\* the savings have overlapped.
LEMMA WriteCrtLife ==
  ASSUME LifeInv, NEW w \in Workers, WriteCrt(w)
  PROVE  LifeInv'
<1> DEFINE r == [pass[w] EXCEPT !.at = "writeKey"]
<1>1. /\ UNCHANGED <<key, accKey, account, faults, cut>> /\ WorkOnly
      /\ pass[w] # None /\ pass[w].at = "writeCrt"
      /\ crt' = pass[w].id /\ left' = Life /\ missed' = 0 /\ pass' = [pass EXCEPT ![w] = r]
      /\ overlapped' = (overlapped \/ Saving # {})
  BY DEF WriteCrt, At, accounts, WorkOnly, Goto, Saving
<1>2. pass[w] \in Pass /\ pass[w].id \in Ids
  BY <1>1 DEF LifeInv, TypeOK, IdInv, IdFits
<1>3. r \in Pass /\ r.at = "writeKey" /\ r.id = pass[w].id
  BY <1>2 DEF Pass, Steps
<1> HIDE DEF r
<1>4. /\ pass' \in [Workers -> Pass \cup {None}] /\ pass'[w] = r
      /\ \A v \in Workers \ {w} : pass'[v] = pass[v]
  BY <1>1, <1>3 DEF LifeInv, TypeOK
<1>5. IdInv'
  <2> SUFFICES ASSUME NEW v \in Workers, pass'[v] # None PROVE IdFits(pass'[v])
    BY DEF IdInv, IdFits, Ids
  <2>1. IdFits(r)
    BY <1>2, <1>3 DEF IdFits
  <2> QED BY <1>4, <2>1 DEF LifeInv, IdInv
<1>6. PairInv'
  <2> SUFFICES ASSUME ~overlapped', ~cut'
               PROVE  Saving' = {w} /\ pass'[w].id = crt'
    BY DEF PairInv
  <2>1. Saving = {}
    BY <1>1
  <2>2. Saving' = {w}
    BY <1>3, <1>4, <2>1, NoneAssumption DEF Saving, At
  <2> QED BY <1>1, <1>3, <1>4, <2>2
<1>7. left' \in 0..Life /\ missed' \in 0..Margin /\ overlapped' \in BOOLEAN
  BY <1>1, LifecycleAssumption DEF LifeInv, TypeOK
<1>8. TypeOK' /\ ConfigInv'
  BY <1>1, <1>2, <1>4, <1>7, WorkOnlyLife DEF LifeInv, TypeOK
<1> QED BY <1>5, <1>6, <1>8 DEF LifeInv

\* The key is written: it is the key of the certificate the goroutine wrote.
LEMMA WriteKeyLife ==
  ASSUME LifeInv, NEW w \in Workers, WriteKey(w)
  PROVE  LifeInv'
<1> DEFINE a == [pass[w] EXCEPT !.at = "load"]
<1>1. /\ UNCHANGED <<crt, left, missed, accKey, account, faults, overlapped, cut>> /\ WorkOnly
      /\ pass[w] # None /\ pass[w].at = "writeKey" /\ key' = pass[w].id
      /\ pass' = [pass EXCEPT ![w] = a] \/ pass' = [pass EXCEPT ![w] = None]
  BY DEF WriteKey, At, accounts, WorkOnly, Goto, Done
<1>2. pass[w] \in Pass /\ pass[w].id \in Ids /\ w \in Saving
  BY <1>1 DEF LifeInv, TypeOK, IdInv, IdFits, Saving, At
<1>3. a \in Pass /\ a.at = "load"
  BY <1>2 DEF Pass, Steps
<1> HIDE DEF a
<1>4. /\ pass' \in [Workers -> Pass \cup {None}] /\ pass'[w] \in {a, None}
      /\ \A v \in Workers \ {w} : pass'[v] = pass[v]
  BY <1>1, <1>3 DEF LifeInv, TypeOK
<1>5. IdInv'
  <2> SUFFICES ASSUME NEW v \in Workers, pass'[v] # None PROVE IdFits(pass'[v])
    BY DEF IdInv, IdFits, Ids
  <2>1. IdFits(a)
    BY <1>3 DEF IdFits
  <2> QED BY <1>4, <2>1 DEF LifeInv, IdInv
<1>6. PairInv'
  <2> SUFFICES ASSUME ~overlapped, ~cut PROVE Saving' = {} /\ crt' = key'
    BY <1>1 DEF PairInv
  <2>1. Saving = {w} /\ pass[w].id = crt
    BY <1>2 DEF LifeInv, PairInv
  <2>2. Saving' = {}
    BY <1>3, <1>4, <2>1 DEF Saving, At
  <2> QED BY <1>1, <2>1, <2>2
<1>7. TypeOK' /\ ConfigInv'
  BY <1>1, <1>2, <1>4, WorkOnlyLife DEF LifeInv, TypeOK
<1> QED BY <1>5, <1>6, <1>7 DEF LifeInv

LEMMA LoadLife ==
  ASSUME LifeInv, NEW w \in Workers, Load(w)
  PROVE  LifeInv'
<1>1. pass[w] # None /\ pass[w].at = "load" /\ faults' = faults
  BY DEF Load, At
<1>2. CASE Fail(w)
  BY <1>1, <1>2, FailLife DEF At, LifeInv, TypeOK
<1>3. CASE ~Fail(w)
  <2>1. /\ UNCHANGED <<config, phase, done, failed, crashes, edits, crt, key, left, missed, accKey, account,
                       overlapped, cut>>
        /\ todo' = todo \ {w[1]} /\ Done(w)
    BY <1>3 DEF Load, pair, accounts
  <2>2. pass' \in [Workers -> Pass \cup {None}] /\ IdInv' /\ PairInv'
    BY <1>1, <2>1, DoneLife DEF At
  <2>3. TypeOK' /\ ConfigInv'
    BY <1>1, <2>1, <2>2 DEF LifeInv, TypeOK, ConfigInv, config
  <2> QED BY <2>2, <2>3 DEF LifeInv
<1> QED BY <1>2, <1>3
-----------------------------------------------------------------------------
LEMMA NextLife == ASSUME LifeInv, [Next]_vars PROVE LifeInv'
<1>1. CASE UNCHANGED vars
  <2>1. UNCHANGED <<phase, todo, done, failed, edited, email, event, recent, skipped, crt, key, left,
                   missed, accKey, account, pass, faults, crashes, edits, overlapped, cut>>
    BY <1>1 DEF vars, config, process, pair, accounts, budgets
  <2>2. TypeOK' /\ ConfigInv'
    BY <2>1 DEF LifeInv, TypeOK, ConfigInv
  <2>3. IdInv' /\ PairInv'
    BY <2>1 DEF LifeInv, IdInv, IdFits, PairInv, Saving, At, Ids
  <2> QED BY <2>2, <2>3 DEF LifeInv
<1>2. CASE Crash
  <2>1. crashes' \in 0..MaxCrashes /\ faults' \in 0..MaxFaults
    BY <1>2, LifecycleAssumption DEF LifeInv, TypeOK, Crash
  <2> QED BY <1>2, <2>1, EndLife DEF Crash
<1>3. ASSUME NEW w \in Workers, Work(w) PROVE LifeInv'
  BY <1>3, AccountLife, LoadAccountLife, CheckLife, ObtainLife, WriteCrtLife, WriteKeyLife,
     LoadLife DEF Work
<1> QED BY <1>1, <1>2, <1>3, CalmLife, ReloadLife, BeginLife, RefuseLife DEF Next

LEMMA LifeAlways == Spec => []LifeInv
<1>1. Init => LifeInv
  BY InitLife
<1>2. LifeInv /\ [Next]_vars => LifeInv'
  BY NextLife
<1> QED BY <1>1, <1>2, PTL DEF Spec

\* The state of the process and of its certificate is well typed (Panel.Start,
\* the certificate's files, SaveResource): there is always a number left that
\* neither the files nor any goroutine has, for any set of nodes.
THEOREM LifecycleTypes == Spec => []TypeOK
<1>1. LifeInv => TypeOK
  BY DEF LifeInv
<1> QED BY <1>1, LifeAlways, PTL

\* Between savings, certificate and key on disk belong together, unless two
\* savings have overlapped or one was cut short (SaveResource).
THEOREM PairStaysTogether == Spec => []PairMatches
<1>1. LifeInv => PairMatches
  BY DEF LifeInv, PairInv, PairMatches, Saving
<1> QED BY <1>1, LifeAlways, PTL

\* A change of the config file is in force when no event is pending, unless
\* one came within three seconds of a reload (the OnConfigChange callback).
THEOREM EditTakesEffect == Spec => []ConfigApplied
<1>1. LifeInv => ConfigApplied
  BY DEF LifeInv, ConfigInv, ConfigApplied
<1> QED BY <1>1, LifeAlways, PTL
-----------------------------------------------------------------------------
(* Renewal.                                                                *)

\* Only the node that Start is about to start has a pass of its own Start, and
\* its certMonitor has not run yet. Only Start loads the pair.
StartsFit ==
  /\ todo \cap done = {}
  /\ \A w \in Workers : pass[w] # None /\ pass[w].starts => w[2] = "new" /\ w[1] \in todo
  /\ \A w \in Workers : pass[w] # None /\ pass[w].at = "load" => pass[w].starts

\* A period is missed for each one the certificate has come closer to its end
\* within the margin, and in this one no node's pass is over unless it failed.
RenewFits ==
  /\ \A w \in Workers : At(w, "writeKey") => left = Life
  /\ crt \in Ids =>
       /\ left + missed >= Margin
       /\ left <= Margin => \A n \in done \ failed : pass[<<n, "new">>] # None

RenewInv == LifeInv /\ StartsFit /\ RenewFits

LEMMA RenewTypes ==
  ASSUME LifeInv
  PROVE  /\ left \in Nat /\ missed \in Nat /\ missed <= Margin /\ Margin \in Nat
         /\ Life \in Nat /\ Margin < Life /\ done \subseteq Nodes /\ failed \subseteq Nodes
         /\ pass \in [Workers -> Pass \cup {None}] /\ Torn \notin Ids /\ None \notin Ids
         /\ phase # "start" => todo = {}
BY LifecycleAssumption DEF LifeInv, TypeOK, Ids

LEMMA CalmRenews ==
  ASSUME RenewInv, Boot \/ Edit \/ Discard \/ Calm \/ Started
  PROVE  StartsFit' /\ RenewFits'
<1>1. UNCHANGED <<pass, crt, left, missed>>
  BY DEF Boot, Edit, Discard, Calm, Started, CertOnly, process, pair
<1>2. \/ UNCHANGED <<todo, done, failed>>
      \/ phase = "down" /\ todo' = Nodes /\ done' = {} /\ failed' = {}
  BY DEF Boot, Edit, Discard, Calm, Started, process
<1>3. StartsFit'
  <2>1. ASSUME phase = "down", todo' = Nodes, done' = {} PROVE StartsFit'
    BY <1>1, <2>1, RenewTypes DEF RenewInv, StartsFit
  <2> QED BY <1>1, <1>2, <2>1 DEF RenewInv, StartsFit
<1>4. RenewFits'
  BY <1>1, <1>2 DEF RenewInv, RenewFits, At, Ids
<1> QED BY <1>3, <1>4

\* A period within the margin ends only after every node's pass has failed.
LEMMA TickRenews == ASSUME RenewInv, Tick PROVE StartsFit' /\ RenewFits'
<1>1. /\ done = Nodes /\ (\A w \in Workers : pass[w] = None) /\ done' = {} /\ failed' = {}
      /\ left' = IF left = 0 THEN 0 ELSE left - 1
      /\ missed' = IF failed = Nodes /\ missed < Margin THEN missed + 1 ELSE missed
      /\ UNCHANGED <<pass, todo, crt>>
  BY DEF Tick, Idle
<1>2. StartsFit'
  BY <1>1 DEF StartsFit
<1>3. ASSUME crt \in Ids PROVE left' + missed' >= Margin
  <2>1. left + missed >= Margin
    BY <1>3 DEF RenewInv, RenewFits
  <2>2. CASE left > Margin
    BY <1>1, <2>1, <2>2, RenewTypes DEF RenewInv
  <2>3. CASE left <= Margin
    <3>1. \A n \in done \ failed : pass[<<n, "new">>] # None
      BY <1>3, <2>3 DEF RenewInv, RenewFits
    <3>2. \A n \in Nodes : pass[<<n, "new">>] = None
      BY <1>1 DEF Workers
    <3>3. failed = Nodes
      BY <1>1, <3>1, <3>2, RenewTypes DEF RenewInv
    <3> QED BY <1>1, <2>1, <3>3, RenewTypes DEF RenewInv
  <2> QED BY <2>2, <2>3, RenewTypes DEF RenewInv
<1>4. RenewFits'
  BY <1>1, <1>3 DEF RenewFits, At, Ids
<1> QED BY <1>2, <1>4

LEMMA EndRenews == ASSUME RenewInv, End PROVE StartsFit' /\ RenewFits'
<1>1. /\ pass' = [w \in Workers |-> None] /\ crt' \in {crt, Torn} /\ todo' = {} /\ done' = {}
      /\ UNCHANGED <<left, missed>>
  BY DEF End
<1> QED BY <1>1, RenewTypes DEF RenewInv, StartsFit, RenewFits, At, Ids

LEMMA ReloadRenews == ASSUME RenewInv, Reload PROVE StartsFit' /\ RenewFits'
<1>1. /\ phase = "up" /\ todo' = Nodes /\ done' = {} /\ UNCHANGED <<crt, left, missed>>
      /\ pass' = [w \in Workers |->
           IF w[2] = "new" THEN None
           ELSE IF pass[w] = None THEN pass[<<w[1], "new">>] ELSE pass[w]]
  BY DEF Reload, CertOnly, pair, Idle
<1>2. ASSUME NEW w \in Workers, pass'[w] # None
      PROVE  \E v \in Workers : pass[v] # None /\ pass'[w] = pass[v]
  <2>1. <<w[1], "new">> \in Workers
    BY DEF Workers
  <2> QED BY <1>1, <1>2, <2>1
<1>3. StartsFit'
  BY <1>1, <1>2, RenewTypes DEF RenewInv, StartsFit
<1>4. RenewFits'
  BY <1>1, <1>2 DEF RenewInv, RenewFits, At, Ids
<1> QED BY <1>3, <1>4

LEMMA BeginRenews ==
  ASSUME RenewInv, NEW n \in Nodes, StartNode(n) \/ StartMonitor(n)
  PROVE  StartsFit' /\ RenewFits'
<1> DEFINE w == <<n, "new">>
<1>1. w \in Workers /\ w[1] = n /\ w[2] = "new"
  BY DEF Workers
<1>2. PICK l \in {"account", "load"}, b \in BOOLEAN :
        /\ pass' = [pass EXCEPT ![w] = [starts |-> b, at |-> l, email |-> email, id |-> None]]
        /\ l = "load" => b
        /\ IF b THEN n \in todo /\ done' = done ELSE n \notin todo /\ done' = done \cup {n}
        /\ UNCHANGED <<todo, failed, crt, left, missed>>
  BY DEF StartNode, StartMonitor, Begin, CertOnly, pair, process
<1> DEFINE r == [starts |-> b, at |-> l, email |-> email, id |-> None]
<1>3. r # None /\ r.starts = b /\ r.at = l /\ l # "writeKey"
  <2>1. r \in Pass
    BY DEF RenewInv, LifeInv, TypeOK, Pass, Steps
  <2> QED BY <2>1, NoneAssumption
<1> HIDE DEF r, w
<1>4. pass'[w] = r /\ \A v \in Workers \ {w} : pass'[v] = pass[v]
  BY <1>1, <1>2, RenewTypes DEF RenewInv, r
<1>5. StartsFit'
  BY <1>1, <1>2, <1>3, <1>4 DEF RenewInv, StartsFit
<1>6. \A v \in Workers : At(v, "writeKey")' => left' = Life
  BY <1>2, <1>3, <1>4 DEF RenewInv, RenewFits, At
<1>7. ASSUME NEW m \in done' \ failed', crt \in Ids, left <= Margin PROVE pass'[<<m, "new">>] # None
  <2>1. m \in Nodes /\ <<m, "new">> \in Workers
    BY <1>2, RenewTypes DEF RenewInv, Workers
  <2>2. m = n \/ m \in done \ failed
    BY <1>2
  <2> QED BY <1>3, <1>4, <1>7, <2>1, <2>2 DEF RenewInv, RenewFits, w
<1>8. RenewFits'
  BY <1>2, <1>6, <1>7 DEF RenewInv, RenewFits, Ids
<1> QED BY <1>5, <1>8

\* A pass that goes on, or ends with a certificate that is not due.
LEMMA MoveRenews ==
  ASSUME RenewInv, NEW w \in Workers, pass[w] # None, NEW r \in Pass \cup {None},
         pass' = [pass EXCEPT ![w] = r],
         r # None => /\ r.starts = pass[w].starts /\ r.at # "writeKey"
                     /\ r.at = "load" => r.starts,
         r = None => ~(crt \in Ids /\ left <= Margin),
         UNCHANGED <<todo, done, failed, crt, left, missed>>
  PROVE  StartsFit' /\ RenewFits'
<1>1. pass'[w] = r /\ \A v \in Workers \ {w} : pass'[v] = pass[v]
  BY RenewTypes DEF RenewInv
<1>2. StartsFit'
  BY <1>1 DEF RenewInv, StartsFit
<1>3. \A v \in Workers : At(v, "writeKey")' => left' = Life
  BY <1>1 DEF RenewInv, RenewFits, At
<1>4. ASSUME NEW m \in done \ failed, crt \in Ids, left <= Margin PROVE pass'[<<m, "new">>] # None
  <2>1. <<m, "new">> \in Workers
    BY RenewTypes DEF RenewInv, Workers
  <2> QED BY <1>1, <1>4, <2>1 DEF RenewInv, RenewFits
<1> QED BY <1>2, <1>3, <1>4 DEF RenewInv, RenewFits, Ids

LEMMA GotoRenews ==
  ASSUME RenewInv, NEW w \in Workers, pass[w] # None, NEW l \in Steps, l # "writeKey",
         l = "load" => pass[w].starts,
         Goto(w, l), UNCHANGED <<todo, done, failed, crt, left, missed>>
  PROVE  StartsFit' /\ RenewFits'
<1> DEFINE r == [pass[w] EXCEPT !.at = l]
<1>1. pass[w] \in Pass
  BY RenewTypes DEF RenewInv
<1>2. r \in Pass /\ r.at = l /\ r.starts = pass[w].starts
  BY <1>1 DEF Pass
<1>3. pass' = [pass EXCEPT ![w] = r]
  BY DEF Goto
<1> HIDE DEF r
<1> QED BY <1>2, <1>3, MoveRenews, NoneAssumption

\* A pass of the node's certMonitor that fails is noted; an older one's failure
\* is not.
LEMMA FailRenews ==
  ASSUME RenewInv, NEW w \in Workers, pass[w] # None, Fail(w)
  PROVE  StartsFit' /\ RenewFits'
<1>1. CASE pass[w].starts
  BY <1>1, EndRenews DEF Fail
<1>2. CASE ~pass[w].starts
  <2>1. /\ pass' = [pass EXCEPT ![w] = None] /\ UNCHANGED <<todo, done, crt, left, missed>>
        /\ failed' = IF w[2] = "new" THEN failed \cup {w[1]} ELSE failed
    BY <1>2 DEF Fail, Done, pair
  <2>2. pass'[w] = None /\ \A v \in Workers \ {w} : pass'[v] = pass[v]
    BY <2>1, RenewTypes DEF RenewInv
  <2>3. StartsFit'
    BY <2>1, <2>2 DEF RenewInv, StartsFit
  <2>4. \A v \in Workers : At(v, "writeKey")' => left' = Life
    BY <2>1, <2>2 DEF RenewInv, RenewFits, At
  <2>5. ASSUME NEW m \in done \ failed', crt \in Ids, left <= Margin PROVE pass'[<<m, "new">>] # None
    <3>1. <<m, "new">> \in Workers
      BY RenewTypes DEF RenewInv, Workers
    <3>2. m \in done \ failed
      BY <2>1
    <3>3. w # <<m, "new">>
      BY <2>1
    <3> QED BY <2>2, <2>5, <3>1, <3>2, <3>3 DEF RenewInv, RenewFits
  <2> QED BY <2>1, <2>3, <2>4, <2>5 DEF RenewInv, RenewFits, Ids
<1> QED BY <1>1, <1>2

\* A renewed certificate has its whole life before it.
LEMMA WriteCrtRenews ==
  ASSUME RenewInv, NEW w \in Workers, WriteCrt(w)
  PROVE  StartsFit' /\ RenewFits'
<1> DEFINE r == [pass[w] EXCEPT !.at = "writeKey"]
<1>1. pass[w] \in Pass /\ pass[w] # None
  BY RenewTypes DEF RenewInv, WriteCrt, At
<1>2. r \in Pass /\ r.starts = pass[w].starts /\ r.at = "writeKey"
  BY <1>1 DEF Pass, Steps
<1>3. /\ pass' = [pass EXCEPT ![w] = r] /\ left' = Life /\ missed' = 0
      /\ UNCHANGED <<todo, done, failed>>
  BY DEF WriteCrt, Goto, WorkOnly, process
<1> HIDE DEF r
<1>4. pass'[w] = r /\ \A v \in Workers \ {w} : pass'[v] = pass[v]
  BY <1>3, RenewTypes DEF RenewInv
<1>5. StartsFit'
  BY <1>1, <1>2, <1>3, <1>4 DEF RenewInv, StartsFit
<1> QED BY <1>3, <1>5, RenewTypes DEF RenewInv, RenewFits

LEMMA LoadRenews ==
  ASSUME RenewInv, NEW w \in Workers, Load(w)
  PROVE  StartsFit' /\ RenewFits'
<1>1. pass[w] # None
  BY DEF Load, At
<1>2. CASE Fail(w)
  BY <1>1, <1>2, FailRenews
<1>3. CASE ~Fail(w)
  <2>1. /\ pass' = [pass EXCEPT ![w] = None] /\ UNCHANGED <<done, failed, crt, left, missed>>
        /\ todo' = todo \ {w[1]} /\ pass[w].at = "load"
    BY <1>3 DEF Load, Done, pair, At
  <2>2. pass'[w] = None /\ \A v \in Workers \ {w} : pass'[v] = pass[v]
    BY <2>1, RenewTypes DEF RenewInv
  <2>3. pass[w].starts /\ w[2] = "new" /\ w[1] \in todo /\ w[1] \notin done
    BY <1>1, <2>1 DEF RenewInv, StartsFit
  <2>4. \A v \in Workers : v[1] = w[1] /\ v[2] = "new" => v = w
    BY <2>3 DEF Workers
  <2>5. StartsFit'
    BY <2>1, <2>2, <2>4 DEF RenewInv, StartsFit
  <2>6. \A v \in Workers : At(v, "writeKey")' => left' = Life
    BY <2>1, <2>2 DEF RenewInv, RenewFits, At
  <2>7. ASSUME NEW m \in done \ failed, crt \in Ids, left <= Margin PROVE pass'[<<m, "new">>] # None
    <3>1. <<m, "new">> \in Workers /\ w # <<m, "new">>
      BY <2>3, RenewTypes DEF RenewInv, Workers
    <3> QED BY <2>2, <2>7, <3>1 DEF RenewInv, RenewFits
  <2> QED BY <2>1, <2>5, <2>6, <2>7 DEF RenewInv, RenewFits, Ids
<1> QED BY <1>2, <1>3

\* The key of a certificate that has just been written.
LEMMA WriteKeyRenews ==
  ASSUME RenewInv, NEW w \in Workers, WriteKey(w)
  PROVE  StartsFit' /\ RenewFits'
<1>1. /\ pass[w] # None /\ left = Life /\ UNCHANGED <<todo, done, failed, crt, left, missed>>
      /\ IF pass[w].starts THEN Goto(w, "load") ELSE Done(w)
  BY DEF WriteKey, WorkOnly, process, RenewInv, RenewFits, At
<1>2. CASE pass[w].starts
  BY <1>1, <1>2, GotoRenews DEF Steps
<1>3. CASE ~pass[w].starts
  BY <1>1, <1>3, MoveRenews, RenewTypes DEF Done, RenewInv
<1> QED BY <1>2, <1>3

LEMMA WorkRenews ==
  ASSUME RenewInv, NEW w \in Workers, Work(w) \/ Refuse(w)
  PROVE  StartsFit' /\ RenewFits'
<1>1. CASE MakeKey(w) \/ Encode(w) \/ Register(w) \/ Save(w)
  <2>1. /\ pass[w] # None /\ UNCHANGED <<todo, done, failed, crt, left, missed>>
        /\ \E l \in Steps \ {"load", "writeKey"} : Goto(w, l)
    BY <1>1 DEF MakeKey, Encode, Register, Save, At, WorkOnly, process, pair, Steps
  <2> QED BY <2>1, GotoRenews
<1>2. CASE LoadAccount(w)
  <2>1. pass[w] # None
    BY <1>2 DEF LoadAccount, At
  <2>2. CASE ~Fail(w)
    <3>1. /\ UNCHANGED <<todo, done, failed, crt, left, missed>>
          /\ \E l \in Steps \ {"load", "writeKey"} : Goto(w, l)
      BY <1>2, <2>2 DEF LoadAccount, WorkOnly, process, pair, Steps
    <3> QED BY <2>1, <3>1, GotoRenews
  <2> QED BY <2>1, <2>2, FailRenews
<1>3. CASE Check(w)
  <2>1. /\ pass[w] # None /\ UNCHANGED <<todo, done, failed, crt, left, missed>>
        /\ Goto(w, "obtain") \/ (Done(w) /\ ~(crt \in Ids /\ left <= Margin))
    BY <1>3 DEF Check, At, WorkOnly, process, pair, NeedRenewal
  <2> QED BY <2>1, GotoRenews, MoveRenews DEF Done, Steps
<1>4. CASE Obtain(w)
  <2> DEFINE unused == Ids \ ({crt, key} \cup {pass[v].id : v \in {x \in Workers : ~Idle(x)}})
             i == CHOOSE j \in unused : TRUE
             r == [pass[w] EXCEPT !.at = "writeCrt", !.id = i]
  <2>1. /\ pass[w] # None /\ At(w, "obtain") /\ UNCHANGED <<todo, done, failed, crt, left, missed>>
    BY <1>4 DEF Obtain, At, WorkOnly, process, pair
  <2>2. pass' = [pass EXCEPT ![w] = r]
    BY <1>4, Zenon DEF Obtain
  <2>3. i \in Ids
    BY <2>1, NumberLeft DEF RenewInv
  <2> HIDE DEF i
  <2>4. pass[w] \in Pass
    BY <2>1, RenewTypes DEF RenewInv
  <2>5. r \in Pass /\ r.starts = pass[w].starts /\ r.at = "writeCrt"
    BY <2>3, <2>4 DEF Pass, Steps
  <2> HIDE DEF r
  <2> QED BY <2>1, <2>2, <2>5, MoveRenews, NoneAssumption
<1>5. CASE Refuse(w)
  BY <1>5, FailRenews DEF Refuse, At
<1> QED BY <1>1, <1>2, <1>3, <1>4, <1>5, WriteCrtRenews, WriteKeyRenews, LoadRenews DEF Work

LEMMA NextRenews == ASSUME RenewInv, [Next]_vars PROVE RenewInv'
<1>1. CASE UNCHANGED vars
  <2>1. UNCHANGED <<todo, done, failed, crt, left, missed, pass>>
    BY <1>1 DEF vars, process, pair
  <2> QED BY <1>1, <2>1, NextLife DEF RenewInv, StartsFit, RenewFits, At, Ids
<1>2. CASE Next
  <2>1. LifeInv'
    BY <1>2, NextLife DEF RenewInv
  <2>2. StartsFit' /\ RenewFits'
    BY <1>2, CalmRenews, TickRenews, EndRenews, ReloadRenews, BeginRenews, WorkRenews DEF Next, Crash
  <2> QED BY <2>1, <2>2 DEF RenewInv
<1> QED BY <1>1, <1>2

\* The certificate expires only after as many periods as the margin in which
\* every node has tried to renew it and failed (certMonitor, LegoCMD.Renew),
\* whatever crashes, reloads and edits come in between.
THEOREM CertificateStaysValid == Spec => []Unexpired
<1>1. Init => RenewInv
  <2> SUFFICES ASSUME Init PROVE RenewInv
    OBVIOUS
  <2>1. LifeInv /\ crt \notin Ids
    BY InitLife, RenewTypes DEF Init
  <2>2. todo = {} /\ \A w \in Workers : pass[w] = None
    BY DEF Init
  <2> QED BY <2>1, <2>2 DEF RenewInv, StartsFit, RenewFits, At
<1>2. RenewInv /\ [Next]_vars => RenewInv'
  BY NextRenews
<1>3. RenewInv => Unexpired
  BY RenewTypes DEF RenewInv, RenewFits, Unexpired
<1> QED BY <1>1, <1>2, <1>3, PTL DEF Spec
=============================================================================
