------------------------- MODULE SmartPointerProofs -------------------------
(***************************************************************************)
(* Proofs about SmartPointer, for every number of threads, handles and     *)
(* objects: no use after deletion, no leak, and the implementation of      *)
(* SmartPointerNTS.                                                        *)
(***************************************************************************)
EXTENDS SmartPointer, FiniteSetTheorems, TLAPS

Owners(r) == {p \in Places : owns[p] = r}

\* The counter is the number of the places that have been counted.
Counted == \A r \in Roots : count[r] = Cardinality(Owners(r))

\* What is held has been made and is not deleted.
Alive == \A p \in Places : owns[p] \in (made \ freed) \cup {NoRoot}

\* Whoever is about to store a counter has the lock and the counter's value.
DropsOwn(f, t) ==
  /\ f.part \in {"drop", "dropStore"} => f.drop # NoRoot /\ owns[f.to] = f.drop
  /\ f.part = "dropStore" => lock[f.drop] = t /\ f.n = count[f.drop]
  /\ f.part = "delete" => /\ f.drop \in made \ freed /\ lock[f.drop] = t
                          /\ \A p \in Places : owns[p] # f.drop
  /\ f.part \in {"delete", "move", "add", "addStore"} => owns[f.to] = NoRoot

\* What is taken is held by the source, or new and nobody's.
TakesHeld(f, t) ==
  /\ f.part \in {"add", "addStore"} => /\ f.take # NoRoot /\ f.op # "attach"
                                       /\ root[f.to] = f.take /\ ptr[f.to] = f.take
  /\ f.part = "addStore" => lock[f.take] = t /\ f.n = count[f.take]
  /\ f.op = "new" => f.take \in made \ freed /\ \A p \in Places : owns[p] # f.take
  /\ f.op \in {"copy", "detach", "attach"} => f.from \in Places /\ owns[f.from] = f.take
  /\ f.op \in {"none", "destroy"} => f.take = NoRoot
  /\ f.op = "attach" => f.from \in Raws

CallOK(t) == /\ call[t].part = "idle" => call[t] = NoCall
             /\ call[t].part # "idle" => /\ call[t].to \in Places /\ call[t].op # "none"
                                         /\ call[t].to # call[t].from
             /\ call[t].from \in Raws => call[t].op = "attach"
             /\ DropsOwn(call[t], t)
             /\ TakesHeld(call[t], t)

\* What two operations under way do not share.
PairOK(t, u) ==
  /\ call[t].part # "idle" => call[t].to # call[u].to /\ call[t].to # call[u].from
  /\ call[t].op = "attach" => call[t].from # call[u].from
  /\ call[t].op = "new" /\ call[u].op = "new" => call[t].take # call[u].take

\* No operation makes what another one is about to delete.
FreshKept == \A t, u \in Threads :
               call[t].op = "new" /\ call[u].part = "delete" => call[t].take # call[u].drop

\* Where nothing is being written, the handle shows what it has been counted for.
Rest == \A h \in Places : Unwritten(h) =>
          root[h] = owns[h] /\ (root[h] # NoRoot => ptr[h] = owns[h])

Calls == \A t \in Threads : CallOK(t)
Pairs == \A t, u \in Threads : t # u => PairOK(t, u)

IInv == /\ TypeOK /\ Counted /\ Alive /\ Calls /\ Pairs /\ FreshKept /\ Rest
        /\ LastOneDeletes

-----------------------------------------------------------------------------
LEMMA PlacesFacts == IsFiniteSet(Places) /\ None \notin Places
BY PlacesAssumption, NoneAssumption DEF Places

\* A count of holders is between none and all of the places.
LEMMA CountBounded ==
  ASSUME NEW S \in SUBSET Places
  PROVE  IsFiniteSet(S) /\ Cardinality(S) \in 0 .. Cardinality(Places)
<1>1. IsFiniteSet(S) /\ Cardinality(S) <= Cardinality(Places)
  BY PlacesFacts, FS_Subset
<1>2. Cardinality(S) \in Nat /\ Cardinality(Places) \in Nat
  BY <1>1, PlacesFacts, FS_CardinalityType
<1> QED BY <1>1, <1>2

THEOREM Initially == Init => IInv
<1> SUFFICES ASSUME Init PROVE IInv OBVIOUS
<1>1. \A r \in Roots : Owners(r) = {} BY NoRootAssumption DEF Init, Owners
<1>2. Counted BY <1>1, FS_EmptySet DEF Init, Counted
<1>3. Cardinality(Places) \in Nat BY PlacesFacts, FS_CardinalityType
<1>4. TypeOK BY <1>3 DEF Init, TypeOK, NoCall
<1>5. Calls BY NoneAssumption DEF Init, Calls, CallOK, DropsOwn, TakesHeld, NoCall
<1>6. Pairs /\ FreshKept BY DEF Init, Pairs, PairOK, FreshKept, NoCall
<1>7. Alive /\ Rest /\ LastOneDeletes BY DEF Init, Alive, Rest, LastOneDeletes
<1> QED BY <1>2, <1>4, <1>5, <1>6, <1>7 DEF IInv

\* An operation that has begun owns its target, and holds what it takes or makes
\* it anew.
LEMMA BeginKeeps ==
  ASSUME IInv, NEW t \in Threads,
         NEW op \in {"new", "copy", "destroy", "detach", "attach"},
         NEW to \in Places, NEW from \in Places \cup {None}, NEW take \in Roots \cup {NoRoot},
         Begin(t, op, to, from, take), to # from,
         op = "new" => take \in Roots \ made /\ made' = made \cup {take},
         op # "new" => made' = made,
         op \in {"copy", "detach", "attach"} =>
           from \in Places /\ Unwritten(from) /\ take = root[from],
         op = "destroy" => take = NoRoot,
         op \in {"new", "destroy"} => from = None,
         op = "attach" => from \in Raws /\ Unused(from),
         from \in Raws => op = "attach"
  PROVE  IInv'
<1> USE DEF IInv
<1>a. /\ call[t] = NoCall /\ call[t].part = "idle"
      /\ UNCHANGED <<root, ptr, count, lock, freed, owns>>
      /\ made \subseteq made' /\ made' \subseteq Roots
  BY DEF Begin, Calls, CallOK, TypeOK
<1>b. /\ call'[t].op = op /\ call'[t].to = to /\ call'[t].from = from
      /\ call'[t].take = take /\ call'[t].drop = root[to]
      /\ \/ call'[t].part = "move" /\ root[to] = NoRoot
         \/ call'[t].part = "drop" /\ root[to] # NoRoot
      /\ \A u \in Threads : u # t => call'[u] = call[u]
  BY DEF Begin, TypeOK
<1>c. /\ Unused(to) /\ owns[to] = root[to]
      /\ op \in {"copy", "detach", "attach"} => owns[from] = take
  BY PlacesFacts DEF Begin, Rest, Unused, Unwritten
<1>1. TypeOK'
  <2>1. call'[t] \in [op : {"none", "new", "copy", "destroy", "detach", "attach"},
                to : Places \cup {None}, from : Places \cup {None},
                drop : Roots \cup {NoRoot}, take : Roots \cup {NoRoot}, n : Int,
                part : {"idle", "drop", "dropStore", "delete", "move", "add", "addStore"}]
    BY DEF Begin, TypeOK
  <2> QED BY <1>a, <2>1 DEF Begin, TypeOK
<1>2. Counted' /\ Alive' BY <1>a DEF Counted, Owners, Alive
<1>3. Calls'
  <2>1. DropsOwn(call[t], t)' BY <1>a, <1>b, <1>c DEF DropsOwn
  <2>2. TakesHeld(call[t], t)'
    <3>1. op = "new" => take \in made' \ freed' /\ \A p \in Places : owns'[p] # take
      BY <1>a, NoRootAssumption DEF Alive, TypeOK
    <3> QED BY <1>a, <1>b, <1>c, <3>1 DEF TakesHeld
  <2>3. CallOK(t)' BY <1>b, <2>1, <2>2 DEF CallOK
  <2>4. ASSUME NEW u \in Threads, u # t PROVE CallOK(u)'
    BY <1>a, <1>b, <2>4 DEF Calls, CallOK, DropsOwn, TakesHeld
  <2> QED BY <2>3, <2>4 DEF Calls
<1>4. Pairs'
  <2>1. ASSUME NEW u \in Threads, u # t PROVE PairOK(t, u)' /\ PairOK(u, t)'
    <3>1. to # call[u].to /\ to # call[u].from BY <1>c DEF Unused
    <3>2. call[u].part # "idle" => call[u].to # from
      BY PlacesFacts DEF Unwritten, Calls, CallOK
    <3>3. op = "attach" => from # call[u].from BY DEF Unused
    <3>4. call[u].op = "attach" => call[u].from # from BY <3>3 DEF Calls, CallOK, TakesHeld
    <3>5. call[u].op = "new" => call[u].take \in made BY DEF Calls, CallOK, TakesHeld
    <3>6. PairOK(t, u)' BY <1>b, <2>1, <3>1, <3>3, <3>5 DEF PairOK
    <3>7. PairOK(u, t)' BY <1>b, <2>1, <3>1, <3>2, <3>4, <3>5 DEF PairOK
    <3> QED BY <3>6, <3>7
  <2> QED BY <1>b, <2>1 DEF Pairs, PairOK
<1>5. FreshKept'
  BY <1>a, <1>b DEF FreshKept, Calls, CallOK, DropsOwn
<1>6. Rest'
  BY <1>a, <1>b, PlacesFacts DEF Rest, Unwritten, NoCall
<1>7. LastOneDeletes'
  BY <1>a, <1>b DEF LastOneDeletes, NoCall
<1> QED BY <1>1, <1>2, <1>3, <1>4, <1>5, <1>6, <1>7

\* The start of an operation changes its thread's call, and makes the new root.
LEMMA StartKeeps == ASSUME IInv, NEW t \in Threads, Start(t) PROVE IInv'
<1> USE PlacesFacts, PlacesAssumption DEF IInv, Places
<1>1. ASSUME NEW h \in Handles, FromObject(t, h) PROVE IInv'
  BY <1>1, BeginKeeps, NoneAssumption DEF FromObject
<1>2. ASSUME NEW h \in Handles, Destroy(t, h) PROVE IInv'
  BY <1>2, BeginKeeps, NoneAssumption DEF Destroy
<1>3. ASSUME NEW h \in Handles, NEW g \in Handles, Copy(t, h, g) PROVE IInv'
  <2>1. root[g] \in Roots \cup {NoRoot} BY DEF TypeOK
  <2>2. Begin(t, "copy", h, g, root[g]) /\ h # g /\ Unwritten(g) /\ made' = made
    BY <1>3 DEF Copy
  <2>3. h \in Places /\ g \in Places /\ g \notin Raws OBVIOUS
  <2> HIDE DEF IInv, Places
  <2> QED BY <2>1, <2>2, <2>3, BeginKeeps
<1>4. ASSUME NEW h \in Handles, NEW k \in Raws, Detach(t, k, h) PROVE IInv'
  BY <1>4, BeginKeeps DEF Detach, TypeOK
<1>5. ASSUME NEW h \in Handles, NEW k \in Raws, Attach(t, h, k) PROVE IInv'
  <2>1. Unwritten(k) BY <1>5 DEF Attach, Unused, Unwritten
  <2> QED BY <1>5, <2>1, BeginKeeps DEF Attach, TypeOK
<1> QED BY <1>1, <1>2, <1>3, <1>4, <1>5 DEF Start

-----------------------------------------------------------------------------
\* The record TypeOK gives a call.
CallType == [op : {"none", "new", "copy", "destroy", "detach", "attach"},
             to : Places \cup {None}, from : Places \cup {None},
             drop : Roots \cup {NoRoot}, take : Roots \cup {NoRoot}, n : Int,
             part : {"idle", "drop", "dropStore", "delete", "move", "add", "addStore"}]

\* A step leaves the other calls alone, and its own the same or ended.
LEMMA PairsKept ==
  ASSUME TypeOK, Calls, Pairs, NEW t \in Threads, call[t].part # "idle",
         \A u \in Threads : u # t => call'[u] = call[u],
         \/ call'[t] = NoCall
         \/ /\ call'[t].op = call[t].op /\ call'[t].to = call[t].to
            /\ call'[t].from = call[t].from /\ call'[t].take = call[t].take
  PROVE  Pairs'
<1>1. ASSUME NEW u \in Threads, u # t PROVE PairOK(t, u)' /\ PairOK(u, t)'
  <2>1. call[u].part # "idle" => call[u].to # None
    BY PlacesFacts DEF Calls, CallOK
  <2>2. call[u].op = "attach" => call[u].from # None
    BY PlacesFacts DEF Calls, CallOK, TakesHeld
  <2>3. CASE call'[t] = NoCall BY <1>1, <2>1, <2>2, <2>3 DEF Pairs, PairOK, NoCall
  <2>4. CASE call'[t] # NoCall BY <1>1, <2>4 DEF Pairs, PairOK
  <2> QED BY <2>3, <2>4
<1> QED BY <1>1 DEF Pairs, PairOK

\* The lock is taken and the counter loaded; nothing else changes.
LEMMA LockedKeeps ==
  ASSUME IInv, NEW t \in Threads, NEW r \in Roots, NEW part \in {"dropStore", "addStore"},
         Locked(t, r, part),
         \/ call[t].part = "drop" /\ r = call[t].drop /\ part = "dropStore"
         \/ call[t].part = "add" /\ r = call[t].take /\ part = "addStore"
  PROVE  IInv'
<1> USE DEF IInv
<1>a. /\ call'[t].op = call[t].op /\ call'[t].to = call[t].to /\ call'[t].from = call[t].from
      /\ call'[t].drop = call[t].drop /\ call'[t].take = call[t].take
      /\ call'[t].part = part /\ call'[t].n = count[r]
      /\ \A u \in Threads : u # t => call'[u] = call[u]
      /\ lock[r] = None /\ lock'[r] = t /\ \A s \in Roots : s # r => lock'[s] = lock[s]
      /\ UNCHANGED <<root, ptr, count, made, freed, owns>>
  BY DEF Locked, TypeOK
<1>1. TypeOK'
  <2>1. call[t] \in CallType /\ count[r] \in Int BY DEF TypeOK, CallType
  <2>2. call'[t] = [call[t] EXCEPT !.part = part, !.n = count[r]] BY DEF Locked, TypeOK
  <2>3. call'[t] \in CallType BY <2>1, <2>2 DEF CallType
  <2> QED BY <1>a, <2>3 DEF Locked, TypeOK, CallType
<1>2. Counted' /\ Alive' BY <1>a DEF Counted, Owners, Alive
<1>3. Calls'
  <2>1. CallOK(t)' BY <1>a DEF Calls, CallOK, DropsOwn, TakesHeld
  <2>2. ASSUME NEW u \in Threads, u # t PROVE CallOK(u)'
    <3>1. \A s \in Roots : lock[s] = u => lock'[s] = u BY <1>a, NoneAssumption
    <3>2. /\ call[u].part \in {"dropStore", "delete"} => call[u].drop \in Roots
          /\ call[u].part = "addStore" => call[u].take \in Roots
      BY DEF Calls, CallOK, DropsOwn, TakesHeld, TypeOK
    <3> QED BY <1>a, <2>2, <3>1, <3>2 DEF Calls, CallOK, DropsOwn, TakesHeld
  <2> QED BY <2>1, <2>2 DEF Calls
<1>4. Pairs' BY <1>a, PairsKept
<1>5. FreshKept' /\ Rest' BY <1>a DEF FreshKept, Rest, Unwritten
<1>6. LastOneDeletes' BY <1>a DEF LastOneDeletes
<1> QED BY <1>1, <1>2, <1>3, <1>4, <1>5, <1>6

\* The counter goes down with the target's reference, and the last one is told so.
LEMMA DropStoreKeeps == ASSUME IInv, NEW t \in Threads, DropStore(t) PROVE IInv'
<1> USE DEF IInv
<1>0. PICK d, p, n : d = call[t].drop /\ p = call[t].to /\ n = call[t].n OBVIOUS
<1> DEFINE last == n - 1 <= 0
<1>a. /\ call[t].part = "dropStore" /\ p \in Places /\ d \in Roots
      /\ owns[p] = d /\ lock[d] = t /\ call[t].n = count[d] /\ d \in made \ freed
      /\ p # call[t].from
  BY <1>0 DEF DropStore, At, Calls, CallOK, DropsOwn, TypeOK, Alive
<1>b. /\ call'[t].op = call[t].op /\ call'[t].to = p /\ call'[t].from = call[t].from
      /\ call'[t].drop = d /\ call'[t].take = call[t].take /\ call'[t].n = call[t].n
      /\ \/ last /\ call'[t].part = "delete" /\ lock' = lock
         \/ ~last /\ call'[t].part = "move" /\ lock' = [lock EXCEPT ![d] = None]
      /\ \A u \in Threads : u # t => call'[u] = call[u]
      /\ count' = [count EXCEPT ![d] = count[d] - 1]
      /\ owns' = [owns EXCEPT ![p] = NoRoot]
      /\ UNCHANGED <<root, ptr, made, freed>>
  BY <1>0, <1>a DEF DropStore, GoTo, TypeOK
<1>c. /\ Owners(d)' = Owners(d) \ {p} /\ p \in Owners(d)
      /\ \A r \in Roots : r # d => Owners(r)' = Owners(r)
  BY <1>a, <1>b, NoRootAssumption DEF Owners, TypeOK
<1>d. /\ Owners(d) \subseteq Places /\ IsFiniteSet(Owners(d))
      /\ Cardinality(Owners(d)) = count[d] /\ count[d] \in Nat
      /\ Cardinality(Owners(d) \ {p}) = count[d] - 1
  <2>1. Owners(d) \subseteq Places BY DEF Owners
  <2>2. IsFiniteSet(Owners(d)) BY <2>1, CountBounded
  <2> QED BY <1>a, <1>c, <2>1, <2>2, FS_RemoveElement, FS_CardinalityType DEF Counted
<1>e. last <=> Owners(d)' = {}
  <2>1. IsFiniteSet(Owners(d) \ {p}) BY <1>d, FS_RemoveElement
  <2>2. Cardinality(Owners(d) \ {p}) = 0 <=> Owners(d) \ {p} = {} BY <2>1, FS_EmptySet
  <2>3. Cardinality(Owners(d) \ {p}) \in Nat BY <2>1, FS_CardinalityType
  <2> QED BY <1>0, <1>a, <1>c, <1>d, <2>2, <2>3
<1>1. Counted'
  <2>1. ASSUME NEW r \in Roots, r # d PROVE count'[r] = Cardinality(Owners(r)')
    BY <1>b, <1>c, <2>1 DEF Counted, TypeOK
  <2>2. count'[d] = Cardinality(Owners(d)') BY <1>a, <1>b, <1>c, <1>d DEF TypeOK
  <2> QED BY <2>1, <2>2 DEF Counted
<1>2. TypeOK'
  <2>1. call'[t] \in CallType
    BY <1>0, <1>a DEF DropStore, GoTo, TypeOK, CallType
  <2>2. count' \in [Roots -> 0 .. Cardinality(Places)]
    <3>1. \A r \in Roots : Owners(r)' \subseteq Places BY DEF Owners
    <3>2. \A r \in Roots : count'[r] \in 0 .. Cardinality(Places)
      BY <1>1, <3>1, CountBounded DEF Counted
    <3> QED BY <1>b, <3>2 DEF TypeOK
  <2>3. lock' \in [Roots -> Threads \cup {None}] BY <1>b DEF TypeOK
  <2> QED BY <1>b, <2>1, <2>2, <2>3 DEF DropStore, GoTo, TypeOK, CallType
<1>3. Alive' BY <1>b DEF Alive, TypeOK
<1>4. Calls'
  <2>0. \A q \in Places : owns'[q] = owns[q] \/ owns'[q] = NoRoot BY <1>b DEF TypeOK
  <2>1. CallOK(t)'
    <3>1. DropsOwn(call[t], t)'
      <4>1. last => \A q \in Places : owns'[q] # d BY <1>e DEF Owners
      <4> QED BY <1>a, <1>b, <4>1 DEF DropsOwn, TypeOK
    <3>2. TakesHeld(call[t], t)'
      BY <1>a, <1>b, <2>0, NoRootAssumption DEF Calls, CallOK, TakesHeld, TypeOK
    <3> QED BY <1>a, <1>b, <3>1, <3>2 DEF Calls, CallOK
  <2>2. ASSUME NEW u \in Threads, u # t PROVE CallOK(u)'
    <3>1. \A s \in Roots : lock[s] = u => s # d /\ lock'[s] = u /\ count'[s] = count[s]
      BY <1>a, <1>b, <2>2 DEF TypeOK
    <3>2. /\ call[u].part \in {"dropStore", "delete"} => call[u].drop \in Roots
          /\ call[u].part = "addStore" => call[u].take \in Roots
      BY DEF Calls, CallOK, DropsOwn, TakesHeld, TypeOK
    <3>3. p # call[u].to /\ p # call[u].from BY <1>0, <1>a, <2>2 DEF Pairs, PairOK
    <3>4. call[u].part # "idle" => call[u].to \in Places BY DEF Calls, CallOK
    <3>5. call[u] = call'[u] BY <1>b, <2>2
    <3>6. DropsOwn(call[u], u)'
      BY <1>b, <2>0, <3>1, <3>2, <3>3, <3>4, <3>5, NoRootAssumption
      DEF Calls, CallOK, DropsOwn, TypeOK
    <3>7. TakesHeld(call[u], u)'
      BY <1>b, <2>0, <3>1, <3>2, <3>3, <3>5, NoRootAssumption
      DEF Calls, CallOK, TakesHeld, TypeOK
    <3> QED BY <3>5, <3>6, <3>7 DEF Calls, CallOK
  <2> QED BY <2>1, <2>2 DEF Calls
<1>5. Pairs' BY <1>0, <1>a, <1>b, PairsKept
<1>6. FreshKept'
  <2>1. \A u \in Threads : call[u].op = "new" => call[u].take # d
    BY <1>a DEF Calls, CallOK, TakesHeld
  <2> QED BY <1>b, <2>1 DEF FreshKept
<1>7. Rest'
  BY <1>0, <1>a, <1>b DEF Rest, Unwritten, TypeOK
<1>8. LastOneDeletes'
  <2>1. ASSUME NEW r \in made \ freed, NEW q \in Places, owns[q] = r, r # d
        PROVE  owns'[q] = r
    BY <1>a, <1>b, <2>1 DEF TypeOK
  <2>2. ~last => \E q \in Places : owns'[q] = d BY <1>e DEF Owners
  <2>3. last => call'[t].part = "delete" /\ call'[t].drop = d BY <1>b
  <2>4. \A u \in Threads : /\ call'[u].op = call[u].op /\ call'[u].take = call[u].take
                           /\ call[u].part = "delete" =>
                                call'[u].part = "delete" /\ call'[u].drop = call[u].drop
    BY <1>a, <1>b
  <2> QED BY <1>b, <2>1, <2>2, <2>3, <2>4 DEF LastOneDeletes
<1> QED BY <1>1, <1>2, <1>3, <1>4, <1>5, <1>6, <1>7, <1>8

\* What is deleted is held by nobody, and taken by nobody.
LEMMA DeleteKeeps == ASSUME IInv, NEW t \in Threads, Delete(t) PROVE IInv'
<1> USE DEF IInv
<1>0. PICK d : d = call[t].drop OBVIOUS
<1>a. /\ call[t].part = "delete" /\ d \in made \ freed /\ lock[d] = t
      /\ \A p \in Places : owns[p] # d
      /\ call[t].to \in Places /\ owns[call[t].to] = NoRoot
  BY <1>0 DEF Delete, At, Calls, CallOK, DropsOwn
<1>b. /\ call'[t] = [call[t] EXCEPT !.part = "move"]
      /\ call'[t].op = call[t].op /\ call'[t].to = call[t].to /\ call'[t].from = call[t].from
      /\ call'[t].take = call[t].take /\ call'[t].part = "move"
      /\ \A u \in Threads : u # t => call'[u] = call[u]
      /\ freed' = freed \cup {d}
      /\ UNCHANGED <<root, ptr, count, lock, made, owns>>
  BY <1>0 DEF Delete, GoTo, TypeOK
<1>1. TypeOK'
  <2>1. call[t] \in CallType BY DEF TypeOK, CallType
  <2>2. call'[t] \in CallType BY <1>b, <2>1 DEF CallType
  <2> QED BY <1>a, <1>b, <2>2 DEF Delete, GoTo, TypeOK, CallType
<1>2. Counted' /\ Alive' BY <1>a, <1>b DEF Counted, Owners, Alive
<1>3. Calls'
  <2>1. \A u \in Threads : call[u].op = "new" => call[u].take # d
    BY <1>0, <1>a DEF FreshKept
  <2>2. CallOK(t)'
    BY <1>a, <1>b, <2>1 DEF Calls, CallOK, DropsOwn, TakesHeld
  <2>3. ASSUME NEW u \in Threads, u # t PROVE CallOK(u)'
    <3>1. call[u].part = "delete" => call[u].drop # d
      BY <1>a, <2>3 DEF Calls, CallOK, DropsOwn
    <3> QED BY <1>a, <1>b, <2>1, <2>3, <3>1 DEF Calls, CallOK, DropsOwn, TakesHeld
  <2> QED BY <2>2, <2>3 DEF Calls
<1>4. Pairs' BY <1>a, <1>b, PairsKept
<1>5. FreshKept'
  <2>1. \A u \in Threads : /\ call'[u].op = call[u].op /\ call'[u].take = call[u].take
                           /\ call'[u].part = "delete" => u # t
    BY <1>b
  <2> QED BY <1>b, <2>1 DEF FreshKept
<1>6. Rest'
  <2>1. \A u \in Threads : call'[u].to = call[u].to BY <1>b
  <2> QED BY <1>b, <2>1 DEF Rest, Unwritten
<1>7. LastOneDeletes'
  <2>1. \A u \in Threads : /\ call'[u].op = call[u].op /\ call'[u].take = call[u].take
                           /\ call[u].part = "delete" /\ call[u].drop # d =>
                                call'[u].part = "delete" /\ call'[u].drop = call[u].drop
    BY <1>0, <1>b
  <2> QED BY <1>b, <2>1 DEF LastOneDeletes
<1> QED BY <1>1, <1>2, <1>3, <1>4, <1>5, <1>6, <1>7

\* A new root pointer: attach() takes the source's reference along, the others
\* still have theirs to count.
LEMMA MoveKeeps == ASSUME IInv, NEW t \in Threads, Move(t) PROVE IInv'
<1> USE DEF IInv
<1>0. PICK p, q, r : p = call[t].to /\ q = call[t].from /\ r = call[t].take OBVIOUS
<1>a. /\ call[t].part = "move" /\ p \in Places /\ r \in Roots \cup {NoRoot}
      /\ owns[p] = NoRoot /\ p # q /\ call[t].op # "none"
      /\ call[t].op \in {"copy", "detach", "attach"} => q \in Places /\ owns[q] = r
      /\ call[t].op = "attach" => q \in Raws
  BY <1>0 DEF Move, At, Calls, CallOK, DropsOwn, TakesHeld, TypeOK
<1>b. /\ root'[p] = r /\ (r # NoRoot => ptr'[p] = r)
      /\ \A h \in Places : h # p => ptr'[h] = ptr[h] /\ (h # q => root'[h] = root[h])
      /\ \A h \in Places : h # p => root'[h] = root[h] \/ (call[t].op = "attach" /\ h = q)
      /\ root' \in [Places -> Roots \cup {NoRoot}] /\ ptr' \in [Places -> Roots \cup {NoRoot}]
      /\ UNCHANGED <<count, lock, made, freed>>
      /\ \A u \in Threads : u # t => call'[u] = call[u]
  <2>1. /\ UNCHANGED <<count, lock, made, freed>>
        /\ \A u \in Threads : u # t => call'[u] = call[u]
    BY DEF Move, TypeOK
  <2>2. ptr' = [ptr EXCEPT ![p] = r] \/ (ptr' = ptr /\ r = NoRoot)
    BY <1>0 DEF Move
  <2>3. \/ root' = [root EXCEPT ![p] = r]
        \/ /\ root' = [root EXCEPT ![p] = r, ![q] = NoRoot]
           /\ call[t].op = "attach" /\ q \in Places
    BY <1>0, <1>a DEF Move
  <2>4. root \in [Places -> Roots \cup {NoRoot}] /\ ptr \in [Places -> Roots \cup {NoRoot}]
    BY DEF TypeOK
  <2> HIDE DEF IInv
  <2>5. /\ r # NoRoot => ptr'[p] = r
        /\ \A h \in Places : h # p => ptr'[h] = ptr[h]
        /\ ptr' \in [Places -> Roots \cup {NoRoot}]
    BY <1>a, <2>2, <2>4
  <2>6. /\ root'[p] = r /\ root' \in [Places -> Roots \cup {NoRoot}]
        /\ \A h \in Places : h # p =>
             root'[h] = root[h] \/ (call[t].op = "attach" /\ h = q)
    <3>1. CASE root' = [root EXCEPT ![p] = r] BY <1>a, <2>4, <3>1
    <3>2. CASE root' # [root EXCEPT ![p] = r] BY <1>a, <2>3, <2>4, <3>2
    <3> QED BY <3>1, <3>2
  <2> QED BY <2>1, <2>5, <2>6
<1>1. CASE call[t].op = "attach"
  <2>a. /\ owns' = [owns EXCEPT ![p] = r, ![q] = NoRoot] /\ root'[q] = NoRoot
        /\ call'[t] = NoCall /\ call' = [call EXCEPT ![t] = NoCall]
        /\ q \in Places /\ owns[q] = r
    BY <1>0, <1>a, <1>1 DEF Move, TypeOK
  <2>b. /\ owns'[p] = r /\ owns'[q] = NoRoot
        /\ \A h \in Places : h # p /\ h # q => owns'[h] = owns[h]
    BY <1>a, <2>a DEF TypeOK
  <2>1. TypeOK'
    <3>1. NoCall \in CallType BY DEF NoCall, CallType
    <3> QED BY <1>a, <1>b, <2>a, <3>1 DEF TypeOK, CallType
  <2>2. Counted'
    <3>1. ASSUME NEW s \in Roots PROVE count[s] = Cardinality(Owners(s)')
      <4>1. CASE s # r
        <5>1. Owners(s)' = Owners(s)
          BY <1>a, <2>a, <2>b, <4>1, NoRootAssumption DEF Owners
        <5> QED BY <5>1 DEF Counted
      <4>2. CASE s = r
        <5>1. /\ Owners(s)' = (Owners(s) \ {q}) \cup {p}
              /\ q \in Owners(s) /\ p \notin Owners(s)
          BY <1>a, <2>a, <2>b, <4>2, NoRootAssumption DEF Owners
        <5>2. IsFiniteSet(Owners(s)) /\ Cardinality(Owners(s)) \in Nat
          BY CountBounded, FS_CardinalityType DEF Owners
        <5>3. /\ IsFiniteSet(Owners(s) \ {q})
              /\ Cardinality(Owners(s) \ {q}) = Cardinality(Owners(s)) - 1
          BY <5>1, <5>2, FS_RemoveElement
        <5>4. Cardinality((Owners(s) \ {q}) \cup {p}) = Cardinality(Owners(s) \ {q}) + 1
          BY <5>1, <5>3, FS_AddElement
        <5> QED BY <5>1, <5>2, <5>3, <5>4 DEF Counted
      <4> QED BY <4>1, <4>2
    <3> QED BY <1>b, <3>1 DEF Counted
  <2>3. Alive' BY <1>a, <1>b, <2>a, <2>b DEF Alive
  <2>4. Calls'
    <3>1. CallOK(t)' BY <2>a, NoneAssumption DEF CallOK, DropsOwn, TakesHeld, NoCall, Places
    <3>2. ASSUME NEW u \in Threads, u # t PROVE CallOK(u)'
      <4>1. /\ p # call[u].to /\ p # call[u].from /\ q # call[u].from
            /\ call[u].part # "idle" => q # call[u].to
        BY <1>0, <1>1, <1>a, <3>2 DEF Pairs, PairOK
      <4>2. call[u].part # "idle" => call[u].to \in Places BY DEF Calls, CallOK
      <4>3. \A s : (\A h \in Places : owns[h] # s) =>
                     (s = NoRoot \/ \A h \in Places : owns'[h] # s)
        BY <1>a, <2>a, <2>b
      <4>4. NoRoot \notin made BY NoRootAssumption DEF TypeOK
      <4>5. call'[u] = call[u] BY <1>b, <3>2
      <4>6. DropsOwn(call[u], u)'
        BY <1>b, <2>b, <4>1, <4>2, <4>3, <4>4, <4>5 DEF Calls, CallOK, DropsOwn
      <4>7. TakesHeld(call[u], u)'
        <5>1. call[u].part \in {"add", "addStore"} =>
                root'[call[u].to] = root[call[u].to] /\ ptr'[call[u].to] = ptr[call[u].to]
          BY <1>b, <4>1, <4>2
        <5> QED BY <1>b, <2>b, <4>1, <4>3, <4>4, <4>5, <5>1 DEF Calls, CallOK, TakesHeld
      <4> QED BY <4>5, <4>6, <4>7 DEF Calls, CallOK
    <3> QED BY <3>1, <3>2 DEF Calls
  <2>5. Pairs' BY <1>a, <1>b, <2>a, PairsKept
  <2>6. FreshKept' BY <1>b, <2>a DEF FreshKept, NoCall
  <2>7. Rest'
    <3>1. ASSUME NEW h \in Places, Unwritten(h)', h # p, h # q PROVE Unwritten(h)
      BY <1>0, <1>b, <3>1 DEF Unwritten
    <3>2. ASSUME NEW h \in Places, Unwritten(h)', h # p, h # q
          PROVE  root'[h] = owns'[h] /\ (root'[h] # NoRoot => ptr'[h] = owns'[h])
      BY <1>b, <2>b, <3>1, <3>2 DEF Rest
    <3> QED BY <1>a, <1>b, <2>a, <2>b, <3>2 DEF Rest
  <2>8. LastOneDeletes'
    <3>1. \A s \in Roots : (\E h \in Places : owns[h] = s) => \E h \in Places : owns'[h] = s
      BY <1>a, <2>a, <2>b, NoRootAssumption
    <3>2. made' \ freed' \subseteq Roots BY <1>b DEF TypeOK
    <3>3. call[t].op # "new" /\ call[t].part # "delete" BY <1>1, <1>a
    <3> QED BY <1>b, <3>1, <3>2, <3>3 DEF LastOneDeletes
  <2> QED BY <2>1, <2>2, <2>3, <2>4, <2>5, <2>6, <2>7, <2>8
<1>2. CASE call[t].op # "attach"
  <2>a. /\ owns' = owns /\ \A h \in Places : h # p => root'[h] = root[h]
        /\ \/ r = NoRoot /\ call'[t] = NoCall /\ call' = [call EXCEPT ![t] = NoCall]
           \/ /\ r # NoRoot /\ call'[t] = [call[t] EXCEPT !.part = "add"]
              /\ call' = [call EXCEPT ![t] = [call[t] EXCEPT !.part = "add"]]
              /\ call'[t].part = "add" /\ call'[t].op = call[t].op
              /\ call'[t].to = p /\ call'[t].from = q /\ call'[t].take = r
    <3>1. owns' = owns /\ (r = NoRoot => call' = [call EXCEPT ![t] = NoCall])
          /\ (r # NoRoot => call' = [call EXCEPT ![t] = [call[t] EXCEPT !.part = "add"]])
      BY <1>0, <1>2 DEF Move
    <3>2. call[t] \in CallType /\ call \in [Threads -> CallType] BY DEF TypeOK, CallType
    <3>3. CASE r = NoRoot BY <1>b, <1>2, <3>1, <3>2, <3>3
    <3>4. CASE r # NoRoot BY <1>0, <1>b, <1>2, <3>1, <3>2, <3>4 DEF CallType
    <3> QED BY <3>3, <3>4
  <2>1. TypeOK'
    <3>1. NoCall \in CallType BY DEF NoCall, CallType
    <3>2. call[t] \in CallType BY DEF TypeOK, CallType
    <3>3. call'[t] \in CallType BY <2>a, <3>1, <3>2 DEF CallType
    <3> QED BY <1>b, <2>a, <3>3 DEF TypeOK, CallType
  <2>2. Counted' /\ Alive' BY <1>b, <2>a DEF Counted, Owners, Alive
  <2>3. Calls'
    <3>1. CallOK(t)'
      <4>1. CASE r = NoRoot
        BY <2>a, <4>1, NoneAssumption DEF CallOK, DropsOwn, TakesHeld, NoCall, Places
      <4>2. CASE r # NoRoot
        BY <1>0, <1>2, <1>a, <1>b, <2>a, <4>2 DEF Calls, CallOK, DropsOwn, TakesHeld
      <4> QED BY <4>1, <4>2
    <3>2. ASSUME NEW u \in Threads, u # t PROVE CallOK(u)'
      <4>1. p # call[u].to BY <1>0, <1>a, <3>2 DEF Pairs, PairOK
      <4>2. call[u].part # "idle" => call[u].to \in Places BY DEF Calls, CallOK
      <4> QED BY <1>b, <2>a, <3>2, <4>1, <4>2 DEF Calls, CallOK, DropsOwn, TakesHeld
    <3> QED BY <3>1, <3>2 DEF Calls
  <2>4. Pairs' BY <1>0, <1>a, <1>b, <2>a, PairsKept
  <2>5. FreshKept' BY <1>0, <1>b, <2>a DEF FreshKept, NoCall
  <2>6. Rest'
    BY <1>0, <1>a, <1>b, <2>a DEF Rest, Unwritten
  <2>7. LastOneDeletes'
    <3>1. call[t].op = "new" => r # NoRoot
      BY <1>0, NoRootAssumption DEF Calls, CallOK, TakesHeld, TypeOK
    <3> QED BY <1>0, <1>a, <1>b, <2>a, <3>1 DEF LastOneDeletes
  <2> QED BY <2>1, <2>2, <2>3, <2>4, <2>5, <2>6, <2>7
<1> QED BY <1>1, <1>2

\* The counter goes up with the target's new reference.
LEMMA AddStoreKeeps == ASSUME IInv, NEW t \in Threads, AddStore(t) PROVE IInv'
<1> USE DEF IInv
<1>0. PICK p, r : p = call[t].to /\ r = call[t].take OBVIOUS
<1>a. /\ call[t].part = "addStore" /\ p \in Places /\ r \in Roots /\ r \in made \ freed
      /\ owns[p] = NoRoot /\ lock[r] = t /\ call[t].n = count[r]
      /\ root[p] = r /\ ptr[p] = r
  BY <1>0 DEF AddStore, At, Calls, CallOK, DropsOwn, TakesHeld, TypeOK, Alive
<1>b. /\ count' = [count EXCEPT ![r] = count[r] + 1]
      /\ lock' = [lock EXCEPT ![r] = None] /\ owns' = [owns EXCEPT ![p] = r]
      /\ call' = [call EXCEPT ![t] = NoCall] /\ call'[t] = NoCall
      /\ \A u \in Threads : u # t => call'[u] = call[u]
      /\ UNCHANGED <<root, ptr, made, freed>>
  BY <1>0, <1>a DEF AddStore, TypeOK
<1>c. owns'[p] = r /\ \A h \in Places : h # p => owns'[h] = owns[h]
  BY <1>a, <1>b DEF TypeOK
<1>1. Counted'
  <2>1. ASSUME NEW s \in Roots, s # r PROVE count'[s] = Cardinality(Owners(s)')
    <3>1. Owners(s)' = Owners(s) BY <1>a, <1>c, <2>1, NoRootAssumption DEF Owners
    <3> QED BY <1>b, <2>1, <3>1 DEF Counted, TypeOK
  <2>2. count'[r] = Cardinality(Owners(r)')
    <3>1. Owners(r)' = Owners(r) \cup {p} /\ p \notin Owners(r)
      BY <1>a, <1>c, NoRootAssumption DEF Owners
    <3>2. IsFiniteSet(Owners(r)) BY CountBounded DEF Owners
    <3>3. Cardinality(Owners(r) \cup {p}) = Cardinality(Owners(r)) + 1
      BY <3>1, <3>2, FS_AddElement
    <3> QED BY <1>a, <1>b, <3>1, <3>3 DEF Counted, TypeOK
  <2> QED BY <2>1, <2>2 DEF Counted
<1>2. TypeOK'
  <2>1. NoCall \in CallType BY DEF NoCall, CallType
  <2>2. count' \in [Roots -> 0 .. Cardinality(Places)]
    <3>1. \A s \in Roots : Owners(s)' \subseteq Places BY DEF Owners
    <3>2. \A s \in Roots : count'[s] \in 0 .. Cardinality(Places)
      BY <1>1, <3>1, CountBounded DEF Counted
    <3> QED BY <1>b, <3>2 DEF TypeOK
  <2> QED BY <1>a, <1>b, <2>1, <2>2 DEF TypeOK, CallType
<1>3. Alive' BY <1>a, <1>b, <1>c DEF Alive
<1>4. Calls'
  <2>1. CallOK(t)' BY <1>b, NoneAssumption DEF CallOK, DropsOwn, TakesHeld, NoCall, Places
  <2>2. ASSUME NEW u \in Threads, u # t PROVE CallOK(u)'
    <3>1. \A s \in Roots : lock[s] = u => s # r /\ lock'[s] = u /\ count'[s] = count[s]
      BY <1>a, <1>b, <2>2 DEF TypeOK
    <3>2. /\ call[u].part \in {"dropStore", "delete"} => call[u].drop \in Roots
          /\ call[u].part = "addStore" => call[u].take \in Roots
      BY DEF Calls, CallOK, DropsOwn, TakesHeld, TypeOK
    <3>3. p # call[u].to /\ p # call[u].from BY <1>0, <1>a, <2>2 DEF Pairs, PairOK
    <3>4. call[u].part # "idle" => call[u].to \in Places BY DEF Calls, CallOK
    <3>5. call'[u] = call[u] BY <1>b, <2>2
    <3>6. call[u].part = "delete" => call[u].drop # r
      BY <1>a, <2>2 DEF Calls, CallOK, DropsOwn
    <3>7. call[u].op = "new" => call[u].take # r
      <4>1. CASE call[t].op = "new" BY <1>0, <2>2, <4>1 DEF Pairs, PairOK
      <4>2. CASE call[t].op # "new"
        <5>1. call[t].from \in Places /\ owns[call[t].from] = r
          BY <1>0, <1>a, <4>2, NoRootAssumption DEF Calls, CallOK, TakesHeld, TypeOK
        <5> QED BY <5>1 DEF Calls, CallOK, TakesHeld
      <4> QED BY <4>1, <4>2
    <3>8. DropsOwn(call[u], u)'
      BY <1>b, <1>c, <3>1, <3>2, <3>3, <3>4, <3>5, <3>6 DEF Calls, CallOK, DropsOwn
    <3>9. TakesHeld(call[u], u)'
      BY <1>b, <1>c, <3>1, <3>2, <3>3, <3>5, <3>7 DEF Calls, CallOK, TakesHeld
    <3> QED BY <3>5, <3>8, <3>9 DEF Calls, CallOK
  <2> QED BY <2>1, <2>2 DEF Calls
<1>5. Pairs' BY <1>a, <1>b, PairsKept
<1>6. FreshKept' BY <1>b DEF FreshKept, NoCall
<1>7. Rest' BY <1>0, <1>a, <1>b, <1>c DEF Rest, Unwritten
<1>8. LastOneDeletes'
  <2>1. \A s \in Roots : (\E h \in Places : owns[h] = s) => \E h \in Places : owns'[h] = s
    BY <1>a, <1>c, NoRootAssumption
  <2>2. made' \ freed' \subseteq Roots BY <1>b DEF TypeOK
  <2> QED BY <1>0, <1>a, <1>b, <1>c, <2>1, <2>2 DEF LastOneDeletes
<1> QED BY <1>1, <1>2, <1>3, <1>4, <1>5, <1>6, <1>7, <1>8

-----------------------------------------------------------------------------
LEMMA StepKeeps == ASSUME IInv, NEW t \in Threads, Step(t) PROVE IInv'
<1>1. CASE DropLock(t)
  <2>1. call[t].drop \in Roots BY <1>1 DEF DropLock, At, IInv, TypeOK, Calls, CallOK, DropsOwn
  <2> QED BY <1>1, <2>1, LockedKeeps DEF DropLock, At
<1>2. CASE AddLock(t)
  <2>1. call[t].take \in Roots BY <1>2 DEF AddLock, At, IInv, TypeOK, Calls, CallOK, TakesHeld
  <2> QED BY <1>2, <2>1, LockedKeeps DEF AddLock, At
<1> QED BY <1>1, <1>2, DropStoreKeeps, DeleteKeeps, MoveKeeps, AddStoreKeeps DEF Step

\* The inductive invariant: the counters count, and whoever takes has a holder.
THEOREM Invariant == Spec => []IInv
<1>1. IInv /\ [Next]_vars => IInv'
  <2>1. ASSUME IInv, UNCHANGED vars PROVE IInv'
    BY <2>1 DEF vars, IInv, TypeOK, Counted, Owners, Alive, Calls, CallOK, DropsOwn,
                TakesHeld, Pairs, PairOK, FreshKept, Rest, Unwritten, LastOneDeletes
  <2> QED BY <2>1, StartKeeps, StepKeeps DEF Next
<1> QED BY <1>1, Initially, PTL DEF Spec

\* The counters stay between none and all of the places (SmartPointer.h:48-78).
THEOREM TypeCorrect == Spec => []TypeOK
<1>1. IInv => TypeOK BY DEF IInv
<1> QED BY <1>1, Invariant, PTL

\* What is about to be used is what is held or made, hence not deleted.
LEMMA UsesAlive == ASSUME IInv, NEW t \in Threads PROVE Uses(call[t]) \notin freed
<1> USE DEF IInv
<1>1. NoRoot \notin freed BY NoRootAssumption DEF TypeOK
<1>2. CASE call[t].part \in {"drop", "dropStore", "delete"}
  <2>1. call[t].drop \notin freed
    BY <1>1, <1>2 DEF Calls, CallOK, DropsOwn, Alive
  <2> QED BY <1>2, <2>1 DEF Uses
<1>3. CASE call[t].part \in {"move", "add", "addStore"}
  <2>1. call[t].take \notin freed
    BY <1>1, <1>3 DEF Calls, CallOK, TakesHeld, Alive, TypeOK
  <2> QED BY <1>3, <2>1 DEF Uses
<1> QED BY <1>1, <1>2, <1>3 DEF Uses

\* No use after deletion, whatever the threads drop and copy (SmartPointer.h:48-78).
THEOREM HeldIsAliveHolds == Spec => []HeldIsAlive
<1>1. IInv => HeldIsAlive
  <2>1. ASSUME IInv PROVE \A p \in Places : owns[p] \notin freed
    BY <2>1, NoRootAssumption DEF IInv, Alive, TypeOK
  <2>2. ASSUME IInv, NEW h \in Handles, Unwritten(h), root[h] # NoRoot
        PROVE  root[h] = owns[h] /\ ptr[h] = owns[h]
    BY <2>2 DEF IInv, Rest, Places
  <2> QED BY <2>1, <2>2, UsesAlive DEF HeldIsAlive
<1> QED BY <1>1, Invariant, PTL

\* No leak: the last one to let go deletes (SmartPointer.h:66-72).
THEOREM LastOneDeletesHolds == Spec => []LastOneDeletes
<1>1. IInv => LastOneDeletes BY DEF IInv
<1> QED BY <1>1, Invariant, PTL

-----------------------------------------------------------------------------
\* The deleted roots of the abstract specification.
Deleted == freed \cup {call[t].drop : t \in {u \in Threads : At(u, "delete")}}

\* Steps that neither begin nor end a deletion leave Deleted alone.
LEMMA DeletedKept ==
  ASSUME NEW t \in Threads, freed' = freed, call[t].part # "delete", call'[t].part # "delete",
         \A u \in Threads : u # t => call'[u] = call[u]
  PROVE  Deleted' = Deleted
BY DEF Deleted, At

LEMMA StartRefines ==
  ASSUME IInv, NEW t \in Threads, Start(t) PROVE UNCHANGED <<owns, count, Deleted>>
<1>1. /\ call[t].part = "idle" /\ UNCHANGED <<freed, owns, count>>
      /\ \E part \in {"drop", "move"} : call'[t].part = part
      /\ \A u \in Threads : u # t => call'[u] = call[u]
  BY DEF Start, FromObject, Copy, Destroy, Detach, Attach, Begin, IInv, TypeOK
<1> QED BY <1>1, DeletedKept

LEMMA LockRefines ==
  ASSUME IInv, NEW t \in Threads, DropLock(t) \/ AddLock(t)
  PROVE  UNCHANGED <<owns, count, Deleted>>
<1>1. /\ call[t].part # "delete" /\ UNCHANGED <<freed, owns, count>>
      /\ call'[t].part # "delete"
      /\ \A u \in Threads : u # t => call'[u] = call[u]
  BY DEF DropLock, AddLock, Locked, At, IInv, TypeOK
<1> QED BY <1>1, DeletedKept

\* The deletion itself happens where the last reference goes.
LEMMA DropStoreRefines ==
  ASSUME IInv, NEW t \in Threads, DropStore(t) PROVE \E p \in Places : NTS!DelRef(p)
<1>0. PICK d, p, n : d = call[t].drop /\ p = call[t].to /\ n = call[t].n OBVIOUS
<1>1. /\ call[t].part = "dropStore" /\ owns[p] = d /\ d # NoRoot /\ d \in Roots
      /\ p \in Places /\ n = count[d] /\ count[d] \in Int
  BY <1>0 DEF DropStore, At, IInv, Calls, CallOK, DropsOwn, TypeOK
<1>2. /\ call'[t].drop = d
      /\ \/ n <= 1 /\ call'[t].part = "delete"
         \/ ~(n <= 1) /\ call'[t].part = "move"
      /\ \A u \in Threads : u # t => call'[u] = call[u]
      /\ owns' = [owns EXCEPT ![p] = NoRoot] /\ freed' = freed
      /\ count' = [count EXCEPT ![d] = count[d] - 1]
  BY <1>0, <1>1 DEF DropStore, GoTo, IInv, TypeOK
<1>3. Deleted' = IF n <= 1 THEN Deleted \cup {d} ELSE Deleted
  <2>1. CASE n <= 1 BY <1>1, <1>2, <2>1 DEF Deleted, At
  <2>2. CASE ~(n <= 1)
    <3>1. call[t].part # "delete" /\ call'[t].part # "delete" BY <1>1, <1>2, <2>2
    <3> QED BY <1>2, <2>2, <3>1, DeletedKept
  <2> QED BY <2>1, <2>2
<1>4. NTS!DelRef(p) BY <1>0, <1>1, <1>2, <1>3 DEF NTS!DelRef, Deleted
<1> QED BY <1>1, <1>4

LEMMA DeleteRefines ==
  ASSUME IInv, NEW t \in Threads, Delete(t) PROVE UNCHANGED <<owns, count, Deleted>>
<1>1. /\ call[t].part = "delete" /\ call'[t].part = "move"
      /\ freed' = freed \cup {call[t].drop} /\ UNCHANGED <<owns, count>>
      /\ \A u \in Threads : u # t => call'[u] = call[u]
  BY DEF Delete, At, GoTo, IInv, TypeOK
<1> QED BY <1>1 DEF Deleted, At

LEMMA MoveRefines ==
  ASSUME IInv, NEW t \in Threads, Move(t)
  PROVE  \/ UNCHANGED <<owns, count, Deleted>>
         \/ \E p, q \in Places : p # q /\ NTS!TakeOver(p, q)
<1>1. /\ call[t].part = "move" /\ UNCHANGED <<freed, count>>
      /\ call'[t].part \in {"idle", "add"}
      /\ \A u \in Threads : u # t => call'[u] = call[u]
  BY DEF Move, At, NoCall, IInv, TypeOK
<1>2. Deleted' = Deleted BY <1>1, DeletedKept
<1>3. CASE call[t].op # "attach" BY <1>1, <1>2, <1>3 DEF Move
<1>4. CASE call[t].op = "attach"
  <2>0. PICK p, q : p = call[t].to /\ q = call[t].from OBVIOUS
  <2>1. /\ p \in Places /\ q \in Places /\ p # q
        /\ owns[p] = NoRoot /\ owns[q] = call[t].take
    BY <1>1, <1>4, <2>0 DEF IInv, Calls, CallOK, DropsOwn, TakesHeld
  <2>2. owns' = [owns EXCEPT ![p] = owns[q], ![q] = NoRoot] BY <1>4, <2>0, <2>1 DEF Move
  <2> QED BY <1>1, <1>2, <2>1, <2>2 DEF NTS!TakeOver, Deleted
<1> QED BY <1>3, <1>4

LEMMA AddStoreRefines ==
  ASSUME IInv, NEW t \in Threads, AddStore(t)
  PROVE  NTS!AddRef(call[t].to, call[t].take)
<1>0. PICK p, r : p = call[t].to /\ r = call[t].take OBVIOUS
<1>1. /\ call[t].part = "addStore" /\ owns[p] = NoRoot /\ call[t].n = count[r]
  BY <1>0 DEF AddStore, At, IInv, Calls, CallOK, DropsOwn, TakesHeld
<1>2. \A u \in Threads : call[u].part = "delete" => call[u].drop # r
  <2>1. CASE call[t].op = "new" BY <1>0, <2>1 DEF IInv, FreshKept
  <2>2. CASE call[t].op # "new"
    <3>1. call[t].from \in Places /\ owns[call[t].from] = r
      BY <1>0, <1>1, <2>2 DEF IInv, Calls, CallOK, TakesHeld, TypeOK
    <3> QED BY <3>1 DEF IInv, Calls, CallOK, DropsOwn
  <2> QED BY <2>1, <2>2
<1>3. r \notin Deleted BY <1>0, <1>1, <1>2, UsesAlive DEF Uses, Deleted, At
<1>4. /\ call'[t].part # "delete" /\ UNCHANGED freed
      /\ \A u \in Threads : u # t => call'[u] = call[u]
  BY DEF AddStore, NoCall, IInv, TypeOK
<1>5. Deleted' = Deleted BY <1>1, <1>4, DeletedKept
<1> QED BY <1>0, <1>1, <1>3, <1>5 DEF NTS!AddRef, Deleted, AddStore

LEMMA StepRefines ==
  ASSUME IInv, [Next]_vars
  PROVE  NTS!Next \/ UNCHANGED NTS!ntsVars
<1>1. ASSUME UNCHANGED vars PROVE UNCHANGED NTS!ntsVars
  BY <1>1 DEF vars, NTS!ntsVars, At
<1>2. ASSUME NEW t \in Threads, Start(t) \/ DropLock(t) \/ AddLock(t) \/ Delete(t)
      PROVE  UNCHANGED NTS!ntsVars
  BY <1>2, StartRefines, LockRefines, DeleteRefines DEF NTS!ntsVars, Deleted
<1>3. ASSUME NEW t \in Threads, DropStore(t) PROVE NTS!Next
  BY <1>3, DropStoreRefines DEF NTS!Next
<1>4. ASSUME NEW t \in Threads, AddStore(t) PROVE NTS!Next
  <2>1. call[t].to \in Places /\ call[t].take \in Roots
    BY <1>4 DEF AddStore, At, IInv, TypeOK, Calls, CallOK, TakesHeld
  <2> QED BY <1>4, <2>1, AddStoreRefines DEF NTS!Next
<1>5. ASSUME NEW t \in Threads, Move(t) PROVE NTS!Next \/ UNCHANGED NTS!ntsVars
  BY <1>5, MoveRefines DEF NTS!Next, NTS!ntsVars, Deleted
<1> QED BY <1>1, <1>2, <1>3, <1>4, <1>5 DEF Next, Step

\* With its lock the class does for several threads what SmartPointerNTS does for
\* one (SmartPointer.h:48-78, SmartPointerNTS.h:43-69).
THEOREM ImplementsNTSHolds == Spec => ImplementsNTS
<1>1. Init => NTS!Init BY DEF Init, NTS!Init, At, NoCall
<1>2. IInv /\ [Next]_vars => [NTS!Next]_(NTS!ntsVars) BY StepRefines
<1> QED BY <1>1, <1>2, Invariant, PTL DEF Spec, ImplementsNTS, NTS!Spec
=============================================================================
