---------------------------- MODULE SmartPointer ----------------------------
(***************************************************************************)
(* JsCPPUtils::SmartPointer (src/JsCPPUtils/SmartPointer.h): shared        *)
(* ownership by a counter in a root object, under the root's own lock.     *)
(* An operation drops the handle's old reference, moves the root pointer   *)
(* and adds a reference to the new root; between these parts, and between  *)
(* load and store of the counter, other threads run.                       *)
(*                                                                         *)
(* A root stands for the root object and for the object it owns.  Handles  *)
(* are the program's SmartPointers, raw pointers what detach() returns.    *)
(* The lock protects the counter, not the handle: as with any variable, a  *)
(* thread does not write a handle that another one uses at the same time.  *)
(* Nor is a handle assigned to itself, which would use the root after the  *)
(* reference to it is dropped.                                             *)
(***************************************************************************)
EXTENDS Integers, FiniteSets

CONSTANTS Threads, Handles, Raws,
          Roots,    \* bound: the objects that are ever made
          NoRoot,   \* a null m_root_smartptr
          None      \* no thread, no place

ASSUME PlacesAssumption == IsFiniteSet(Handles \cup Raws) /\ Handles \cap Raws = {}
ASSUME NoneAssumption == None \notin Threads /\ None \notin Handles \cup Raws
ASSUME NoRootAssumption == NoRoot \notin Roots

VARIABLES
  root,    \* m_root_smartptr of each handle; the value of each raw pointer
  ptr,     \* m_ptr of each handle
  count,   \* m_refCount of each root
  lock,    \* pLock of each root: its owner
  call,    \* the operation each thread is in
  made,    \* the roots that have been made
  freed,   \* the roots that have been deleted
  owns     \* history: the reference each place has been counted for

vars == <<root, ptr, count, lock, call, made, freed, owns>>

Places == Handles \cup Raws

\* An operation: its name, its target, its source, the root it lets go and the
\* one it takes, what comes next, and the value loaded from the counter.
NoCall == [op |-> "none", to |-> None, from |-> None, drop |-> NoRoot, take |-> NoRoot,
           part |-> "idle", n |-> 0]

Init == /\ root = [p \in Places |-> NoRoot]
        /\ ptr = [p \in Places |-> NoRoot]
        /\ count = [r \in Roots |-> 0]
        /\ lock = [r \in Roots |-> None]
        /\ call = [t \in Threads |-> NoCall]
        /\ made = {}
        /\ freed = {}
        /\ owns = [p \in Places |-> NoRoot]

-----------------------------------------------------------------------------
\* The caller's duty: what is written is used by nobody else.
Unused(p) == \A u \in Threads : p # call[u].to /\ p # call[u].from
Unwritten(p) == \A u \in Threads : p # call[u].to

Begin(t, op, to, from, take) ==
  /\ call[t].part = "idle"
  /\ Unused(to)
  /\ call' = [call EXCEPT ![t] = [op |-> op, to |-> to, from |-> from,
                                  drop |-> root[to], take |-> take, n |-> 0,
                                  part |-> IF root[to] = NoRoot THEN "move" ELSE "drop"]]
  /\ UNCHANGED <<root, ptr, count, lock, freed, owns>>

\* SmartPointer(T*) on a handle that was null, operator=(T*) on any.
FromObject(t, h) == \E r \in Roots \ made : /\ Begin(t, "new", h, None, r)
                                            /\ made' = made \cup {r}

\* The copy constructors, by reference or by pointer, and operator=.
Copy(t, h, g) == /\ h # g /\ Unwritten(g)
                 /\ Begin(t, "copy", h, g, root[g])
                 /\ UNCHANGED made

\* ~SmartPointer(); afterwards the handle stands for one not yet made.
Destroy(t, h) == /\ Begin(t, "destroy", h, None, NoRoot)
                 /\ UNCHANGED made

\* detach() into a raw pointer that holds nothing.
Detach(t, k, h) == /\ root[k] = NoRoot /\ Unwritten(h)
                   /\ Begin(t, "detach", k, h, root[h])
                   /\ UNCHANGED made

\* attach() of a raw pointer, which is given up.
Attach(t, h, k) == /\ Unused(k)
                   /\ Begin(t, "attach", h, k, root[k])
                   /\ UNCHANGED made

Start(t) == \/ \E h \in Handles : FromObject(t, h) \/ Destroy(t, h)
            \/ \E h, g \in Handles : Copy(t, h, g)
            \/ \E h \in Handles, k \in Raws : Detach(t, k, h) \/ Attach(t, h, k)

-----------------------------------------------------------------------------
At(t, part) == call[t].part = part
GoTo(t, part) == call' = [call EXCEPT ![t].part = part]

\* lock(), and the load of the counter
Locked(t, r, part) == /\ lock[r] = None
                      /\ lock' = [lock EXCEPT ![r] = t]
                      /\ call' = [call EXCEPT ![t].part = part, ![t].n = count[r]]
                      /\ UNCHANGED <<root, ptr, count, made, freed, owns>>

\* delRef(): lock() ...
DropLock(t) == At(t, "drop") /\ Locked(t, call[t].drop, "dropStore")

\* Mutant: the counter is compared before it is lowered.
DropStorePostDecrement(t) ==
  LET f == call[t]
      last == f.n <= 0
  IN /\ At(t, "dropStore")
     /\ count' = [count EXCEPT ![f.drop] = f.n - 1]
     /\ owns' = [owns EXCEPT ![f.to] = NoRoot]
     /\ lock' = IF last THEN lock ELSE [lock EXCEPT ![f.drop] = None]
     /\ GoTo(t, IF last THEN "delete" ELSE "move")
     /\ UNCHANGED <<root, ptr, made, freed>>

\* ... m_refCount--, and unlock() unless it was the last reference.
DropStore(t) ==
  LET f == call[t]
      last == f.n - 1 <= 0
  IN /\ At(t, "dropStore")
     /\ count' = [count EXCEPT ![f.drop] = f.n - 1]
     /\ owns' = [owns EXCEPT ![f.to] = NoRoot]
     /\ lock' = IF last THEN lock ELSE [lock EXCEPT ![f.drop] = None]
     /\ GoTo(t, IF last THEN "delete" ELSE "move")
     /\ UNCHANGED <<root, ptr, made, freed>>

\* delete m_ptr; delete this: the lock goes with them, still locked.
Delete(t) == /\ At(t, "delete")
             /\ freed' = freed \cup {call[t].drop}
             /\ GoTo(t, "move")
             /\ UNCHANGED <<root, ptr, count, lock, made, owns>>

\* Mutant: attach() adds a reference to the one it is given.
MoveAttachAdds(t) ==
  LET f == call[t]
  IN /\ At(t, "move")
     /\ root' = IF f.op = "attach" THEN [root EXCEPT ![f.to] = f.take, ![f.from] = NoRoot]
                                   ELSE [root EXCEPT ![f.to] = f.take]
     /\ ptr' = IF f.take # NoRoot \/ f.op = "destroy" THEN [ptr EXCEPT ![f.to] = f.take]
                                                      ELSE ptr
     /\ owns' = IF f.op = "attach" THEN [owns EXCEPT ![f.from] = NoRoot] ELSE owns
     /\ call' = [call EXCEPT ![t] = IF f.take = NoRoot THEN NoCall ELSE [f EXCEPT !.part = "add"]]
     /\ UNCHANGED <<count, lock, made, freed>>

\* The root pointer moves, and m_ptr with it, unless the new one is null: then
\* m_ptr stays behind.  attach() is through, as is whoever has no root to add to.
Move(t) ==
  LET f == call[t]
      through == f.take = NoRoot \/ f.op = "attach"
  IN /\ At(t, "move")
     /\ root' = IF f.op = "attach" THEN [root EXCEPT ![f.to] = f.take, ![f.from] = NoRoot]
                                   ELSE [root EXCEPT ![f.to] = f.take]
     /\ ptr' = IF f.take # NoRoot \/ f.op = "destroy" THEN [ptr EXCEPT ![f.to] = f.take]
                                                      ELSE ptr
     /\ owns' = IF f.op = "attach" THEN [owns EXCEPT ![f.to] = f.take, ![f.from] = NoRoot]
                                   ELSE owns
     /\ call' = [call EXCEPT ![t] = IF through THEN NoCall ELSE [f EXCEPT !.part = "add"]]
     /\ UNCHANGED <<count, lock, made, freed>>

\* Mutant: addRef() without its lock().
AddUnlocked(t) == /\ At(t, "add")
                  /\ call' = [call EXCEPT ![t].part = "addStore", ![t].n = count[call[t].take]]
                  /\ UNCHANGED <<root, ptr, count, lock, made, freed, owns>>

\* addRef(): lock() ...
AddLock(t) == At(t, "add") /\ Locked(t, call[t].take, "addStore")

\* ... m_refCount++, unlock()
AddStore(t) == /\ At(t, "addStore")
               /\ count' = [count EXCEPT ![call[t].take] = call[t].n + 1]
               /\ lock' = [lock EXCEPT ![call[t].take] = None]
               /\ owns' = [owns EXCEPT ![call[t].to] = call[t].take]
               /\ call' = [call EXCEPT ![t] = NoCall]
               /\ UNCHANGED <<root, ptr, made, freed>>

Step(t) == \/ DropLock(t) \/ DropStore(t) \/ Delete(t) \/ Move(t)
           \/ AddLock(t) \/ AddStore(t)

Next == \E t \in Threads : Start(t) \/ Step(t)

Spec == Init /\ [][Next]_vars

-----------------------------------------------------------------------------
\* Type invariant: a reference count is the number of places that may hold one.
TypeOK == /\ root \in [Places -> Roots \cup {NoRoot}]
          /\ ptr \in [Places -> Roots \cup {NoRoot}]
          /\ owns \in [Places -> Roots \cup {NoRoot}]
          /\ count \in [Roots -> 0 .. Cardinality(Places)]
          /\ lock \in [Roots -> Threads \cup {None}]
          /\ made \subseteq Roots /\ freed \subseteq made
          /\ call \in [Threads ->
               [op : {"none", "new", "copy", "destroy", "detach", "attach"},
                to : Places \cup {None}, from : Places \cup {None},
                drop : Roots \cup {NoRoot}, take : Roots \cup {NoRoot}, n : Int,
                part : {"idle", "drop", "dropStore", "delete", "move", "add", "addStore"}]]

\* The root whose memory the next step of a thread uses: lock, counter or m_ptr.
Uses(f) == CASE f.part \in {"drop", "dropStore", "delete"} -> f.drop
             [] f.part \in {"move", "add", "addStore"} -> f.take
             [] OTHER -> NoRoot

\* No use after deletion (SmartPointer.h:48-78): what a place holds, and what an
\* operation under way is about to lock, count, read or delete, is not deleted,
\* whatever the other threads drop and copy meanwhile; and what operator-> of a
\* handle at rest reaches is the object it has been counted for.
HeldIsAlive == /\ \A p \in Places : owns[p] \notin freed
               /\ \A t \in Threads : Uses(call[t]) \notin freed
               /\ \A h \in Handles : Unwritten(h) /\ root[h] # NoRoot
                                      => root[h] = owns[h] /\ ptr[h] = owns[h]

\* No leak (SmartPointer.h:66-72): an object that is not deleted has a holder, or
\* an operation that is about to count its first one or to delete it.
LastOneDeletes ==
  \A r \in made \ freed :
    \/ \E p \in Places : owns[p] = r
    \/ \E t \in Threads : \/ call[t].op = "new" /\ call[t].take = r
                          \/ call[t].part = "delete" /\ call[t].drop = r

\* With its lock the class does for several threads what SmartPointerNTS does for
\* one: every drop and every copy takes effect at one step (SmartPointer.h:48-78).
NTS == INSTANCE SmartPointerNTS
         WITH deleted <- freed \cup {call[t].drop : t \in {u \in Threads : At(u, "delete")}}
ImplementsNTS == NTS!Spec
=============================================================================
