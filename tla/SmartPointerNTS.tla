-------------------------- MODULE SmartPointerNTS --------------------------
(***************************************************************************)
(* JsCPPUtils::SmartPointerNTS (src/JsCPPUtils/SmartPointerNTS.h): shared  *)
(* ownership by counting, for one thread.  Every public operation comes    *)
(* down to addRef(), delRef() and attach()'s taking over of a reference,   *)
(* each of which is one step here.  SmartPointer, its twin for several     *)
(* threads, is shown to implement this specification.                      *)
(*                                                                         *)
(* A root stands for the root object and for the object it owns.           *)
(***************************************************************************)
EXTENDS Integers

CONSTANTS Places,   \* what can hold a reference: handles and raw pointers
          Roots,    \* the roots there can be
          NoRoot    \* a null m_root_smartptr

VARIABLES owns,     \* the root each place holds a reference to, or NoRoot
          count,    \* m_refCount of each root
          deleted   \* the roots that have been deleted, their objects with them

ntsVars == <<owns, count, deleted>>

Init == /\ owns = [p \in Places |-> NoRoot]
        /\ count = [r \in Roots |-> 0]
        /\ deleted = {}

\* addRef(): also the first one, of a root just made.
AddRef(p, r) == /\ owns[p] = NoRoot
                /\ r \notin deleted
                /\ owns' = [owns EXCEPT ![p] = r]
                /\ count' = [count EXCEPT ![r] = @ + 1]
                /\ UNCHANGED deleted

\* delRef(): the last reference takes the object and the root with it.
DelRef(p) == /\ owns[p] # NoRoot
             /\ owns' = [owns EXCEPT ![p] = NoRoot]
             /\ count' = [count EXCEPT ![owns[p]] = @ - 1]
             /\ deleted' = IF count[owns[p]] <= 1 THEN deleted \cup {owns[p]} ELSE deleted

\* attach(): q's reference becomes p's, and the count stays.
TakeOver(p, q) == /\ owns[p] = NoRoot
                  /\ owns' = [owns EXCEPT ![p] = owns[q], ![q] = NoRoot]
                  /\ UNCHANGED <<count, deleted>>

Next == \/ \E p \in Places, r \in Roots : AddRef(p, r)
        \/ \E p \in Places : DelRef(p)
        \/ \E p, q \in Places : p # q /\ TakeOver(p, q)

Spec == Init /\ [][Next]_ntsVars
=============================================================================
