------------------------------ MODULE SendPool ------------------------------
(***************************************************************************)
(* ObjectPool (SERVER/OVER.h): the send buffers that workers acquire,      *)
(* hand to the kernel and release when the completion comes, and that a    *)
(* thread of its own trims every ten seconds.                              *)
(*                                                                         *)
(* The queue and the two counters are each atomic; the operations are not: *)
(* what Acquire, Release and Trim do to the queue and what they do to the  *)
(* count, or decide from it, are steps of their own.  An object is counted *)
(* in the step that makes or deletes it: till then, and from then on,      *)
(* nobody else has it.                                                     *)
(***************************************************************************)
EXTENDS Naturals, Sequences, FiniteSets, Functions

CONSTANTS
    Worker,
    Over,       \* the objects that can ever be made
    None,
    MaxSizes    \* what max_size_ may be set to

ASSUME NoneAssumption == None \notin Over
ASSUME MaxAssumption  == MaxSizes \subseteq Nat /\ MaxSizes # {}
ASSUME OverAssumption == IsFiniteSet(Over)

VARIABLES
    pool,           \* pool_
    currentSize,    \* current_size_
    maxSize,        \* max_size_
    alive,          \* the objects that exist
    held,           \* worker: the object it has acquired or is to release
    verdict,        \* worker: what it is to do in Acquire ("new") or Release
                    \* ("push", "delete"), "none" outside
    flight,         \* the objects the kernel has
    trim,           \* PoolManagerThread: "sleep", "check", "pop", "delete"
    trimmed         \* the object it has popped

poolVars == <<pool, currentSize, maxSize, alive, held, verdict, flight, trim, trimmed>>

InitPool ==
    /\ pool = <<>>
    /\ currentSize = 0
    /\ maxSize \in MaxSizes
    /\ alive = {}
    /\ held = [w \in Worker |-> None]
    /\ verdict = [w \in Worker |-> "none"]
    /\ flight = {}
    /\ trim = "sleep"
    /\ trimmed = None

\* Acquire: try_pop returns an object.
Take(w) ==
    /\ held[w] = None /\ verdict[w] = "none"
    /\ pool # <<>>
    /\ held' = [held EXCEPT ![w] = Head(pool)]
    /\ pool' = Tail(pool)
    /\ UNCHANGED <<currentSize, maxSize, alive, verdict, flight, trim, trimmed>>

\* It does not.
Miss(w) ==
    /\ held[w] = None /\ verdict[w] = "none"
    /\ pool = <<>>
    /\ verdict' = [verdict EXCEPT ![w] = "new"]
    /\ UNCHANGED <<pool, currentSize, maxSize, alive, held, flight, trim, trimmed>>

\* Another one is made, whatever has been released meanwhile.
Make(w) ==
    /\ verdict[w] = "new"
    /\ \E o \in Over \ alive :
         /\ held' = [held EXCEPT ![w] = o]
         /\ alive' = alive \union {o}
    /\ currentSize' = currentSize + 1
    /\ verdict' = [verdict EXCEPT ![w] = "none"]
    /\ UNCHANGED <<pool, maxSize, flight, trim, trimmed>>

\* Variant: an object the kernel still has.
HandOverKept(w) ==
    /\ held[w] # None
    /\ verdict[w] = "none"
    /\ flight' = flight \union {held[w]}
    /\ verdict' = [verdict EXCEPT ![w] = "push"]
    /\ UNCHANGED <<pool, currentSize, maxSize, alive, held, trim, trimmed>>

\* WSASend has taken it.
HandOver(w) ==
    /\ held[w] # None
    /\ verdict[w] = "none"
    /\ flight' = flight \union {held[w]}
    /\ held' = [held EXCEPT ![w] = None]
    /\ UNCHANGED <<pool, currentSize, maxSize, alive, verdict, trim, trimmed>>

Verdict == IF currentSize <= maxSize THEN "push" ELSE "delete"

\* Its completion has come: Release looks at the sizes.
Complete(w, o) ==
    /\ held[w] = None /\ verdict[w] = "none"
    /\ o \in flight
    /\ flight' = flight \ {o}
    /\ held' = [held EXCEPT ![w] = o]
    /\ verdict' = [verdict EXCEPT ![w] = Verdict]
    /\ UNCHANGED <<pool, currentSize, maxSize, alive, trim, trimmed>>

\* WSASend has failed: the same, and nothing comes.
GiveBack(w) ==
    /\ held[w] # None
    /\ verdict[w] = "none"
    /\ verdict' = [verdict EXCEPT ![w] = Verdict]
    /\ UNCHANGED <<pool, currentSize, maxSize, alive, held, flight, trim, trimmed>>

Release(w) ==
    /\ \/ /\ verdict[w] = "push"
          /\ pool' = Append(pool, held[w])
          /\ UNCHANGED <<currentSize, alive>>
       \/ /\ verdict[w] = "delete"
          /\ alive' = alive \ {held[w]}
          /\ currentSize' = currentSize - 1
          /\ UNCHANGED pool
    /\ held' = [held EXCEPT ![w] = None]
    /\ verdict' = [verdict EXCEPT ![w] = "none"]
    /\ UNCHANGED <<maxSize, flight, trim, trimmed>>

\* Every ten seconds.
SetMaxSize(n) ==
    /\ trim = "sleep"
    /\ maxSize' = n
    /\ trim' = "check"
    /\ UNCHANGED <<pool, currentSize, alive, held, verdict, flight, trimmed>>

TrimCheck ==
    /\ trim = "check"
    /\ trim' = IF currentSize > maxSize THEN "pop" ELSE "sleep"
    /\ UNCHANGED <<pool, currentSize, maxSize, alive, held, verdict, flight, trimmed>>

TrimPop ==
    /\ trim = "pop"
    /\ \/ /\ pool # <<>>
          /\ trimmed' = Head(pool)
          /\ pool' = Tail(pool)
          /\ trim' = "delete"
       \/ /\ pool = <<>>
          /\ trim' = "sleep"
          /\ UNCHANGED <<pool, trimmed>>
    /\ UNCHANGED <<currentSize, maxSize, alive, held, verdict, flight>>

TrimDelete ==
    /\ trim = "delete"
    /\ alive' = alive \ {trimmed}
    /\ currentSize' = currentSize - 1
    /\ trimmed' = None
    /\ trim' = "check"
    /\ UNCHANGED <<pool, maxSize, held, verdict, flight>>

NextPool ==
    \/ \E w \in Worker : \/ Take(w) \/ Miss(w) \/ Make(w)
                       \/ HandOver(w) \/ GiveBack(w) \/ Release(w)
    \/ \E w \in Worker, o \in Over : Complete(w, o)
    \/ \E n \in MaxSizes : SetMaxSize(n)
    \/ TrimCheck \/ TrimPop \/ TrimDelete

PoolSpec == InitPool /\ [][NextPool]_poolVars

----------------------------------------------------------------------------
\* The objects in the workers' hands, and the one that is to be trimmed.
InHands  == {held[w] : w \in {v \in Worker : held[v] # None}}
ToDelete == {trimmed} \ {None}

\* A buffer is in one place: in the pool once, in one worker's hands, with the
\* kernel, or popped to be trimmed, and nothing that was deleted is anywhere,
\* however acquiring, releasing and trimming interleave
\* (OVER.h:48-91, Player.cpp:86-107).
OverInOnePlace ==
    /\ IsInjective(pool)
    /\ \A v, w \in Worker : v # w /\ held[v] # None => held[v] # held[w]
    /\ Range(pool) \intersect InHands = {}
    /\ Range(pool) \intersect flight = {}
    /\ InHands \intersect flight = {}
    /\ ToDelete \intersect (Range(pool) \union InHands \union flight) = {}
    /\ Range(pool) \union InHands \union flight \union ToDelete = alive

\* The count that is kept apart from the queue is the number of objects, those
\* under way from or to the pool included; in particular it never goes below
\* zero, where it would wrap (OVER.h:34-91).
PoolCounts == currentSize = Cardinality(alive)
============================================================================
