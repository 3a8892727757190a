--------------------------- MODULE NetworkProofs ---------------------------
(***************************************************************************)
(* The pool of send buffers, for any number of workers, of buffers and of  *)
(* bounds: a buffer is in one place, every buffer is counted, and Network  *)
(* uses the pool as SendPool says.  Then the connection, for any commands, *)
(* any answers, any size of the buffers and any cut of the streams: the    *)
(* server handles the commands that were sent, there is room to receive,   *)
(* and the client processes the packets that were given to WSASend.        *)
(***************************************************************************)
EXTENDS Network, TLAPS, FiniteSetTheorems, SequenceTheorems, NaturalsInduction

----------------------------------------------------------------------------
(* The pool.                                                               *)

Types ==
    /\ pool \in Seq(Over)
    /\ alive \subseteq Over
    /\ flight \subseteq Over
    /\ held \in [Worker -> Over \union {None}]
    /\ verdict \in [Worker -> {"none", "new", "push", "delete"}]
    /\ trimmed \in Over \union {None}

\* A worker decides about an object that it has, and gets one when it has none;
\* the trimming thread has one when it is to delete it.
Decided == /\ \A w \in Worker : /\ verdict[w] \in {"push", "delete"} => held[w] # None
                                /\ verdict[w] = "new" => held[w] = None
           /\ (trim = "delete") <=> (trimmed # None)

IInv == Types /\ Decided /\ OverInOnePlace /\ PoolCounts

----------------------------------------------------------------------------
(* Sequences without repetitions.                                          *)

LEMMA TailRange ==
    ASSUME NEW S, NEW s \in Seq(S), s # <<>>, IsInjective(s)
    PROVE  /\ Head(s) \in Range(s)
           /\ IsInjective(Tail(s))
           /\ Range(Tail(s)) = Range(s) \ {Head(s)}
  <1>1. /\ Len(s) \in Nat \ {0} /\ DOMAIN s = 1 .. Len(s)
        /\ DOMAIN Tail(s) = 1 .. (Len(s) - 1)
        /\ Head(s) = s[1]
        /\ \A k \in 1 .. (Len(s) - 1) : Tail(s)[k] = s[k + 1]
    OBVIOUS
  <1>2. \A j, k \in 1 .. Len(s) : s[j] = s[k] => j = k
    BY <1>1 DEF IsInjective
  <1>3. Head(s) \in Range(s)
    BY <1>1 DEF Range
  <1>4. IsInjective(Tail(s))
    BY <1>1, <1>2 DEF IsInjective
  <1>5. Range(Tail(s)) \subseteq Range(s) \ {Head(s)}
    BY <1>1, <1>2 DEF Range
  <1>6. ASSUME NEW x \in Range(s) \ {Head(s)} PROVE x \in Range(Tail(s))
    <2>1. PICK k \in 1 .. Len(s) : x = s[k]
      BY <1>1 DEF Range
    <2>2. k # 1
      BY <1>1, <2>1
    <2>3. k - 1 \in 1 .. (Len(s) - 1) /\ Tail(s)[k - 1] = x
      BY <1>1, <2>1, <2>2
    <2> QED
      BY <1>1, <2>3 DEF Range
  <1> QED
    BY <1>3, <1>4, <1>5, <1>6

LEMMA AppendRange ==
    ASSUME NEW S, NEW s \in Seq(S), NEW x \in S, IsInjective(s), x \notin Range(s)
    PROVE  /\ IsInjective(Append(s, x))
           /\ Range(Append(s, x)) = Range(s) \union {x}
  <1>1. /\ Len(s) \in Nat /\ DOMAIN s = 1 .. Len(s)
        /\ DOMAIN Append(s, x) = 1 .. (Len(s) + 1)
        /\ \A k \in 1 .. Len(s) : Append(s, x)[k] = s[k]
        /\ Append(s, x)[Len(s) + 1] = x
    OBVIOUS
  <1>2. \A k \in 1 .. Len(s) : s[k] # x
    BY <1>1 DEF Range
  <1>3. \A k \in 1 .. (Len(s) + 1) : k \in 1 .. Len(s) \/ k = Len(s) + 1
    BY <1>1
  <1>4. IsInjective(Append(s, x))
    BY <1>1, <1>2, <1>3 DEF IsInjective
  <1>5. Range(Append(s, x)) \subseteq Range(s) \union {x}
    BY <1>1, <1>3 DEF Range
  <1>6. Range(s) \union {x} \subseteq Range(Append(s, x))
    <2>1. Range(s) \subseteq Range(Append(s, x))
      BY <1>1 DEF Range
    <2>2. x \in Range(Append(s, x))
      BY <1>1 DEF Range
    <2> QED
      BY <2>1, <2>2
  <1> QED
    BY <1>4, <1>5, <1>6

----------------------------------------------------------------------------
(* The workers' hands.                                                     *)

\* No two workers have one object.
Apart(h) == \A v, w \in Worker : v # w /\ h[v] # None => h[v] # h[w]

\* A worker with empty hands takes an object that nobody has.
LEMMA TakeUp ==
    ASSUME Types, Apart(held), NEW w \in Worker, held[w] = None,
           NEW o \in Over, o \notin InHands, held' = [held EXCEPT ![w] = o]
    PROVE  /\ held' \in [Worker -> Over \union {None}]
           /\ Apart(held')
           /\ InHands' = InHands \union {o}
  <1>1. held' \in [Worker -> Over \union {None}] /\ held'[w] = o
        /\ \A v \in Worker \ {w} : held'[v] = held[v]
    BY DEF Types
  <1>2. o # None
    BY NoneAssumption
  <1>3. \A v \in Worker : held[v] # o
    BY <1>2 DEF InHands
  <1>4. Apart(held')
    BY <1>1, <1>3 DEF Apart
  <1>5. InHands' = InHands \union {o}
    BY <1>1, <1>2 DEF InHands
  <1> QED
    BY <1>1, <1>4, <1>5

\* A worker lets go of what it has.
LEMMA PutAway ==
    ASSUME Types, Apart(held), NEW w \in Worker, held[w] # None,
           held' = [held EXCEPT ![w] = None]
    PROVE  /\ held' \in [Worker -> Over \union {None}]
           /\ Apart(held')
           /\ InHands' = InHands \ {held[w]}
           /\ held[w] \in InHands
  <1>1. held' \in [Worker -> Over \union {None}] /\ held'[w] = None
        /\ \A v \in Worker \ {w} : held'[v] = held[v]
    BY DEF Types
  <1>2. \A v \in Worker \ {w} : held[v] # held[w]
    BY DEF Apart
  <1>3. Apart(held')
    BY <1>1 DEF Apart
  <1>4. InHands' = InHands \ {held[w]}
    BY <1>1, <1>2 DEF InHands
  <1> QED
    BY <1>1, <1>3, <1>4 DEF InHands

\* The two parts of OverInOnePlace that the lemmas speak of.
Divided(P, H, F, D, A) ==
    /\ P \intersect H = {}
    /\ P \intersect F = {}
    /\ H \intersect F = {}
    /\ D \intersect (P \union H \union F) = {}
    /\ P \union H \union F \union D = A

LEMMA OnePlace ==
    OverInOnePlace <=> /\ IsInjective(pool) /\ Apart(held)
                       /\ Divided(Range(pool), InHands, flight, ToDelete, alive)
  BY DEF OverInOnePlace, Apart, Divided

LEMMA OnePlaceNext ==
    OverInOnePlace' <=> /\ IsInjective(pool') /\ Apart(held')
                        /\ Divided(Range(pool'), InHands', flight', ToDelete', alive')
  BY DEF OverInOnePlace, Apart, Divided

LEMMA FiniteAlive == Types => IsFiniteSet(alive)
  BY OverAssumption, FS_Subset DEF Types

\* A worker that gets or leaves nothing has the hands it had.
LEMMA SameHands == held' = held => InHands' = InHands
  BY DEF InHands

LEMMA SameTrimmed == trimmed' = trimmed => ToDelete' = ToDelete
  BY DEF ToDelete

----------------------------------------------------------------------------
(* The steps.                                                              *)

LEMMA TakeStep ==
    ASSUME IInv, NEW w \in Worker, Take(w) PROVE IInv'
  <1> USE OnePlace DEF IInv
  <1>1. Head(pool) \in Over /\ pool' \in Seq(Over)
    BY HeadTailProperties DEF Types, Take
  <1>2. /\ Head(pool) \in Range(pool) /\ IsInjective(pool')
        /\ Range(pool') = Range(pool) \ {Head(pool)}
    BY TailRange DEF Types, Take
  <1>3. Head(pool) \notin InHands
    BY <1>2 DEF Divided
  <1>4. /\ held' \in [Worker -> Over \union {None}] /\ Apart(held')
        /\ InHands' = InHands \union {Head(pool)}
    BY <1>1, <1>3, TakeUp DEF Take
  <1>5. Divided(Range(pool'), InHands', flight', ToDelete', alive')
    BY <1>2, <1>4, SameTrimmed DEF Divided, Take
  <1>6. OverInOnePlace'
    BY <1>2, <1>4, <1>5, OnePlaceNext
  <1>7. Types'
    BY <1>1, <1>4 DEF Types, Take
  <1>8. Decided'
    BY DEF Decided, Types, Take
  <1>9. PoolCounts'
    BY DEF PoolCounts, Take
  <1> QED
    BY <1>6, <1>7, <1>8, <1>9

LEMMA MissStep ==
    ASSUME IInv, NEW w \in Worker, Miss(w) PROVE IInv'
  <1> USE OnePlace DEF IInv
  <1>1. OverInOnePlace'
    BY SameHands, SameTrimmed, OnePlaceNext DEF Miss
  <1>2. Types'
    BY DEF Types, Miss
  <1>3. Decided'
    BY DEF Decided, Types, Miss
  <1>4. PoolCounts'
    BY DEF PoolCounts, Miss
  <1> QED
    BY <1>1, <1>2, <1>3, <1>4

LEMMA MakeStep ==
    ASSUME IInv, NEW w \in Worker, Make(w) PROVE IInv'
  <1> USE OnePlace DEF IInv
  <1>1. PICK o \in Over \ alive : held' = [held EXCEPT ![w] = o] /\ alive' = alive \union {o}
    BY DEF Make
  <1>2. o \notin InHands /\ o \notin Range(pool) /\ o \notin flight /\ o \notin ToDelete
    BY <1>1 DEF Divided
  <1>3. held[w] = None
    BY DEF Decided, Make
  <1>4. /\ held' \in [Worker -> Over \union {None}] /\ Apart(held')
        /\ InHands' = InHands \union {o}
    BY <1>1, <1>2, <1>3, TakeUp
  <1>5. Divided(Range(pool'), InHands', flight', ToDelete', alive')
    BY <1>1, <1>2, <1>4, SameTrimmed DEF Divided, Make
  <1>6. OverInOnePlace'
    BY <1>4, <1>5, OnePlaceNext DEF Make
  <1>7. Types'
    BY <1>1, <1>4 DEF Types, Make
  <1>8. Decided'
    BY <1>1, NoneAssumption DEF Decided, Types, Make
  <1>9. PoolCounts'
    BY <1>1, FiniteAlive, FS_AddElement DEF PoolCounts, Make
  <1> QED
    BY <1>6, <1>7, <1>8, <1>9

LEMMA HandOverStep ==
    ASSUME IInv, NEW w \in Worker, HandOver(w) PROVE IInv'
  <1> USE OnePlace DEF IInv
  <1>1. /\ held' \in [Worker -> Over \union {None}] /\ Apart(held')
        /\ InHands' = InHands \ {held[w]} /\ held[w] \in InHands
    BY PutAway DEF HandOver
  <1>2. held[w] \in Over
    BY DEF Types, HandOver
  <1>3. Divided(Range(pool'), InHands', flight', ToDelete', alive')
    BY <1>1, SameTrimmed DEF Divided, HandOver
  <1>4. OverInOnePlace'
    BY <1>1, <1>3, OnePlaceNext DEF HandOver
  <1>5. Types'
    BY <1>1, <1>2 DEF Types, HandOver
  <1>6. Decided'
    BY DEF Decided, Types, HandOver
  <1>7. PoolCounts'
    BY DEF PoolCounts, HandOver
  <1> QED
    BY <1>4, <1>5, <1>6, <1>7

LEMMA CompleteStep ==
    ASSUME IInv, NEW w \in Worker, NEW o \in Over, Complete(w, o) PROVE IInv'
  <1> USE OnePlace DEF IInv
  <1>1. o \in flight /\ o \notin InHands /\ o \notin Range(pool) /\ o \notin ToDelete
    BY DEF Divided, Complete
  <1>2. /\ held' \in [Worker -> Over \union {None}] /\ Apart(held')
        /\ InHands' = InHands \union {o}
    BY <1>1, TakeUp DEF Complete
  <1>3. Divided(Range(pool'), InHands', flight', ToDelete', alive')
    BY <1>1, <1>2, SameTrimmed DEF Divided, Complete
  <1>4. OverInOnePlace'
    BY <1>2, <1>3, OnePlaceNext DEF Complete
  <1>5. Types'
    BY <1>2 DEF Types, Complete, Verdict
  <1>6. Decided'
    <2>1. Verdict # "new" /\ o # None
      BY NoneAssumption DEF Verdict
    <2> QED
      BY <2>1 DEF Decided, Types, Complete
  <1>7. PoolCounts'
    BY DEF PoolCounts, Complete
  <1> QED
    BY <1>4, <1>5, <1>6, <1>7

LEMMA GiveBackStep ==
    ASSUME IInv, NEW w \in Worker, GiveBack(w) PROVE IInv'
  <1> USE OnePlace DEF IInv
  <1>1. OverInOnePlace'
    BY SameHands, SameTrimmed, OnePlaceNext DEF GiveBack
  <1>2. Types'
    BY DEF Types, GiveBack, Verdict
  <1>3. Decided'
    <2>1. Verdict # "new"
      BY DEF Verdict
    <2> QED
      BY <2>1 DEF Decided, Types, GiveBack
  <1>4. PoolCounts'
    BY DEF PoolCounts, GiveBack
  <1> QED
    BY <1>1, <1>2, <1>3, <1>4

LEMMA ReleaseStep ==
    ASSUME IInv, NEW w \in Worker, Release(w) PROVE IInv'
  <1> USE OnePlace DEF IInv
  <1>0. verdict[w] \in {"push", "delete"} /\ held[w] # None /\ held[w] \in Over
    <2>1. verdict[w] \in {"push", "delete"}
      BY DEF Release
    <2>2. held[w] # None
      BY <2>1 DEF Decided
    <2> QED
      BY <2>1, <2>2 DEF Types
  <1>1. /\ held' \in [Worker -> Over \union {None}] /\ Apart(held')
        /\ InHands' = InHands \ {held[w]} /\ held[w] \in InHands
    BY <1>0, PutAway DEF Release
  <1>2. /\ held[w] \notin Range(pool) /\ held[w] \notin flight /\ held[w] \in alive
        /\ held[w] \notin ToDelete /\ ToDelete' = ToDelete
    BY <1>1, SameTrimmed DEF Divided, Release
  <1>3. Decided'
    BY DEF Decided, Types, Release
  <1>4. CASE pool' = Append(pool, held[w]) /\ UNCHANGED <<currentSize, alive>>
    <2>1. /\ pool' \in Seq(Over) /\ IsInjective(pool')
          /\ Range(pool') = Range(pool) \union {held[w]}
      BY <1>0, <1>2, <1>4, AppendRange, AppendProperties DEF Types
    <2>2. Divided(Range(pool'), InHands', flight', ToDelete', alive')
      BY <1>1, <1>2, <1>4, <2>1 DEF Divided, Release
    <2>3. OverInOnePlace'
      BY <1>1, <2>1, <2>2, OnePlaceNext
    <2>4. Types'
      BY <1>1, <1>4, <2>1 DEF Types, Release
    <2>5. PoolCounts'
      BY <1>4 DEF PoolCounts
    <2> QED
      BY <1>3, <2>3, <2>4, <2>5
  <1>5. CASE alive' = alive \ {held[w]} /\ currentSize' = currentSize - 1 /\ UNCHANGED pool
    <2>1. Divided(Range(pool'), InHands', flight', ToDelete', alive')
      BY <1>1, <1>2, <1>5 DEF Divided, Release
    <2>2. OverInOnePlace'
      BY <1>1, <1>5, <2>1, OnePlaceNext
    <2>3. Types'
      BY <1>1, <1>5 DEF Types, Release
    <2>4. PoolCounts'
      BY <1>2, <1>5, FiniteAlive, FS_RemoveElement DEF PoolCounts
    <2> QED
      BY <1>3, <2>2, <2>3, <2>4
  <1> QED
    BY <1>4, <1>5 DEF Release

LEMMA TrimPopStep ==
    ASSUME IInv, TrimPop PROVE IInv'
  <1> USE OnePlace DEF IInv
  <1>1. InHands' = InHands /\ PoolCounts'
    BY SameHands DEF TrimPop, PoolCounts
  <1>2. CASE /\ pool # <<>> /\ trimmed' = Head(pool) /\ pool' = Tail(pool)
             /\ trim' = "delete"
    <2>1. Head(pool) \in Over /\ pool' \in Seq(Over)
      BY <1>2, HeadTailProperties DEF Types
    <2>2. /\ Head(pool) \in Range(pool) /\ IsInjective(pool')
          /\ Range(pool') = Range(pool) \ {Head(pool)}
      BY <1>2, TailRange DEF Types
    <2>3. Head(pool) \notin InHands /\ Head(pool) \notin flight
      BY <2>2 DEF Divided
    <2>4. ToDelete = {} /\ ToDelete' = {Head(pool)}
      <3>1. trimmed = None
        BY DEF Decided, TrimPop
      <3> QED
        BY <1>2, <2>1, <3>1, NoneAssumption DEF ToDelete
    <2>5. Divided(Range(pool'), InHands', flight', ToDelete', alive')
      BY <1>1, <2>2, <2>3, <2>4 DEF Divided, TrimPop
    <2>6. OverInOnePlace'
      BY <2>2, <2>5, OnePlaceNext DEF TrimPop
    <2>7. Types'
      BY <1>2, <2>1 DEF Types, TrimPop
    <2>8. Decided'
      BY <1>2, <2>1, NoneAssumption DEF Decided, TrimPop
    <2> QED
      BY <1>1, <2>6, <2>7, <2>8
  <1>3. CASE UNCHANGED <<pool, trimmed>> /\ trim' = "sleep"
    <2>1. OverInOnePlace'
      BY <1>1, <1>3, SameTrimmed, OnePlaceNext DEF TrimPop
    <2>2. Types'
      BY <1>3 DEF Types, TrimPop
    <2>3. Decided'
      BY <1>3 DEF Decided, TrimPop
    <2> QED
      BY <1>1, <2>1, <2>2, <2>3
  <1> QED
    BY <1>2, <1>3 DEF TrimPop

LEMMA TrimDeleteStep ==
    ASSUME IInv, TrimDelete PROVE IInv'
  <1> USE OnePlace DEF IInv
  <1>1. trimmed # None /\ trimmed \in Over
    BY DEF Decided, Types, TrimDelete
  <1>2. ToDelete = {trimmed} /\ ToDelete' = {}
    BY <1>1 DEF ToDelete, TrimDelete
  <1>3. trimmed \in alive
    BY <1>2 DEF Divided
  <1>4. Divided(Range(pool'), InHands', flight', ToDelete', alive')
    BY <1>2, SameHands DEF Divided, TrimDelete
  <1>5. OverInOnePlace'
    BY <1>4, OnePlaceNext DEF TrimDelete
  <1>6. Types'
    BY DEF Types, TrimDelete
  <1>7. Decided'
    BY DEF Decided, TrimDelete
  <1>8. PoolCounts'
    BY <1>3, FiniteAlive, FS_RemoveElement DEF PoolCounts, TrimDelete
  <1> QED
    BY <1>5, <1>6, <1>7, <1>8

\* Steps that only the trimming thread or the bound sees.
LEMMA QuietStep ==
    ASSUME IInv, UNCHANGED <<pool, currentSize, alive, held, verdict, flight, trimmed>>,
           trim' # "delete" <=> trim # "delete"
    PROVE  IInv'
  <1> USE OnePlace DEF IInv
  <1>1. OverInOnePlace'
    BY SameHands, SameTrimmed, OnePlaceNext
  <1>2. Types' /\ Decided' /\ PoolCounts'
    BY DEF Types, Decided, PoolCounts
  <1> QED
    BY <1>1, <1>2

LEMMA PoolInit == ASSUME InitPool PROVE IInv
  <1>1. Types /\ Decided
    BY DEF InitPool, Types, Decided
  <1>2. /\ Range(pool) = {} /\ InHands = {} /\ ToDelete = {}
        /\ IsInjective(pool) /\ Apart(held)
    BY DEF InitPool, Range, InHands, ToDelete, IsInjective, Apart
  <1>3. OverInOnePlace
    BY <1>2, OnePlace DEF InitPool, Divided
  <1>4. PoolCounts
    BY FS_EmptySet DEF InitPool, PoolCounts
  <1> QED
    BY <1>1, <1>3, <1>4 DEF IInv

LEMMA PoolStep == ASSUME IInv, [NextPool]_poolVars PROVE IInv'
  <1>1. ASSUME NEW w \in Worker, Take(w) \/ Miss(w) \/ Make(w) PROVE IInv'
    BY <1>1, TakeStep, MissStep, MakeStep
  <1>2. ASSUME NEW w \in Worker, HandOver(w) PROVE IInv'
    BY <1>2, HandOverStep
  <1>3. ASSUME NEW w \in Worker, GiveBack(w) PROVE IInv'
    BY <1>3, GiveBackStep
  <1>4. ASSUME NEW w \in Worker, Release(w) PROVE IInv'
    BY <1>4, ReleaseStep
  <1>5. ASSUME NEW w \in Worker, NEW o \in Over, Complete(w, o) PROVE IInv'
    BY <1>5, CompleteStep
  <1>6. ASSUME NEW n \in MaxSizes, SetMaxSize(n) PROVE IInv'
    BY <1>6, QuietStep DEF SetMaxSize
  <1>7. CASE TrimCheck
    BY <1>7, QuietStep DEF TrimCheck
  <1>8. CASE TrimPop \/ TrimDelete
    BY <1>8, TrimPopStep, TrimDeleteStep
  <1>9. CASE UNCHANGED poolVars
    BY <1>9, QuietStep DEF poolVars
  <1> QED
    BY <1>1, <1>2, <1>3, <1>4, <1>5, <1>6, <1>7, <1>8, <1>9 DEF NextPool

\* However the workers and the trimming thread interleave, a send buffer is in
\* the pool once, in one worker's hands, with the kernel or about to be trimmed,
\* and nothing that was deleted is anywhere (OVER.h:48-91).
THEOREM PoolIsSound == PoolSpec => []OverInOnePlace
  <1>1. InitPool => IInv
    BY PoolInit
  <1>2. IInv /\ [NextPool]_poolVars => IInv'
    BY PoolStep
  <1>3. IInv => OverInOnePlace
    BY DEF IInv
  <1> QED
    BY <1>1, <1>2, <1>3, PTL DEF PoolSpec

\* The count that is kept apart from the queue is the number of objects, so it
\* never goes below zero, where it would wrap (OVER.h:34-91).
THEOREM PoolIsCounted == PoolSpec => []PoolCounts
  <1>1. InitPool => IInv
    BY PoolInit
  <1>2. IInv /\ [NextPool]_poolVars => IInv'
    BY PoolStep
  <1>3. IInv => PoolCounts
    BY DEF IInv
  <1> QED
    BY <1>1, <1>2, <1>3, PTL DEF PoolSpec

----------------------------------------------------------------------------
(* The network.                                                            *)

\* The completion that KEY_SEND handles is of a buffer, because flight has only
\* such: hence the invariant.
LEMMA NetworkStep == ASSUME IInv, [Next]_vars PROVE [NextPool]_poolVars
  <1>1. ASSUME NEW w \in Worker, ServerStep(w) PROVE [NextPool]_poolVars
    <2>1. CASE DoSend(w)
      BY <2>1 DEF DoSend, NextPool
    <2>2. CASE Post(w)
      BY <2>2 DEF Post, NextPool
    <2>3. CASE PostFails(w)
      BY <2>3 DEF PostFails, NextPool
    <2>4. CASE ReleaseEnd(w)
      BY <2>4 DEF ReleaseEnd, NextPool
    <2>5. CASE Sent(w)
      <3>1. PICK o \in flight : Complete(w, o)
        BY <2>5 DEF Sent
      <3>2. o \in Over
        BY DEF IInv, Types
      <3> QED
        BY <3>1, <3>2 DEF NextPool
    <2>6. CASE Recv(w) \/ RecvFails(w) \/ Parse(w) \/ ParseBroken(w) \/ ParseEnd(w) \/ Tell(w)
      BY <2>6 DEF Recv, RecvFails, Parse, ParseBroken, ParseEnd, Tell
    <2> QED
      BY <1>1, <2>1, <2>2, <2>3, <2>4, <2>5, <2>6 DEF ServerStep
  <1>2. CASE Trim
    BY <1>2, TrimAssumption DEF Trim, NextPool
  <1>3. CASE Transmit \/ Receive \/ Frame \/ Reset
    BY <1>3 DEF Transmit, Receive, Frame, Reset
  <1>4. CASE UNCHANGED vars
    BY <1>4 DEF vars
  <1> QED
    BY <1>1, <1>2, <1>3, <1>4 DEF Next

\* Whatever the connection does, buffers are acquired, handed over and released
\* as the pool requires: DoSend and the KEY_SEND handler implement SendPool, so
\* a buffer is in one place there too (Player.cpp:74-108, MainServer.cpp:186-191).
THEOREM NetworkUsesPool == Spec => PoolSpec /\ []OverInOnePlace
  <1>1. Init => InitPool
    BY DEF Init
  <1>2. InitPool => IInv
    BY PoolInit
  <1>3. IInv /\ [Next]_vars => [NextPool]_poolVars
    BY NetworkStep
  <1>4. IInv /\ [NextPool]_poolVars => IInv'
    BY PoolStep
  <1>5. Spec => PoolSpec
    BY <1>1, <1>2, <1>3, <1>4, PTL DEF Spec, PoolSpec
  <1> QED
    BY <1>5, PoolIsSound, PTL

----------------------------------------------------------------------------
(* A stream of bytes is a row of packets.                                  *)

\* The bytes that come of a packet.
Size(p) == IF SizeOf[p] > BufSize THEN BufSize ELSE SizeOf[p]

\* Where each packet ends.
Ends(b, s, at) ==
    /\ at \in [0 .. Len(s) -> Nat]
    /\ at[0] = 0 /\ at[Len(s)] = Len(b)
    /\ \A j, k \in 0 .. Len(s) : j <= k => at[j] <= at[k]
    /\ \A k \in 1 .. Len(s) :
         /\ at[k] = at[k - 1] + Size(s[k])
         /\ \A i \in 1 .. Size(s[k]) : b[at[k - 1] + i] = <<s[k], i>>

Row(b, s) == \E at : Ends(b, s, at)

LEMMA SizeIs ==
    ASSUME NEW p \in Packet
    PROVE  Size(p) \in Nat /\ Size(p) >= 1 /\ Size(p) <= BufSize /\ SizeOf[p] \in Nat \ {0}
  BY SizeAssumption DEF Size

LEMMA BytesAre ==
    ASSUME NEW p \in Packet, NEW n \in Nat, n <= BufSize
    PROVE  /\ Bytes(p, n) \in Seq(Byte) /\ Len(Bytes(p, n)) = n
           /\ \A i \in 1 .. n : Bytes(p, n)[i] = <<p, i>>
  <1>1. \A i \in 1 .. n : <<p, i>> \in Byte
    BY SizeAssumption DEF Byte
  <1>2. Bytes(p, n) \in [1 .. n -> Byte]
    BY <1>1 DEF Bytes
  <1>3. Bytes(p, n) \in Seq(Byte)
    BY <1>2, SeqDef
  <1>4. DOMAIN Bytes(p, n) = 1 .. n
    BY DEF Bytes
  <1>5. Len(Bytes(p, n)) = n
    BY <1>3, <1>4, LenProperties
  <1> QED
    BY <1>3, <1>5 DEF Bytes

LEMMA RowEmpty == Row(<<>>, <<>>)
  <1> DEFINE at == [k \in 0 .. 0 |-> 0]
  <1>1. Len(<<>>) = 0
    BY EmptySeq
  <1>2. Ends(<<>>, <<>>, at)
    BY <1>1 DEF Ends
  <1> QED
    BY <1>2 DEF Row

LEMMA RowOfNone ==
    ASSUME NEW b \in Seq(Byte), Row(b, <<>>)
    PROVE  b = <<>>
  <1>1. Len(<<>>) = 0
    BY EmptySeq
  <1>2. Len(b) = 0
    BY <1>1 DEF Row, Ends
  <1> QED
    BY <1>2, EmptySeq

\* One more packet at the end.
LEMMA RowMore ==
    ASSUME NEW b \in Seq(Byte), NEW s \in Seq(Packet), Row(b, s), NEW p \in Packet
    PROVE  /\ b \o Bytes(p, Size(p)) \in Seq(Byte)
           /\ Append(s, p) \in Seq(Packet)
           /\ Row(b \o Bytes(p, Size(p)), Append(s, p))
  <1>1. PICK at : Ends(b, s, at)
    BY DEF Row
  <1>2. PICK n \in Nat : n = Size(p)
    BY SizeIs
  <1>3. PICK d \in Seq(Byte) : d = Bytes(p, n) /\ Len(d) = n /\ \A i \in 1 .. n : d[i] = <<p, i>>
    BY <1>2, SizeIs, BytesAre
  <1>4. PICK l \in Nat : l = Len(b)
    BY LenProperties
  <1>5. PICK m \in Nat : m = Len(s)
    BY LenProperties
  <1>6. PICK c \in Seq(Byte) : /\ c = b \o d /\ Len(c) = l + n
                               /\ \A i \in 1 .. l + n : c[i] = IF i <= l THEN b[i] ELSE d[i - l]
    <2>1. Len(d) = n /\ Len(b) = l
      BY <1>3, <1>4
    <2>2. b \o d \in Seq(Byte) /\ Len(b \o d) = l + n
      BY <2>1, ConcatProperties
    <2>3. \A i \in 1 .. l + n : (b \o d)[i] = IF i <= l THEN b[i] ELSE d[i - l]
      BY <2>1, ConcatProperties
    <2> QED
      BY <2>2, <2>3
  <1>7. PICK t \in Seq(Packet) : t = Append(s, p) /\ Len(t) = m + 1 /\ t[m + 1] = p
                                 /\ \A k \in 1 .. m : t[k] = s[k]
    <2>1. Append(s, p) \in Seq(Packet) /\ Len(Append(s, p)) = m + 1
      BY <1>5, AppendProperties
    <2>2. Append(s, p)[m + 1] = p /\ \A k \in 1 .. m : Append(s, p)[k] = s[k]
      BY <1>5, AppendProperties
    <2> QED
      BY <2>1, <2>2
  <1>8. /\ at \in [0 .. m -> Nat] /\ at[0] = 0 /\ at[m] = l
        /\ \A k \in 1 .. m : /\ at[k] = at[k - 1] + Size(s[k])
                             /\ \A i \in 1 .. Size(s[k]) : b[at[k - 1] + i] = <<s[k], i>>
    BY <1>1, <1>4, <1>5 DEF Ends
  <1>9. \A j, k \in 0 .. m : j <= k => at[j] <= at[k]
    BY <1>1, <1>5 DEF Ends
  <1> DEFINE to == [k \in 0 .. m + 1 |-> IF k = m + 1 THEN l + n ELSE at[k]]
  <1>10. to \in [0 .. m + 1 -> Nat] /\ to[0] = 0 /\ to[m + 1] = l + n
    BY <1>8
  <1>11. \A k \in 0 .. m : to[k] = at[k] /\ to[k] <= l
    BY <1>8, <1>9
  <1>12. \A j, k \in 0 .. m + 1 : j <= k => to[j] <= to[k]
    <2>1. \A k \in 0 .. m + 1 : k \in 0 .. m \/ k = m + 1
      OBVIOUS
    <2>2. ASSUME NEW j \in 0 .. m + 1, NEW k \in 0 .. m + 1, j <= k PROVE to[j] <= to[k]
      <3> HIDE DEF to
      <3>1. CASE k = m + 1
        <4>1. to[k] = l + n
          BY <1>10, <3>1
        <4>2. to[j] = l + n \/ to[j] <= l
          BY <1>10, <1>11, <2>1
        <4>3. to[j] \in Nat
          BY <1>10
        <4> QED
          BY <4>1, <4>2, <4>3
      <3>2. CASE k \in 0 .. m
        <4>1. j \in 0 .. m
          BY <2>2, <3>2
        <4> QED
          BY <1>9, <1>11, <2>2, <3>2, <4>1
      <3> QED
        BY <2>1, <3>1, <3>2
    <2> QED
      BY <2>2
  <1> HIDE DEF to
  <1>13. ASSUME NEW k \in 1 .. m
         PROVE  /\ to[k] = to[k - 1] + Size(t[k])
                /\ \A i \in 1 .. Size(t[k]) : c[to[k - 1] + i] = <<t[k], i>>
    <2>1. t[k] = s[k] /\ s[k] \in Packet
      BY <1>5, <1>7
    <2>2. Size(s[k]) \in Nat
      BY <2>1, SizeIs
    <2>3. k - 1 \in 0 .. m /\ k \in 0 .. m
      OBVIOUS
    <2>4. to[k - 1] = at[k - 1] /\ to[k] = at[k] /\ at[k] <= l /\ at[k - 1] \in Nat
      BY <1>8, <1>11, <2>3
    <2>5. at[k] = at[k - 1] + Size(s[k])
      BY <1>8
    <2>6. ASSUME NEW i \in 1 .. Size(s[k]) PROVE c[to[k - 1] + i] = <<s[k], i>>
      <3>1. at[k - 1] + i \in 1 .. l + n /\ at[k - 1] + i <= l
        BY <2>2, <2>4, <2>5
      <3>2. c[at[k - 1] + i] = b[at[k - 1] + i]
        BY <1>6, <3>1
      <3> QED
        BY <1>8, <2>4, <2>6, <3>2
    <2> QED
      BY <2>1, <2>4, <2>5, <2>6
  <1>14. /\ to[m + 1] = to[m] + Size(t[m + 1])
         /\ \A i \in 1 .. Size(t[m + 1]) : c[to[m] + i] = <<t[m + 1], i>>
    <2>1. to[m] = l
      BY <1>8, <1>11
    <2>2. ASSUME NEW i \in 1 .. n PROVE c[l + i] = <<p, i>>
      <3>1. l + i \in 1 .. l + n /\ ~(l + i <= l) /\ l + i - l = i
        OBVIOUS
      <3>2. c[l + i] = IF l + i <= l THEN b[l + i] ELSE d[l + i - l]
        BY <1>6, <3>1
      <3>3. c[l + i] = d[i]
        BY <3>1, <3>2
      <3> QED
        BY <1>3, <3>3
    <2> QED
      BY <1>2, <1>7, <1>10, <2>1, <2>2
  <1>15. ASSUME NEW k \in 1 .. m + 1
         PROVE  /\ to[k] = to[k - 1] + Size(t[k])
                /\ \A i \in 1 .. Size(t[k]) : c[to[k - 1] + i] = <<t[k], i>>
    <2>1. CASE k \in 1 .. m
      BY <2>1, <1>13
    <2>2. CASE k = m + 1
      <3>1. k - 1 = m
        BY <2>2
      <3> QED
        BY <1>14, <2>2, <3>1
    <2>3. k \in 1 .. m \/ k = m + 1
      OBVIOUS
    <2> QED
      BY <2>1, <2>2, <2>3
  <1>16. Ends(c, t, to)
    BY <1>6, <1>7, <1>10, <1>12, <1>15 DEF Ends
  <1>17. Row(c, t)
    BY <1>16 DEF Row
  <1> QED
    BY <1>2, <1>3, <1>6, <1>7, <1>17

\* The first packet stands at the beginning.
LEMMA RowFirst ==
    ASSUME NEW b \in Seq(Byte), NEW s \in Seq(Packet), Row(b, s), s # <<>>
    PROVE  /\ s[1] \in Packet
           /\ Len(b) >= Size(s[1])
           /\ \A i \in 1 .. Size(s[1]) : b[i] = <<s[1], i>>
  <1>1. PICK at : Ends(b, s, at)
    BY DEF Row
  <1>2. PICK m \in Nat \ {0} : m = Len(s)
    BY EmptySeq
  <1>3. 1 \in 1 .. m /\ 1 \in 0 .. m /\ m \in 0 .. m /\ 1 - 1 = 0
    OBVIOUS
  <1>4. s[1] \in Packet
    BY <1>2, <1>3, ElementOfSeq
  <1>5. Size(s[1]) \in Nat
    BY <1>4, SizeIs
  <1>6. /\ at[1] = at[0] + Size(s[1]) /\ at[0] = 0
        /\ \A i \in 1 .. Size(s[1]) : b[at[0] + i] = <<s[1], i>>
    BY <1>1, <1>2, <1>3 DEF Ends
  <1>7. at[1] = Size(s[1])
    BY <1>5, <1>6
  <1>8. at[1] <= Len(b)
    BY <1>1, <1>2, <1>3 DEF Ends
  <1>9. ASSUME NEW i \in 1 .. Size(s[1]) PROVE b[i] = <<s[1], i>>
    <2>1. at[0] + i = i
      BY <1>5, <1>6
    <2> QED
      BY <1>6, <2>1
  <1> QED
    BY <1>4, <1>7, <1>8, <1>9

\* The bytes behind the first n.
LEMMA AfterIs ==
    ASSUME NEW S, NEW b \in Seq(S), NEW n \in Nat, n <= Len(b)
    PROVE  /\ After(b, n) \in Seq(S) /\ Len(After(b, n)) = Len(b) - n
           /\ \A i \in 1 .. Len(b) - n : After(b, n)[i] = b[n + i]
           /\ Leading(b, n) \in Seq(S) /\ Len(Leading(b, n)) = n
           /\ \A i \in 1 .. n : Leading(b, n)[i] = b[i]
           /\ Leading(b, n) \o After(b, n) = b
  <1>1. PICK l \in Nat : l = Len(b)
    BY LenProperties
  <1>2. \A i \in n + 1 .. l : b[i] \in S
    BY <1>1, ElementOfSeq
  <1>3. \A i \in 1 .. n : b[i] \in S
    BY <1>1, ElementOfSeq
  <1> DEFINE x == SubSeq(b, n + 1, l)
  <1>31. /\ x \in Seq(S) /\ Len(x) = IF n + 1 <= l THEN l - (n + 1) + 1 ELSE 0
         /\ \A i \in 1 .. l - (n + 1) + 1 : x[i] = b[n + 1 + i - 1]
    <2>1. n + 1 \in Int /\ l \in Int
      OBVIOUS
    <2> QED
      BY <1>2, <2>1, SubSeqProperties
  <1>4. PICK a \in Seq(S) : a = x
    BY <1>31
  <1>5. Len(a) = l - n /\ \A i \in 1 .. l - n : a[i] = b[n + i]
    <2>1. Len(a) = IF n + 1 <= l THEN l - (n + 1) + 1 ELSE 0
      BY <1>31, <1>4
    <2>2. \A i \in 1 .. l - (n + 1) + 1 : a[i] = b[n + 1 + i - 1]
      BY <1>31, <1>4
    <2>3. \A i \in 1 .. l - n : i \in 1 .. l - (n + 1) + 1 /\ n + 1 + i - 1 = n + i
      OBVIOUS
    <2>4. \A i \in 1 .. l - n : a[i] = b[n + i]
      BY <2>2, <2>3
    <2> QED
      BY <1>1, <2>1, <2>4
  <1> DEFINE y == SubSeq(b, 1, n)
  <1>51. /\ y \in Seq(S) /\ Len(y) = IF 1 <= n THEN n - 1 + 1 ELSE 0
         /\ \A i \in 1 .. n - 1 + 1 : y[i] = b[1 + i - 1]
    <2>1. 1 \in Int /\ n \in Int
      OBVIOUS
    <2> QED
      BY <1>3, <2>1, SubSeqProperties
  <1>6. PICK h \in Seq(S) : h = y
    BY <1>51
  <1>7. Len(h) = n /\ \A i \in 1 .. n : h[i] = b[i]
    <2>1. Len(h) = IF 1 <= n THEN n - 1 + 1 ELSE 0
      BY <1>51, <1>6
    <2>2. \A i \in 1 .. n - 1 + 1 : h[i] = b[1 + i - 1]
      BY <1>51, <1>6
    <2>3. \A i \in 1 .. n : i \in 1 .. n - 1 + 1 /\ 1 + i - 1 = i
      OBVIOUS
    <2> QED
      BY <2>1, <2>2, <2>3
  <1>8. PICK c \in Seq(S) : c = h \o a
    BY ConcatProperties
  <1>9. Len(c) = n + (l - n) /\ \A i \in 1 .. n + (l - n) : c[i] = IF i <= n THEN h[i] ELSE a[i - n]
    <2>1. Len(h) = n /\ Len(a) = l - n
      BY <1>5, <1>7
    <2>2. Len(h \o a) = Len(h) + Len(a)
      BY ConcatProperties
    <2>3. \A i \in 1 .. n + (l - n) : (h \o a)[i] = IF i <= n THEN h[i] ELSE a[i - n]
      BY <2>1, ConcatProperties
    <2> QED
      BY <1>8, <2>1, <2>2, <2>3
  <1>10. ASSUME NEW i \in 1 .. l PROVE c[i] = b[i]
    <2>1. CASE i <= n
      BY <1>7, <1>9, <2>1, <1>1
    <2>2. CASE ~(i <= n)
      <3>1. i - n \in 1 .. l - n /\ n + (i - n) = i /\ i \in 1 .. n + (l - n)
        BY <2>2
      <3> QED
        BY <1>5, <1>9, <2>2, <3>1
    <2> QED
      BY <2>1, <2>2
  <1>11. c = b
    BY <1>1, <1>9, <1>10, SeqEqual
  <1> QED
    BY <1>1, <1>4, <1>5, <1>6, <1>7, <1>8, <1>11 DEF After, Leading

\* The first packet is taken away.
LEMMA RowLess ==
    ASSUME NEW b \in Seq(Byte), NEW s \in Seq(Packet), Row(b, s), s # <<>>
    PROVE  Row(After(b, Size(s[1])), Tail(s))
  <1>1. PICK at : Ends(b, s, at)
    BY DEF Row
  <1>2. PICK m \in Nat \ {0} : m = Len(s)
    BY EmptySeq
  <1>3. PICK n \in Nat : n = Size(s[1])
    BY RowFirst, SizeIs
  <1>4. PICK l \in Nat : l = Len(b)
    BY LenProperties
  <1>5. n <= l
    BY <1>3, <1>4, RowFirst
  <1>6. PICK c \in Seq(Byte) : c = After(b, n) /\ Len(c) = l - n
                               /\ \A i \in 1 .. l - n : c[i] = b[n + i]
    <2>1. n <= Len(b)
      BY <1>4, <1>5
    <2>2. After(b, n) \in Seq(Byte) /\ Len(After(b, n)) = l - n
      BY <1>4, <2>1, AfterIs
    <2>3. \A i \in 1 .. l - n : After(b, n)[i] = b[n + i]
      BY <1>4, <2>1, AfterIs
    <2> QED
      BY <2>2, <2>3
  <1>7. PICK t \in Seq(Packet) : t = Tail(s) /\ Len(t) = m - 1
                                 /\ \A k \in 1 .. m - 1 : t[k] = s[k + 1]
    BY <1>2, HeadTailProperties
  <1>8. /\ at \in [0 .. m -> Nat] /\ at[0] = 0 /\ at[m] = l
        /\ \A k \in 1 .. m : /\ at[k] = at[k - 1] + Size(s[k])
                             /\ \A i \in 1 .. Size(s[k]) : b[at[k - 1] + i] = <<s[k], i>>
        /\ \A j, k \in 0 .. m : j <= k => at[j] <= at[k]
    BY <1>1, <1>2, <1>4 DEF Ends
  <1>9. at[1] = n
    <2>1. 1 \in 1 .. m /\ 1 - 1 = 0
      OBVIOUS
    <2>2. at[1] = at[0] + Size(s[1])
      BY <1>8, <2>1
    <2> QED
      BY <1>3, <1>8, <2>2
  <1>10. \A k \in 1 .. m : n <= at[k] /\ at[k] \in Nat
    BY <1>8, <1>9
  <1> DEFINE to == [k \in 0 .. m - 1 |-> at[k + 1] - n]
  <1>11. to \in [0 .. m - 1 -> Nat] /\ to[0] = 0 /\ to[m - 1] = l - n
    <2>1. \A k \in 0 .. m - 1 : k + 1 \in 1 .. m
      OBVIOUS
    <2>2. \A k \in 0 .. m - 1 : at[k + 1] - n \in Nat
      BY <1>10, <2>1
    <2>3. m - 1 + 1 = m /\ m - 1 \in 0 .. m - 1 /\ 0 \in 0 .. m - 1 /\ 0 + 1 = 1
      OBVIOUS
    <2>4. to[m - 1] = l - n
      BY <1>8, <2>3
    <2>5. to[0] = 0
      BY <1>9, <2>3
    <2> QED
      BY <2>2, <2>4, <2>5
  <1>12. \A k \in 0 .. m - 1 : to[k] = at[k + 1] - n /\ at[k + 1] \in Nat /\ n <= at[k + 1]
    BY <1>10
  <1> HIDE DEF to
  <1>13. ASSUME NEW j \in 0 .. m - 1, NEW k \in 0 .. m - 1, j <= k PROVE to[j] <= to[k]
    <2>1. j + 1 \in 0 .. m /\ k + 1 \in 0 .. m /\ j + 1 <= k + 1
      BY <1>13
    <2>2. at[j + 1] <= at[k + 1]
      BY <1>8, <2>1
    <2> QED
      BY <1>12, <2>2
  <1>14. ASSUME NEW k \in 1 .. m - 1
         PROVE  /\ to[k] = to[k - 1] + Size(t[k])
                /\ \A i \in 1 .. Size(t[k]) : c[to[k - 1] + i] = <<t[k], i>>
    <2>1. t[k] = s[k + 1] /\ k + 1 \in 1 .. m /\ k + 1 - 1 = k /\ k - 1 + 1 = k
      BY <1>7
    <2>2. s[k + 1] \in Packet /\ Size(s[k + 1]) \in Nat
      BY <1>2, <2>1, ElementOfSeq, SizeIs
    <2>3. /\ at[k + 1] = at[k] + Size(s[k + 1])
          /\ \A i \in 1 .. Size(s[k + 1]) : b[at[k] + i] = <<s[k + 1], i>>
      <3>1. PICK j \in 1 .. m : j = k + 1 /\ j - 1 = k
        BY <2>1
      <3>2. /\ at[j] = at[j - 1] + Size(s[j])
            /\ \A i \in 1 .. Size(s[j]) : b[at[j - 1] + i] = <<s[j], i>>
        BY <1>8
      <3> QED
        BY <3>1, <3>2
    <2>4. to[k - 1] = at[k] - n /\ to[k] = at[k + 1] - n /\ at[k] \in Nat /\ n <= at[k]
      BY <1>12, <2>1
    <2>5. at[k + 1] <= l /\ at[k + 1] \in Nat
      <3>1. k + 1 \in 0 .. m /\ m \in 0 .. m /\ k + 1 <= m
        BY <2>1
      <3> QED
        BY <1>8, <3>1
    <2>6. ASSUME NEW i \in 1 .. Size(s[k + 1]) PROVE c[to[k - 1] + i] = <<s[k + 1], i>>
      <3>1. to[k - 1] + i \in 1 .. l - n
        <4>1. PICK z \in Nat : z = Size(s[k + 1])
          BY <2>2
        <4>2. PICK e \in Nat : e = at[k]
          BY <2>4
        <4>3. at[k + 1] = e + z /\ e + z <= l
          BY <2>3, <2>5, <4>1, <4>2
        <4>4. to[k - 1] = e - n /\ n <= e /\ i \in 1 .. z
          BY <2>4, <4>1, <4>2
        <4> QED
          BY <4>3, <4>4
      <3>2. n + (to[k - 1] + i) = at[k] + i
        BY <2>2, <2>4
      <3>3. c[to[k - 1] + i] = b[at[k] + i]
        BY <1>6, <3>1, <3>2
      <3> QED
        BY <2>3, <2>6, <3>3
    <2>7. to[k] = to[k - 1] + Size(s[k + 1])
      BY <2>2, <2>3, <2>4, <2>5
    <2> QED
      BY <2>1, <2>6, <2>7
  <1>15. Ends(c, t, to)
    BY <1>6, <1>7, <1>11, <1>13, <1>14 DEF Ends
  <1> QED
    BY <1>3, <1>6, <1>7, <1>15 DEF Row

\* A row that has bytes has a packet.
LEMMA RowHas ==
    ASSUME NEW b \in Seq(Byte), NEW s \in Seq(Packet), Row(b, s), b # <<>>
    PROVE  s # <<>>
  BY RowOfNone

----------------------------------------------------------------------------
(* Sequences.                                                              *)

LEMMA AfterFront ==
    ASSUME NEW S, NEW a \in Seq(S), NEW b \in Seq(S), NEW n \in Nat, n <= Len(a)
    PROVE  After(a \o b, n) = After(a, n) \o b
  <1>1. PICK h \in Seq(S), t \in Seq(S) : h = Leading(a, n) /\ t = After(a, n) /\ h \o t = a /\ Len(h) = n
    BY AfterIs
  <1>2. a \o b = h \o (t \o b) /\ t \o b \in Seq(S) /\ a \o b \in Seq(S)
    <2>1. a \o b = h \o (t \o b)
      <3>1. (h \o t) \o b = h \o (t \o b)
        BY ConcatAssociative
      <3> QED
        BY <1>1, <3>1
    <2>2. t \o b \in Seq(S) /\ a \o b \in Seq(S)
      BY ConcatProperties
    <2> QED
      BY <2>1, <2>2
  <1>3. Len(a) \in Nat /\ Len(b) \in Nat /\ Len(a \o b) = Len(a) + Len(b)
    BY LenProperties, ConcatProperties
  <1>4. n <= Len(a \o b)
    BY <1>3
  <1>5. PICK c \in Seq(S) : c = a \o b
    BY <1>2
  <1>6. PICK d \in Seq(S) : d = After(c, n) /\ Len(d) = Len(c) - n
                           /\ \A i \in 1 .. Len(c) - n : d[i] = c[n + i]
    <2>1. n <= Len(c)
      BY <1>4, <1>5
    <2> QED
      BY <2>1, AfterIs
  <1>7. PICK e \in Seq(S) : e = t \o b
    BY <1>2
  <1>8. c = h \o e
    BY <1>2, <1>5, <1>7
  <1>9. PICK l \in Nat : l = Len(e)
    BY LenProperties
  <1>10. Len(c) = n + l
    <2>1. Len(c) = Len(h) + Len(e)
      BY <1>8, ConcatProperties
    <2> QED
      BY <1>1, <1>9, <2>1
  <1>11. ASSUME NEW i \in 1 .. l PROVE d[i] = e[i]
    <2>1. n + i \in 1 .. Len(h) + Len(e) /\ ~(n + i <= Len(h)) /\ n + i - Len(h) = i
      BY <1>1, <1>9
    <2>2. c[n + i] = IF n + i <= Len(h) THEN h[n + i] ELSE e[n + i - Len(h)]
      BY <1>8, <2>1, ConcatProperties
    <2>3. d[i] = c[n + i]
      BY <1>6, <1>10
    <2> QED
      BY <2>1, <2>2, <2>3
  <1>12. Len(d) = l
    BY <1>6, <1>10
  <1>13. d = e
    BY <1>9, <1>11, <1>12, SeqEqual
  <1> QED
    BY <1>1, <1>5, <1>6, <1>7, <1>13

\* The first of what is to come becomes the last of what was.
LEMMA HeadMoves ==
    ASSUME NEW S, NEW a \in Seq(S), NEW s \in Seq(S), s # <<>>
    PROVE  /\ s[1] \in S /\ Tail(s) \in Seq(S) /\ Append(a, s[1]) \in Seq(S)
           /\ a \o s = Append(a, s[1]) \o Tail(s)
  <1>1. PICK m \in Nat \ {0} : m = Len(s)
    BY EmptySeq
  <1>2. s[1] \in S
    BY <1>1, ElementOfSeq
  <1>3. PICK t \in Seq(S) : t = Tail(s) /\ Len(t) = m - 1 /\ \A i \in 1 .. m - 1 : t[i] = s[i + 1]
    <2>1. Tail(s) \in Seq(S) /\ Len(Tail(s)) = m - 1
      BY <1>1, HeadTailProperties
    <2>2. \A i \in 1 .. m - 1 : Tail(s)[i] = s[i + 1]
      BY <1>1, <2>1, HeadTailProperties
    <2> QED
      BY <2>1, <2>2
  <1>4. PICK l \in Nat : l = Len(a)
    BY LenProperties
  <1>5. PICK c \in Seq(S) : c = Append(a, s[1]) /\ Len(c) = l + 1 /\ c[l + 1] = s[1]
                           /\ \A i \in 1 .. l : c[i] = a[i]
    <2>1. Append(a, s[1]) \in Seq(S) /\ Len(Append(a, s[1])) = l + 1
      BY <1>2, <1>4, AppendProperties
    <2>2. Append(a, s[1])[l + 1] = s[1] /\ \A i \in 1 .. l : Append(a, s[1])[i] = a[i]
      BY <1>2, <1>4, AppendProperties
    <2> QED
      BY <2>1, <2>2
  <1>6. PICK d \in Seq(S) : d = a \o s /\ Len(d) = l + m
                           /\ \A i \in 1 .. l + m : d[i] = IF i <= l THEN a[i] ELSE s[i - l]
    <2>1. a \o s \in Seq(S) /\ Len(a \o s) = Len(a) + Len(s)
      BY ConcatProperties
    <2>2. \A i \in 1 .. Len(a) + Len(s) : (a \o s)[i] = IF i <= Len(a) THEN a[i] ELSE s[i - Len(a)]
      BY ConcatProperties
    <2> QED
      BY <1>1, <1>4, <2>1, <2>2
  <1>7. PICK e \in Seq(S) : e = c \o t /\ Len(e) = l + 1 + (m - 1)
                           /\ \A i \in 1 .. l + 1 + (m - 1) : e[i] = IF i <= l + 1 THEN c[i] ELSE t[i - (l + 1)]
    <2>1. c \o t \in Seq(S) /\ Len(c \o t) = Len(c) + Len(t)
      BY ConcatProperties
    <2>2. \A i \in 1 .. Len(c) + Len(t) : (c \o t)[i] = IF i <= Len(c) THEN c[i] ELSE t[i - Len(c)]
      BY ConcatProperties
    <2>3. Len(c) = l + 1 /\ Len(t) = m - 1
      BY <1>3, <1>5
    <2> QED
      BY <2>1, <2>2, <2>3
  <1>8. l + 1 + (m - 1) = l + m
    OBVIOUS
  <1>9. ASSUME NEW i \in 1 .. l + m PROVE d[i] = e[i]
    <2>1. CASE i <= l
      <3>1. d[i] = a[i] /\ e[i] = c[i] /\ c[i] = a[i]
        BY <1>5, <1>6, <1>7, <1>8, <2>1
      <3> QED
        BY <3>1
    <2>2. CASE i = l + 1
      <3>1. d[i] = s[i - l] /\ i - l = 1
        BY <1>6, <2>2
      <3>2. e[i] = c[i]
        BY <1>7, <1>8, <2>2
      <3> QED
        BY <1>5, <2>2, <3>1, <3>2
    <2>3. CASE i > l + 1
      <3>1. d[i] = s[i - l]
        BY <1>6, <2>3
      <3>2. e[i] = t[i - (l + 1)]
        BY <1>7, <1>8, <2>3
      <3>3. i - (l + 1) \in 1 .. m - 1 /\ i - (l + 1) + 1 = i - l
        BY <2>3
      <3>4. t[i - (l + 1)] = s[i - l]
        BY <1>3, <3>3
      <3> QED
        BY <3>1, <3>2, <3>4
    <2>4. i <= l \/ i = l + 1 \/ i > l + 1
      OBVIOUS
    <2> QED
      BY <2>1, <2>2, <2>3, <2>4
  <1>10. d = e
    BY <1>6, <1>7, <1>8, <1>9, SeqEqual
  <1> QED
    BY <1>2, <1>3, <1>5, <1>6, <1>7, <1>10

LEMMA FrontIsPrefix ==
    ASSUME NEW S, NEW a \in Seq(S), NEW s \in Seq(S), NEW t, t = a \o s
    PROVE  IsPrefix(a, t)
  <1>1. t \in Seq(S)
    BY ConcatProperties
  <1>2. Len(a) \in Nat /\ Len(s) \in Nat /\ Len(t) = Len(a) + Len(s)
    BY ConcatProperties, LenProperties
  <1>3. Leading(a, Len(a)) = a
    BY SubSeqFull DEF Leading
  <1>4. \A i \in 1 .. Len(a) : t[i] = a[i]
    <2>1. \A i \in 1 .. Len(a) + Len(s) : t[i] = IF i <= Len(a) THEN a[i] ELSE s[i - Len(a)]
      BY ConcatProperties
    <2>2. \A i \in 1 .. Len(a) : i \in 1 .. Len(a) + Len(s) /\ i <= Len(a)
      BY <1>2
    <2> QED
      BY <2>1, <2>2
  <1>5. PICK b \in Seq(S) : b = Leading(t, Len(a)) /\ Len(b) = Len(a) /\ \A i \in 1 .. Len(a) : b[i] = t[i]
    <2>1. PICK n \in Nat : n = Len(a) /\ n <= Len(t)
      BY <1>2
    <2>2. Leading(t, n) \in Seq(S) /\ Len(Leading(t, n)) = n
      BY <1>1, <2>1, AfterIs
    <2>3. \A i \in 1 .. n : Leading(t, n)[i] = t[i]
      BY <1>1, <2>1, AfterIs
    <2> QED
      BY <2>1, <2>2, <2>3
  <1>6. a = b
    BY <1>4, <1>5, SeqEqual
  <1>7. Len(a) <= Len(t)
    BY <1>2
  <1> QED
    BY <1>3, <1>5, <1>6, <1>7 DEF IsPrefix, Leading

----------------------------------------------------------------------------
(* What the client will send is a row of its commands.                     *)

\* A non-empty set of numbers has a least one.
Less == {q \in Nat \X Nat : q[1] < q[2]}

LEMMA LeastNumber ==
    ASSUME NEW T, T \subseteq Nat, T # {}
    PROVE  \E n \in T : \A k \in T : n <= k
  <1>1. IsWellFoundedOn(Less, Nat)
    BY NatLessThanWellFounded DEF Less, OpToRel
  <1>2. PICK n \in T : \A k \in T : <<k, n>> \notin Less
    BY <1>1, WFMin
  <1>3. ASSUME NEW k \in T PROVE n <= k
    <2>1. k \in Nat /\ n \in Nat /\ ~(k < n)
      BY <1>2 DEF Less
    <2> QED
      BY <2>1
  <1> QED
    BY <1>3

Streams(f, n) ==
    f = [k \in 0 .. n |-> IF k = 0 THEN <<>>
                          ELSE f[k - 1] \o Bytes(Command[k], Size(Command[k]))]

LEMMA StreamsExist ==
    ASSUME NEW n \in Nat
    PROVE  \E f : Streams(f, n)
  <1> DEFINE Bad == {m \in Nat : ~\E f : Streams(f, m)}
  <1> SUFFICES ASSUME Bad # {} PROVE FALSE
    OBVIOUS
  <1>1. PICK m \in Bad : \A k \in Bad : m <= k
    BY LeastNumber
  <1>2. m \in Nat /\ ~\E f : Streams(f, m)
    BY <1>1
  <1>3. m # 0
    <2>1. Streams([k \in 0 .. 0 |-> <<>>], 0)
      BY DEF Streams
    <2> QED
      BY <1>2, <2>1
  <1>4. PICK f : Streams(f, m - 1)
    BY <1>1, <1>2, <1>3
  <1> DEFINE g == [k \in 0 .. m |-> IF k = m THEN f[m - 1] \o Bytes(Command[m], Size(Command[m]))
                                    ELSE f[k]]
  <1>5. ASSUME NEW k \in 0 .. m
        PROVE  g[k] = IF k = 0 THEN <<>> ELSE g[k - 1] \o Bytes(Command[k], Size(Command[k]))
    <2>1. CASE k = m
      <3>1. k - 1 \in 0 .. m /\ k - 1 # m /\ k # 0
        BY <1>2, <1>3, <2>1
      <3> QED
        BY <2>1, <3>1
    <2>2. CASE k # m
      <3>1. k \in 0 .. m - 1
        BY <2>2, <1>2
      <3>2. f[k] = IF k = 0 THEN <<>> ELSE f[k - 1] \o Bytes(Command[k], Size(Command[k]))
        BY <3>1, <1>4 DEF Streams
      <3>3. k # 0 => k - 1 \in 0 .. m /\ k - 1 # m
        BY <3>1, <1>2
      <3> QED
        BY <3>2, <3>3, <2>2
    <2> QED
      BY <2>1, <2>2
  <1>6. Streams(g, m)
    BY <1>5 DEF Streams
  <1> QED
    BY <1>2, <1>6

\* What the first n commands make is a row of them.
Sends(b, n) == b \in Seq(Byte) /\ Row(b, SubSeq(Command, 1, n))

LEMMA StreamIsRow == Stream[Len(Command)] \in Seq(Byte) /\ Row(Stream[Len(Command)], Command)
  <1>1. Command \in Seq(Packet)
    BY PacketAssumption, SeqMonotonic DEF Packet
  <1>2. PICK n \in Nat : n = Len(Command)
    BY <1>1, LenProperties
  <1>3. Streams(Stream, n)
    <2>1. \E f : Streams(f, n)
      BY StreamsExist
    <2>2. Stream = CHOOSE f : Streams(f, n)
      BY <1>2 DEF Stream, Streams, Size
    <2> QED
      BY <2>1, <2>2
  <1>4. \A k \in 0 .. n : Stream[k] = IF k = 0 THEN <<>>
                                      ELSE Stream[k - 1] \o Bytes(Command[k], Size(Command[k]))
    BY <1>3 DEF Streams
  <1>8. ASSUME NEW k \in 1 .. n
        PROVE  Stream[k] = Stream[k - 1] \o Bytes(Command[k], Size(Command[k]))
    <2>1. k \in 0 .. n /\ k # 0
      OBVIOUS
    <2> QED
      BY <1>4, <2>1
  <1> DEFINE Bad == {k \in Nat : k <= n /\ ~Sends(Stream[k], k)}
  <1>5. ASSUME Bad # {} PROVE FALSE
    <2>1. PICK m \in Bad : \A k \in Bad : m <= k
      BY <1>5, LeastNumber
    <2>2. m \in 0 .. n /\ ~Sends(Stream[m], m)
      BY <2>1
    <2>3. CASE m = 0
      <3>1. Stream[m] = <<>>
        BY <1>4, <2>2, <2>3
      <3>2. SubSeq(Command, 1, 0) = <<>>
        BY SubSeqEmpty
      <3> QED
        BY <2>2, <2>3, <3>1, <3>2, RowEmpty, EmptySeq DEF Sends
    <2>4. CASE m # 0
      <3>1. m - 1 \in 0 .. n /\ m \in 1 .. n /\ m - 1 \in Nat /\ m - 1 <= n /\ ~(m <= m - 1)
        BY <2>2, <2>4
      <3>2. Sends(Stream[m - 1], m - 1)
        BY <2>1, <3>1
      <3>3. Command[m] \in Packet
        BY <1>1, <1>2, <3>1, ElementOfSeq
      <3>4. PICK a \in Seq(Packet), b \in Seq(Packet) :
              a = SubSeq(Command, 1, m - 1) /\ b = SubSeq(Command, 1, m)
        <4>1. m - 1 <= Len(Command) /\ m \in Nat /\ m <= Len(Command)
          BY <1>2, <3>1
        <4>2. Leading(Command, m - 1) \in Seq(Packet)
          BY <1>1, <3>1, <4>1, AfterIs
        <4>3. Leading(Command, m) \in Seq(Packet)
          BY <1>1, <4>1, AfterIs
        <4> QED
          BY <4>2, <4>3 DEF Leading
      <3>5. Append(a, Command[m]) = b
        <4>1. 1 \in 1 .. Len(Command) /\ m \in 1 .. Len(Command)
          BY <1>2, <3>1
        <4>2. SubSeq(Command, 1, m) = SubSeq(Command, 1, m - 1) \o <<Command[m]>>
          <5>1. m \in 1 .. Len(Command)
            BY <4>1
          <5> QED
            BY <1>1, <4>1, <5>1, SubSeqRecursiveSecond
        <4> QED
          <5>1. Append(a, Command[m]) = a \o <<Command[m]>>
            BY <3>3, AppendIsConcat
          <5> QED
            BY <3>4, <4>2, <5>1
      <3>6. Stream[m] = Stream[m - 1] \o Bytes(Command[m], Size(Command[m]))
        BY <1>8, <3>1
      <3>7. Sends(Stream[m], m)
        <4>1. PICK c \in Seq(Byte) : c = Stream[m - 1] /\ Row(c, a)
          BY <3>2, <3>4 DEF Sends
        <4>2. /\ c \o Bytes(Command[m], Size(Command[m])) \in Seq(Byte)
              /\ Row(c \o Bytes(Command[m], Size(Command[m])), Append(a, Command[m]))
          BY <3>3, <4>1, RowMore
        <4> QED
          BY <3>4, <3>5, <3>6, <4>1, <4>2 DEF Sends
      <3> QED
        BY <2>2, <3>7
    <2> QED
      BY <2>3, <2>4
  <1>6. Sends(Stream[n], n)
    BY <1>5
  <1>7. SubSeq(Command, 1, n) = Command
    BY <1>1, <1>2, SubSeqFull
  <1> QED
    BY <1>2, <1>6, <1>7 DEF Sends

----------------------------------------------------------------------------
(* The server.                                                             *)

Reply == Range(Answer) \union News
Task  == [pc : {"idle", "parse", "send", "post", "release"}, packet : Packet \union {None}]

\* What fits into a send buffer.
Fit == {p \in Reply : SizeOf[p] <= BufSize}

ServerTypes ==
    /\ conn \in {"up", "reset", "closed"}
    /\ toServer \in Seq(Byte) /\ recvBuf \in Seq(Byte) /\ Len(recvBuf) <= BufSize
    /\ armed \in BOOLEAN
    /\ work \in [Worker -> Task]
    /\ handled \in Seq(Range(Command))
    /\ news \subseteq News
    /\ buf \in [Over -> Packet \union {None}]
    /\ posted \in Seq(Over)
    /\ sent \in Seq(Fit)

\* A handler has a packet exactly where it sends one.
Holds(r) ==
    /\ r.pc \in {"idle", "parse"} => r.packet = None
    /\ r.pc = "send" => r.packet \in Reply
    /\ r.pc = "post" => r.packet \in Fit
    /\ r.pc = "release" => r.packet \in Reply \union {None}
Tasks == \A w \in Worker : Holds(work[w])

\* A handler of a receive: of its bytes, or of an answer to them.
Reads(r) == r.pc = "parse" \/ r.packet \in Range(Answer)

\* One WSARecv is outstanding, or one worker handles its bytes.
OneReader ==
    /\ \A w \in Worker : Reads(work[w]) => ~armed
    /\ \A v, w \in Worker : Reads(work[v]) /\ Reads(work[w]) => v = w

\* What is in the buffer or on its way is the commands not handled yet.
Commands == \E todo \in Seq(Range(Command)) :
              Command = handled \o todo /\ Row(recvBuf \o toServer, todo)

LEMMA ReplyIs == /\ Reply \subseteq Packet /\ None \notin Reply /\ Fit \subseteq Reply
                 /\ Range(Command) \subseteq Packet
                 /\ \A p \in Reply : SizeOf[p] \in Nat /\ SizeOf[p] >= 3
                 /\ \A p \in Fit : Size(p) = SizeOf[p]
  <1>1. Reply \subseteq Packet
    BY DEF Reply, Packet
  <1>2. \A p \in Reply : SizeOf[p] \in Nat /\ SizeOf[p] >= 3
    BY <1>1, SizeAssumption DEF Reply
  <1>3. None \notin Reply
    BY <1>1, PacketAssumption
  <1>4. \A p \in Fit : Size(p) = SizeOf[p]
    BY <1>2, SizeAssumption DEF Fit, Size
  <1> QED
    BY <1>1, <1>2, <1>3, <1>4 DEF Fit, Packet

\* A step of one worker.
LEMMA TaskStep ==
    ASSUME ServerTypes, Tasks, NEW w \in Worker, NEW r \in Task, Holds(r),
           work' = [work EXCEPT ![w] = r]
    PROVE  work' \in [Worker -> Task] /\ Tasks'
  BY DEF ServerTypes, Tasks

LEMMA ReaderStep ==
    ASSUME ServerTypes, OneReader, NEW w \in Worker, NEW r \in Task,
           work' = [work EXCEPT ![w] = r],
           Reads(r) => ~armed' /\ (armed \/ Reads(work[w])),
           armed' => armed \/ Reads(work[w])
    PROVE  OneReader'
  <1>1. work'[w] = r /\ \A v \in Worker \ {w} : work'[v] = work[v]
    BY DEF ServerTypes
  <1>2. ASSUME NEW v \in Worker, Reads(work'[v]) PROVE ~armed'
    BY <1>1, <1>2 DEF OneReader
  <1>3. ASSUME NEW u \in Worker, NEW v \in Worker, Reads(work'[u]), Reads(work'[v]) PROVE u = v
    BY <1>1, <1>3 DEF OneReader
  <1> QED
    BY <1>2, <1>3 DEF OneReader, Reads

LEMMA SameReader ==
    ASSUME OneReader, work' = work, armed' => armed
    PROVE  OneReader'
  BY DEF OneReader, Reads

\* What Resume goes on with.
Resumed(r) == IF r.packet \in News THEN Idle ELSE [pc |-> "parse", packet |-> None]

LEMMA IdleTask == /\ Idle \in Task /\ Holds(Idle) /\ ~Reads(Idle)
                  /\ [pc |-> "parse", packet |-> None] \in Task
                  /\ Holds([pc |-> "parse", packet |-> None])
                  /\ Reads([pc |-> "parse", packet |-> None])
  <1>1. None \notin Range(Answer)
    BY PacketAssumption DEF Packet
  <1> QED
    BY <1>1 DEF Idle, Task, Holds, Reads

\* The handler of an answer goes on with the buffer, that of news is at its end.
LEMMA Resumes ==
    ASSUME ServerTypes, Tasks, OneReader, NEW w \in Worker, work[w].packet \in Reply,
           Resume(w), armed' = armed
    PROVE  work' \in [Worker -> Task] /\ Tasks' /\ OneReader'
  <1> DEFINE r == Resumed(work[w])
  <1>1. work' = [work EXCEPT ![w] = r]
    BY DEF Resume, Resumed
  <1>2. r \in Task /\ Holds(r)
    BY IdleTask DEF Resumed
  <1>3. Reads(r) => Reads(work[w])
    BY IdleTask DEF Resumed, Reads, Reply
  <1>4. Reads(r) => ~armed' /\ Reads(work[w])
    BY <1>3 DEF OneReader
  <1> HIDE DEF r
  <1>5. work' \in [Worker -> Task] /\ Tasks'
    BY <1>1, <1>2, TaskStep
  <1>6. OneReader'
    BY <1>1, <1>2, <1>4, ReaderStep
  <1> QED
    BY <1>5, <1>6

LEMMA GotoIs ==
    ASSUME ServerTypes, NEW w \in Worker, NEW pc \in {"idle", "parse", "send", "post", "release"},
           Goto(w, pc)
    PROVE  \E r \in Task : /\ r.pc = pc /\ r.packet = work[w].packet
                           /\ work' = [work EXCEPT ![w] = r]
  <1> DEFINE r == [work[w] EXCEPT !.pc = pc]
  <1>1. work[w] \in Task
    BY DEF ServerTypes
  <1>2. r \in Task /\ r.pc = pc /\ r.packet = work[w].packet
    BY <1>1 DEF Task
  <1>3. work' = [work EXCEPT ![w] = r]
    BY DEF Goto
  <1> QED
    BY <1>2, <1>3

LEMMA RemoveType ==
    ASSUME NEW S, NEW s \in Seq(S), NEW k \in 1 .. Len(s)
    PROVE  RemoveAt(s, k) \in Seq(S)
  <1>1. PICK n \in Nat : n = Len(s)
    BY LenProperties
  <1>2. k \in Nat /\ k - 1 \in Nat /\ k <= Len(s) /\ k - 1 <= Len(s)
    BY <1>1
  <1>3. Leading(s, k - 1) \in Seq(S)
    BY <1>2, AfterIs
  <1>4. After(s, k) \in Seq(S)
    BY <1>2, AfterIs
  <1> QED
    BY <1>3, <1>4, ConcatProperties DEF RemoveAt, Leading, After
SInv == ServerTypes /\ Tasks /\ OneReader /\ Commands /\ RoomToReceive

LEMMA RecvStep == ASSUME SInv, NEW w \in Worker, Recv(w) PROVE SInv'
  <1> USE DEF SInv
  <1>1. PICK n \in Nat : /\ n <= Len(toServer) /\ Len(recvBuf) + n <= BufSize
                         /\ recvBuf' = recvBuf \o Leading(toServer, n)
                         /\ toServer' = After(toServer, n)
    <2>1. PICK l \in Nat : l = Len(recvBuf)
      BY LenProperties DEF ServerTypes
    <2>2. \A n \in 1 .. BufSize - l : n \in Nat /\ l + n <= BufSize
      BY SizeAssumption
    <2> QED
      BY <2>1, <2>2 DEF Recv, Room
  <1>2. /\ Leading(toServer, n) \in Seq(Byte) /\ After(toServer, n) \in Seq(Byte)
        /\ Leading(toServer, n) \o After(toServer, n) = toServer
    BY <1>1, AfterIs DEF ServerTypes
  <1>3. recvBuf' \in Seq(Byte) /\ toServer' \in Seq(Byte) /\ Len(recvBuf') <= BufSize
    <2>1. PICK h \in Seq(Byte) : h = Leading(toServer, n) /\ Len(h) = n
      BY <1>1, <1>2, AfterIs DEF ServerTypes
    <2>2. recvBuf \o h \in Seq(Byte) /\ Len(recvBuf \o h) = Len(recvBuf) + n
      BY <2>1, ConcatProperties DEF ServerTypes
    <2> QED
      BY <1>1, <1>2, <2>1, <2>2
  <1>4. recvBuf' \o toServer' = recvBuf \o toServer
    <2>1. (recvBuf \o Leading(toServer, n)) \o After(toServer, n)
            = recvBuf \o (Leading(toServer, n) \o After(toServer, n))
      <3>1. recvBuf \in Seq(Byte)
        BY DEF ServerTypes
      <3>2. PICK h \in Seq(Byte), t \in Seq(Byte) :
              h = Leading(toServer, n) /\ t = After(toServer, n)
        BY <1>2
      <3>3. (recvBuf \o h) \o t = recvBuf \o (h \o t)
        BY <3>1, ConcatAssociative
      <3> QED
        BY <3>2, <3>3
    <2> QED
      BY <1>1, <1>2, <2>1
  <1>5. Commands'
    BY <1>4 DEF Commands, Recv
  <1>6. PICK r \in Task : r.pc = "parse" /\ r.packet = work[w].packet /\ work' = [work EXCEPT ![w] = r]
    BY GotoIs DEF Recv
  <1>7. r.packet = None
    BY <1>6 DEF Recv, Tasks, Holds
  <1>8. work' \in [Worker -> Task] /\ Tasks'
    BY <1>6, <1>7, TaskStep DEF Holds
  <1>9. armed /\ ~armed'
    BY DEF Recv
  <1>10. OneReader'
    BY <1>6, <1>9, ReaderStep
  <1>11. ServerTypes'
    BY <1>3, <1>8, <1>9 DEF ServerTypes, Recv, wireVars
  <1>12. RoomToReceive'
    BY <1>9 DEF RoomToReceive
  <1> QED
    BY <1>5, <1>8, <1>10, <1>11, <1>12

LEMMA RecvFailsStep == ASSUME SInv, NEW w \in Worker, RecvFails(w) PROVE SInv'
  <1> USE DEF SInv
  <1>1. work' = work /\ ~armed' /\ UNCHANGED <<recvBuf, toServer, handled>>
    BY DEF RecvFails
  <1>2. ServerTypes' /\ Tasks'
    BY DEF ServerTypes, Tasks, RecvFails, wireVars
  <1>3. OneReader' /\ RoomToReceive' /\ Commands'
    BY <1>1, SameReader DEF RoomToReceive, Commands
  <1> QED
    BY <1>2, <1>3

\* The bytes that are kept begin with a packet, if there are any.
LEMMA FirstBytes ==
    ASSUME NEW a \in Seq(Byte), NEW b \in Seq(Byte), NEW todo \in Seq(Packet), Row(a \o b, todo),
           NEW l \in Nat, l = Len(a), l >= 1
    PROVE  todo # <<>> /\ todo[1] \in Packet /\ a[1] = <<todo[1], 1>>
  <1>1. PICK c \in Seq(Byte) : c = a \o b
    BY ConcatProperties
  <1>2. Len(b) \in Nat /\ Len(c) = Len(a) + Len(b)
    BY <1>1, ConcatProperties, LenProperties
  <1>3. c # <<>>
    BY <1>2, EmptySeq
  <1>4. todo # <<>>
    BY <1>1, <1>3, RowHas
  <1>5. todo[1] \in Packet /\ \A i \in 1 .. Size(todo[1]) : c[i] = <<todo[1], i>>
    BY <1>1, <1>4, RowFirst
  <1>6. Size(todo[1]) \in Nat /\ Size(todo[1]) >= 1
    BY <1>5, SizeIs
  <1>7. c[1] = <<todo[1], 1>>
    BY <1>5, <1>6
  <1>8. c[1] = a[1]
    <2>1. 1 \in 1 .. Len(a) + Len(b) /\ 1 <= Len(a)
      BY <1>2
    <2> QED
      BY <1>1, <2>1, ConcatProperties
  <1> QED
    BY <1>4, <1>5, <1>7, <1>8

LEMMA ParseStep == ASSUME SInv, NEW w \in Worker, Parse(w) PROVE SInv'
  <1> USE DEF SInv
  <1>1. PICK todo \in Seq(Range(Command)) : Command = handled \o todo /\ Row(recvBuf \o toServer, todo)
    BY DEF Commands
  <1>2. todo \in Seq(Packet)
    BY ReplyIs, SeqMonotonic
  <1>3. PICK l \in Nat : l = Len(recvBuf) /\ l >= 3
    BY LenProperties DEF ServerTypes, Parse
  <1>4. todo # <<>> /\ todo[1] \in Packet /\ recvBuf[1] = <<todo[1], 1>>
    <2>1. l >= 1
      BY <1>3
    <2>2. recvBuf \in Seq(Byte) /\ toServer \in Seq(Byte)
      BY DEF ServerTypes
    <2> QED
      BY <1>1, <1>2, <1>3, <2>1, <2>2, FirstBytes
  <1>5. PICK p \in Packet : p = todo[1] /\ recvBuf[1][1] = p /\ recvBuf[1][2] = 1
    BY <1>4
  <1>6. p \in Range(Command)
    BY <1>4, <1>5, HeadMoves
  <1>7. SizeAt(recvBuf) = SizeOf[p]
    BY <1>5 DEF SizeAt
  <1>8. /\ SizeOf[p] \in 3 .. BufSize /\ SizeOf[p] <= Len(recvBuf)
        /\ handled' = Append(handled, p)
        /\ recvBuf' = After(recvBuf, SizeOf[p])
        /\ work' = [work EXCEPT ![w] = [pc |-> "send", packet |-> Answer[p]]]
        /\ work[w].pc = "parse"
        /\ UNCHANGED <<conn, toServer, armed, news, wireVars>>
    BY <1>5, <1>7 DEF Parse
  <1>9. SizeOf[p] \in Nat /\ Size(p) = SizeOf[p]
    BY <1>8, SizeAssumption DEF Size
  <1>10. /\ recvBuf' \in Seq(Byte) /\ Len(recvBuf') <= BufSize
         /\ recvBuf' \o toServer' = After(recvBuf \o toServer, SizeOf[p])
    <2>1. recvBuf \in Seq(Byte) /\ toServer \in Seq(Byte) /\ Len(recvBuf) <= BufSize
      BY DEF ServerTypes
    <2>2. After(recvBuf, SizeOf[p]) \in Seq(Byte) /\ Len(After(recvBuf, SizeOf[p])) = Len(recvBuf) - SizeOf[p]
      <3>1. PICK n \in Nat : n = SizeOf[p] /\ n <= Len(recvBuf)
        BY <1>8, <1>9
      <3>2. After(recvBuf, n) \in Seq(Byte) /\ Len(After(recvBuf, n)) = Len(recvBuf) - n
        BY <2>1, <3>1, AfterIs
      <3> QED
        BY <3>1, <3>2
    <2>3. After(recvBuf \o toServer, SizeOf[p]) = After(recvBuf, SizeOf[p]) \o toServer
      BY <1>8, <1>9, <2>1, AfterFront
    <2>4. Len(recvBuf) - SizeOf[p] <= BufSize
      BY <1>3, <1>9, <2>1, SizeAssumption
    <2> QED
      BY <1>8, <2>2, <2>3, <2>4
  <1>11. Row(recvBuf' \o toServer', Tail(todo))
    <2>1. recvBuf \o toServer \in Seq(Byte)
      BY ConcatProperties DEF ServerTypes
    <2>2. Row(After(recvBuf \o toServer, Size(todo[1])), Tail(todo))
      BY <1>1, <1>2, <1>4, <2>1, RowLess
    <2> QED
      BY <1>5, <1>9, <1>10, <2>2
  <1>12. /\ Tail(todo) \in Seq(Range(Command)) /\ handled' \in Seq(Range(Command))
         /\ Command = handled' \o Tail(todo)
    <2>1. handled \in Seq(Range(Command))
      BY DEF ServerTypes
    <2>2. /\ Tail(todo) \in Seq(Range(Command)) /\ Append(handled, todo[1]) \in Seq(Range(Command))
          /\ handled \o todo = Append(handled, todo[1]) \o Tail(todo)
      BY <1>4, <2>1, HeadMoves
    <2> QED
      BY <1>1, <1>5, <1>8, <2>2
  <1>13. Commands'
    BY <1>11, <1>12 DEF Commands
  <1>14. PICK r \in Task : r = [pc |-> "send", packet |-> Answer[p]] /\ Holds(r) /\ Reads(r)
    <2>1. Answer[p] \in Range(Answer)
      BY <1>6, PacketAssumption
    <2>2. Answer[p] \in Reply /\ Answer[p] \in Packet
      BY <2>1 DEF Reply, Packet
    <2>3. PICK q \in Packet : q = Answer[p] /\ q \in Reply /\ q \in Range(Answer)
      BY <2>1, <2>2
    <2> DEFINE s == [pc |-> "send", packet |-> q]
    <2>4. s \in Task /\ s.pc = "send" /\ s.packet = q
      BY DEF Task
    <2>5. Holds(s) /\ Reads(s)
      BY <2>3, <2>4 DEF Holds, Reads
    <2> QED
      BY <2>3, <2>4, <2>5
  <1>15. Reads(work[w]) /\ ~armed
    BY <1>8 DEF Reads, OneReader
  <1>16. work' \in [Worker -> Task] /\ Tasks'
    BY <1>8, <1>14, TaskStep
  <1>17. OneReader'
    BY <1>8, <1>14, <1>15, ReaderStep
  <1>18. ServerTypes'
    BY <1>8, <1>10, <1>12, <1>16 DEF ServerTypes, wireVars
  <1>19. RoomToReceive'
    BY <1>8, <1>15 DEF RoomToReceive
  <1> QED
    BY <1>13, <1>16, <1>17, <1>18, <1>19

LEMMA ParseBrokenStep == ASSUME SInv, NEW w \in Worker, ParseBroken(w) PROVE SInv'
  <1> USE DEF SInv
  <1>1. work' = [work EXCEPT ![w] = Idle] /\ UNCHANGED <<toServer, serverVars, wireVars>>
    BY DEF ParseBroken, Finish
  <1>2. work' \in [Worker -> Task] /\ Tasks'
    BY <1>1, IdleTask, TaskStep
  <1>3. OneReader'
    BY <1>1, IdleTask, ReaderStep DEF serverVars
  <1>4. ServerTypes'
    BY <1>1, <1>2 DEF ServerTypes, serverVars, wireVars, ParseBroken
  <1>5. Commands' /\ RoomToReceive'
    BY <1>1 DEF Commands, RoomToReceive, Room, serverVars
  <1> QED
    BY <1>2, <1>3, <1>4, <1>5

LEMMA ParseEndStep == ASSUME SInv, NEW w \in Worker, ParseEnd(w) PROVE SInv'
  <1> USE DEF SInv
  <1>1. /\ work[w].pc = "parse" /\ armed' /\ work' = [work EXCEPT ![w] = Idle]
        /\ UNCHANGED <<conn, toServer, recvBuf, handled, news, wireVars>>
    BY DEF ParseEnd, Finish
  <1>2. work' \in [Worker -> Task] /\ Tasks'
    BY <1>1, IdleTask, TaskStep
  <1>3. Reads(work[w])
    BY <1>1 DEF Reads
  <1>4. OneReader'
    BY <1>1, <1>3, IdleTask, ReaderStep
  <1>5. ServerTypes'
    BY <1>1, <1>2 DEF ServerTypes, wireVars, ParseEnd
  <1>6. RoomToReceive'
    <2>1. PICK l \in Nat : l = Len(recvBuf)
      BY LenProperties DEF ServerTypes
    <2>2. l >= 3 => SizeAt(recvBuf) \in (l + 1) .. BufSize
      BY <2>1 DEF ParseEnd
    <2>3. BufSize - l > 0
      BY <2>2, SizeAssumption
    <2> QED
      BY <1>1, <2>1, <2>3 DEF RoomToReceive, Room
  <1>7. Commands'
    BY <1>1 DEF Commands
  <1> QED
    BY <1>2, <1>4, <1>5, <1>6, <1>7

LEMMA TellStep == ASSUME SInv, NEW w \in Worker, Tell(w) PROVE SInv'
  <1> USE DEF SInv
  <1>1. PICK p \in news : /\ news' = news \ {p}
                          /\ work' = [work EXCEPT ![w] = [pc |-> "send", packet |-> p]]
    BY DEF Tell
  <1>2. p \in News /\ p \in Reply /\ p \in Packet /\ p \notin Range(Answer)
    BY PacketAssumption DEF ServerTypes, Reply, Packet
  <1>3. PICK r \in Task : r = [pc |-> "send", packet |-> p] /\ r.pc = "send" /\ r.packet = p
    <2>1. PICK q \in Packet : q = p
      BY <1>2
    <2> DEFINE s == [pc |-> "send", packet |-> q]
    <2>2. s \in Task /\ s.pc = "send" /\ s.packet = q
      BY DEF Task
    <2> QED
      BY <2>1, <2>2
  <1>4. Holds(r) /\ ~Reads(r)
    BY <1>2, <1>3 DEF Holds, Reads
  <1>5. work' \in [Worker -> Task] /\ Tasks'
    BY <1>1, <1>3, <1>4, TaskStep
  <1>6. armed' = armed /\ UNCHANGED <<conn, toServer, recvBuf, handled, wireVars>>
    BY DEF Tell
  <1>7. OneReader'
    BY <1>1, <1>3, <1>4, <1>6, ReaderStep
  <1>8. ServerTypes'
    BY <1>1, <1>5, <1>6 DEF ServerTypes, wireVars
  <1>9. Commands' /\ RoomToReceive'
    BY <1>6 DEF Commands, RoomToReceive, Room
  <1> QED
    BY <1>5, <1>7, <1>8, <1>9

\* A step of the handler that leaves what was received alone.
LEMMA Sending ==
    ASSUME SInv, UNCHANGED <<toServer, serverVars>>,
           conn' \in {"up", "reset", "closed"},
           work' \in [Worker -> Task], buf' \in [Over -> Packet \union {None}],
           posted' \in Seq(Over), sent' \in Seq(Fit), Tasks', OneReader'
    PROVE  SInv'
  BY DEF SInv, ServerTypes, Commands, RoomToReceive, Room, serverVars

\* The handler goes on with the packet it has.
LEMMA GoesOn ==
    ASSUME SInv, NEW w \in Worker, NEW pc \in {"post", "release"}, Goto(w, pc),
           work[w].packet \in Reply \union {None},
           pc = "post" => work[w].packet \in Fit, armed' = armed
    PROVE  work' \in [Worker -> Task] /\ Tasks' /\ OneReader'
  <1> USE DEF SInv
  <1>1. PICK r \in Task : r.pc = pc /\ r.packet = work[w].packet /\ work' = [work EXCEPT ![w] = r]
    BY GotoIs
  <1>2. Holds(r)
    BY <1>1 DEF Holds
  <1>3. Reads(r) => Reads(work[w])
    BY <1>1 DEF Reads
  <1>4. Reads(r) => ~armed' /\ Reads(work[w])
    BY <1>3 DEF OneReader
  <1>5. work' \in [Worker -> Task] /\ Tasks'
    BY <1>1, <1>2, TaskStep
  <1>6. OneReader'
    BY <1>1, <1>4, ReaderStep
  <1> QED
    BY <1>5, <1>6

LEMMA DoSendStep == ASSUME SInv, NEW w \in Worker, DoSend(w) PROVE SInv'
  <1>1. /\ work[w].pc = "send" /\ work[w].packet \in Reply
        /\ UNCHANGED <<conn, toServer, serverVars, posted, sent>>
    BY DEF DoSend, SInv, Tasks, Holds
  <1>2. armed' = armed /\ ServerTypes /\ Tasks /\ OneReader
    BY <1>1 DEF serverVars, SInv
  <1>3. CASE SizeOf[work[w].packet] > BufSize /\ Resume(w) /\ buf' = buf
    <2>1. work' \in [Worker -> Task] /\ Tasks' /\ OneReader'
      BY <1>1, <1>2, <1>3, Resumes
    <2> QED
      BY <1>1, <1>2, <1>3, <2>1, Sending DEF ServerTypes
  <1>4. CASE /\ SizeOf[work[w].packet] <= BufSize /\ Goto(w, "post")
             /\ buf' = [buf EXCEPT ![held'[w]] = work[w].packet]
    <2>1. work[w].packet \in Fit
      BY <1>1, <1>4 DEF Fit
    <2>2. work' \in [Worker -> Task] /\ Tasks' /\ OneReader'
      BY <1>1, <1>2, <1>4, <2>1, GoesOn
    <2>3. buf' \in [Over -> Packet \union {None}]
      BY <1>1, <1>2, <1>4, ReplyIs DEF ServerTypes
    <2> QED
      BY <1>1, <1>2, <2>2, <2>3, Sending DEF ServerTypes
  <1>5. CASE UNCHANGED <<buf, work>>
    <2>1. work' \in [Worker -> Task] /\ Tasks' /\ OneReader'
      BY <1>2, <1>5 DEF ServerTypes, Tasks, OneReader
    <2> QED
      BY <1>1, <1>2, <1>5, <2>1, Sending DEF ServerTypes
  <1> QED
    BY <1>3, <1>4, <1>5 DEF DoSend

LEMMA PostStep == ASSUME IInv, SInv, NEW w \in Worker, Post(w) PROVE SInv'
  <1>1. /\ work[w].pc = "post" /\ work[w].packet \in Fit /\ held[w] # None
        /\ UNCHANGED <<conn, toServer, serverVars, buf>> /\ Resume(w)
        /\ posted' = Append(posted, held[w]) /\ sent' = Append(sent, work[w].packet)
    BY DEF Post, HandOver, SInv, Tasks, Holds
  <1>2. armed' = armed /\ ServerTypes /\ Tasks /\ OneReader
    BY <1>1 DEF serverVars, SInv
  <1>3. held[w] \in Over
    BY <1>1 DEF IInv, Types
  <1>4. posted' \in Seq(Over)
    BY <1>1, <1>2, <1>3, AppendProperties DEF ServerTypes
  <1>5. sent' \in Seq(Fit)
    BY <1>1, <1>2, AppendProperties DEF ServerTypes
  <1>6. work[w].packet \in Reply
    BY <1>1, ReplyIs
  <1>7. work' \in [Worker -> Task] /\ Tasks' /\ OneReader'
    BY <1>1, <1>2, <1>6, Resumes
  <1> QED
    BY <1>1, <1>2, <1>4, <1>5, <1>7, Sending DEF ServerTypes

LEMMA PostFailsStep == ASSUME SInv, NEW w \in Worker, PostFails(w) PROVE SInv'
  <1>1. /\ work[w].pc = "post" /\ work[w].packet \in Fit /\ Goto(w, "release")
        /\ UNCHANGED <<conn, toServer, serverVars, wireVars>>
    BY DEF PostFails, SInv, Tasks, Holds
  <1>2. armed' = armed /\ ServerTypes
    BY <1>1 DEF serverVars, SInv
  <1>3. work' \in [Worker -> Task] /\ Tasks' /\ OneReader'
    BY <1>1, <1>2, ReplyIs, GoesOn
  <1> QED
    BY <1>1, <1>2, <1>3, Sending DEF ServerTypes, wireVars

LEMMA ReleaseEndStep == ASSUME SInv, NEW w \in Worker, ReleaseEnd(w) PROVE SInv'
  <1>1. /\ work[w].pc = "release" /\ work[w].packet \in Reply \union {None}
        /\ IF work[w].packet = None THEN Finish(w) ELSE Resume(w)
        /\ UNCHANGED <<conn, toServer, serverVars, wireVars>>
    BY DEF ReleaseEnd, SInv, Tasks, Holds
  <1>2. armed' = armed /\ ServerTypes /\ Tasks /\ OneReader
    BY <1>1 DEF serverVars, SInv
  <1>3. work' \in [Worker -> Task] /\ Tasks' /\ OneReader'
    <2>1. CASE work[w].packet # None
      BY <1>1, <1>2, <2>1, Resumes
    <2>2. CASE work[w].packet = None
      <3>1. work' = [work EXCEPT ![w] = Idle]
        BY <1>1, <2>2 DEF Finish
      <3>2. work' \in [Worker -> Task] /\ Tasks'
        BY <1>2, <3>1, IdleTask, TaskStep
      <3>3. OneReader'
        BY <1>2, <3>1, IdleTask, ReaderStep
      <3> QED
        BY <3>2, <3>3
    <2> QED
      BY <2>1, <2>2
  <1> QED
    BY <1>1, <1>2, <1>3, Sending DEF ServerTypes, wireVars

LEMMA SentStep == ASSUME SInv, NEW w \in Worker, Sent(w) PROVE SInv'
  <1>1. /\ work[w].pc = "idle" /\ work[w].packet = None /\ Goto(w, "release")
        /\ UNCHANGED <<toServer, serverVars, buf, sent>>
    BY DEF Sent, SInv, Tasks, Holds
  <1>2. armed' = armed /\ ServerTypes
    BY <1>1 DEF serverVars, SInv
  <1>3. work' \in [Worker -> Task] /\ Tasks' /\ OneReader'
    BY <1>1, <1>2, GoesOn
  <1>4. \/ UNCHANGED <<conn, posted>>
        \/ \E k \in 1 .. Len(posted) : conn' = "closed" /\ posted' = RemoveAt(posted, k)
    BY DEF Sent
  <1>5. posted' \in Seq(Over) /\ conn' \in {"up", "reset", "closed"}
    BY <1>2, <1>4, RemoveType DEF ServerTypes
  <1> QED
    BY <1>1, <1>2, <1>3, <1>5, Sending DEF ServerTypes

LEMMA OtherStep ==
    ASSUME SInv, Transmit \/ Receive \/ Frame \/ Reset \/ Trim \/ UNCHANGED vars
    PROVE  SInv'
  <1>1. UNCHANGED <<toServer, serverVars, work, buf, sent>>
    BY DEF Transmit, Receive, Frame, Reset, Trim, vars, wireVars
  <1>2. armed' = armed /\ work' = work /\ ServerTypes /\ Tasks /\ OneReader
    BY <1>1 DEF serverVars, SInv
  <1>3. Tasks' /\ OneReader'
    BY <1>2, SameReader DEF Tasks
  <1>4. conn' \in {"up", "reset", "closed"} /\ posted' \in Seq(Over)
    <2>1. CASE Transmit
      BY <1>2, <2>1, HeadTailProperties DEF Transmit, ServerTypes
    <2>2. CASE Receive \/ Frame \/ Reset \/ Trim \/ UNCHANGED vars
      BY <1>2, <2>2 DEF Receive, Frame, Reset, Trim, vars, wireVars, ServerTypes
    <2> QED
      BY <2>1, <2>2
  <1> QED
    BY <1>1, <1>2, <1>3, <1>4, Sending DEF ServerTypes

LEMMA ServerMoves == ASSUME IInv, SInv, [Next]_vars PROVE IInv' /\ SInv'
  <1>1. IInv'
    BY NetworkStep, PoolStep
  <1>2. ASSUME NEW w \in Worker, ServerStep(w) PROVE SInv'
    BY <1>2, RecvStep, RecvFailsStep, ParseStep, ParseBrokenStep, ParseEndStep, TellStep,
       DoSendStep, PostStep, PostFailsStep, ReleaseEndStep, SentStep DEF ServerStep
  <1> QED
    BY <1>1, <1>2, OtherStep DEF Next

LEMMA ServerInit == ASSUME Init PROVE IInv /\ SInv
  <1>1. IInv
    BY PoolInit DEF Init
  <1>2. <<>> \in Seq(Byte) /\ <<>> \in Seq(Over) /\ <<>> \in Seq(Fit) /\ <<>> \in Seq(Range(Command))
        /\ Len(<<>>) = 0
    BY EmptySeq
  <1>3. toServer \in Seq(Byte) /\ Row(toServer, Command)
    BY StreamIsRow DEF Init
  <1>4. ServerTypes
    BY <1>2, <1>3, IdleTask, SizeAssumption DEF Init, ServerTypes
  <1>5. Tasks /\ OneReader
    BY IdleTask DEF Init, Tasks, OneReader
  <1>6. RoomToReceive
    BY <1>2, SizeAssumption DEF Init, RoomToReceive, Room
  <1>7. Commands
    <2>1. recvBuf = <<>> /\ handled = <<>>
      BY DEF Init
    <2>2. recvBuf \o toServer = toServer
      BY <1>3, <2>1, ConcatEmptySeq
    <2>3. handled \o Command = Command
      BY <2>1, PacketAssumption, ConcatEmptySeq
    <2> QED
      BY <1>3, <2>2, <2>3, PacketAssumption DEF Commands
  <1> QED
    BY <1>1, <1>4, <1>5, <1>6, <1>7 DEF SInv

LEMMA ServerAlways == Spec => [](IInv /\ SInv)
  <1>1. Init => IInv /\ SInv
    BY ServerInit
  <1>2. IInv /\ SInv /\ [Next]_vars => (IInv /\ SInv)'
    BY ServerMoves
  <1> QED
    BY <1>1, <1>2, PTL DEF Spec

\* Whatever the sizes of the buffer and of the packets, and wherever the stream
\* is cut, the KEY_RECV handler processes the commands that were sent, in order,
\* each once (MainServer.cpp:141-185).
THEOREM CommandsAreHandled == Spec => []CommandsInOrder
  <1>1. SInv => CommandsInOrder
    BY FrontIsPrefix DEF SInv, ServerTypes, Commands, CommandsInOrder
  <1> QED
    BY <1>1, ServerAlways, PTL

\* DoReceive never asks for nothing: what is left of the last receive is less
\* than a buffer (Player.cpp:36-46, MainServer.cpp:152-185).
THEOREM ThereIsRoom == Spec => []RoomToReceive
  <1>1. SInv => RoomToReceive
    BY DEF SInv
  <1> QED
    BY <1>1, ServerAlways, PTL

----------------------------------------------------------------------------
(* The way to the client.                                                  *)

ClientTypes ==
    /\ toClient \in Seq(Byte) /\ segment \in Seq(Byte) /\ saved \in Seq(Byte)
    /\ Len(segment) <= BufSize
    /\ inSize \in Nat
    /\ shown \in Seq(Fit)

\* The buffer that a worker gives to WSASend has the worker's packet in it.
Filled == \A w \in Worker : work[w].pc = "post" => held[w] # None /\ buf[held[w]] = work[w].packet

\* What the kernel has to send it has not completed.
Queued == conn = "up" => \A k \in 1 .. Len(posted) : posted[k] \in flight

\* What has been sent is what the client has processed, what is on its way, a
\* row of packets, and what stands in the buffers that the kernel has to send.
Waiting(rest) == /\ Len(rest) = Len(posted)
                 /\ \A k \in 1 .. Len(posted) : rest[k] = buf[posted[k]]
Arrives(todo, rest) ==
    /\ sent = (shown \o todo) \o rest
    /\ Row((saved \o segment) \o toClient, todo)
    /\ conn = "up" => Waiting(rest)
Arrivals == \E todo, rest \in Seq(Fit) : Arrives(todo, rest)

\* The client knows the size of the packet it has a part of, and no segment
\* ends in a size field.
Framing ==
    /\ saved = <<>> => inSize = 0
    /\ saved # <<>> => inSize = SizeOf[saved[1][1]] /\ inSize # 0 /\ Len(saved) < inSize
    /\ segment # <<>> => segment[Len(segment)][2] # 1

CInv == SizesWhole /\ ClientTypes /\ Filled /\ Queued /\ Arrivals /\ Framing

LEMMA FilledStep ==
    ASSUME ServerTypes, Filled, NEW w \in Worker, NEW r \in Task,
           work' = [work EXCEPT ![w] = r], r.pc # "post", buf' = buf,
           \A v \in Worker \ {w} : held'[v] = held[v]
    PROVE  Filled'
  <1>1. ASSUME NEW v \in Worker, work'[v].pc = "post"
        PROVE  held'[v] # None /\ buf'[held'[v]] = work'[v].packet
    <2>1. v # w /\ work'[v] = work[v]
      BY <1>1 DEF ServerTypes
    <2> QED
      BY <1>1, <2>1 DEF Filled
  <1> QED
    BY <1>1 DEF Filled

\* Nothing is put into a buffer, given to the kernel or taken from the client.
LEMMA Untouched ==
    ASSUME CInv, Filled', UNCHANGED <<buf, posted, sent, toClient, clientVars, flight>>,
           conn' = "up" => conn = "up"
    PROVE  CInv'
  <1>1. ClientTypes' /\ Queued' /\ Framing'
    BY DEF CInv, ClientTypes, Queued, Framing, clientVars
  <1>2. PICK todo \in Seq(Fit), rest \in Seq(Fit) : Arrives(todo, rest)
    BY DEF CInv, Arrivals
  <1>3. Arrives(todo, rest)'
    BY <1>2 DEF Arrives, Waiting, clientVars
  <1>4. Arrivals'
    BY <1>3 DEF Arrivals
  <1> QED
    BY <1>1, <1>4 DEF CInv

LEMMA ReceiverSteps ==
    ASSUME IInv, SInv, CInv, NEW w \in Worker,
           Recv(w) \/ RecvFails(w) \/ Parse(w) \/ ParseBroken(w) \/ ParseEnd(w) \/ Tell(w)
    PROVE  CInv'
  <1>1. /\ UNCHANGED <<poolVars, wireVars, toClient, clientVars>>
        /\ conn' = "up" => conn = "up"
    BY DEF Recv, RecvFails, Parse, ParseBroken, ParseEnd, Tell
  <1>2. \A v \in Worker : work'[v].pc = "post" => work'[v] = work[v]
    <2>1. work \in [Worker -> Task]
      BY DEF SInv, ServerTypes
    <2>2. CASE Recv(w) \/ RecvFails(w)
      BY <2>1, <2>2 DEF Recv, RecvFails, Goto, Task
    <2>3. CASE Parse(w)
      BY <2>1, <2>3 DEF Parse
    <2>4. CASE ParseBroken(w) \/ ParseEnd(w)
      BY <2>1, <2>4 DEF ParseBroken, ParseEnd, Finish, Idle
    <2>5. CASE Tell(w)
      BY <2>1, <2>5 DEF Tell
    <2> QED
      BY <2>2, <2>3, <2>4, <2>5
  <1>3. Filled'
    BY <1>1, <1>2 DEF CInv, Filled, poolVars, wireVars
  <1> QED
    BY <1>1, <1>3, Untouched DEF poolVars, wireVars

LEMMA OtherWorkers ==
    ASSUME IInv, NEW w \in Worker,
           \/ Take(w) \/ Make(w) \/ HandOver(w) \/ GiveBack(w) \/ Release(w)
           \/ \E o \in flight : Complete(w, o)
    PROVE  \A v \in Worker \ {w} : held'[v] = held[v]
  <1>1. held' = held \/ \E o : held' = [held EXCEPT ![w] = o]
    BY DEF Take, Make, HandOver, GiveBack, Release, Complete
  <1> QED
    BY <1>1 DEF IInv, Types

LEMMA ResumeIs ==
    ASSUME NEW w \in Worker, Resume(w)
    PROVE  \E r \in Task : work' = [work EXCEPT ![w] = r] /\ r.pc # "post"
  <1> DEFINE r == Resumed(work[w])
  <1>1. work' = [work EXCEPT ![w] = r]
    BY DEF Resume, Resumed
  <1>2. r \in Task /\ r.pc # "post"
    BY IdleTask DEF Resumed, Idle
  <1> QED
    BY <1>1, <1>2

LEMMA FailedSends ==
    ASSUME IInv, SInv, CInv, NEW w \in Worker, PostFails(w) \/ ReleaseEnd(w)
    PROVE  CInv'
  <1>1. UNCHANGED <<conn, wireVars, toClient, clientVars>> /\ (GiveBack(w) \/ Release(w))
    BY DEF PostFails, ReleaseEnd
  <1>2. flight' = flight /\ \A v \in Worker \ {w} : held'[v] = held[v]
    BY <1>1, OtherWorkers DEF GiveBack, Release
  <1>3. PICK r \in Task : work' = [work EXCEPT ![w] = r] /\ r.pc # "post"
    <2>1. CASE PostFails(w)
      BY <2>1, GotoIs DEF PostFails, SInv
    <2>2. CASE ReleaseEnd(w)
      BY <2>2, ResumeIs, IdleTask DEF ReleaseEnd, Finish, Idle
    <2> QED
      BY <2>1, <2>2
  <1>4. Filled'
    BY <1>1, <1>2, <1>3, FilledStep DEF CInv, SInv, wireVars
  <1> QED
    BY <1>1, <1>2, <1>4, Untouched DEF wireVars

\* A buffer that is written is not one the kernel has.
LEMMA DoSendWire ==
    ASSUME IInv, IInv', SInv, CInv, NEW w \in Worker, DoSend(w)
    PROVE  CInv'
  <1>1. UNCHANGED <<conn, posted, sent, toClient, clientVars>> /\ work \in [Worker -> Task]
    BY DEF DoSend, SInv, ServerTypes
  <1>2. CASE Resume(w) /\ UNCHANGED <<poolVars, buf>>
    <2>1. flight' = flight /\ held' = held
      BY <1>2 DEF poolVars
    <2>2. PICK r \in Task : work' = [work EXCEPT ![w] = r] /\ r.pc # "post"
      BY <1>2, ResumeIs
    <2>3. Filled'
      BY <1>2, <2>1, <2>2, FilledStep DEF CInv, SInv
    <2> QED
      BY <1>1, <1>2, <2>1, <2>3, Untouched
  <1>3. CASE /\ Take(w) \/ Make(w)
             /\ Goto(w, "post") /\ buf' = [buf EXCEPT ![held'[w]] = work[w].packet]
    <2>1. flight' = flight /\ \A v \in Worker \ {w} : held'[v] = held[v]
      BY <1>3, OtherWorkers DEF Take, Make
    <2>2. PICK o \in Over : held'[w] = o
      <3>1. held' \in [Worker -> Over \union {None}]
        BY DEF IInv, Types
      <3>2. held'[w] # None
        <4>1. CASE pool # <<>> /\ held' = [held EXCEPT ![w] = Head(pool)]
          <5>1. Head(pool) \in Over
            BY <4>1, HeadTailProperties DEF IInv, Types
          <5> QED
            BY <4>1, <5>1, NoneAssumption DEF IInv, Types
        <4>2. CASE \E o \in Over \ alive : held' = [held EXCEPT ![w] = o]
          BY <4>2, NoneAssumption DEF IInv, Types
        <4> QED
          BY <1>3, <4>1, <4>2 DEF Take, Make
      <3> QED
        BY <3>1, <3>2
    <2>3. o # None /\ o \notin flight /\ \A v \in Worker \ {w} : held'[v] # o
      <3>1. o # None
        BY NoneAssumption
      <3>2. o \in InHands'
        BY <2>2, <3>1 DEF InHands
      <3>3. o \notin flight'
        BY <3>2 DEF IInv, OverInOnePlace
      <3>4. \A v \in Worker \ {w} : held'[v] # o
        BY <2>2, <3>1 DEF IInv, OverInOnePlace
      <3> QED
        BY <2>1, <3>1, <3>3, <3>4
    <2>4. buf'[o] = work[w].packet /\ \A x \in Over : x # o => buf'[x] = buf[x]
      BY <1>3, <2>2 DEF SInv, ServerTypes
    <2>5. PICK r \in Task : r.packet = work[w].packet /\ work' = [work EXCEPT ![w] = r]
      BY <1>3, GotoIs DEF SInv
    <2>6. ASSUME NEW v \in Worker, work'[v].pc = "post"
          PROVE  held'[v] # None /\ buf'[held'[v]] = work'[v].packet
      <3>1. CASE v = w
        BY <1>1, <2>2, <2>3, <2>4, <2>5, <3>1
      <3>2. CASE v # w
        <4>1. work'[v] = work[v] /\ held'[v] = held[v] /\ held'[v] # o
          BY <1>1, <2>1, <2>3, <2>5, <3>2
        <4>2. held[v] # None /\ buf[held[v]] = work[v].packet
          BY <2>6, <4>1 DEF CInv, Filled
        <4>3. held[v] \in Over
          BY <4>2 DEF IInv, Types
        <4> QED
          BY <2>4, <4>1, <4>2, <4>3
      <3> QED
        BY <3>1, <3>2
    <2>7. Filled'
      BY <2>6 DEF Filled
    <2>8. ClientTypes' /\ Queued' /\ Framing'
      BY <1>1, <2>1 DEF CInv, ClientTypes, Queued, Framing, clientVars
    <2>9. conn = "up" => \A k \in 1 .. Len(posted) : buf'[posted[k]] = buf[posted[k]]
      <3>1. \A k \in 1 .. Len(posted) : posted[k] \in Over
        BY ElementOfSeq DEF SInv, ServerTypes
      <3> QED
        BY <2>3, <2>4, <3>1 DEF CInv, Queued
    <2>10. PICK todo \in Seq(Fit), rest \in Seq(Fit) : Arrives(todo, rest)
      BY DEF CInv, Arrivals
    <2>11. Arrives(todo, rest)'
      BY <1>1, <2>9, <2>10 DEF Arrives, Waiting, clientVars
    <2>12. Arrivals'
      BY <2>11 DEF Arrivals
    <2> QED
      BY <2>7, <2>8, <2>12 DEF CInv
  <1>4. CASE Miss(w) /\ UNCHANGED <<buf, work>>
    <2>1. flight' = flight /\ held' = held
      BY <1>4 DEF Miss
    <2>2. Filled'
      BY <1>4, <2>1 DEF CInv, Filled
    <2> QED
      BY <1>1, <1>4, <2>1, <2>2, Untouched
  <1> QED
    BY <1>2, <1>3, <1>4 DEF DoSend

\* What comes behind a part comes behind the whole.
LEMMA AppendBehind ==
    ASSUME NEW S, NEW u \in Seq(S), NEW v \in Seq(S), NEW x \in S, NEW y, y = Append(v, x)
    PROVE  Append(u \o v, x) = u \o y
  OBVIOUS

LEMMA PostWire ==
    ASSUME IInv, SInv, CInv, NEW w \in Worker, Post(w)
    PROVE  CInv'
  <1>1. /\ work[w].pc = "post" /\ work[w].packet \in Fit /\ HandOver(w) /\ Resume(w)
        /\ held[w] # None /\ buf[held[w]] = work[w].packet
        /\ posted' = Append(posted, held[w]) /\ sent' = Append(sent, work[w].packet)
        /\ UNCHANGED <<conn, buf, toClient, clientVars>>
    BY DEF Post, SInv, Tasks, Holds, CInv, Filled
  <1>2. PICK o \in Over : o = held[w] /\ flight' = flight \union {o}
    BY <1>1 DEF HandOver, IInv, Types
  <1>3. PICK p \in Fit : p = work[w].packet /\ buf[o] = p
    BY <1>1, <1>2
  <1>4. Filled'
    <2>1. PICK r \in Task : work' = [work EXCEPT ![w] = r] /\ r.pc # "post"
      BY <1>1, ResumeIs
    <2>2. \A v \in Worker \ {w} : held'[v] = held[v]
      BY <1>1, OtherWorkers
    <2> QED
      BY <1>1, <2>1, <2>2, FilledStep DEF CInv, SInv
  <1>5. PICK m \in Nat : m = Len(posted)
    BY LenProperties DEF SInv, ServerTypes
  <1>6. Len(posted') = m + 1 /\ posted'[m + 1] = o /\ \A k \in 1 .. m : posted'[k] = posted[k]
    BY <1>1, <1>2, <1>5, AppendProperties DEF SInv, ServerTypes
  <1>7. \A k \in 1 .. m + 1 : k \in 1 .. m \/ k = m + 1
    OBVIOUS
  <1>8. Queued'
    <2>1. ASSUME conn' = "up", NEW k \in 1 .. m + 1 PROVE posted'[k] \in flight'
      BY <1>1, <1>2, <1>5, <1>6, <1>7, <2>1 DEF CInv, Queued
    <2> QED
      BY <1>6, <2>1 DEF Queued
  <1>9. ClientTypes' /\ Framing'
    BY <1>1 DEF CInv, ClientTypes, Framing, clientVars
  <1>10. PICK todo \in Seq(Fit), rest \in Seq(Fit) : Arrives(todo, rest)
    BY DEF CInv, Arrivals
  <1>11. PICK more \in Seq(Fit) : more = Append(rest, p) /\ Len(more) = Len(rest) + 1 /\ more[Len(rest) + 1] = p
                                  /\ \A k \in 1 .. Len(rest) : more[k] = rest[k]
    <2>1. Append(rest, p) \in Seq(Fit) /\ Len(Append(rest, p)) = Len(rest) + 1
      BY AppendProperties
    <2>2. Append(rest, p)[Len(rest) + 1] = p
      BY AppendProperties
    <2>3. \A k \in 1 .. Len(rest) : Append(rest, p)[k] = rest[k]
      BY AppendProperties
    <2> QED
      BY <2>1, <2>2, <2>3
  <1>12. sent' = (shown \o todo) \o more
    <2>1. Append((shown \o todo) \o rest, p) = (shown \o todo) \o Append(rest, p)
      <3>1. shown \in Seq(Fit)
        BY DEF CInv, ClientTypes
      <3>2. PICK d \in Seq(Fit) : d = shown \o todo
        BY <3>1, ConcatProperties
      <3>3. Append(d \o rest, p) = d \o more
        <4>1. d \in Seq(Fit) /\ rest \in Seq(Fit) /\ p \in Fit /\ more = Append(rest, p)
          BY <1>3, <1>10, <1>11, <3>2
        <4> QED
          BY <4>1, AppendBehind
      <3> QED
        BY <1>11, <3>2, <3>3
    <2> QED
      BY <1>1, <1>3, <1>10, <1>11, <2>1 DEF Arrives
  <1>13. conn = "up" => Len(more) = m + 1 /\ \A k \in 1 .. m + 1 : more[k] = buf[posted'[k]]
    BY <1>3, <1>5, <1>6, <1>7, <1>10, <1>11 DEF Arrives, Waiting
  <1>14. Arrives(todo, more)'
    BY <1>1, <1>6, <1>10, <1>12, <1>13 DEF Arrives, Waiting, clientVars
  <1>15. Arrivals'
    BY <1>14 DEF Arrivals
  <1> QED
    BY <1>4, <1>8, <1>9, <1>15 DEF CInv

LEMMA SentWire ==
    ASSUME IInv, SInv, CInv, NEW w \in Worker, Sent(w)
    PROVE  CInv'
  <1>1. /\ Goto(w, "release") /\ UNCHANGED <<buf, sent, toClient, clientVars>>
        /\ posted \in Seq(Over)
    BY DEF Sent, SInv, ServerTypes
  <1>2. PICK o \in flight :
          /\ Complete(w, o)
          /\ (o \notin Range(posted) /\ UNCHANGED <<conn, posted>>) \/ conn' = "closed"
    BY DEF Sent
  <1>3. Filled'
    <2>1. PICK r \in Task : work' = [work EXCEPT ![w] = r] /\ r.pc # "post"
      BY <1>1, GotoIs DEF SInv
    <2>2. \A v \in Worker \ {w} : held'[v] = held[v]
      BY <1>2, OtherWorkers
    <2> QED
      BY <1>1, <2>1, <2>2, FilledStep DEF CInv, SInv
  <1>4. conn' = "up" => conn = "up" /\ posted' = posted
    BY <1>2
  <1>5. Queued'
    <2>1. ASSUME conn' = "up", NEW k \in 1 .. Len(posted) PROVE posted[k] \in flight'
      <3>1. posted[k] \in flight
        BY <1>4, <2>1 DEF CInv, Queued
      <3>2. posted[k] \in Range(posted)
        BY <1>1, LenProperties DEF Range
      <3>3. posted[k] # o
        BY <1>2, <2>1, <3>2
      <3> QED
        BY <1>2, <3>1, <3>3 DEF Complete
    <2> QED
      BY <1>4, <2>1 DEF Queued
  <1>6. ClientTypes' /\ Framing'
    BY <1>1 DEF CInv, ClientTypes, Framing, clientVars
  <1>7. PICK todo \in Seq(Fit), rest \in Seq(Fit) : Arrives(todo, rest)
    BY DEF CInv, Arrivals
  <1>8. Arrives(todo, rest)'
    BY <1>1, <1>4, <1>7 DEF Arrives, Waiting, clientVars
  <1>9. Arrivals'
    BY <1>8 DEF Arrivals
  <1> QED
    BY <1>3, <1>5, <1>6, <1>9 DEF CInv

\* What the kernel sends is what stood first in the buffers.
LEMMA TransmitWire == ASSUME IInv, SInv, CInv, Transmit PROVE CInv'
  <1>1. /\ posted # <<>> /\ conn = "up" /\ posted' = Tail(posted) /\ posted \in Seq(Over)
        /\ toClient' = toClient \o Bytes(buf[Head(posted)], SizeOf[buf[Head(posted)]])
        /\ UNCHANGED <<poolVars, conn, work, buf, sent, clientVars>>
    BY DEF Transmit, SInv, ServerTypes
  <1>2. PICK todo \in Seq(Fit), rest \in Seq(Fit) : Arrives(todo, rest)
    BY DEF CInv, Arrivals
  <1>3. PICK m \in Nat \ {0} : m = Len(posted) /\ m = Len(rest)
    BY <1>1, <1>2, EmptySeq DEF Arrives, Waiting
  <1>4. Tail(posted) \in Seq(Over) /\ Len(Tail(posted)) = m - 1
        /\ \A k \in 1 .. m - 1 : Tail(posted)[k] = posted[k + 1]
    BY <1>1, <1>3, HeadTailProperties
  <1>5. rest # <<>>
    BY <1>3, EmptySeq
  <1>6. Tail(rest) \in Seq(Fit) /\ Len(Tail(rest)) = m - 1
        /\ \A k \in 1 .. m - 1 : Tail(rest)[k] = rest[k + 1]
    BY <1>3, <1>5, HeadTailProperties
  <1>7. PICK q \in Fit : q = rest[1] /\ buf[Head(posted)] = q
    <2>1. 1 \in 1 .. Len(rest) /\ 1 \in 1 .. Len(posted)
      BY <1>3
    <2>2. rest[1] \in Fit
      BY <2>1, ElementOfSeq
    <2>3. rest[1] = buf[posted[1]]
      BY <1>1, <1>2, <2>1 DEF Arrives, Waiting
    <2>4. Head(posted) = posted[1]
      BY <1>1, LenProperties
    <2> QED
      BY <2>2, <2>3, <2>4
  <1>8. PICK later \in Seq(Fit) : later = Tail(rest)
    BY <1>6
  <1>9. PICK more \in Seq(Fit) : more = Append(todo, q)
    BY AppendProperties
  <1>10. sent = (shown \o more) \o later
    <2>1. PICK d \in Seq(Fit) : d = shown \o todo
      BY ConcatProperties DEF CInv, ClientTypes
    <2>2. d \o rest = Append(d, q) \o later
      BY <1>5, <1>7, <1>8, HeadMoves
    <2>3. (shown \o Append(todo, q)) \o later = Append(shown \o todo, q) \o later
      <3>1. shown \in Seq(Fit)
        BY DEF CInv, ClientTypes
      <3>2. Append(shown \o todo, q) = shown \o more
        <4>1. todo \in Seq(Fit) /\ q \in Fit /\ more = Append(todo, q)
          BY <1>2, <1>7, <1>9
        <4> QED
          BY <3>1, <4>1, AppendBehind
      <3> QED
        BY <1>9, <3>2
    <2> QED
      BY <1>2, <1>9, <2>1, <2>2, <2>3 DEF Arrives
  <1>11. q \in Packet /\ Size(q) = SizeOf[q] /\ Size(q) \in Nat /\ Size(q) <= BufSize
    BY ReplyIs, SizeIs
  <1>12. PICK d \in Seq(Byte) : d = Bytes(q, Size(q)) /\ toClient' = toClient \o d
    BY <1>1, <1>7, <1>11, BytesAre
  <1>13. toClient' \in Seq(Byte) /\ Row((saved \o segment) \o toClient', more)
    <2>1. toClient \in Seq(Byte) /\ saved \in Seq(Byte) /\ segment \in Seq(Byte)
      BY DEF CInv, ClientTypes
    <2>2. PICK h \in Seq(Byte) : h = saved \o segment
      BY <2>1, ConcatProperties
    <2>3. (h \o toClient) \o d = h \o (toClient \o d)
      <3>1. toClient \in Seq(Byte) /\ h \in Seq(Byte) /\ d \in Seq(Byte)
        BY <2>1
      <3> QED
        BY <3>1, ConcatAssociative
    <2>4. h \o toClient \in Seq(Byte) /\ toClient \o d \in Seq(Byte)
      BY <2>1, ConcatProperties
    <2>5. todo \in Seq(Packet)
      BY ReplyIs, SeqMonotonic
    <2>6. Row(h \o toClient, todo)
      BY <1>2, <2>2 DEF Arrives
    <2>7. Row((h \o toClient) \o Bytes(q, Size(q)), Append(todo, q))
      BY <1>11, <2>4, <2>5, <2>6, RowMore
    <2> QED
      BY <1>9, <1>12, <2>2, <2>3, <2>4, <2>7
  <1>14. \A k \in 1 .. m - 1 : later[k] = buf[posted'[k]]
    <2>1. \A k \in 1 .. m - 1 : k + 1 \in 1 .. m
      OBVIOUS
    <2> QED
      BY <1>1, <1>2, <1>3, <1>4, <1>6, <1>8, <2>1 DEF Arrives, Waiting
  <1>15. Arrives(more, later)'
    <2>1. UNCHANGED <<saved, segment, shown, sent, buf>>
      BY <1>1 DEF clientVars
    <2> QED
      BY <1>1, <1>4, <1>6, <1>8, <1>10, <1>13, <1>14, <2>1 DEF Arrives, Waiting
  <1>16. Arrivals'
    BY <1>15 DEF Arrivals
  <1>17. Queued'
    <2>1. \A k \in 1 .. m - 1 : k + 1 \in 1 .. m
      OBVIOUS
    <2>2. \A k \in 1 .. m - 1 : posted'[k] \in flight
      BY <1>1, <1>3, <1>4, <2>1 DEF CInv, Queued
    <2> QED
      BY <1>1, <1>4, <2>2 DEF Queued, poolVars
  <1>18. Filled'
    BY <1>1 DEF CInv, Filled, poolVars
  <1>19. ClientTypes' /\ Framing'
    BY <1>1, <1>13 DEF CInv, ClientTypes, Framing, clientVars
  <1> QED
    BY <1>16, <1>17, <1>18, <1>19 DEF CInv

\* ProcessData is given a segment; no size field is cut in two.
LEMMA ReceiveWire == ASSUME SInv, CInv, Receive PROVE CInv'
  <1>1. /\ segment = <<>>
        /\ UNCHANGED <<poolVars, conn, work, wireVars, inSize, saved, shown>>
        /\ toClient \in Seq(Byte) /\ saved \in Seq(Byte)
    BY DEF Receive, CInv, ClientTypes
  <1>2. PICK n \in 1 .. BufSize : /\ n <= Len(toClient) /\ toClient[n][2] # 1
                                  /\ segment' = Leading(toClient, n)
                                  /\ toClient' = After(toClient, n)
    BY DEF Receive, CInv
  <1>3. n \in Nat /\ n <= BufSize /\ n \in 1 .. n
    BY <1>2, SizeAssumption
  <1>4. PICK h \in Seq(Byte) : h = Leading(toClient, n) /\ Len(h) = n /\ h[n] = toClient[n]
    <2>1. Leading(toClient, n) \in Seq(Byte) /\ Len(Leading(toClient, n)) = n
      BY <1>1, <1>2, <1>3, AfterIs
    <2>2. \A i \in 1 .. n : Leading(toClient, n)[i] = toClient[i]
      BY <1>1, <1>2, <1>3, AfterIs
    <2> QED
      BY <1>3, <2>1, <2>2
  <1>5. PICK t \in Seq(Byte) : t = After(toClient, n) /\ h \o t = toClient
    <2>1. After(toClient, n) \in Seq(Byte) /\ Leading(toClient, n) \o After(toClient, n) = toClient
      BY <1>1, <1>2, <1>3, AfterIs
    <2> QED
      BY <1>4, <2>1
  <1>6. (saved \o segment') \o toClient' = (saved \o segment) \o toClient
    <2>1. (saved \o h) \o t = saved \o (h \o t)
      <3>1. saved \in Seq(Byte)
        BY <1>1
      <3> QED
        BY <3>1, ConcatAssociative
    <2>2. saved \o segment = saved
      BY <1>1, ConcatEmptySeq
    <2> QED
      BY <1>2, <1>4, <1>5, <2>1, <2>2
  <1>7. PICK todo \in Seq(Fit), rest \in Seq(Fit) : Arrives(todo, rest)
    BY DEF CInv, Arrivals
  <1>8. Arrives(todo, rest)'
    BY <1>1, <1>6, <1>7 DEF Arrives, Waiting, wireVars
  <1>9. Arrivals'
    BY <1>8 DEF Arrivals
  <1>10. ClientTypes'
    BY <1>1, <1>2, <1>3, <1>4, <1>5 DEF CInv, ClientTypes
  <1>11. Framing'
    BY <1>1, <1>2, <1>4 DEF CInv, Framing
  <1>12. Filled' /\ Queued'
    BY <1>1 DEF CInv, Filled, Queued, poolVars, wireVars
  <1> QED
    BY <1>9, <1>10, <1>11, <1>12 DEF CInv

\* The size that ProcessData goes by is that of the first packet of the row.
LEMMA SizeIsRead ==
    ASSUME CInv, segment # <<>>, NEW todo \in Seq(Fit), Row((saved \o segment) \o toClient, todo),
           NEW l \in Nat, l = Len(saved), NEW k \in Nat, k = Len(segment)
    PROVE  /\ k >= 1 /\ todo # <<>> /\ todo[1] \in Fit
           /\ ~TooShort /\ ReadSize = SizeOf[todo[1]]
           /\ l < SizeOf[todo[1]] /\ (saved \o segment)[1] = <<todo[1], 1>>
  <1>1. saved \in Seq(Byte) /\ segment \in Seq(Byte) /\ toClient \in Seq(Byte) /\ inSize \in Nat
    BY DEF CInv, ClientTypes
  <1>2. k >= 1
    BY <1>1, EmptySeq
  <1>3. PICK h \in Seq(Byte) : h = saved \o segment /\ Len(h) = l + k
    BY <1>1, ConcatProperties
  <1>4. todo \in Seq(Packet)
    BY ReplyIs, SeqMonotonic
  <1>5. PICK p : p = todo[1]
    OBVIOUS
  <1>6. todo # <<>> /\ h[1] = <<p, 1>>
    <2>1. Row(h \o toClient, todo) /\ l + k \in Nat /\ l + k >= 1
      BY <1>2, <1>3
    <2> QED
      BY <1>1, <1>3, <1>4, <1>5, <2>1, FirstBytes
  <1>7. p \in Fit
    <2>1. 1 \in 1 .. Len(todo)
      BY <1>6, EmptySeq
    <2> QED
      BY <1>5, <2>1, ElementOfSeq
  <1>8. PICK z \in Nat : z = SizeOf[p] /\ z >= 3
    BY <1>7, ReplyIs
  <1>9. CASE saved # <<>>
    <2>1. l >= 1
      BY <1>1, <1>9, EmptySeq
    <2>2. saved[1] = h[1]
      <3>1. 1 \in 1 .. Len(saved) + Len(segment) /\ 1 <= Len(saved)
        BY <1>2, <2>1
      <3> QED
        BY <1>1, <1>3, <3>1, ConcatProperties
    <2>3. saved[1][1] = p
      BY <1>6, <2>2
    <2>4. inSize = z /\ inSize # 0 /\ l < inSize
      BY <1>8, <1>9, <2>3 DEF CInv, Framing
    <2> QED
      BY <1>2, <1>3, <1>5, <1>6, <1>7, <1>8, <2>4 DEF TooShort, ReadSize
  <1>10. CASE saved = <<>>
    <2>1. h = segment /\ l = 0
      BY <1>1, <1>3, <1>10, ConcatEmptySeq, EmptySeq
    <2>2. inSize = 0
      BY <1>10 DEF CInv, Framing
    <2>3. segment[k][2] # 1
      BY DEF CInv, Framing
    <2>4. segment[1][2] = 1 /\ segment[1][1] = p
      BY <1>6, <2>1
    <2>5. k # 1
      BY <2>3, <2>4
    <2>6. SizeAt(segment) = z
      BY <1>8, <2>4 DEF SizeAt
    <2>7. ~TooShort
      BY <1>2, <2>1, <2>5 DEF TooShort
    <2>8. ReadSize = z
      BY <2>2, <2>6 DEF ReadSize
    <2> QED
      BY <1>2, <1>3, <1>5, <1>6, <1>7, <1>8, <2>1, <2>7, <2>8
  <1> QED
    BY <1>9, <1>10
\* What has come of a packet is kept.
KeepPart ==
    /\ inSize' = IF TooShort THEN 0 ELSE ReadSize
    /\ saved' = saved \o segment
    /\ segment' = <<>>
    /\ UNCHANGED shown

\* A packet has come whole.
TakeWhole ==
    /\ shown' = Append(shown, PacketIn(saved \o Leading(segment, ReadSize - Len(saved))))
    /\ segment' = After(segment, ReadSize - Len(saved))
    /\ inSize' = 0
    /\ saved' = <<>>

LEMMA FrameKeeps ==
    ASSUME SInv, CInv, segment # <<>>, ~Whole, KeepPart,
           UNCHANGED <<poolVars, conn, work, wireVars, toClient>>
    PROVE  CInv'
  <1>1. saved \in Seq(Byte) /\ segment \in Seq(Byte) /\ toClient \in Seq(Byte)
    BY DEF CInv, ClientTypes
  <1>2. PICK todo \in Seq(Fit), rest \in Seq(Fit) : Arrives(todo, rest)
    BY DEF CInv, Arrivals
  <1>3. PICK l \in Nat, k \in Nat : l = Len(saved) /\ k = Len(segment)
    BY <1>1, LenProperties
  <1>4. PICK p \in Fit : /\ p = todo[1] /\ k >= 1 /\ ~TooShort /\ ReadSize = SizeOf[p]
                         /\ (saved \o segment)[1] = <<p, 1>>
    <2>1. Row((saved \o segment) \o toClient, todo)
      BY <1>2 DEF Arrives
    <2> QED
      BY <1>2, <1>3, <2>1, SizeIsRead
  <1>5. PICK z \in Nat : z = SizeOf[p] /\ z >= 3
    BY <1>4, ReplyIs
  <1>6. PICK h \in Seq(Byte) : h = saved \o segment /\ Len(h) = l + k
    BY <1>1, <1>3, ConcatProperties
  <1>7. h \o <<>> = h /\ <<>> \in Seq(Byte) /\ Len(<<>>) = 0 /\ h # <<>>
    BY <1>3, <1>4, <1>6, ConcatEmptySeq, EmptySeq
  <1>8. saved' = h /\ segment' = <<>> /\ inSize' = z /\ shown' = shown
    BY <1>4, <1>5, <1>6 DEF KeepPart
  <1>9. l + k < z
    BY <1>3, <1>4, <1>5 DEF Whole
  <1>10. Framing'
    <2>0. Len(h) < z /\ z # 0
      BY <1>5, <1>6, <1>9
    <2>1. h[1] = <<p, 1>> /\ h # <<>> /\ Len(h) < z /\ z # 0 /\ z = SizeOf[p]
      BY <1>4, <1>5, <1>6, <1>7, <2>0
    <2>2. SizeOf[h[1][1]] = z
      BY <2>1
    <2>3. QED BY <1>8, <2>1, <2>2 DEF Framing
  <1>11. ClientTypes'
    BY <1>1, <1>7, <1>8, SizeAssumption DEF CInv, ClientTypes
  <1>12. (saved' \o segment') \o toClient' = (saved \o segment) \o toClient
    BY <1>6, <1>7, <1>8
  <1>13. Arrives(todo, rest)'
    BY <1>2, <1>8, <1>12 DEF Arrives, Waiting, wireVars
  <1>14. Arrivals'
    BY <1>13 DEF Arrivals
  <1>15. Filled' /\ Queued'
    BY DEF CInv, Filled, Queued, poolVars, wireVars
  <1> QED
    BY <1>10, <1>11, <1>14, <1>15 DEF CInv

\* What is put together in another order is the same.
LEMMA Joined ==
    ASSUME NEW S, NEW s \in Seq(S), NEW t \in Seq(S), NEW u \in Seq(S),
           NEW x, x = s \o t, NEW y, y = t \o u
    PROVE  x \o u = s \o y
  OBVIOUS

\* Where s, h, t and c are put together does not matter.
Recuts(s, h, t, c) ==
    \A g, a, d : g = h \o t /\ a = s \o h /\ d = t \o c => (s \o g) \o c = a \o d

LEMMA Recut ==
    ASSUME NEW S, NEW s \in Seq(S), NEW h \in Seq(S), NEW t \in Seq(S), NEW c \in Seq(S)
    PROVE  Recuts(s, h, t, c)
  <1> USE DEF Recuts
  <1>1. TAKE g, a, d
  <1>2. HAVE g = h \o t /\ a = s \o h /\ d = t \o c
  <1>3. a \in Seq(S) /\ g \in Seq(S)
    BY <1>2, ConcatProperties
  <1>4. PICK e : e = a \o t
    OBVIOUS
  <1>5. e = s \o g
    <2>1. a = s \o h /\ g = h \o t
      BY <1>2
    <2>2. a \o t = s \o g
      BY <2>1, Joined
    <2> QED
      BY <1>4, <2>2
  <1>6. e \o c = a \o d
    <2>1. d = t \o c
      BY <1>2
    <2> QED
      BY <1>3, <1>4, <2>1, Joined
  <1> QED
    BY <1>5, <1>6

\* What is kept, s, the segment, g, and what is on its way, c, are the row of what
\* is to come.
Stands(s, g, c, b, todo) ==
    /\ {s, g, c, b} \subseteq Seq(Byte) /\ b = (s \o g) \o c
    /\ todo \in Seq(Fit) /\ Row(b, todo) /\ todo # <<>>

\* The packet p is taken out of them.
Taken(s, g, c, todo, p, n) ==
    /\ PacketIn(s \o Leading(g, n)) = p
    /\ After(g, n) \in Seq(Byte)
    /\ Row(After(g, n) \o c, Tail(todo))

\* The bytes up to the size that is read are the packet, what is behind them is

\* what is still to come.
LEMMA PacketIsIn ==
    ASSUME NEW s, NEW g, NEW c, NEW b, NEW todo, NEW p \in Fit, NEW z \in Nat, z = SizeOf[p],
           NEW l \in Nat, l < z, NEW k \in Nat, l + k >= z
    PROVE  Stands(s, g, c, b, todo) /\ l = Len(s) /\ k = Len(g) /\ p = todo[1]
             => Taken(s, g, c, todo, p, z - l)
  <1>0. SUFFICES ASSUME {s, g, c, b} \subseteq Seq(Byte), b = (s \o g) \o c, l = Len(s), k = Len(g),
                        todo \in Seq(Fit), Row(b, todo), todo # <<>>, p = todo[1]
                 PROVE  Taken(s, g, c, todo, p, z - l)
    BY DEF Stands
  <1>1. z = Size(p) /\ z >= 3 /\ z <= BufSize
    BY ReplyIs, SizeIs
  <1>2. PICK n \in Nat : n = z - l /\ n <= k /\ n + l = z
    OBVIOUS
  <1>3. PICK h \in Seq(Byte) : h = Leading(g, n) /\ Len(h) = n
    <2>1. n \in Nat /\ n <= Len(g) /\ g \in Seq(Byte)
      BY <1>0, <1>2
    <2>2. Leading(g, n) \in Seq(Byte) /\ Len(Leading(g, n)) = n
      BY <2>1, AfterIs
    <2> QED
      BY <2>2
  <1>4. PICK t \in Seq(Byte) : t = After(g, n) /\ h \o t = g
    <2>1. n \in Nat /\ n <= Len(g) /\ g \in Seq(Byte)
      BY <1>0, <1>2
    <2>2. After(g, n) \in Seq(Byte) /\ Leading(g, n) \o After(g, n) = g
      BY <2>1, AfterIs
    <2> QED
      BY <1>3, <2>2
  <1>5. PICK a \in Seq(Byte) : a = s \o h /\ Len(a) = Len(s) + Len(h) /\ Len(a) = z
    <2>1. s \o h \in Seq(Byte) /\ Len(s \o h) = Len(s) + Len(h)
      BY <1>0, <1>3, ConcatProperties
    <2>2. Len(s) + Len(h) = z
      <3>1. Len(s) = l /\ Len(h) = n
        BY <1>0, <1>3
      <3>2. l + n = z
        BY <1>2
      <3> QED
        BY <3>1, <3>2
    <2> QED
      BY <2>1, <2>2
  <1>6. PICK d \in Seq(Byte) : d = t \o c
    BY <1>0, <1>4, ConcatProperties
  <1>7. b = a \o d
    <2>1. s \in Seq(Byte) /\ h \in Seq(Byte) /\ t \in Seq(Byte) /\ c \in Seq(Byte)
      BY <1>0, <1>3, <1>4
    <2>2. Recuts(s, h, t, c)
      BY <2>1, Recut
    <2>3. (s \o g) \o c = a \o d
      BY <1>4, <1>5, <1>6, <2>2 DEF Recuts
    <2> QED
      BY <1>0, <2>3
  <1>8. todo \in Seq(Packet) /\ p \in Packet
    BY <1>0, ReplyIs, SeqMonotonic
  <1>10. \A i \in 1 .. z : b[i] = <<p, i>>
    BY <1>1, <1>0, <1>8, RowFirst
  <1>11. \A i \in 1 .. z : a[i] = b[i]
    <2>1. PICK m \in Nat : m = Len(d)
      BY LenProperties
    <2>2. \A i \in 1 .. z + m : b[i] = IF i <= z THEN a[i] ELSE d[i - z]
      <3>1. a \in Seq(Byte) /\ d \in Seq(Byte)
        BY <1>5, <1>6
      <3>2. \A i \in 1 .. Len(a) + Len(d) :
              (a \o d)[i] = IF i <= Len(a) THEN a[i] ELSE d[i - Len(a)]
        BY <3>1, ConcatProperties
      <3> QED
        BY <1>5, <1>7, <2>1, <3>2
    <2>3. \A i \in 1 .. z : i \in 1 .. z + m /\ i <= z
      OBVIOUS
    <2> QED
      BY <2>2, <2>3
  <1>12. a = Bytes(p, z)
    <2>1. PICK e \in Seq(Byte) : e = Bytes(p, z) /\ Len(e) = z /\ \A i \in 1 .. z : e[i] = <<p, i>>
      BY <1>1, <1>8, BytesAre
    <2>2. \A i \in 1 .. Len(a) : a[i] = e[i]
      BY <1>5, <1>10, <1>11, <2>1
    <2>3. a = e
      BY <1>5, <2>1, <2>2, SeqEqual
    <2> QED
      BY <2>1, <2>3
  <1>13. PacketIn(a) = p
    <2>1. a[1] = <<p, 1>>
      <3>1. 1 \in 1 .. z
        BY <1>1
      <3> QED
        BY <1>10, <1>11, <3>1
    <2>2. a[1][1] = p
      BY <2>1
    <2> QED
      BY <1>1, <1>12, <2>2 DEF PacketIn
  <1>14. Row(d, Tail(todo))
    <2>1. Row(After(b, z), Tail(todo))
      BY <1>1, <1>0, <1>8, RowLess
    <2>2. z <= Len(a)
      BY <1>5
    <2>3. After(a \o d, z) = After(a, z) \o d
      <3>1. a \in Seq(Byte) /\ d \in Seq(Byte) /\ z \in Nat
        BY <1>1, <1>5, <1>6
      <3> QED
        BY <2>2, <3>1, AfterFront
    <2>4. After(a, z) = <<>>
      <3>1. After(a, z) \in Seq(Byte) /\ Len(After(a, z)) = Len(a) - z
        <4>1. a \in Seq(Byte) /\ z \in Nat
          BY <1>1, <1>5
        <4> QED
          BY <2>2, <4>1, AfterIs
      <3>2. Len(After(a, z)) = 0
        BY <1>5, <3>1
      <3> QED
        BY <3>1, <3>2, EmptySeq
    <2>5. <<>> \o d = d
      BY <1>6, ConcatEmptySeq
    <2> QED
      BY <1>7, <2>1, <2>3, <2>4, <2>5
  <1> QED
    BY <1>1, <1>2, <1>3, <1>4, <1>5, <1>6, <1>13, <1>14 DEF Taken

\* What is left of a segment ends where it ended.
LEMMA LastByte ==
    ASSUME NEW s \in Seq(Byte), NEW n \in Nat, n <= Len(s), After(s, n) # <<>>
    PROVE  After(s, n)[Len(After(s, n))] = s[Len(s)] /\ s # <<>>
  <1>1. PICK k \in Nat : k = Len(s)
    BY LenProperties
  <1>2. PICK t \in Seq(Byte) : t = After(s, n) /\ Len(t) = k - n /\ \A i \in 1 .. k - n : t[i] = s[n + i]
    <2>1. After(s, n) \in Seq(Byte) /\ Len(After(s, n)) = k - n
      BY <1>1, AfterIs
    <2>2. \A i \in 1 .. k - n : After(s, n)[i] = s[n + i]
      BY <1>1, AfterIs
    <2> QED
      BY <2>1, <2>2
  <1>3. k - n >= 1
    BY <1>1, <1>2, EmptySeq
  <1>4. k - n \in 1 .. k - n /\ n + (k - n) = k
    BY <1>3
  <1>5. t[k - n] = s[k]
    BY <1>2, <1>4
  <1>6. s # <<>>
    <2>1. Len(s) # 0
      BY <1>1, <1>3
    <2> QED
      BY <2>1, EmptySeq
  <1> QED
    BY <1>1, <1>2, <1>5, <1>6

LEMMA FrameTakes ==
    ASSUME SInv, CInv, segment # <<>>, Whole, TakeWhole,
           UNCHANGED <<poolVars, conn, work, wireVars, toClient>>
    PROVE  CInv'
  <1>1. saved \in Seq(Byte) /\ segment \in Seq(Byte) /\ toClient \in Seq(Byte) /\ shown \in Seq(Fit)
    BY DEF CInv, ClientTypes
  <1>2. PICK todo \in Seq(Fit), rest \in Seq(Fit) : Arrives(todo, rest)
    BY DEF CInv, Arrivals
  <1>3. PICK l \in Nat, k \in Nat : l = Len(saved) /\ k = Len(segment)
    BY <1>1, LenProperties
  <1>4. Row((saved \o segment) \o toClient, todo)
    BY <1>2 DEF Arrives
  <1>5. PICK p \in Fit : /\ p = todo[1] /\ todo # <<>> /\ ReadSize = SizeOf[p] /\ l < SizeOf[p]
    BY <1>2, <1>3, <1>4, SizeIsRead
  <1>6. PICK z \in Nat : z = SizeOf[p]
    BY <1>5, ReplyIs
  <1>7. l + k >= z /\ l < z
    BY <1>3, <1>5, <1>6 DEF Whole
  <1>8. PICK b : b = (saved \o segment) \o toClient
    OBVIOUS
  <1>9. b \in Seq(Byte)
    BY <1>1, <1>8, ConcatProperties
  <1>10. /\ PacketIn(saved \o Leading(segment, z - l)) = p
         /\ After(segment, z - l) \in Seq(Byte)
         /\ Row(After(segment, z - l) \o toClient, Tail(todo))
    <2>1. Stands(saved, segment, toClient, b, todo)
      BY <1>1, <1>2, <1>4, <1>5, <1>8, <1>9 DEF Stands
    <2>2. z = SizeOf[p] /\ l < z /\ l + k >= z /\ l = Len(saved) /\ k = Len(segment) /\ p = todo[1]
      BY <1>3, <1>5, <1>6, <1>7
    <2>3. Taken(saved, segment, toClient, todo, p, z - l)
      BY <1>3, <1>5, <1>6, <2>1, <2>2, PacketIsIn
    <2> QED
      BY <2>3 DEF Taken
  <1>11. shown' = Append(shown, p) /\ segment' = After(segment, z - l) /\ inSize' = 0 /\ saved' = <<>>
    BY <1>3, <1>5, <1>6, <1>10 DEF TakeWhole
  <1>12. PICK n \in Nat : n = z - l /\ n <= k
    BY <1>7
  <1>13. ClientTypes'
    <2>1. Append(shown, p) \in Seq(Fit)
      BY <1>1, <1>5, AppendProperties
    <2>2. Len(After(segment, n)) = k - n
      BY <1>1, <1>3, <1>12, AfterIs
    <2>3. k <= BufSize
      BY <1>3 DEF CInv, ClientTypes
    <2>4. k - n <= BufSize
      BY <1>12, <2>3, SizeAssumption
    <2>5. Len(segment') <= BufSize
      BY <1>11, <1>12, <2>2, <2>4
    <2>6. segment' \in Seq(Byte) /\ saved' \in Seq(Byte) /\ toClient' \in Seq(Byte)
      BY <1>1, <1>10, <1>11, EmptySeq
    <2> QED
      BY <1>11, <2>1, <2>5, <2>6 DEF ClientTypes
  <1>14. Framing'
    <2>1. ASSUME segment' # <<>> PROVE segment'[Len(segment')][2] # 1
      <3>1. segment' = After(segment, n)
        BY <1>11, <1>12
      <3>2. n <= Len(segment)
        BY <1>3, <1>12
      <3>3. segment'[Len(segment')] = segment[Len(segment)] /\ segment # <<>>
        BY <1>1, <1>12, <2>1, <3>1, <3>2, LastByte
      <3> QED
        BY <3>3 DEF CInv, Framing
    <2> QED
      BY <1>11, <2>1 DEF Framing
  <1>15. PICK later \in Seq(Fit) : later = Tail(todo)
    BY <1>2, <1>5, HeadTailProperties
  <1>16. shown \o todo = Append(shown, p) \o later
    <2>1. shown \o todo = Append(shown, todo[1]) \o Tail(todo)
      BY <1>1, <1>2, <1>5, HeadMoves
    <2> QED
      BY <1>5, <1>15, <2>1
  <1>17. (saved' \o segment') \o toClient' = After(segment, z - l) \o toClient
    <2>1. saved' \o segment' = After(segment, z - l)
      BY <1>10, <1>11, ConcatEmptySeq
    <2> QED
      BY <2>1
  <1>18. Arrives(later, rest)'
    <2>1. sent' = (shown' \o later) \o rest
      BY <1>2, <1>11, <1>16 DEF Arrives, wireVars
    <2>2. Row((saved' \o segment') \o toClient', later)
      BY <1>10, <1>15, <1>17
    <2>3. conn' = "up" => Waiting(rest)'
      BY <1>2 DEF Arrives, Waiting, wireVars
    <2> QED
      BY <2>1, <2>2, <2>3 DEF Arrives
  <1>19. Arrivals'
    BY <1>15, <1>18 DEF Arrivals
  <1>20. Filled' /\ Queued'
    BY DEF CInv, Filled, Queued, poolVars, wireVars
  <1> QED
    BY <1>13, <1>14, <1>19, <1>20 DEF CInv

LEMMA FrameWire == ASSUME SInv, CInv, Frame PROVE CInv'
  <1>1. segment # <<>> /\ UNCHANGED <<poolVars, conn, work, wireVars, toClient>>
    BY DEF Frame
  <1>2. (Whole /\ TakeWhole) \/ (~Whole /\ KeepPart)
    BY DEF Frame, TakeWhole, KeepPart
  <1> QED
    BY <1>1, <1>2, FrameTakes, FrameKeeps

LEMMA RestWire ==
    ASSUME CInv, Reset \/ Trim \/ UNCHANGED vars
    PROVE  CInv'
  <1>1. UNCHANGED <<buf, posted, sent, toClient, clientVars, flight, held, work>>
    BY DEF Reset, Trim, SetMaxSize, TrimCheck, TrimPop, TrimDelete, vars, poolVars, wireVars
  <1>2. conn' = "up" => conn = "up"
    BY DEF Reset, Trim, vars
  <1>3. Filled'
    BY <1>1 DEF CInv, Filled
  <1> QED
    BY <1>1, <1>2, <1>3, Untouched

LEMMA ClientMoves == ASSUME IInv, SInv, CInv, [Next]_vars PROVE CInv'
  <1>1. IInv'
    BY NetworkStep, PoolStep
  <1>2. ASSUME NEW w \in Worker, ServerStep(w) PROVE CInv'
    BY <1>1, <1>2, ReceiverSteps, DoSendWire, PostWire, FailedSends, SentWire DEF ServerStep
  <1> QED
    BY <1>2, TransmitWire, ReceiveWire, FrameWire, RestWire DEF Next

LEMMA ClientInit == ASSUME SizesWhole, Init PROVE CInv
  <1>1. /\ toClient = <<>> /\ segment = <<>> /\ saved = <<>> /\ shown = <<>> /\ sent = <<>> /\ posted = <<>>
        /\ inSize = 0 /\ work = [w \in Worker |-> Idle]
    BY DEF Init
  <1>2. <<>> \in Seq(Byte) /\ <<>> \in Seq(Fit) /\ Len(<<>>) = 0
    BY EmptySeq
  <1>3. ClientTypes
    BY <1>1, <1>2, SizeAssumption DEF ClientTypes
  <1>4. Filled /\ Queued /\ Framing
    BY <1>1, <1>2 DEF Filled, Queued, Framing, Idle
  <1>5. (<<>> \o <<>>) \o <<>> = <<>>
    BY <1>2, ConcatEmptySeq
  <1>6. Arrives(<<>>, <<>>)
    BY <1>1, <1>2, <1>5, RowEmpty DEF Arrives, Waiting
  <1>7. Arrivals
    BY <1>2, <1>6 DEF Arrivals
  <1> QED
    BY <1>3, <1>4, <1>7 DEF CInv

LEMMA ClientAlways == SizesWhole /\ Spec => [](IInv /\ SInv /\ CInv)
  <1>1. SizesWhole /\ Init => IInv /\ SInv /\ CInv
    BY ServerInit, ClientInit
  <1>2. IInv /\ SInv /\ CInv /\ [Next]_vars => (IInv /\ SInv /\ CInv)'
    BY ServerMoves, ClientMoves
  <1> QED
    BY <1>1, <1>2, PTL DEF Spec

\* When nothing is on its way the client keeps no part of a packet.
LEMMA NothingKept ==
    ASSUME SInv, CInv, NEW todo \in Seq(Fit), Row(saved, todo)
    PROVE  todo = <<>>
  <1>1. SUFFICES ASSUME todo # <<>> PROVE FALSE
    OBVIOUS
  <1>2. saved \in Seq(Byte) /\ todo \in Seq(Packet)
    BY ReplyIs, SeqMonotonic DEF CInv, ClientTypes
  <1>3. PICK p : p = todo[1]
    OBVIOUS
  <1>4. p \in Fit
    <2>1. 1 \in 1 .. Len(todo)
      BY <1>1, EmptySeq
    <2> QED
      BY <1>3, <2>1, ElementOfSeq
  <1>5. SizeOf[p] \in Nat /\ SizeOf[p] >= 3 /\ Size(p) = SizeOf[p]
    BY <1>4, ReplyIs
  <1>6. Len(saved) >= SizeOf[p] /\ saved[1] = <<p, 1>>
    <2>1. Len(saved) >= Size(p) /\ \A i \in 1 .. Size(p) : saved[i] = <<p, i>>
      BY <1>1, <1>2, <1>3, RowFirst
    <2> QED
      BY <1>5, <2>1
  <1>7. saved # <<>>
    <2>1. Len(saved) # 0
      BY <1>5, <1>6
    <2> QED
      BY <2>1, EmptySeq
  <1>8. saved[1][1] = p
    BY <1>6
  <1>9. Len(saved) < SizeOf[p]
    BY <1>7, <1>8 DEF CInv, Framing
  <1>10. Len(saved) \in Nat
    BY <1>2, LenProperties
  <1> QED
    BY <1>5, <1>6, <1>9, <1>10

\* If no segment ends in a size field, the client processes what the server
\* gave to WSASend, in order, each packet once; when nothing is on its way it
\* has processed all of it (Player.cpp:74-108, GameManager.cpp:549-580).
THEOREM PacketsAreShown == SizesWhole /\ Spec => []PacketsArrive
  <1>1. ASSUME SInv, CInv PROVE PacketsArrive
    <2>1. PICK todo \in Seq(Fit), rest \in Seq(Fit) : Arrives(todo, rest)
      BY <1>1 DEF CInv, Arrivals
    <2>2. shown \in Seq(Fit) /\ saved \in Seq(Byte)
      BY <1>1 DEF CInv, ClientTypes
    <2>3. IsPrefix(shown, sent)
      <3>1. PICK d : d = shown \o todo
        OBVIOUS
      <3>2. PICK e \in Seq(Fit) : e = todo \o rest
        BY <2>1, ConcatProperties
      <3>3. d \o rest = shown \o e
        BY <2>1, <2>2, <3>1, <3>2, Joined
      <3>4. sent = shown \o e
        BY <2>1, <3>1, <3>3 DEF Arrives
      <3> QED
        BY <2>2, <3>4, FrontIsPrefix
    <2>4. ASSUME conn = "up", posted = <<>>, toClient = <<>>, segment = <<>>
          PROVE  shown = sent
      <3>1. Len(rest) = 0
        <4>1. Len(<<>>) = 0
          BY EmptySeq
        <4> QED
          BY <2>1, <2>4, <4>1 DEF Arrives, Waiting
      <3>2. rest = <<>>
        BY <2>1, <3>1, EmptySeq
      <3>3. (saved \o segment) \o toClient = saved
        BY <2>2, <2>4, ConcatEmptySeq
      <3>4. Row(saved, todo)
        BY <2>1, <3>3 DEF Arrives
      <3>5. todo = <<>>
        BY <1>1, <2>1, <3>4, NothingKept
      <3>6. (shown \o todo) \o rest = shown
        BY <2>2, <3>2, <3>5, ConcatEmptySeq
      <3> QED
        BY <2>1, <3>6 DEF Arrives
    <2> QED
      BY <2>3, <2>4 DEF PacketsArrive
  <1>2. SInv /\ CInv => PacketsArrive
    BY <1>1
  <1> QED
    BY <1>2, ClientAlways, PTL

\* A part of a packet is no more than the client's buffer holds.
LEMMA KeptFits ==
    ASSUME SInv, CInv
    PROVE  Len(saved) <= BufSize
  <1>1. PICK todo \in Seq(Fit), rest \in Seq(Fit) : Arrives(todo, rest)
    BY DEF CInv, Arrivals
  <1>2. saved \in Seq(Byte) /\ segment \in Seq(Byte) /\ toClient \in Seq(Byte) /\ todo \in Seq(Packet)
    BY <1>1, ReplyIs, SeqMonotonic DEF CInv, ClientTypes
  <1>3. PICK l \in Nat : l = Len(saved)
    BY <1>2, LenProperties
  <1>4. CASE saved = <<>>
    BY <1>3, <1>4, EmptySeq, SizeAssumption
  <1>5. CASE saved # <<>>
    <2>1. l >= 1
      BY <1>2, <1>3, <1>5, EmptySeq
    <2>2. PICK g \in Seq(Byte) : g = segment \o toClient
      BY <1>2, ConcatProperties
    <2>3. PICK h : h = saved \o segment
      OBVIOUS
    <2>4. h \o toClient = saved \o g
      BY <1>2, <2>2, <2>3, Joined
    <2>5. Row(saved \o g, todo)
      BY <1>1, <2>3, <2>4 DEF Arrives
    <2>6. todo # <<>> /\ saved[1] = <<todo[1], 1>>
      BY <1>2, <1>3, <2>1, <2>5, FirstBytes
    <2>7. todo[1] \in Fit
      <3>1. 1 \in 1 .. Len(todo)
        BY <1>1, <2>6, EmptySeq
      <3> QED
        BY <1>1, <3>1, ElementOfSeq
    <2>8. saved[1][1] = todo[1]
      BY <2>6
    <2>9. l < SizeOf[todo[1]]
      BY <1>3, <1>5, <2>8 DEF CInv, Framing
    <2>10. SizeOf[todo[1]] \in Nat /\ SizeOf[todo[1]] <= BufSize
      BY <2>7, ReplyIs DEF Fit
    <2> QED
      BY <1>3, <2>9, <2>10, SizeAssumption
  <1> QED
    BY <1>4, <1>5

\* If no segment ends in a size field, every variable keeps its type, and neither
\* the receive buffer of the server nor the two of the client are overrun.
THEOREM TypesAreKept == SizesWhole /\ Spec => []TypeOK
  <1>1. ASSUME SInv, CInv PROVE TypeOK
    <2>1. ServerTypes /\ ClientTypes /\ Len(saved) <= BufSize
      BY <1>1, KeptFits DEF SInv, CInv
    <2>2. Len(recvBuf) <= BufSize
      BY <2>1 DEF ServerTypes
    <2>3. handled \in Seq(Range(Command) \union {None})
      BY <2>1, SeqMonotonic DEF ServerTypes
    <2>4. sent \in Seq(Packet)
      <3>1. Fit \subseteq Packet
        BY ReplyIs
      <3> QED
        BY <2>1, <3>1, SeqMonotonic DEF ServerTypes
    <2>5. shown \in Seq(Packet \union {None})
      <3>1. Fit \subseteq Packet \union {None}
        BY ReplyIs
      <3> QED
        BY <2>1, <3>1, SeqMonotonic DEF ClientTypes
    <2> QED
      BY <2>1, <2>2, <2>3, <2>4, <2>5 DEF TypeOK, ServerTypes, ClientTypes, Task
  <1>2. SInv /\ CInv => TypeOK
    BY <1>1
  <1> QED
    BY <1>2, ClientAlways, PTL
=============================================================================
