----------------------------- MODULE Snowflake -----------------------------
(***************************************************************************)
(* SnowflakeIDGenerator::Generate (SERVER/SnowflakeID.h), which numbers    *)
(* the items that NPCs drop.  The generator's mutex is held from the first *)
(* look at the clock to the return; what moves meanwhile is the clock.     *)
(*                                                                         *)
(* The server's number is a constant (0) and the epoch only shifts the     *)
(* clock: an identifier is the millisecond followed by the sequence.       *)
(***************************************************************************)
EXTENDS Naturals

CONSTANTS
    Worker,     \* the threads that call Generate
    None,
    SeqSize,    \* SEQ_MASK + 1
    MaxClock    \* bound on the clock

ASSUME SeqAssumption   == SeqSize \in Nat \ {0}
ASSUME ClockAssumption == MaxClock \in Nat
ASSUME IdleAssumption  == None \notin Worker

VARIABLES
    clock,      \* system_clock::now(), in ms
    lastMs,     \* last_ms_
    sequence,   \* sequence_
    spinner,    \* the thread that holds mut_ and waits for the next ms
    issued,     \* history: the identifiers handed out
    calls       \* history: how many calls have returned

idVars == <<clock, lastMs, sequence, spinner, issued, calls>>

Id(ms, seq) == ms * SeqSize + seq

InitIds ==
    /\ clock = 1
    /\ lastMs = 0
    /\ sequence = 0
    /\ spinner = None
    /\ issued = {}
    /\ calls = 0

\* The identifier a call returns when it returns now.
NewId == Id(clock, IF clock = lastMs THEN sequence + 1 ELSE 0)

HandOut == issued' = issued \union {NewId} /\ calls' = calls + 1

\* The clock only moves forward.
Tick ==
    /\ clock < MaxClock
    /\ clock' = clock + 1
    /\ UNCHANGED <<lastMs, sequence, spinner, issued, calls>>

\* The first call in a new millisecond.
GenerateFirst ==
    /\ spinner = None
    /\ clock # lastMs
    /\ lastMs' = clock
    /\ sequence' = 0
    /\ HandOut
    /\ UNCHANGED <<clock, spinner>>

\* A further call in the same millisecond.
GenerateNext ==
    /\ spinner = None
    /\ clock = lastMs
    /\ sequence + 1 < SeqSize
    /\ sequence' = sequence + 1
    /\ HandOut
    /\ UNCHANGED <<clock, lastMs, spinner>>

\* The sequence has run out: the thread spins with the mutex in hand.
GenerateWait(t) ==
    /\ spinner = None
    /\ clock = lastMs
    /\ sequence + 1 = SeqSize
    /\ sequence' = 0
    /\ spinner' = t
    /\ UNCHANGED <<clock, lastMs, issued, calls>>

\* Variant: the loop stops in the same millisecond.
GenerateAtOnce(t) ==
    /\ spinner = t
    /\ spinner' = None
    /\ lastMs' = clock
    /\ issued' = issued \union {Id(clock, 0)}
    /\ calls' = calls + 1
    /\ UNCHANGED <<clock, sequence>>

\* The loop has seen a later millisecond.
GenerateLater(t) ==
    /\ spinner = t
    /\ clock > lastMs
    /\ spinner' = None
    /\ lastMs' = clock
    /\ HandOut
    /\ UNCHANGED <<clock, sequence>>

\* A call of thread t returns NewId.
Generate(t) == GenerateFirst \/ GenerateNext \/ GenerateLater(t)

NextIds == Tick \/ \E t \in Worker : Generate(t) \/ GenerateWait(t)

IdSpec == InitIds /\ [][NextIds]_idVars

----------------------------------------------------------------------------
Unique == INSTANCE UniqueIds WITH issued <- issued, calls <- calls

\* No two items get one identifier, though many are made in one millisecond
\* and the sequence runs out (SnowflakeID.h:36-62): every step of the
\* generator is a step of UniqueIds or changes nothing there.
IdsAreUnique == Unique!Spec
============================================================================
