----------------------------- MODULE RschedWalk -----------------------------
(***************************************************************************)
(* The random walk of rsched/src/scheduler.rs: the xorshift64 generator    *)
(* and RandomWalk::choose, on which State::choose and State::mutex_unlock  *)
(* draw, and the seeds it is given: by rsched_init, by rsched_reinit and   *)
(* by the fuzzer loop around it.  RschedThreads and RschedSync choose      *)
(* nondeterministically among the eligible threads; this module is about   *)
(* the draw itself.                                                        *)
(*                                                                         *)
(* A machine word is the set of its one bits, so the generator runs at its *)
(* real width.                                                             *)
(***************************************************************************)
EXTENDS Integers, Sequences, FiniteSetsExt

CONSTANTS
    Width,       \* bits of a word: 64
    Seeds,       \* seeds of rsched_init and rsched_reinit, hashes of fuzzer inputs
    Schedules,   \* RSCHED_FUZZ_SCHEDULES
    MaxThreads,  \* bound on the length of the list of threads
    MaxDraws     \* bound on the draws from one seed

Bits == 0 .. Width - 1

ASSUME WalkAssumption ==
    /\ Width \in Nat \ {0}
    /\ Seeds \subseteq SUBSET Bits
    /\ Schedules \in Nat /\ MaxThreads \in Nat /\ MaxDraws \in Nat

VARIABLES
    rng,       \* Rng: the word
    draws,     \* draws since the seed was set
    blocking,  \* the flags handed to the last choose()
    chosen,    \* what it returned: an index, or Nobody
    schedules, \* schedules the fuzzer loop still has to run
    seed       \* the seed of the next one

fuzzVars == <<schedules, seed>>
walkVars == <<rng, draws, blocking, chosen, fuzzVars>>

Nobody == -1

(***************************************************************************)
(* Rng.                                                                    *)
(***************************************************************************)
Xor(x, y) == (x \ y) \cup (y \ x)
Shl(x, k) == {i + k : i \in x} \cap Bits
Shr(x, k) == {i - k : i \in x} \cap Bits

\* A mutant: the seed is taken as it comes.
SeedAsIs(s) == s

RngNew(s) == IF s = {} THEN {0} ELSE s

RngNext(x) ==
    LET a == Xor(x, Shl(x, 13))
        b == Xor(a, Shr(a, 7))
    IN  Xor(b, Shl(b, 17))

\* The value of the word x modulo n, bit by bit from the highest.
Residue(x, n) ==
    LET r[i \in 0 .. Width] ==
          IF i = Width THEN 0 ELSE (2 * r[i + 1] + (IF i \in x THEN 1 ELSE 0)) % n
    IN  r[0]

(***************************************************************************)
(* RandomWalk::choose on the flags b, starting from index start.           *)
(***************************************************************************)
Flagged(b, i) == b[i + 1]

\* Mutants: a scan that stops one short, and one that always starts at 0.
ScanShort(b, start) ==
    LET n    == Len(b)
        free == {i \in 0 .. n - 2 : ~Flagged(b, (start + i) % n)}
    IN  IF free = {} THEN Nobody ELSE (start + Min(free)) % n
ScanFromZero(b, start) ==
    LET free == {i \in 0 .. Len(b) - 1 : ~Flagged(b, i)}
    IN  IF free = {} THEN Nobody ELSE Min(free)

Scan(b, start) ==
    LET n    == Len(b)
        free == {i \in 0 .. n - 1 : ~Flagged(b, (start + i) % n)}
    IN  IF free = {} THEN Nobody ELSE (start + Min(free)) % n

Lists == UNION {[1 .. n -> BOOLEAN] : n \in 0 .. MaxThreads}

Choose(b) ==
    /\ draws < MaxDraws
    /\ blocking' = b
    /\ IF b = <<>>
       THEN chosen' = Nobody /\ UNCHANGED <<rng, draws>>
       ELSE /\ rng' = RngNext(rng)
            /\ draws' = draws + 1
            /\ chosen' = Scan(b, Residue(rng', Len(b)))
    /\ UNCHANGED fuzzVars

(***************************************************************************)
(* State::new with a seed, and who calls it.                               *)
(***************************************************************************)
Reseed(s) ==
    /\ rng' = RngNew(s)
    /\ draws' = 0
    /\ blocking' = <<>>
    /\ chosen' = Nobody

\* rsched_reinit by a program that is not the fuzzer loop.
Reinit(s) ==
    /\ schedules = 0
    /\ Reseed(s)
    /\ UNCHANGED fuzzVars

\* wrapping_add(1): the low ones turn to zeros, the next bit to a one.
Increment(x) ==
    LET ones == {i \in Bits : 0 .. i \subseteq x}
    IN  (x \ ones) \cup ({Cardinality(ones)} \cap Bits)

\* rsched_fuzzer_test_one_input for an input with hash h, when the previous call
\* is done, and one turn of its loop; the draws of test_one_input follow it.
FuzzerInput(h) ==
    /\ schedules = 0
    /\ schedules' = Schedules
    /\ seed' = h
    /\ UNCHANGED <<rng, draws, blocking, chosen>>

FuzzerSchedule ==
    /\ schedules > 0
    /\ Reseed(seed)
    /\ schedules' = schedules - 1
    /\ seed' = Increment(seed)

Init ==
    /\ \E s \in Seeds : rng = RngNew(s)
    /\ draws = 0
    /\ blocking = <<>>
    /\ chosen = Nobody
    /\ schedules = 0
    /\ seed = {}

Next ==
    \/ \E b \in Lists : Choose(b)
    \/ \E s \in Seeds : Reinit(s) \/ FuzzerInput(s)
    \/ FuzzerSchedule

WalkSpec == Init /\ [][Next]_walkVars

(***************************************************************************)
(* Properties.                                                             *)
(***************************************************************************)
Eligible(b) == {i \in 0 .. Len(b) - 1 : ~Flagged(b, i)}

\* The generator never reaches its fixed point 0, from which every draw would be
\* index 0: Rng::new replaces the seed 0 and the three xorshifts of Rng::next map
\* no other word to it.
RngNeverStuck == rng # {}

\* RandomWalk::choose returns an index whose flag is down, and None only when
\* every flag is up, as its caller's unwrap of a non-empty waiter list relies on.
ChoiceIsEligible ==
    IF Eligible(blocking) = {} THEN chosen = Nobody ELSE chosen \in Eligible(blocking)

\* Over all starting points the walk returns every eligible index and no other:
\* what the nondeterministic draws of RschedThreads and RschedSync assume.
WalkReachesEligible ==
    Eligible(blocking) # {} =>
        {Scan(blocking, s) : s \in 0 .. Len(blocking) - 1} = Eligible(blocking)

\* The starting points from which the walk over b returns i.
Starts(b, i) == {s \in 0 .. Len(b) - 1 : Scan(b, s) = i}

\* "Uniformly random non-blocking thread selection": as the starting point is drawn
\* uniformly, RandomWalk::choose returns every eligible index from equally many.
UniformDraw ==
    \A i, j \in Eligible(blocking) :
        Cardinality(Starts(blocking, i)) = Cardinality(Starts(blocking, j))

\* How many ineligible indices precede i, going backwards around the list.
Shadow(b, i) ==
    Min({k \in 0 .. Len(b) - 1 : (i - 1 - k) % Len(b) \in Eligible(b)})

=============================================================================
