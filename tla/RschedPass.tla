----------------------------- MODULE RschedPass -----------------------------
(***************************************************************************)
(* The LLVM pass (rsched/llvm-pass/src/lib.rs) as a transformation of      *)
(* modules.  A module is a sequence of functions, a function a name and a  *)
(* sequence of instructions; basic blocks follow one another and are       *)
(* walked in that order, so a function has one list.                       *)
(*                                                                         *)
(* An access has the fields op, ordered (an atomic ordering), addr (the    *)
(* operand it accesses), val (what it stores or exchanges) and ty, the     *)
(* type of the accessed value; a call has callee and args.                 *)
(*                                                                         *)
(* A build may run the pass more than once on a module.                    *)
(***************************************************************************)
EXTENDS Integers, FiniteSets, SequencesExt

CONSTANTS
    Modules,    \* modules the pass is tried on; one that names the fuzzer entry defines it
    MaxPasses   \* bound on the runs of the pass

VARIABLES
    source,  \* the module as compiled
    mod,     \* the module now
    passes,  \* runs of the pass on it
    direct   \* one of them was rsched-atomics<direct-pthread>

passVars == <<source, mod, passes, direct>>

Entry == "LLVMFuzzerTestOneInput"
Original == "__rsched_original_LLVMFuzzerTestOneInput"
Helper == "rsched_fuzzer_test_one_input"
HookName == "rsched_atomic_instrument"

Absent == "absent"

IsCall(i) == i.op = "call"

Names(m) == {m[k].name : k \in DOMAIN m}

\* Apply F to the code of every function.
MapCode(m, F(_)) == [k \in DOMAIN m |-> [m[k] EXCEPT !.code = F(@)]]

(***************************************************************************)
(* What LLVM shows of an instruction: its operands, in order, and types.   *)
(***************************************************************************)
IntType(bits) == <<"int", bits>>
Ptr == <<"ptr", 64>>
Opaque == <<"opaque", 0>>  \* a type whose size LLVM does not give as a constant

OpAddr(i) == [name |-> i.addr, ty |-> Ptr]
OpVal(i) == [name |-> i.val, ty |-> i.ty]

Operands(i) ==
    CASE i.op = "load"    -> <<OpAddr(i)>>
      [] i.op = "store"   -> <<OpVal(i), OpAddr(i)>>
      [] i.op = "rmw"     -> <<OpAddr(i), OpVal(i)>>
      [] i.op = "cmpxchg" -> <<OpAddr(i), OpVal(i), OpVal(i)>>

\* any_type_size, basic_type_size; no type has size 0.
NoSize == 0

TypeSize(ty) ==
    CASE ty = Ptr    -> 8
      [] ty = Opaque -> NoSize
      [] OTHER       -> (ty[2] + 7) \div 8

(***************************************************************************)
(* atomic_info: what the hook is told about an instruction; an Option is a *)
(* sequence of length at most one.                                         *)
(***************************************************************************)
PointerOperand(i, k) == IF Operands(i)[k].ty = Ptr THEN Operands(i)[k].name ELSE Absent

\* Access kind, index of the pointer operand, type of the accessed value.
AccessShape(i) ==
    CASE i.op = "load"    -> <<0, 1, i.ty>>
      [] i.op = "store"   -> <<1, 2, Operands(i)[1].ty>>
      [] i.op = "rmw"     -> <<2, 1, Operands(i)[2].ty>>
      [] i.op = "cmpxchg" -> <<2, 1, Operands(i)[2].ty>>

\* Of the loads and stores, the ordered ones.
IsAtomic(i) == i.op \in {"rmw", "cmpxchg"} \/ (i.op \in {"load", "store"} /\ i.ordered)

AtomicInfo(i) ==
    IF IsCall(i) \/ ~IsAtomic(i) THEN <<>>
    ELSE LET s == AccessShape(i)
             p == PointerOperand(i, s[2])
             n == TypeSize(s[3])
         IN  IF p = Absent \/ n = NoSize THEN <<>>
             ELSE <<[ptr |-> p, size |-> n, access |-> s[1]]>>

(***************************************************************************)
(* instrument_atomics.                                                     *)
(***************************************************************************)
HookCall(info) == [op |-> "call", callee |-> HookName, args |-> <<info.ptr, info.size, info.access>>]

\* A mutant: the next instruction is looked up after the insertion.
VisitAgain(s) ==
    LET info == AtomicInfo(s.code[s.at]) IN
    IF info = <<>> THEN [s EXCEPT !.at = @ + 1]
    ELSE [code |-> InsertAt(s.code, s.at, HookCall(info[1])), at |-> s.at + 1]

\* One turn of the loop: `inst = i.get_next_instruction()`, then the insertion
\* before i, which shifts i and its successor by one.
Visit(s) ==
    LET info == AtomicInfo(s.code[s.at]) IN
    IF info = <<>> THEN [s EXCEPT !.at = @ + 1]
    ELSE [code |-> InsertAt(s.code, s.at, HookCall(info[1])), at |-> s.at + 2]

InstrumentCode(code) ==
    LET turn[k \in 0 .. Len(code)] ==
          IF k = 0 THEN [code |-> code, at |-> 1] ELSE Visit(turn[k - 1])
    IN  turn[Len(code)].code

InstrumentAtomics(m) == MapCode(m, InstrumentCode)

(***************************************************************************)
(* wrap_fuzzer_entrypoint: the function keeps its uses, under a new name.  *)
(***************************************************************************)
RenameUses(code) ==
    [k \in DOMAIN code |->
        IF IsCall(code[k]) /\ code[k].callee = Entry
        THEN [code[k] EXCEPT !.callee = Original] ELSE code[k]]

Wrapper ==
    [name |-> Entry,
     code |-> <<[op |-> "call", callee |-> Helper, args |-> <<Original>>]>>]

\* A mutant: an entry point that was wrapped before is wrapped again.
MustWrapAlways(m) == Entry \in Names(m)

MustWrap(m) == Entry \in Names(m) /\ Original \notin Names(m)

WrapFuzzerEntrypoint(m) ==
    IF ~MustWrap(m) THEN m
    ELSE Append(
           [k \in DOMAIN m |->
              [name |-> IF m[k].name = Entry THEN Original ELSE m[k].name,
               code |-> RenameUses(m[k].code)]],
           Wrapper)

(***************************************************************************)
(* rewrite_pthread_calls: one walk over the module for every pair.  Only   *)
(* the callee operand of a call site is replaced.                          *)
(***************************************************************************)
PthreadRewrites ==
    << <<"pthread_create", "rsched_pthread_create">>,
       <<"pthread_join", "rsched_pthread_join">>,
       <<"pthread_exit", "rsched_pthread_exit">>,
       <<"pthread_mutex_lock", "rsched_pthread_mutex_lock">>,
       <<"pthread_mutex_trylock", "rsched_pthread_mutex_trylock">>,
       <<"pthread_mutex_unlock", "rsched_pthread_mutex_unlock">>,
       <<"pthread_cond_wait", "rsched_pthread_cond_wait">>,
       <<"pthread_cond_signal", "rsched_pthread_cond_signal">>,
       <<"pthread_cond_broadcast", "rsched_pthread_cond_broadcast">>,
       <<"pthread_barrier_init", "rsched_pthread_barrier_init">>,
       <<"pthread_barrier_wait", "rsched_pthread_barrier_wait">>,
       <<"sched_yield", "rsched_sched_yield">> >>

RewriteFunctionUses(code, from, to) ==
    [k \in DOMAIN code |->
        IF IsCall(code[k]) /\ code[k].callee = from
        THEN [code[k] EXCEPT !.callee = to] ELSE code[k]]

RewritePthreadCalls(m) ==
    LET done[k \in 0 .. Len(PthreadRewrites)] ==
          IF k = 0 THEN m
          ELSE LET p == PthreadRewrites[k]
               IN  MapCode(done[k - 1], LAMBDA c : RewriteFunctionUses(c, p[1], p[2]))
    IN  done[Len(PthreadRewrites)]

(***************************************************************************)
(* RschedAtomicsPass::run_pass.                                            *)
(***************************************************************************)
RunPass(d) ==
    /\ passes < MaxPasses
    /\ LET m == InstrumentAtomics(WrapFuzzerEntrypoint(mod))
       IN  mod' = IF d THEN RewritePthreadCalls(m) ELSE m
    /\ passes' = passes + 1
    /\ direct' = (direct \/ d)
    /\ UNCHANGED source

PassInit ==
    /\ source \in Modules
    /\ mod = source
    /\ passes = 0
    /\ direct = FALSE

PassNext == \E d \in BOOLEAN : RunPass(d)

PassSpec == PassInit /\ [][PassNext]_passVars

(***************************************************************************)
(* The modules that LLVM hands to the pass: functions have different       *)
(* names, and no program uses the name that the pass keeps for itself.     *)
(***************************************************************************)
AccessKind == [load |-> 0, store |-> 1, rmw |-> 2, cmpxchg |-> 2]

IsType(ty) == ty \in {Ptr, Opaque} \/ (ty = IntType(ty[2]) /\ ty[2] \in Nat \ {0})

IsInstruction(i) ==
    \/ IsCall(i) /\ i = [op |-> "call", callee |-> i.callee, args |-> i.args]
    \/ i.op \in DOMAIN AccessKind /\ i.addr # Absent /\ i.ordered \in BOOLEAN /\ IsType(i.ty)

IsFunction(f) ==
    /\ f = [name |-> f.name, code |-> f.code]
    /\ f.code \in Seq(Range(f.code))
    /\ \A i \in Range(f.code) : IsInstruction(i)

ASSUME PassAssumption ==
    /\ MaxPasses \in Nat
    /\ \A m \in Modules :
        /\ m \in Seq(Range(m)) /\ \A f \in Range(m) : IsFunction(f)
        /\ \A j, k \in DOMAIN m : m[j].name = m[k].name => j = k
        /\ Original \notin Names(m)

(***************************************************************************)
(* Properties, against a description of the result that does not walk or   *)
(* insert.                                                                 *)
(***************************************************************************)
\* An atomic access of known size.
Announced(i) == ~IsCall(i) /\ IsAtomic(i) /\ i.ty # Opaque

Announcement(i) ==
    HookCall([ptr |-> i.addr, size |-> TypeSize(i.ty), access |-> AccessKind[i.op]])

\* The accesses to announce among the first j instructions.
Count(code, j) == Cardinality({k \in 1 .. j : Announced(code[k])})

\* Where instruction j is after p runs: behind p announcements of each of them.
Place(code, j, p) == j + p * Count(code, j)

\* The function that a call of f reaches afterwards.
Redirected(f) ==
    IF passes > 0 /\ f = Entry /\ MustWrap(source) THEN Original
    ELSE IF direct /\ \E r \in Range(PthreadRewrites) : r[1] = f
    THEN (CHOOSE r \in Range(PthreadRewrites) : r[1] = f)[2]
    ELSE f

AfterPass(i) == IF IsCall(i) THEN [i EXCEPT !.callee = Redirected(@)] ELSE i

\* instrument_atomics, which inserts into the list it walks, and the rewriting of
\* calls keep every instruction of the program in its place, announce every atomic
\* access of known size with its own address, size and kind immediately before it,
\* once per run of the pass, and announce nothing else.
PassFaithful ==
    \A k \in DOMAIN source :
        LET old == source[k].code
            new == mod[k].code
        IN  /\ Len(new) = Place(old, Len(old), passes)
            /\ \A j \in DOMAIN old :
                /\ new[Place(old, j, passes)] = AfterPass(old[j])
                /\ Announced(old[j]) =>
                    \A h \in 1 .. passes : new[Place(old, j, passes) - h] = Announcement(old[j])

\* However often the pass runs, the fuzzer finds one LLVMFuzzerTestOneInput, it
\* calls rsched_fuzzer_test_one_input with the program's own function, and that
\* function is not itself a wrapper: an input is not run on schedules of schedules.
EntryWrappedOnce ==
    Entry \in Names(source) /\ passes > 0 =>
        /\ \E j \in DOMAIN mod :
              {i \in DOMAIN mod : mod[i].name = Entry} = {j} /\ mod[j] = Wrapper
        /\ \E k \in DOMAIN source :
              {j \in DOMAIN mod : mod[j].name = Original} = {k} /\ source[k].name = Entry

=============================================================================
