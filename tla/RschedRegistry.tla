--------------------------- MODULE RschedRegistry ---------------------------
(***************************************************************************)
(* How the scheduler learns which mutexes are recursive: the interposers   *)
(* of the mutexattr functions, pthread_mutex_init and _destroy call the    *)
(* real function and, when it succeeded and the call was not made from     *)
(* inside the scheduler, note the outcome in State.                        *)
(*                                                                         *)
(* Attributes and mutexes are addresses that are used again, with or       *)
(* without a call of destroy before.  A mutex may also come into being by  *)
(* a static initialiser, of which the scheduler learns nothing.  An object *)
(* is used either by the program or by the code inside the scheduler.      *)
(***************************************************************************)
CONSTANTS
    Attrs,       \* addresses of attribute objects of the program
    RegMutexes,  \* addresses of mutexes of the program
    NoAttr       \* the null pointer

VARIABLES
    realAttr,   \* type in the real attribute object, "none" if not initialised
    realMutex,  \* type of the real mutex, "none" if not initialised
    locked,     \* mutexes the program holds
    recursiveAttrs,    \* State::recursive_mutex_attrs
    recursiveMutexes,  \* State::recursive_mutexes
    unnoted            \* mutexes with a static initialiser, and those whose note or
                       \* whose type's note rsched_reinit dropped

real == <<realAttr, realMutex, locked>>
noted == <<recursiveAttrs, recursiveMutexes>>
registryVars == <<real, noted, unnoted>>

MutexKinds == {"normal", "recursive", "errorcheck"}

\* A mutant: only the recursive type is noted, other types leave the note alone.
NoteKindOnly(set, key, recursive) == IF recursive THEN set \cup {key} ELSE set

\* insert or remove, as HashSet does.
NoteKind(set, key, recursive) == IF recursive THEN set \cup {key} ELSE set \ {key}

\* HashSet::remove; with a mutex its entry in State::mutexes goes as well.
Forget(set, key) == set \ {key}

MutexattrInit(a) ==
    /\ realAttr' = [realAttr EXCEPT ![a] = "normal"]
    /\ recursiveAttrs' = Forget(recursiveAttrs, a)
    /\ UNCHANGED <<realMutex, locked, recursiveMutexes, unnoted>>

\* With a value that is no type the real function fails and nothing is noted.
MutexattrSettype(a, kind) ==
    /\ realAttr[a] # "none"
    /\ kind \in MutexKinds
    /\ realAttr' = [realAttr EXCEPT ![a] = kind]
    /\ recursiveAttrs' = NoteKind(recursiveAttrs, a, kind = "recursive")
    /\ UNCHANGED <<realMutex, locked, recursiveMutexes, unnoted>>

MutexattrDestroy(a) ==
    /\ realAttr[a] # "none"
    /\ realAttr' = [realAttr EXCEPT ![a] = "none"]
    /\ recursiveAttrs' = Forget(recursiveAttrs, a)
    /\ UNCHANGED <<realMutex, locked, recursiveMutexes, unnoted>>

\* The memory of an old mutex may be used again without pthread_mutex_destroy.
MutexInit(m, a) ==
    /\ a # NoAttr => realAttr[a] # "none"
    /\ realMutex' = [realMutex EXCEPT ![m] = IF a = NoAttr THEN "normal" ELSE realAttr[a]]
    /\ recursiveMutexes' =
         NoteKind(recursiveMutexes, m, a # NoAttr /\ a \in recursiveAttrs)
    /\ unnoted' = NoteKind(unnoted, m, a # NoAttr /\ realAttr[a] = "recursive"
                                          /\ a \notin recursiveAttrs)
    /\ locked' = locked \ {m}
    /\ UNCHANGED <<realAttr, recursiveAttrs>>

\* PTHREAD_MUTEX_INITIALIZER or its recursive and error-checking variants, in new
\* memory or, as the C examples do between two runs, over an old mutex; a recursive
\* one is destroyed first.
StaticInitializer(m, kind) ==
    /\ realMutex[m] # "recursive"
    /\ realMutex' = [realMutex EXCEPT ![m] = kind]
    /\ unnoted' = NoteKind(unnoted, m, kind = "recursive")
    /\ locked' = locked \ {m}
    /\ UNCHANGED <<realAttr, noted>>

\* The real function refuses to destroy a mutex that is held, and nothing is noted.
MutexDestroy(m) ==
    /\ realMutex[m] # "none"
    /\ m \notin locked
    /\ realMutex' = [realMutex EXCEPT ![m] = "none"]
    /\ recursiveMutexes' = Forget(recursiveMutexes, m)
    /\ UNCHANGED <<realAttr, locked, recursiveAttrs, unnoted>>

Toggle(m) ==
    /\ realMutex[m] # "none"
    /\ locked' = IF m \in locked THEN locked \ {m} ELSE locked \cup {m}
    /\ UNCHANGED <<realAttr, realMutex, noted, unnoted>>

\* rsched_reinit forgets the notes; the objects of the program stay as they are.
RegistryReinit ==
    /\ recursiveAttrs' = {}
    /\ recursiveMutexes' = {}
    /\ unnoted' = unnoted \cup recursiveMutexes
    /\ UNCHANGED real

RegistryInit ==
    /\ realAttr = [a \in Attrs |-> "none"]
    /\ realMutex = [m \in RegMutexes |-> "none"]
    /\ locked = {}
    /\ recursiveAttrs = {}
    /\ recursiveMutexes = {}
    /\ unnoted = {}

RegistryNext ==
    \/ \E a \in Attrs :
         \/ MutexattrInit(a)
         \/ MutexattrDestroy(a)
         \/ \E kind \in MutexKinds : MutexattrSettype(a, kind)
    \/ \E m \in RegMutexes :
         \/ \E a \in Attrs \cup {NoAttr} : MutexInit(m, a)
         \/ \E kind \in MutexKinds : StaticInitializer(m, kind)
         \/ MutexDestroy(m)
         \/ Toggle(m)
    \/ RegistryReinit

RegistrySpec == RegistryInit /\ [][RegistryNext]_registryVars

\* A mutex is noted as recursive only if it is (the assumption on RecursiveNoted
\* under which Rsched is checked and proved), also when addresses are used again,
\* types are changed after mutexes were made from them and calls fail; and every
\* recursive mutex that pthread_mutex_init made is noted unless rsched_reinit has
\* forgotten it or its type.
RegistryExact ==
    /\ \A m \in recursiveMutexes : realMutex[m] = "recursive"
    /\ \A m \in RegMutexes :
         realMutex[m] = "recursive" => m \in recursiveMutexes \cup unnoted

=============================================================================
