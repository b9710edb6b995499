-------------------------- MODULE RschedTsanCreate --------------------------
(***************************************************************************)
(* The tsan build of the preload shim must tell three kinds of             *)
(* pthread_create calls apart: TSAN's own background thread, a thread of   *)
(* the program, which TSAN starts through its thread_start routine, and    *)
(* threads of other runtimes.  Only the program's are scheduled.           *)
(***************************************************************************)
LOCAL INSTANCE Integers
LOCAL INSTANCE Sequences
LOCAL INSTANCE Functions

CONSTANTS
    MaxTokens,   \* bound on the criteria listed in RSCHED_TSAN_BACKGROUND_THREAD
    MaxCreates   \* bound on the calls

Criteria == {"first", "return", "start"}
Creators == {"background", "program", "other"}

VARIABLES
    tokens,      \* the environment variable
    recognised,  \* the start routines of the runtime that have the expected bytes
    ordinal,     \* TSAN_PTHREAD_CREATE_COUNT
    creates,     \* calls so far, as <<creator, what the shim did>>
    panicked

createVars == <<tokens, recognised, ordinal, creates, panicked>>

(***************************************************************************)
(* parse_tsan_background_mode: "none" ends the list, unless it comes after *)
(* a criterion; an empty list means "first".                               *)
(***************************************************************************)
HasNone(s) == "none" \in Range(s)

ParsePanics(s) == HasNone(s) /\ s[1] # "none"

Mode(s) ==
    IF HasNone(s) THEN {} ELSE IF s = <<>> THEN {"first"} ELSE Range(s)

(***************************************************************************)
(* is_tsan_background_thread_create.                                       *)
(***************************************************************************)
\* A mutant: the counter is compared as it was before the increment.
MatchesLate(creator, n) ==
    {c \in Criteria :
        \/ c = "first" /\ n = 2
        \/ c = "return" /\ creator = "background"
        \/ c = "start" /\ creator = "background" /\ creator \in recognised}

Matches(creator, n) ==
    {c \in Criteria :
        \/ c = "first" /\ n = 1
        \/ c = "return" /\ creator = "background"
        \/ c = "start" /\ creator = "background" /\ creator \in recognised}

IsBackground(mode, matched) == mode # {} /\ mode \subseteq matched

PartialMatch(mode, matched) == mode \cap matched # {} /\ ~(mode \subseteq matched)

\* rsched_is_tsan_thread_start.
IsThreadStart(creator) == creator = "program" /\ creator \in recognised

\* pthread_create, an outermost call.
PthreadCreate(creator) ==
    /\ ~panicked
    /\ Len(creates) < MaxCreates
    /\ LET mode    == Mode(tokens)
           n       == IF mode = {} THEN ordinal ELSE ordinal + 1
           matched == Matches(creator, n)
       IN  /\ ordinal' = n
           /\ panicked' = (ParsePanics(tokens) \/ PartialMatch(mode, matched))
           /\ creates' =
                IF panicked' THEN creates
                ELSE Append(creates,
                       <<creator,
                         IF IsBackground(mode, matched) \/ ~IsThreadStart(creator)
                         THEN "forwarded" ELSE "scheduled">>)
    /\ UNCHANGED <<tokens, recognised>>

CreateInit ==
    /\ tokens \in UNION {[1 .. n -> Criteria \cup {"none"}] : n \in 0 .. MaxTokens}
    /\ recognised \in SUBSET {"background", "program"}
    /\ ordinal = 0
    /\ creates = <<>>
    /\ panicked = FALSE

\* TSAN starts its background thread once.
CreateNext ==
    \E c \in Creators :
        /\ c = "background" => <<c, "forwarded">> \notin Range(creates)
        /\ PthreadCreate(c)

CreateSpec == CreateInit /\ [][CreateNext]_createVars

\* With a runtime whose thread_start is recognised no thread of the program escapes
\* the scheduler, unless the criteria rest on the order alone and the program's is
\* the first to be created: a call that meets some criteria and not all stops the
\* program instead.  That no other thread is scheduled rests on the recognition of
\* thread_start, an input here.
ProgramThreadsScheduled ==
    "program" \in recognised
    /\ (Mode(tokens) # {"first"} \/ (creates # <<>> /\ creates[1][1] # "program")) =>
      \A k \in DOMAIN creates :
         creates[k][1] = "program" => creates[k][2] = "scheduled"

=============================================================================
