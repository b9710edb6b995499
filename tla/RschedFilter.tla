---------------------------- MODULE RschedFilter ----------------------------
(***************************************************************************)
(* The BPF program that install_seccomp_filter (rsched/src/lib.rs) hands   *)
(* to the kernel, and the kernel's interpretation of it for one system     *)
(* call.                                                                   *)
(*                                                                         *)
(* Words are 32 bits wide; u32::MAX and u32::MAX - 1 are written as -1 and *)
(* -2.  What tells addresses apart is whether they agree with the one      *)
(* whitelisted instruction in the low and in the high half.                *)
(***************************************************************************)
LOCAL INSTANCE Integers
LOCAL INSTANCE Sequences

CONSTANTS
    Arches,    \* values of seccomp_data.arch; the first of them is AuditArch
    AuditArch, \* AUDIT_ARCH_X86_64
    Numbers,   \* system call numbers
    Halves,    \* halves of an instruction pointer
    SiteLo,    \* rsched_internal_syscall6_insn + 2: the address the kernel
    SiteHi     \* reports for the raw system call, in two halves

SysFutex == 202
SysClone == 56
SysClone3 == 435

VARIABLES
    trapClone,  \* RSCHED_SECCOMP_TRAP_CLONE=1
    data,       \* seccomp_data of the call
    acc,        \* BPF accumulator
    ip,         \* index of the next BPF instruction
    verdict     \* what the program returned, "none" before

filterVars == <<trapClone, data, acc, ip, verdict>>

Load(field) == [code |-> "ld", k |-> field, jt |-> 0, jf |-> 0]
Jump(k, jt, jf) == [code |-> "jeq", k |-> k, jt |-> jt, jf |-> jf]
Ret(k) == [code |-> "ret", k |-> k, jt |-> 0, jf |-> 0]

CloneNumber(trap) == IF trap THEN SysClone ELSE -1
Clone3Number(trap) == IF trap THEN SysClone3 ELSE -2

\* A mutant: the targets of the last comparison are exchanged.
CheckSiteSwapped ==
    <<Load("lo"), Jump(SiteLo, 0, 2), Load("hi"), Jump(SiteHi, 0, 1),
      Ret("trap"), Ret("allow")>>

CheckSite ==
    <<Load("lo"), Jump(SiteLo, 0, 2), Load("hi"), Jump(SiteHi, 1, 0),
      Ret("trap"), Ret("allow")>>

Filter(trap) ==
    <<Load("arch"), Jump(AuditArch, 1, 0), Ret("kill"),
      Load("nr"), Jump(SysFutex, 3, 0), Jump(CloneNumber(trap), 2, 0),
      Jump(Clone3Number(trap), 1, 0), Ret("allow")>> \o CheckSite

FilterInit ==
    /\ trapClone \in BOOLEAN
    /\ data \in [arch : Arches, nr : Numbers, lo : Halves, hi : Halves]
    /\ acc = 0
    /\ ip = 1
    /\ verdict = "none"

\* One instruction of the kernel's interpreter.
FilterStep ==
    /\ verdict = "none"
    /\ LET i == Filter(trapClone)[ip] IN
       \/ /\ i.code = "ld"
          /\ acc' = data[i.k]
          /\ ip' = ip + 1
          /\ UNCHANGED verdict
       \/ /\ i.code = "jeq"
          /\ ip' = ip + 1 + (IF acc = i.k THEN i.jt ELSE i.jf)
          /\ UNCHANGED <<acc, verdict>>
       \/ /\ i.code = "ret"
          /\ verdict' = i.k
          /\ UNCHANGED <<acc, ip>>
    /\ UNCHANGED <<trapClone, data>>

FilterSpec == FilterInit /\ [][FilterStep]_filterVars

(***************************************************************************)
(* What the filter is for.                                                 *)
(***************************************************************************)
\* -1 and -2 stand in for clone and clone3 when these are not trapped; they are no
\* system calls of this architecture.
Guarded == {SysFutex} \cup (IF trapClone THEN {SysClone, SysClone3} ELSE {-1, -2})

AtSite == data.lo = SiteLo /\ data.hi = SiteHi

\* The jump offsets of install_seccomp_filter add up to: a foreign architecture is
\* killed, a guarded call is trapped unless it comes from the one instruction of
\* rsched_internal_syscall6, both halves of whose address count, and every other
\* call is let through.  No path leaves the program or ends without a verdict.
FilterVerdict ==
    /\ verdict = "none" => ip \in DOMAIN Filter(trapClone)
    /\ verdict # "none" =>
         verdict = (IF data.arch # AuditArch THEN "kill"
                    ELSE IF data.nr \in Guarded /\ ~AtSite THEN "trap"
                    ELSE "allow")

=============================================================================
