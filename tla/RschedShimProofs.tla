-------------------------- MODULE RschedShimProofs --------------------------
(***************************************************************************)
(* Proofs about the shim.  A thread's list of labels is annotated like a   *)
(* program with assertions: a Point says what is the case before a label,  *)
(* Step what a label asks for and brings about, and a list is in order     *)
(* when its labels lead from one Point to the next and end in user code.   *)
(***************************************************************************)
EXTENDS RschedShim, TLAPS, SequenceTheorems

(***************************************************************************)
(* Points and steps.                                                       *)
(***************************************************************************)
\* How far the initialisation of rsched is, for a thread:
\*   any      initialised with this thread in State, or not at all
\*   known    initialised, with this thread in State
\*   child    started, and State names it or its creator is about to enter it
\*   bare     in rsched_reinit, before INITED is set;  renew  after it
\*   new      in rsched_init, before its entry in State;  reg  after it
Phases == {"any", "known", "child", "bare", "renew", "new", "reg"}

\* While these last no other thread exists.
AlonePhases == {"bare", "renew", "new", "reg"}

Points == [depth : Nat, gmtx : BOOLEAN, rpt : BOOLEAN, adding : BOOLEAN, phase : Phases]

\* x holds neither lock and owes State no child.
Free(x) == ~x.gmtx /\ ~x.rpt /\ ~x.adding

Settled(x) == x.phase \in {"any", "known"}

User(x) == x.depth = 0 /\ Free(x) /\ Settled(x)

Inform(x) == [x EXCEPT !.phase = "known"]

\* From x the label l leads to y.
Step(l, x, y) ==
    /\ l \in KernelEntries \cup {"libc", "next", "down"} => x.depth > 0
    /\ \/ l = "up" /\ y = [x EXCEPT !.depth = @ + 1]
       \/ l = "down" /\ y = [x EXCEPT !.depth = @ - 1]
       \/ l \in {"libc", "next", "store", "other"} /\ y = x
       \/ l \in {"enter", "hook"} /\ x.depth > 0 /\ y = x
       \/ l \in {"enter", "hook"} /\ User(x) /\ y = Inform(x)
       \/ l \in {"ensure", "init"} /\ Free(x) /\ Settled(x) /\ y = Inform(x)
       \/ l = "rpt" /\ ~x.rpt /\ y = x
       \/ l = "rptset" /\ x.rpt /\ y = [x EXCEPT !.rpt = FALSE]
       \/ /\ l = "lock" /\ ~x.gmtx
          /\ y = [x EXCEPT !.gmtx = TRUE, !.phase = IF @ = "child" THEN "known" ELSE @]
       \/ l = "unlock" /\ x.gmtx /\ ~x.adding /\ y = [x EXCEPT !.gmtx = FALSE]
       \/ l = "condwait" /\ x.gmtx /\ ~x.adding /\ x.phase = "known" /\ y = x
       \/ l = "body" /\ x.gmtx /\ ~x.adding /\ ~x.rpt /\ x.phase = "known" /\ y = x
       \/ l = "create" /\ x.gmtx /\ x.phase = "known" /\ y = [x EXCEPT !.adding = TRUE]
       \/ l = "addchild" /\ x.gmtx /\ x.phase = "known" /\ y = [x EXCEPT !.adding = FALSE]
       \/ l = "dropstate" /\ x.phase = "bare" /\ y = x
       \/ l = "newstate" /\ x.phase \in {"bare", "new"} /\ y = x
       \/ l = "setinited" /\ x.phase = "bare" /\ y = [x EXCEPT !.phase = "renew"]
       \/ l = "addself" /\ x.phase = "renew" /\ y = Inform(x)
       \/ l = "addself" /\ x.phase = "new" /\ y = [x EXCEPT !.phase = "reg"]
       \/ l = "arm" /\ x.phase = "reg" /\ y = Inform(x)
       \/ l = "destructors" /\ User(x) /\ y = x
       \/ l \in {"dead", "unborn"} /\ Free(x) /\ x.phase = "known" /\ User(y)

\* The labels of s lead from x to y.
Chain(s, x, y) ==
    \E f \in [1 .. Len(s) + 1 -> Points] :
        /\ f[1] = x /\ f[Len(s) + 1] = y
        /\ \A k \in 1 .. Len(s) : Step(s[k], f[k], f[k + 1])

\* They lead from x back to user code.
InOrder(s, x) == \E y \in Points : User(y) /\ Chain(s, x, y)

(***************************************************************************)
(* Chains.                                                                 *)
(***************************************************************************)
\* A single label.
LEMMA ChainOne ==
  ASSUME NEW l \in Labels, NEW x \in Points, NEW y \in Points, Step(l, x, y)
  PROVE  Chain(<<l>>, x, y)
<1> DEFINE f == [k \in 1 .. 2 |-> IF k = 1 THEN x ELSE y]
<1>1. f \in [1 .. 2 -> Points] /\ f[1] = x /\ f[2] = y
  OBVIOUS
<1>2. Len(<<l>>) = 1 /\ <<l>>[1] = l
  OBVIOUS
<1> HIDE DEF f
<1>3. \A k \in 1 .. 1 : Step(<<l>>[k], f[k], f[k + 1])
  BY <1>1, <1>2
<1> QED
  BY <1>1, <1>2, <1>3 DEF Chain

\* Two labels.
LEMMA ChainTwo ==
  ASSUME NEW l \in Labels, NEW m \in Labels, NEW x \in Points, NEW y \in Points, NEW z \in Points,
         Step(l, x, y), Step(m, y, z)
  PROVE  Chain(<<l, m>>, x, z)
<1> DEFINE f == [k \in 1 .. 3 |-> IF k = 1 THEN x ELSE IF k = 2 THEN y ELSE z]
<1>1. f \in [1 .. 3 -> Points] /\ f[1] = x /\ f[2] = y /\ f[3] = z
  OBVIOUS
<1>2. Len(<<l, m>>) = 2 /\ <<l, m>>[1] = l /\ <<l, m>>[2] = m
  OBVIOUS
<1> HIDE DEF f
<1>3. \A k \in 1 .. 2 : Step(<<l, m>>[k], f[k], f[k + 1])
  BY <1>1, <1>2
<1> QED
  BY <1>1, <1>2, <1>3 DEF Chain

\* Three labels.
LEMMA ChainThree ==
  ASSUME NEW l \in Labels, NEW m \in Labels, NEW n \in Labels,
         NEW w \in Points, NEW x \in Points, NEW y \in Points, NEW z \in Points,
         Step(l, w, x), Step(m, x, y), Step(n, y, z)
  PROVE  Chain(<<l, m, n>>, w, z)
<1> DEFINE f == [k \in 1 .. 4 |-> IF k = 1 THEN w ELSE IF k = 2 THEN x ELSE IF k = 3 THEN y ELSE z]
<1>1. f \in [1 .. 4 -> Points] /\ f[1] = w /\ f[2] = x /\ f[3] = y /\ f[4] = z
  OBVIOUS
<1>2. Len(<<l, m, n>>) = 3 /\ <<l, m, n>>[1] = l /\ <<l, m, n>>[2] = m /\ <<l, m, n>>[3] = n
  OBVIOUS
<1> HIDE DEF f
<1>3. \A k \in 1 .. 3 : Step(<<l, m, n>>[k], f[k], f[k + 1])
  BY <1>1, <1>2
<1> QED
  BY <1>1, <1>2, <1>3 DEF Chain

\* Programs one after the other.
LEMMA ChainConcat ==
  ASSUME NEW s \in Seq(Labels), NEW r \in Seq(Labels),
         NEW x \in Points, NEW y \in Points, NEW z \in Points,
         Chain(s, x, y), Chain(r, y, z)
  PROVE  Chain(s \o r, x, z)
<1>1. PICK f \in [1 .. Len(s) + 1 -> Points] :
        /\ f[1] = x /\ f[Len(s) + 1] = y
        /\ \A k \in 1 .. Len(s) : Step(s[k], f[k], f[k + 1])
  BY DEF Chain
<1>2. PICK h \in [1 .. Len(r) + 1 -> Points] :
        /\ h[1] = y /\ h[Len(r) + 1] = z
        /\ \A k \in 1 .. Len(r) : Step(r[k], h[k], h[k + 1])
  BY DEF Chain
<1> DEFINE m == Len(s)
           n == Len(r)
           e == [k \in 1 .. m + n + 1 |-> IF k <= m THEN f[k] ELSE h[k - m]]
<1>3. m \in Nat /\ n \in Nat /\ Len(s \o r) = m + n
  OBVIOUS
<1>4. \A k \in 1 .. m + n : (s \o r)[k] = IF k <= m THEN s[k] ELSE r[k - m]
  OBVIOUS
<1> HIDE DEF m, n
<1>5. e \in [1 .. m + n + 1 -> Points] /\ e[1] = x /\ e[m + n + 1] = z
  BY <1>1, <1>2, <1>3 DEF m, n
<1>6. ASSUME NEW k \in 1 .. m + n PROVE Step((s \o r)[k], e[k], e[k + 1])
  <2>1. CASE k <= m
    <3>1. e[k] = f[k] /\ e[k + 1] = f[k + 1]
      BY <1>1, <1>2, <1>3, <2>1 DEF m
    <3> QED
      BY <1>1, <1>4, <2>1, <3>1, <1>3 DEF m
  <2>2. CASE k > m
    <3>1. e[k] = h[k - m] /\ e[k + 1] = h[(k - m) + 1] /\ k - m \in 1 .. n
      BY <1>3, <2>2
    <3> QED
      BY <1>2, <1>4, <2>2, <3>1, <1>3 DEF n
  <2> QED
    BY <1>3, <2>1, <2>2
<1> HIDE DEF e
<1> QED
  BY <1>3, <1>5, <1>6 DEF Chain

\* The first label and the rest.
LEMMA ChainHead ==
  ASSUME NEW s \in Seq(Labels), s # <<>>, NEW x \in Points, NEW z \in Points, Chain(s, x, z)
  PROVE  \E y \in Points : Step(Head(s), x, y) /\ Chain(Tail(s), y, z)
<1>1. PICK f \in [1 .. Len(s) + 1 -> Points] :
        /\ f[1] = x /\ f[Len(s) + 1] = z
        /\ \A k \in 1 .. Len(s) : Step(s[k], f[k], f[k + 1])
  BY DEF Chain
<1> DEFINE n == Len(Tail(s))
           e == [k \in 1 .. n + 1 |-> f[k + 1]]
<1>2. n \in Nat /\ Len(s) = n + 1 /\ Head(s) = s[1] /\ \A k \in 1 .. n : Tail(s)[k] = s[k + 1]
  BY HeadTailProperties
<1> HIDE DEF n
<1>3. e \in [1 .. n + 1 -> Points] /\ e[1] = f[2] /\ e[n + 1] = z /\ f[2] \in Points
  BY <1>1, <1>2
<1>4. ASSUME NEW k \in 1 .. n PROVE Step(Tail(s)[k], e[k], e[k + 1])
  <2>1. e[k] = f[k + 1] /\ e[k + 1] = f[(k + 1) + 1] /\ k + 1 \in 1 .. Len(s)
    BY <1>2
  <2> QED
    BY <1>1, <1>2, <2>1
<1>5. Step(Head(s), x, f[2])
  BY <1>1, <1>2
<1> HIDE DEF e
<1>6. Chain(Tail(s), f[2], z)
  BY <1>3, <1>4 DEF Chain, n
<1> QED
  BY <1>3, <1>5, <1>6

\* Nothing to do: only in user code.
LEMMA InOrderEmpty ==
  ASSUME NEW x \in Points
  PROVE  InOrder(<<>>, x) <=> User(x)
<1>1. ASSUME User(x) PROVE InOrder(<<>>, x)
  <2> DEFINE f == [k \in 1 .. 1 |-> x]
  <2>1. f \in [1 .. Len(<<>>) + 1 -> Points] /\ f[1] = x /\ f[Len(<<>>) + 1] = x
    OBVIOUS
  <2> HIDE DEF f
  <2> QED
    BY <1>1, <2>1 DEF InOrder, Chain
<1> QED
  BY <1>1 DEF InOrder, Chain

\* A program before the rest.
LEMMA InOrderConcat ==
  ASSUME NEW s \in Seq(Labels), NEW r \in Seq(Labels), NEW x \in Points, NEW y \in Points,
         Chain(s, x, y), InOrder(r, y)
  PROVE  InOrder(s \o r, x)
BY ChainConcat DEF InOrder

\* The first label and the rest.
LEMMA InOrderHead ==
  ASSUME NEW s \in Seq(Labels), s # <<>>, NEW x \in Points, InOrder(s, x)
  PROVE  \E y \in Points : Step(Head(s), x, y) /\ InOrder(Tail(s), y)
BY ChainHead DEF InOrder

(***************************************************************************)
(* Programs.                                                               *)
(***************************************************************************)
Raise(x) == [x EXCEPT !.depth = @ + 1]
Locked(x) == [x EXCEPT !.gmtx = TRUE]

\* Points are equal when their fields are.
LEMMA PointsEqual ==
  ASSUME NEW x \in Points, NEW y \in Points,
         x.depth = y.depth, x.gmtx = y.gmtx, x.rpt = y.rpt, x.adding = y.adding,
         x.phase = y.phase
  PROVE  x = y
BY DEF Points

\* Points are closed under what labels do to them.
LEMMA PointsClosed ==
  ASSUME NEW x \in Points
  PROVE  /\ Raise(x) \in Points /\ Locked(x) \in Points /\ Inform(x) \in Points
         /\ \A b \in BOOLEAN : [x EXCEPT !.adding = b] \in Points
         /\ \A f \in Phases : [x EXCEPT !.phase = f] \in Points
<1>1. Raise(x) \in Points
  BY DEF Points, Raise
<1>2. Locked(x) \in Points
  BY DEF Points, Locked
<1>3. \A b \in BOOLEAN : [x EXCEPT !.adding = b] \in Points
  BY DEF Points
<1>4. \A f \in Phases : [x EXCEPT !.phase = f] \in Points
  BY DEF Points
<1>5. Inform(x) \in Points
  BY <1>4 DEF Inform, Phases
<1> QED
  BY <1>1, <1>2, <1>3, <1>4, <1>5

\* The fields of a point one call deeper.
LEMMA RaiseFields ==
  ASSUME NEW x \in Points
  PROVE  /\ x.depth \in Nat /\ Raise(x).depth = x.depth + 1
         /\ Raise(x).gmtx = x.gmtx /\ Raise(x).rpt = x.rpt
         /\ Raise(x).adding = x.adding /\ Raise(x).phase = x.phase
BY DEF Points, Raise

\* The fields of a point with GMTX held.
LEMMA LockedFields ==
  ASSUME NEW x \in Points
  PROVE  /\ Locked(x).depth = x.depth /\ Locked(x).gmtx = TRUE /\ Locked(x).rpt = x.rpt
         /\ Locked(x).adding = x.adding /\ Locked(x).phase = x.phase
BY DEF Points, Locked

\* The fields of a point at which the thread is known.
LEMMA InformFields ==
  ASSUME NEW x \in Points
  PROVE  /\ Inform(x).depth = x.depth /\ Inform(x).gmtx = x.gmtx /\ Inform(x).rpt = x.rpt
         /\ Inform(x).adding = x.adding /\ Inform(x).phase = "known"
BY DEF Points, Inform

\* The order of changes to different fields does not matter.
LEMMA PointsCommute ==
  ASSUME NEW x \in Points
  PROVE  /\ Raise(Inform(x)) = Inform(Raise(x))
         /\ Raise(Locked(x)) = Locked(Raise(x))
         /\ Locked(Inform(x)) = Inform(Locked(x))
         /\ [Raise(x) EXCEPT !.depth = @ - 1] = x
<1>1. Raise(Inform(x)) = Inform(Raise(x))
  BY DEF Points, Raise, Inform
<1>2. Raise(Locked(x)) = Locked(Raise(x))
  BY DEF Points, Raise, Locked
<1>3. Locked(Inform(x)) = Inform(Locked(x))
  BY DEF Points, Inform, Locked
<1>4. [Raise(x) EXCEPT !.depth = @ - 1] = x
  <2> DEFINE y == [Raise(x) EXCEPT !.depth = @ - 1]
  <2>0. Raise(x) \in Points /\ Raise(x).depth = x.depth + 1 /\ x.depth \in Nat
    BY PointsClosed, RaiseFields
  <2>1. y \in Points
    BY <2>0 DEF Points
  <2>3. y.depth = x.depth
    BY <2>0 DEF Points
  <2>2. y.gmtx = x.gmtx /\ y.rpt = x.rpt /\ y.adding = x.adding /\ y.phase = x.phase
    BY DEF Points, Raise
  <2> QED
    BY <2>1, <2>2, <2>3, PointsEqual
<1> QED
  BY <1>1, <1>2, <1>3, <1>4

\* The programs are lists of labels.
LEMMA ProgramTypes ==
  /\ \A l \in Labels : <<l>> \in Seq(Labels) /\ RealCall(l) \in Seq(Labels)
  /\ Glock \in Seq(Labels) /\ Gunlock \in Seq(Labels) /\ Op \in Seq(Labels)
  /\ CreateOp \in Seq(Labels) /\ JoinOp \in Seq(Labels) /\ DoThreadExit \in Seq(Labels)
  /\ TrampolineStart \in Seq(Labels) /\ RegisterSelf \in Seq(Labels)
<1>1. \A l \in Labels : <<l>> \in Seq(Labels) /\ RealCall(l) \in Seq(Labels)
  BY DEF RealCall, Labels
<1>2. \A r, s \in Seq(Labels) : r \o s \in Seq(Labels)
  OBVIOUS
<1>3. {"lock", "unlock", "create", "other", "condwait", "ensure", "body", "addchild", "up",
       "down", "addself"} \subseteq Labels
  BY DEF Labels
<1>4. Glock \in Seq(Labels) /\ Gunlock \in Seq(Labels)
  BY <1>1, <1>3 DEF Glock, Gunlock
<1>5. Op \in Seq(Labels) /\ CreateOp \in Seq(Labels) /\ JoinOp \in Seq(Labels)
  BY <1>1, <1>2, <1>3, <1>4 DEF Op, CreateOp, JoinOp
<1>6. DoThreadExit \in Seq(Labels) /\ RegisterSelf \in Seq(Labels)
  BY <1>1, <1>2, <1>3, <1>4 DEF DoThreadExit, RegisterSelf
<1>7. TrampolineStart \in Seq(Labels)
  BY <1>1, <1>2, <1>3, <1>4 DEF TrampolineStart
<1> QED
  BY <1>1, <1>4, <1>5, <1>6, <1>7

\* with_internal_depth around a call of the real function l.
LEMMA RealCallChain ==
  ASSUME NEW l \in Labels, NEW x \in Points, NEW y \in Points, ~x.rpt,
         Step(l, Raise(x), Raise(y))
  PROVE  Chain(RealCall(l), x, y)
<1> DEFINE f == [k \in 1 .. 6 |-> IF k = 1 THEN x ELSE IF k <= 4 THEN Raise(x)
                                 ELSE IF k = 5 THEN Raise(y) ELSE y]
<1>1. /\ f \in [1 .. 6 -> Points]
      /\ f[1] = x /\ f[2] = Raise(x) /\ f[3] = Raise(x) /\ f[4] = Raise(x)
      /\ f[5] = Raise(y) /\ f[6] = y
  BY PointsClosed
<1>2. /\ Len(RealCall(l)) = 5 /\ RealCall(l)[1] = "up" /\ RealCall(l)[2] = "rpt"
      /\ RealCall(l)[3] = "libc" /\ RealCall(l)[4] = l /\ RealCall(l)[5] = "down"
  BY DEF RealCall
<1> HIDE DEF f
<1>3. Step("up", x, Raise(x))
  BY DEF Step, Raise, KernelEntries
<1>4. Step("rpt", Raise(x), Raise(x)) /\ Step("libc", Raise(x), Raise(x))
  <2>1. Raise(x).depth > 0 /\ ~Raise(x).rpt
    BY RaiseFields
  <2> QED
    BY <2>1 DEF Step
<1>5. Step("down", Raise(y), y)
  <2>1. Raise(y).depth > 0 /\ [Raise(y) EXCEPT !.depth = @ - 1] = y
    BY RaiseFields, PointsCommute
  <2> QED
    BY <2>1 DEF Step
<1>6. \A k \in 1 .. 5 : Step(RealCall(l)[k], f[k], f[k + 1])
  BY <1>1, <1>2, <1>3, <1>4, <1>5
<1> QED
  BY <1>1, <1>2, <1>6 DEF Chain

\* Three programs in a row.
LEMMA Chain3 ==
  ASSUME NEW q \in Seq(Labels), NEW r \in Seq(Labels), NEW s \in Seq(Labels),
         NEW w \in Points, NEW x \in Points, NEW y \in Points, NEW z \in Points,
         Chain(q, w, x), Chain(r, x, y), Chain(s, y, z)
  PROVE  Chain(q \o r \o s, w, z) /\ q \o r \o s \in Seq(Labels)
<1>1. Chain(q \o r, w, y) /\ q \o r \in Seq(Labels)
  BY ChainConcat
<1>2. q \o r \o s \in Seq(Labels)
  BY <1>1
<1> QED
  BY <1>1, <1>2, ChainConcat, Zenon

\* Taking GMTX, and with it the knowledge that a creator has entered its child.
LEMMA GlockChain ==
  ASSUME NEW x \in Points, ~x.gmtx, ~x.rpt
  PROVE  /\ x.phase # "child" => Chain(Glock, x, Locked(x))
         /\ x.phase = "child" => Chain(Glock, x, Inform(Locked(x)))
<1>0. Raise(x) \in Points /\ Raise(x).depth > 0 /\ ~Raise(x).gmtx /\ Raise(x).phase = x.phase
  <2>1. Raise(x) \in Points
    BY PointsClosed
  <2> QED
    BY <2>1, RaiseFields
<1>1. ASSUME x.phase # "child" PROVE Step("lock", Raise(x), Raise(Locked(x)))
  <2>1. [Raise(x) EXCEPT !.gmtx = TRUE, !.phase = IF @ = "child" THEN "known" ELSE @]
          = Locked(Raise(x))
    BY <1>0, <1>1 DEF Locked, Points
  <2> QED
    BY <1>0, <2>1, PointsCommute DEF Step
<1>2. ASSUME x.phase = "child" PROVE Step("lock", Raise(x), Raise(Inform(Locked(x))))
  <2>1. [Raise(x) EXCEPT !.gmtx = TRUE, !.phase = IF @ = "child" THEN "known" ELSE @]
          = Inform(Locked(Raise(x)))
    BY <1>0, <1>2 DEF Locked, Inform, Points
  <2> QED
    BY <1>0, <2>1, PointsClosed, PointsCommute DEF Step
<1>3. "lock" \in Labels
  BY DEF Labels
<1> QED
  BY <1>1, <1>2, <1>3, PointsClosed, RealCallChain DEF Glock

\* Releasing it.
LEMMA GunlockChain ==
  ASSUME NEW x \in Points, ~x.gmtx, ~x.rpt, ~x.adding
  PROVE  Chain(Gunlock, Locked(x), x)
<1>1. Step("unlock", Raise(Locked(x)), Raise(x))
  <2>1. [Raise(Locked(x)) EXCEPT !.gmtx = FALSE] = Raise(x)
    BY DEF Raise, Locked, Points
  <2>2. LET y == Raise(Locked(x)) IN y.depth > 0 /\ y.gmtx /\ ~y.adding
    BY DEF Raise, Locked, Points
  <2> QED
    BY <2>1, <2>2 DEF Step
<1>2. "unlock" \in Labels /\ ~Locked(x).rpt
  BY DEF Labels, Locked, Points
<1> QED
  BY <1>1, <1>2, PointsClosed, RealCallChain DEF Gunlock

\* Work on State, a wait and a signal leave the thread where it is.
LEMMA HeldChain ==
  ASSUME NEW y \in Points, y.gmtx, ~y.rpt, ~y.adding, y.phase = "known"
  PROVE  /\ Chain(<<"body">>, y, y)
         /\ Chain(RealCall("other"), y, y)
         /\ Chain(RealCall("condwait"), y, y)
<1>2. Step("body", y, y)
  BY DEF Step, KernelEntries
<1>3. Raise(y).depth > 0 /\ Raise(y).gmtx /\ ~Raise(y).adding /\ Raise(y).phase = "known"
  BY RaiseFields
<1>4. Step("other", Raise(y), Raise(y)) /\ Step("condwait", Raise(y), Raise(y))
  BY <1>3 DEF Step
<1>5. {"body", "other", "condwait"} \subseteq Labels
  BY DEF Labels
<1> QED
  BY <1>2, <1>4, <1>5, ChainOne, RealCallChain

\* The same for a thread that has just taken GMTX.
LEMMA BodyChain ==
  ASSUME NEW x \in Points, Free(x), x.phase = "known"
  PROVE  /\ Chain(<<"body">>, Locked(x), Locked(x))
         /\ Chain(RealCall("other"), Locked(x), Locked(x))
         /\ Chain(RealCall("condwait"), Locked(x), Locked(x))
<1> DEFINE y == Locked(x)
<1>1. y \in Points /\ y.gmtx /\ ~y.rpt /\ ~y.adding /\ y.phase = "known"
  BY PointsClosed, LockedFields DEF Free
<1> QED
  BY <1>1, HeldChain

\* The frame of an exported function: initialise, lock, work, unlock.
LEMMA OpChain ==
  ASSUME NEW x \in Points, Free(x), Settled(x)
  PROVE  Chain(Op, x, Inform(x))
<1> DEFINE y == Inform(x)
<1>1. y \in Points /\ Locked(y) \in Points /\ Free(y) /\ ~y.gmtx /\ ~y.rpt /\ ~y.adding
  BY PointsClosed, InformFields DEF Free
<1>2. y.phase = "known"
  BY InformFields
<1>3. Chain(<<"ensure">>, x, y)
  <2>1. Step("ensure", x, y)
    BY DEF Step, KernelEntries
  <2> QED
    BY <1>1, <2>1, ChainOne DEF Labels
<1> HIDE DEF y
<1>4. Chain(Glock, y, Locked(y)) /\ Chain(<<"body">>, Locked(y), Locked(y))
  BY <1>1, <1>2, GlockChain, BodyChain
<1>5. Chain(Gunlock, Locked(y), y)
  BY <1>1, GunlockChain
<1>6. <<"ensure">> \in Seq(Labels) /\ <<"body">> \in Seq(Labels) /\ Glock \in Seq(Labels)
  BY ProgramTypes DEF Labels
<1>7. /\ Chain(<<"ensure">> \o Glock \o <<"body">>, x, Locked(y))
      /\ <<"ensure">> \o Glock \o <<"body">> \in Seq(Labels)
  BY <1>1, <1>3, <1>4, <1>6, Chain3, Zenon
<1> QED
  BY <1>1, <1>5, <1>7, ChainConcat, ProgramTypes DEF Op, y

\* pthread_join: the real join comes after GMTX was released.
LEMMA JoinOpChain ==
  ASSUME NEW x \in Points, Free(x), Settled(x)
  PROVE  Chain(JoinOp, x, Inform(x))
<1> DEFINE y == Inform(x)
<1>1. y \in Points /\ ~y.rpt
  BY PointsClosed, InformFields DEF Free
<1>2. Chain(Op, x, y)
  BY OpChain
<1> HIDE DEF y
<1>3. Raise(y).depth > 0
  BY <1>1, RaiseFields
<1>4. Step("other", Raise(y), Raise(y)) /\ "other" \in Labels
  BY <1>3 DEF Step, Labels
<1>5. Chain(RealCall("other"), y, y)
  BY <1>1, <1>4, RealCallChain
<1> QED
  BY <1>1, <1>2, <1>5, ChainConcat, ProgramTypes DEF JoinOp, y

\* pthread_create: the child is entered before GMTX is released.
LEMMA CreateOpChain ==
  ASSUME NEW x \in Points, Free(x), Settled(x)
  PROVE  Chain(CreateOp, x, Inform(x))
<1> DEFINE y == Inform(x)
           v == Locked(y)
           w == [v EXCEPT !.adding = TRUE]
<1>1. y \in Points /\ v \in Points /\ Free(y) /\ ~y.gmtx /\ ~y.rpt /\ ~y.adding
  BY PointsClosed, InformFields DEF Free
<1>2. y.phase = "known"
  BY InformFields
<1>3. Chain(<<"ensure">>, x, y)
  <2>1. Step("ensure", x, y)
    BY DEF Step, KernelEntries
  <2> QED
    BY <1>1, <2>1, ChainOne DEF Labels
<1> HIDE DEF y
<1>4. Chain(Glock, y, v) /\ Chain(<<"body">>, v, v)
  BY <1>1, <1>2, GlockChain, BodyChain
<1>5. Chain(Gunlock, v, y)
  BY <1>1, GunlockChain
<1>6. v.gmtx /\ ~v.rpt /\ v.adding = FALSE /\ v.phase = "known"
  <2>1. y.adding = FALSE
    BY <1>1 DEF Points
  <2> QED
    BY <1>1, <1>2, <2>1, LockedFields
<1> HIDE DEF v
<1>7. w \in Points /\ w.gmtx /\ ~w.rpt /\ w.phase = "known"
  BY <1>1, <1>6 DEF Points
<1>8. [w EXCEPT !.adding = FALSE] = v /\ [Raise(v) EXCEPT !.adding = TRUE] = Raise(w)
  <2>1. [w EXCEPT !.adding = FALSE] = v
    BY <1>1, <1>6 DEF Points
  <2>2. [Raise(v) EXCEPT !.adding = TRUE] = Raise(w)
    BY <1>1, <1>6 DEF Points, Raise
  <2> QED
    BY <2>1, <2>2
<1> HIDE DEF w
<1>9. Chain(RealCall("create"), v, w)
  <2>1. Raise(v).depth > 0 /\ Raise(v).gmtx /\ Raise(v).phase = "known"
    BY <1>1, <1>6, RaiseFields
  <2>2. Step("create", Raise(v), Raise(w))
    BY <1>8, <2>1 DEF Step
  <2>3. "create" \in Labels
    BY DEF Labels
  <2> QED
    BY <1>1, <1>6, <1>7, <2>2, <2>3, RealCallChain
<1>10. Chain(<<"addchild">>, w, v)
  <2>1. Step("addchild", w, v)
    BY <1>7, <1>8 DEF Step, KernelEntries
  <2> QED
    BY <1>1, <1>7, <2>1, ChainOne DEF Labels
<1>11. <<"ensure">> \in Seq(Labels) /\ <<"body">> \in Seq(Labels) /\ <<"addchild">> \in Seq(Labels)
       /\ RealCall("create") \in Seq(Labels) /\ Glock \in Seq(Labels)
  BY ProgramTypes DEF Labels
<1>12. /\ Chain(<<"ensure">> \o Glock \o <<"body">>, x, v)
       /\ <<"ensure">> \o Glock \o <<"body">> \in Seq(Labels)
  BY <1>1, <1>3, <1>4, <1>11, Chain3, Zenon
<1> DEFINE s == <<"ensure">> \o Glock \o <<"body">>
<1> HIDE DEF s
<1>13. Chain(s \o RealCall("create") \o <<"addchild">>, x, v)
       /\ s \o RealCall("create") \o <<"addchild">> \in Seq(Labels)
  BY <1>1, <1>7, <1>9, <1>10, <1>11, <1>12, Chain3, Zenon DEF s
<1> QED
  BY <1>1, <1>5, <1>13, ChainConcat, ProgramTypes DEF CreateOp, y, s

\* Going one call deeper and back.
LEMMA UpDown ==
  ASSUME NEW x \in Points
  PROVE  Chain(<<"up">>, x, Raise(x)) /\ Chain(<<"down">>, Raise(x), x)
<1>1. Raise(x) \in Points /\ Raise(x).depth > 0 /\ [Raise(x) EXCEPT !.depth = @ - 1] = x
  BY PointsClosed, PointsCommute, RaiseFields
<1>2. Step("up", x, Raise(x))
  BY DEF Step, Raise, KernelEntries
<1>3. Step("down", Raise(x), x)
  BY <1>1 DEF Step
<1>4. {"up", "down"} \subseteq Labels
  BY DEF Labels
<1> QED
  BY <1>1, <1>2, <1>3, <1>4, ChainOne

\* do_thread_exit, which may find no need to initialise anything.
LEMMA DoThreadExitChain ==
  ASSUME NEW x \in Points, Free(x), x.phase = "known"
  PROVE  Chain(DoThreadExit, x, x)
<1> DEFINE y == Raise(x)
           v == Locked(y)
<1>1. y \in Points /\ v \in Points /\ Free(y) /\ ~y.gmtx /\ ~y.rpt /\ ~y.adding /\ y.phase = "known"
  BY PointsClosed, RaiseFields DEF Free
<1>2. Chain(<<"up">>, x, y) /\ Chain(<<"down">>, y, x)
  BY UpDown
<1> HIDE DEF y
<1>3. /\ Chain(Glock, y, v) /\ Chain(<<"body">>, v, v) /\ Chain(RealCall("other"), v, v)
      /\ Chain(Gunlock, v, y)
  BY <1>1, GlockChain, BodyChain, GunlockChain
<1> HIDE DEF v
<1>4. /\ <<"up">> \in Seq(Labels) /\ <<"down">> \in Seq(Labels) /\ <<"body">> \in Seq(Labels)
      /\ Glock \in Seq(Labels) /\ Gunlock \in Seq(Labels) /\ RealCall("other") \in Seq(Labels)
  BY ProgramTypes DEF Labels
<1> DEFINE s == <<"up">> \o Glock \o <<"body">>
           r == s \o RealCall("other") \o Gunlock
<1>5. Chain(s, x, v) /\ s \in Seq(Labels)
  BY <1>1, <1>2, <1>3, <1>4, Chain3, Zenon
<1> HIDE DEF s
<1>6. Chain(r, x, y) /\ r \in Seq(Labels)
  BY <1>1, <1>3, <1>4, <1>5, Chain3, Zenon
<1> HIDE DEF r
<1>7. Chain(r \o <<"down">>, x, x)
  BY <1>1, <1>2, <1>4, <1>6, ChainConcat, Zenon
<1> QED
  BY <1>7 DEF DoThreadExit, r, s

\* trampoline up to the call of the thread function: the first lock is granted
\* only when the creator has entered the child in State.
LEMMA TrampolineChain ==
  ASSUME NEW x \in Points, Free(x), x.phase = "child"
  PROVE  Chain(TrampolineStart, x, Inform(x))
<1> DEFINE w == Raise(x)
           y == Inform(w)
           v == Locked(y)
<1>1. w \in Points /\ ~w.gmtx /\ ~w.rpt /\ w.phase = "child" /\ Free(w)
  BY PointsClosed, RaiseFields DEF Free
<1>2. Chain(<<"up">>, x, w) /\ Raise(Inform(x)) = y
  BY UpDown, PointsCommute
<1>3. Chain(<<"down">>, y, Inform(x)) /\ Inform(x) \in Points
  BY <1>2, UpDown, PointsClosed
<1> HIDE DEF w
<1>4. y \in Points /\ v \in Points /\ Free(y) /\ ~y.gmtx /\ ~y.rpt /\ ~y.adding /\ y.phase = "known"
  BY <1>1, PointsClosed, InformFields DEF Free
<1>5. Chain(Glock, w, v)
  BY <1>1, GlockChain, PointsCommute
<1> HIDE DEF y
<1>6. /\ Chain(<<"body">>, v, v) /\ Chain(RealCall("other"), v, v)
      /\ Chain(RealCall("condwait"), v, v) /\ Chain(Gunlock, v, y)
  BY <1>4, BodyChain, GunlockChain
<1> HIDE DEF v
<1>7. /\ <<"up">> \in Seq(Labels) /\ <<"down">> \in Seq(Labels) /\ <<"body">> \in Seq(Labels)
      /\ Glock \in Seq(Labels) /\ Gunlock \in Seq(Labels)
      /\ RealCall("other") \in Seq(Labels) /\ RealCall("condwait") \in Seq(Labels)
  BY ProgramTypes DEF Labels
<1> DEFINE s == <<"up">> \o Glock \o <<"body">>
           r == s \o RealCall("other") \o RealCall("condwait")
           q == r \o <<"body">> \o Gunlock
<1>8. Chain(s, x, v) /\ s \in Seq(Labels)
  BY <1>1, <1>2, <1>4, <1>5, <1>6, <1>7, Chain3, Zenon
<1> HIDE DEF s
<1>9. Chain(r, x, v) /\ r \in Seq(Labels)
  BY <1>4, <1>6, <1>7, <1>8, Chain3, Zenon
<1> HIDE DEF r
<1>10. Chain(q, x, y) /\ q \in Seq(Labels)
  BY <1>4, <1>6, <1>7, <1>9, Chain3, Zenon
<1> HIDE DEF q
<1>11. Chain(q \o <<"down">>, x, Inform(x))
  BY <1>3, <1>4, <1>7, <1>10, ChainConcat, Zenon
<1> QED
  BY <1>11 DEF TrampolineStart, q, r, s

\* rsched_init and rsched_reinit enter the caller in State.
LEMMA RegisterSelfChain ==
  ASSUME NEW x \in Points, Free(x), NEW f \in Phases,
         \/ x.phase = "new" /\ f = "reg"
         \/ x.phase = "renew" /\ f = "known"
  PROVE  Chain(RegisterSelf, x, [x EXCEPT !.phase = f])
<1> DEFINE y == [x EXCEPT !.phase = f]
           v == Locked(x)
           w == Locked(y)
<1>1. y \in Points /\ v \in Points /\ w \in Points
  BY PointsClosed
<1>2. ~y.gmtx /\ ~y.rpt /\ ~y.adding /\ ~x.gmtx /\ ~x.rpt /\ x.phase # "child"
  BY DEF Free, Points
<1>3. w = [v EXCEPT !.phase = f] /\ v.phase = x.phase
  BY DEF Points, Locked
<1>4. Chain(Glock, x, v) /\ Chain(Gunlock, w, y)
  BY <1>1, <1>2, GlockChain, GunlockChain
<1> HIDE DEF v, w
<1>5. Step("addself", v, w)
  BY <1>3 DEF Step, Inform, KernelEntries
<1>6. /\ <<"addself">> \in Seq(Labels) /\ "addself" \in Labels
      /\ Glock \in Seq(Labels) /\ Gunlock \in Seq(Labels)
  BY ProgramTypes DEF Labels
<1>7. Chain(<<"addself">>, v, w)
  BY <1>1, <1>5, <1>6, ChainOne
<1> HIDE DEF y
<1>8. Chain(Glock \o <<"addself">> \o Gunlock, x, y)
  BY <1>1, <1>4, <1>6, <1>7, Chain3, Zenon
<1> QED
  BY <1>8 DEF RegisterSelf, y

(***************************************************************************)
(* The inductive invariant.                                                *)
(***************************************************************************)
Idle(t) == todo[t] \in {Unborn, Dead}

\* What the phase of x says of thread t.
Informed(t, x) ==
    /\ x.phase \in {"known", "reg"} => inited /\ Known(t)
    /\ x.phase = "any" => t = Main /\ (inited => Known(t))
    /\ x.phase \in {"new", "renew", "child"} => inited
    /\ x.phase = "bare" => inited \/ ReinitFirst

\* Every thread's labels are in order from its point.
OrderedOK(g) == \A t \in Threads : InOrder(todo[t], g[t])

\* The points agree with CALL_DEPTH and the two locks.
AgreeOK(g) ==
    \A t \in Threads :
        /\ g[t].depth = depth[t]
        /\ g[t].gmtx <=> gmtx = t
        /\ g[t].rpt <=> realPt = t
        /\ g[t].adding => g[t].gmtx

\* They agree with State and INITED.
InformedOK(g) == \A t \in Threads : Idle(t) \/ Informed(t, g[t])

\* A child is in State, or its creator holds GMTX and is about to see to it.
AdoptedOK(g) ==
    \A t \in Threads : ~Idle(t) /\ g[t].phase = "child" =>
        Known(t) \/ \E u \in Threads : g[u].adding

\* State is built while no other thread exists.
AloneOK(g) ==
    /\ \A t, c \in Threads : ~Idle(t) /\ g[t].phase \in AlonePhases /\ c # t => Idle(c)
    /\ ~inited => \A c \in Threads : c # Main => Idle(c)

\* Unless rsched_reinit comes first, the filter is installed or about to be.
ArmedOK(g) ==
    ~ReinitFirst /\ Seccomp /\ inited /\ ~armed =>
        \E t \in Threads : ~Idle(t) /\ g[t].phase \in {"new", "reg"}

Outline(g) ==
    OrderedOK(g) /\ AgreeOK(g) /\ InformedOK(g) /\ AdoptedOK(g) /\ AloneOK(g) /\ ArmedOK(g)

ShimInv == ShimTypeOK /\ \E g \in [Threads -> Points] : Outline(g)

\* A thread that has ended, or not begun, has left nothing behind.
LEMMA IdlePoint ==
  ASSUME NEW s \in {Unborn, Dead}, NEW x \in Points, InOrder(s, x)
  PROVE  Free(x) /\ x.phase = "known"
<1>0. {"dead", "unborn"} \subseteq Labels
  BY DEF Labels
<1>1. s \in Seq(Labels) /\ s # <<>> /\ Head(s) \in {"dead", "unborn"}
  <2>1. PICK l \in {"dead", "unborn"} : s = <<l>>
    BY DEF Unborn, Dead
  <2> QED
    BY <1>0, <2>1
<1>2. PICK y \in Points : Step(Head(s), x, y)
  BY <1>1, InOrderHead
<1> QED
  BY <1>1, <1>2 DEF Step

\* Thread t may go on with the list s at point z: what has to be shown of it.
MayMove(g, t, s, z) ==
    /\ todo' = [todo EXCEPT ![t] = s] /\ InOrder(s, z)
    /\ depth' = [depth EXCEPT ![t] = z.depth]
    /\ gmtx' \in Threads \cup {None} /\ realPt' \in Threads \cup {None, Ready}
    /\ info' \subseteq Threads /\ {slot', inited', state', armed'} \subseteq BOOLEAN
    /\ (z.gmtx <=> gmtx' = t) /\ (z.rpt <=> realPt' = t) /\ (z.adding => z.gmtx)
    /\ \A c \in Threads : c # t => (gmtx' = c <=> gmtx = c) /\ (realPt' = c <=> realPt = c)
    /\ s \in {Unborn, Dead} \/ Informed(t, z)'
    /\ inited => inited'
    /\ \A c \in Threads : c # t /\ ~Idle(c) /\ Known(c) => Known(c)'
    /\ \A c \in Threads : c # t /\ ~Idle(c) /\ g[t].adding => z.adding \/ Known(c)'
    /\ z.phase = "child" =>
          g[t].phase = "child" /\ (Known(t) => Known(t)') /\ (g[t].adding => z.adding)
    /\ z.phase \in AlonePhases =>
          g[t].phase \in AlonePhases \/ \A c \in Threads : c # t => Idle(c)
    /\ armed => armed'
    /\ inited' /\ ~inited => z.phase \in {"new", "reg"} \/ ReinitFirst
    /\ g[t].phase \in {"new", "reg"} => z.phase \in {"new", "reg"} \/ (Seccomp => armed')

\* A thread moves from its point g[t] to z.
LEMMA OutlineStep ==
  ASSUME ShimTypeOK, NEW g \in [Threads -> Points], Outline(g), NEW t \in Threads, ~Idle(t),
         NEW z \in Points, NEW s \in Seq(Labels), MayMove(g, t, s, z)
  PROVE  ShimInv'
<1> USE DEF MayMove
<1>0. s \in {Unborn, Dead} => z.phase = "known"
  BY IdlePoint
<1>10. ShimTypeOK'
  <2>1. todo' \in [Threads -> Seq(Labels)]
    BY DEF ShimTypeOK
  <2>2. depth' \in [Threads -> Nat]
    BY DEF ShimTypeOK, Points
  <2> QED
    BY <2>1, <2>2 DEF ShimTypeOK
<1> DEFINE h == [g EXCEPT ![t] = z]
<1>1. h \in [Threads -> Points] /\ h[t] = z /\ \A c \in Threads : c # t => h[c] = g[c]
  OBVIOUS
<1>2. /\ todo'[t] = s /\ \A c \in Threads : c # t => todo'[c] = todo[c]
      /\ depth'[t] = z.depth /\ \A c \in Threads : c # t => depth'[c] = depth[c]
  BY DEF ShimTypeOK
<1>3. \A c \in Threads : c # t => (Idle(c)' <=> Idle(c))
  BY <1>2 DEF Idle
<1> HIDE DEF h
<1>4. OrderedOK(h)'
  BY <1>1, <1>2 DEF Outline, OrderedOK
<1>5. AgreeOK(h)'
  BY <1>1, <1>2 DEF Outline, AgreeOK
<1>6. InformedOK(h)'
  <2> SUFFICES ASSUME NEW c \in Threads, ~Idle(c)' PROVE Informed(c, h[c])'
    BY DEF InformedOK
  <2>1. CASE c = t
    BY <1>1, <1>2, <2>1 DEF Idle
  <2>2. CASE c # t
    <3>1. ~Idle(c) /\ Informed(c, g[c]) /\ h[c] = g[c] /\ (Known(c) => Known(c)')
      BY <1>1, <1>3, <2>2 DEF Outline, InformedOK
    <3>2. ~inited => c = Main
      BY <3>1 DEF Outline, AloneOK
    <3>3. inited' => inited \/ ~(g[c].phase = "any") \/ Known(c)'
      <4>1. CASE inited
        BY <4>1
      <4>2. CASE ~inited /\ inited'
        BY <3>2, <4>2, <2>2, <3>1 DEF Outline, AloneOK
      <4> QED
        BY <4>1, <4>2
    <3> QED
      BY <3>1, <3>3 DEF Informed
  <2> QED
    BY <2>1, <2>2
<1>7. AdoptedOK(h)'
  <2> SUFFICES ASSUME NEW c \in Threads, ~Idle(c)', h[c].phase = "child"
               PROVE  Known(c)' \/ \E u \in Threads : h[u].adding
    BY DEF AdoptedOK
  <2>1. ~Idle(c) /\ g[c].phase = "child" /\ (Known(c) => Known(c)')
    BY <1>1, <1>2, <1>3
  <2>2. Known(c) \/ \E u \in Threads : g[u].adding
    BY <2>1 DEF Outline, AdoptedOK
  <2>3. ASSUME NEW u \in Threads, g[u].adding PROVE Known(c)' \/ \E v \in Threads : h[v].adding
    BY <1>1, <2>1, <2>3
  <2> QED
    BY <2>1, <2>2, <2>3
<1>8. AloneOK(h)'
  BY <1>1, <1>2, <1>3 DEF Outline, AloneOK, Idle, AlonePhases
<1>9. ArmedOK(h)'
  <2> SUFFICES ASSUME ~ReinitFirst, Seccomp, inited', ~armed'
               PROVE  \E c \in Threads : ~Idle(c)' /\ h[c].phase \in {"new", "reg"}
    BY DEF ArmedOK
  <2>1. CASE ~inited
    BY <1>0, <1>1, <1>2, <2>1 DEF Idle
  <2>2. CASE inited
    <3>1. PICK c \in Threads : ~Idle(c) /\ g[c].phase \in {"new", "reg"}
      BY <2>2 DEF Outline, ArmedOK
    <3>2. CASE c # t
      BY <1>1, <1>3, <3>1, <3>2
    <3>3. CASE c = t
      BY <1>0, <1>1, <1>2, <3>1, <3>3 DEF Idle
    <3> QED
      BY <3>2, <3>3
  <2> QED
    BY <2>1, <2>2
<1> QED
  BY <1>1, <1>4, <1>5, <1>6, <1>7, <1>8, <1>9, <1>10 DEF Outline, ShimInv

(***************************************************************************)
(* The actions.                                                            *)
(***************************************************************************)
\* The label a thread executes asks for what the outline has.
LEMMA AtLabel ==
  ASSUME ShimTypeOK, NEW g \in [Threads -> Points], Outline(g), NEW t \in Threads, NEW l,
         At(t, l), l \notin {"dead", "unborn"}
  PROVE  /\ ~Idle(t) /\ Informed(t, g[t]) /\ g[t] \in Points
         /\ Tail(todo[t]) \in Seq(Labels)
         /\ \E y \in Points : Step(l, g[t], y) /\ InOrder(Tail(todo[t]), y)
<1>1. todo[t] \in Seq(Labels) /\ todo[t] # <<>> /\ Head(todo[t]) = l
  BY DEF ShimTypeOK, At
<1>2. ~Idle(t)
  BY <1>1 DEF Idle, Unborn, Dead
<1>3. g[t] \in Points /\ InOrder(todo[t], g[t]) /\ Informed(t, g[t])
  BY <1>2 DEF Outline, OrderedOK, InformedOK
<1>4. Tail(todo[t]) \in Seq(Labels)
  BY <1>1
<1> QED
  BY <1>1, <1>2, <1>3, <1>4, InOrderHead

\* A step that changes nothing that other threads see.
LEMMA PlainStep ==
  ASSUME ShimTypeOK, NEW g \in [Threads -> Points], Outline(g), NEW t \in Threads, ~Idle(t),
         NEW z \in Points, NEW s \in Seq(Labels), todo' = [todo EXCEPT ![t] = s], InOrder(s, z),
         depth' = [depth EXCEPT ![t] = z.depth], slot' \in BOOLEAN,
         UNCHANGED <<gmtx, info, realPt, inited, state, armed>>,
         z.gmtx = g[t].gmtx, z.rpt = g[t].rpt, z.adding = g[t].adding,
         z.phase = g[t].phase \/ (z.phase = "known" /\ Settled(g[t]) /\ inited)
  PROVE  ShimInv'
<1>1. Informed(t, g[t])
  BY DEF Outline, InformedOK
<1>2. Informed(t, z)'
  BY <1>1 DEF Informed, Known, Settled
<1>3. z.gmtx <=> gmtx' = t
  BY DEF Outline, AgreeOK
<1>4. z.rpt <=> realPt' = t
  BY DEF Outline, AgreeOK
<1>5. z.adding => z.gmtx
  BY DEF Outline, AgreeOK
<1>6. \A c \in Threads : Known(c) => Known(c)'
  BY DEF Known
<1>7. z.phase = "child" => g[t].phase = "child"
  OBVIOUS
<1>8. z.phase \in AlonePhases => g[t].phase \in AlonePhases
  BY DEF AlonePhases
<1>9. g[t].phase \in {"new", "reg"} => z.phase \in {"new", "reg"}
  BY DEF Settled
<1>10. /\ gmtx' \in Threads \cup {None} /\ realPt' \in Threads \cup {None, Ready}
       /\ info' \subseteq Threads /\ {slot', inited', state', armed'} \subseteq BOOLEAN
  BY DEF ShimTypeOK
<1>11. MayMove(g, t, s, z)
  BY <1>2, <1>3, <1>4, <1>5, <1>6, <1>7, <1>8, <1>9, <1>10 DEF MayMove
<1> QED
  BY <1>11, OutlineStep

\* CALL_DEPTH, the end of a library call, work on State and the RTLD_NEXT slot.
LEMMA LabelKeeps ==
  ASSUME ShimInv, NEW t \in Threads,
         \/ Up(t) \/ Down(t) \/ LibcReturns(t) \/ RealOther(t) \/ Body(t) \/ StoreNext(t)
  PROVE  ShimInv'
<1>1. PICK g \in [Threads -> Points] : Outline(g)
  BY DEF ShimInv
<1>2. PICK l \in {"up", "down", "libc", "other", "body", "store"} : At(t, l) /\
        /\ depth' = IF l = "up" THEN [depth EXCEPT ![t] = @ + 1]
                    ELSE IF l = "down" THEN [depth EXCEPT ![t] = @ - 1] ELSE depth
        /\ Continue(t, <<>>) /\ UNCHANGED <<gmtx, info, realPt, inited, state, armed>>
        /\ slot' \in BOOLEAN
  BY DEF Up, Down, LibcReturns, RealOther, Body, StoreNext, globals, ShimInv, ShimTypeOK
<1> DEFINE s == Tail(todo[t])
           x == g[t]
<1>3. PICK y \in Points : Step(l, x, y) /\ InOrder(s, y)
  BY <1>1, <1>2, AtLabel DEF ShimInv
<1>4. ~Idle(t) /\ x \in Points /\ s \in Seq(Labels)
  BY <1>1, <1>2, AtLabel DEF ShimInv
<1>5. todo' = [todo EXCEPT ![t] = s]
  BY <1>2, <1>4 DEF Continue
<1>6. x.depth = depth[t] /\ depth \in [Threads -> Nat]
  BY <1>1 DEF Outline, AgreeOK, ShimInv, ShimTypeOK
<1> HIDE DEF s, x
<1>7. /\ y.gmtx = x.gmtx /\ y.rpt = x.rpt /\ y.adding = x.adding /\ y.phase = x.phase
      /\ y.depth = IF l = "up" THEN x.depth + 1 ELSE IF l = "down" THEN x.depth - 1 ELSE x.depth
  BY <1>2, <1>3, <1>4 DEF Step, Points
<1>8. depth' = [depth EXCEPT ![t] = y.depth]
  BY <1>2, <1>6, <1>7
<1> QED
  BY <1>1, <1>2, <1>3, <1>4, <1>5, <1>7, <1>8, PlainStep DEF ShimInv, x

\* A call puts a program q before the rest r.
LEMMA CallKeeps ==
  ASSUME ShimTypeOK, NEW g \in [Threads -> Points], Outline(g), NEW t \in Threads, ~Idle(t),
         NEW q \in Seq(Labels), NEW r \in Seq(Labels), NEW y \in Points, NEW z \in Points,
         Chain(q, z, y), InOrder(r, y), todo' = [todo EXCEPT ![t] = q \o r],
         depth' = [depth EXCEPT ![t] = z.depth], UNCHANGED <<gmtx, info, globals>>,
         z.gmtx = g[t].gmtx, z.rpt = g[t].rpt, z.adding = g[t].adding, z.phase = g[t].phase
  PROVE  ShimInv'
<1>1. InOrder(q \o r, z) /\ q \o r \in Seq(Labels)
  BY InOrderConcat
<1>2. slot' \in BOOLEAN /\ UNCHANGED <<gmtx, info, realPt, inited, state, armed>>
  BY DEF globals, ShimTypeOK
<1> QED
  BY <1>1, <1>2, PlainStep

\* An interposer: the scheduler's function if this is the outermost call, and the
\* next implementation otherwise, one call deeper.
LEMMA InterposeKeeps ==
  ASSUME ShimInv, NEW t \in Threads, Interpose(t)
  PROVE  ShimInv'
<1>1. PICK g \in [Threads -> Points] : Outline(g)
  BY DEF ShimInv
<1> DEFINE r == Tail(todo[t])
           x == g[t]
<1>2. At(t, "enter") /\ ShimTypeOK
  BY DEF Interpose, ShimInv
<1>3. ~Idle(t) /\ x \in Points /\ r \in Seq(Labels)
  BY <1>1, <1>2, AtLabel
<1>4. PICK y \in Points : Step("enter", x, y) /\ InOrder(r, y)
  BY <1>1, <1>2, AtLabel
<1>5. x.depth = depth[t] /\ depth \in [Threads -> Nat]
  BY <1>1, <1>2 DEF Outline, AgreeOK, ShimTypeOK
<1> HIDE DEF x
<1>6. (x.depth > 0 /\ y = x) \/ (User(x) /\ y = Inform(x))
  BY <1>4 DEF Step
<1>7. UNCHANGED <<gmtx, info, globals>> /\ depth' = [depth EXCEPT ![t] = Raise(x).depth]
  <2>1. Raise(x).depth = x.depth + 1
    BY <1>3, RaiseFields
  <2> QED
    BY <1>5, <2>1 DEF Interpose
<1>8. /\ Raise(x) \in Points /\ Raise(x).gmtx = x.gmtx /\ Raise(x).rpt = x.rpt
      /\ Raise(x).adding = x.adding /\ Raise(x).phase = x.phase /\ Raise(x).depth > 0
  <2>1. Raise(x) \in Points
    BY <1>3, PointsClosed
  <2> QED
    BY <1>3, <2>1, RaiseFields
<1>9. Chain(<<"down">>, Raise(y), y) /\ Raise(y) \in Points
  BY UpDown, PointsClosed
<1>10. <<"down">> \in Seq(Labels)
  BY DEF Labels
<1>11. \E q \in Seq(Labels) : Chain(q, Raise(x), y) /\ todo' = [todo EXCEPT ![t] = q \o r]
  <2>1. CASE depth[t] = 0
    <3>1. PICK op \in {Op, CreateOp, JoinOp} : Continue(t, op \o <<"down">>)
      BY <2>1 DEF Interpose, Outermost
    <3>2. User(x) /\ y = Inform(x)
      BY <1>5, <1>6, <2>1
    <3>3. Free(Raise(x)) /\ Settled(Raise(x)) /\ Inform(Raise(x)) = Raise(y)
      BY <1>3, <1>8, <3>2, PointsCommute DEF User, Free, Settled
    <3>4. Chain(op, Raise(x), Raise(y)) /\ op \in Seq(Labels)
      BY <1>8, <3>1, <3>3, OpChain, CreateOpChain, JoinOpChain, ProgramTypes
    <3>5. Chain(op \o <<"down">>, Raise(x), y)
      BY <1>8, <1>9, <1>10, <3>4, ChainConcat, Zenon
    <3>6. op \o <<"down">> \in Seq(Labels)
      BY <1>10, <3>4
    <3> QED
      BY <3>1, <3>5, <3>6 DEF Continue
  <2>2. CASE depth[t] # 0
    <3>1. Continue(t, <<"next", "libc", "down">>)
      BY <2>2 DEF Interpose, Outermost
    <3>2. y = x
      BY <1>5, <1>6, <2>2 DEF User
    <3>3. Step("next", Raise(x), Raise(x)) /\ Step("libc", Raise(x), Raise(x))
      BY <1>8 DEF Step
    <3>4. Step("down", Raise(x), x)
      <4>1. [Raise(x) EXCEPT !.depth = @ - 1] = x
        BY <1>3, PointsCommute
      <4> QED
        BY <1>8, <4>1 DEF Step
    <3>5. "next" \in Labels /\ "libc" \in Labels /\ "down" \in Labels
      BY DEF Labels
    <3>6. <<"next", "libc", "down">> \in Seq(Labels)
      BY <3>5
    <3>7. Chain(<<"next", "libc", "down">>, Raise(x), y)
      BY <1>3, <1>8, <3>2, <3>3, <3>4, <3>5, ChainThree, Zenon
    <3> QED
      BY <3>1, <3>6, <3>7 DEF Continue
  <2> QED
    BY <2>1, <2>2
<1> QED
  BY <1>1, <1>2, <1>3, <1>4, <1>7, <1>8, <1>11, CallKeeps DEF x

\* Nothing to do leads nowhere.
LEMMA ChainEmpty ==
  ASSUME NEW x \in Points
  PROVE  Chain(<<>>, x, x) /\ <<>> \in Seq(Labels)
<1> DEFINE f == [k \in 1 .. 1 |-> x]
<1>1. f \in [1 .. Len(<<>>) + 1 -> Points] /\ f[1] = x /\ f[Len(<<>>) + 1] = x
  OBVIOUS
<1> HIDE DEF f
<1> QED
  BY <1>1 DEF Chain

\* The outline at the label a thread is about to execute.
LEMMA LabelPoint ==
  ASSUME ShimInv, NEW t \in Threads, NEW l, At(t, l), l \notin {"dead", "unborn"}
  PROVE  \E g \in [Threads -> Points], y \in Points :
           /\ Outline(g) /\ ~Idle(t) /\ Informed(t, g[t]) /\ g[t] \in Points
           /\ g[t].depth = depth[t] /\ Tail(todo[t]) \in Seq(Labels)
           /\ Step(l, g[t], y) /\ InOrder(Tail(todo[t]), y)
<1>1. PICK g \in [Threads -> Points] : Outline(g)
  BY DEF ShimInv
<1>2. g[t].depth = depth[t]
  BY <1>1 DEF Outline, AgreeOK
<1> QED
  BY <1>1, <1>2, AtLabel DEF ShimInv

\* A label is replaced by a program that does what the label promised.
LEMMA ExpandKeeps ==
  ASSUME ShimInv, NEW g \in [Threads -> Points], Outline(g), NEW t \in Threads, ~Idle(t),
         NEW q \in Seq(Labels), NEW y \in Points, Chain(q, g[t], y), InOrder(Tail(todo[t]), y),
         Tail(todo[t]) \in Seq(Labels), Continue(t, q), UNCHANGED <<depth, gmtx, info, globals>>
  PROVE  ShimInv'
<1>1. g[t] \in Points /\ g[t].depth = depth[t] /\ depth \in [Threads -> Nat] /\ ShimTypeOK
  BY DEF Outline, AgreeOK, ShimInv, ShimTypeOK
<1>2. depth' = [depth EXCEPT ![t] = g[t].depth]
  BY <1>1
<1>3. todo' = [todo EXCEPT ![t] = q \o Tail(todo[t])]
  BY DEF Continue
<1> QED
  BY <1>1, <1>2, <1>3, CallKeeps

\* A program is put before what is left to do and leads back to the same point.
LEMMA InsertKeeps ==
  ASSUME ShimInv, NEW g \in [Threads -> Points], Outline(g), NEW t \in Threads, ~Idle(t),
         NEW q \in Seq(Labels), NEW y \in Points, Chain(q, g[t], y), InOrder(todo[t], y),
         Insert(t, q), UNCHANGED <<depth, gmtx, info, globals>>
  PROVE  ShimInv'
<1>1. g[t] \in Points /\ g[t].depth = depth[t] /\ depth \in [Threads -> Nat] /\ ShimTypeOK
  BY DEF Outline, AgreeOK, ShimInv, ShimTypeOK
<1>2. depth' = [depth EXCEPT ![t] = g[t].depth]
  BY <1>1
<1>3. todo' = [todo EXCEPT ![t] = q \o todo[t]] /\ todo[t] \in Seq(Labels)
  BY <1>1 DEF Insert, ShimTypeOK
<1> QED
  BY <1>1, <1>2, <1>3, CallKeeps

\* The RTLD_NEXT slot: the dynamic linker is asked when it is empty.
LEMMA LoadNextKeeps ==
  ASSUME ShimInv, NEW t \in Threads, LoadNext(t)
  PROVE  ShimInv'
<1>1. At(t, "next") /\ "next" \notin {"dead", "unborn"}
  BY DEF LoadNext
<1>2. PICK g \in [Threads -> Points], y \in Points :
           /\ Outline(g) /\ ~Idle(t) /\ g[t] \in Points /\ Tail(todo[t]) \in Seq(Labels)
           /\ Step("next", g[t], y) /\ InOrder(Tail(todo[t]), y)
  BY <1>1, LabelPoint
<1> DEFINE q == IF slot THEN <<>> ELSE <<"libc", "store">>
<1>3. y = g[t] /\ g[t].depth > 0
  BY <1>2 DEF Step
<1>4. "libc" \in Labels /\ "store" \in Labels
  BY DEF Labels
<1>5. Step("libc", y, y) /\ Step("store", y, y)
  BY <1>3 DEF Step, KernelEntries
<1>6. Chain(<<"libc", "store">>, y, y)
  BY <1>4, <1>5, ChainTwo, Zenon
<1>7. Chain(q, y, y) /\ q \in Seq(Labels)
  BY <1>4, <1>6, ChainEmpty
<1>8. Continue(t, q) /\ UNCHANGED <<depth, gmtx, info, globals>>
  BY DEF LoadNext
<1> HIDE DEF q
<1> QED
  BY <1>2, <1>3, <1>7, <1>8, ExpandKeeps

\* The atomic hook: nothing inside the scheduler, one operation outside it.
LEMMA ScheduleMemopKeeps ==
  ASSUME ShimInv, NEW t \in Threads, ScheduleMemop(t)
  PROVE  ShimInv'
<1>1. At(t, "hook") /\ "hook" \notin {"dead", "unborn"}
  BY DEF ScheduleMemop
<1>2. PICK g \in [Threads -> Points], y \in Points :
           /\ Outline(g) /\ ~Idle(t) /\ g[t] \in Points /\ Tail(todo[t]) \in Seq(Labels)
           /\ g[t].depth = depth[t] /\ Step("hook", g[t], y) /\ InOrder(Tail(todo[t]), y)
  BY <1>1, LabelPoint
<1> DEFINE q == IF depth[t] > 0 THEN <<>> ELSE Op
           x == g[t]
<1>3. (x.depth > 0 /\ y = x) \/ (User(x) /\ y = Inform(x))
  BY <1>2 DEF Step
<1>4. Chain(q, x, y) /\ q \in Seq(Labels)
  <2>1. CASE depth[t] > 0
    <3>1. y = x
      BY <1>2, <1>3, <2>1 DEF User
    <3> QED
      BY <1>2, <2>1, <3>1, ChainEmpty
  <2>2. CASE ~(depth[t] > 0)
    <3>1. User(x) /\ y = Inform(x)
      BY <1>2, <1>3, <2>2
    <3> QED
      BY <1>2, <2>2, <3>1, OpChain, ProgramTypes DEF User
  <2> QED
    BY <2>1, <2>2
<1>5. Continue(t, q) /\ UNCHANGED <<depth, gmtx, info, globals>>
  BY DEF ScheduleMemop
<1> HIDE DEF q
<1> QED
  BY <1>2, <1>4, <1>5, ExpandKeeps

\* Libc calls an interposed function: always from inside, so it is never scheduled.
LEMMA LibcReentersKeeps ==
  ASSUME ShimInv, NEW t \in Threads, LibcReenters(t)
  PROVE  ShimInv'
<1>1. At(t, "libc") /\ "libc" \notin {"dead", "unborn"}
  BY DEF LibcReenters
<1>2. PICK g \in [Threads -> Points], y \in Points :
           /\ Outline(g) /\ ~Idle(t) /\ g[t] \in Points /\ Step("libc", g[t], y)
  BY <1>1, LabelPoint
<1>3. Step("enter", g[t], g[t]) /\ "enter" \in Labels
  BY <1>2 DEF Step, KernelEntries, Labels
<1>4. Chain(<<"enter">>, g[t], g[t]) /\ <<"enter">> \in Seq(Labels)
  BY <1>2, <1>3, ChainOne
<1>5. InOrder(todo[t], g[t])
  BY <1>2 DEF Outline, OrderedOK
<1>6. Insert(t, <<"enter">>) /\ UNCHANGED <<depth, gmtx, info, globals>>
  BY DEF LibcReenters
<1> QED
  BY <1>2, <1>4, <1>5, <1>6, InsertKeeps

\* A wait inside the work on State.
LEMMA BodyCallsKeeps ==
  ASSUME ShimInv, NEW t \in Threads, BodyCalls(t)
  PROVE  ShimInv'
<1>1. At(t, "body") /\ "body" \notin {"dead", "unborn"}
  BY DEF BodyCalls
<1>2. PICK g \in [Threads -> Points], y \in Points :
           /\ Outline(g) /\ ~Idle(t) /\ g[t] \in Points /\ Step("body", g[t], y)
  BY <1>1, LabelPoint
<1>3. g[t].gmtx /\ ~g[t].adding /\ ~g[t].rpt /\ g[t].phase = "known"
  BY <1>2 DEF Step
<1>4. PICK q \in {RealCall("condwait"), RealCall("other")} : Insert(t, q)
  BY DEF BodyCalls
<1>7. Chain(q, g[t], g[t]) /\ q \in Seq(Labels)
  BY <1>2, <1>3, <1>4, HeldChain, ProgramTypes DEF Labels
<1>5. InOrder(todo[t], g[t])
  BY <1>2 DEF Outline, OrderedOK
<1>6. Insert(t, q) /\ UNCHANGED <<depth, gmtx, info, globals>>
  BY <1>4 DEF BodyCalls
<1> QED
  BY <1>2, <1>5, <1>6, <1>7, InsertKeeps

\* ensure_init: a thread that finds INITED set is known.
LEMMA EnsureInitKeeps ==
  ASSUME ShimInv, NEW t \in Threads, EnsureInit(t)
  PROVE  ShimInv'
<1>1. At(t, "ensure") /\ "ensure" \notin {"dead", "unborn"}
  BY DEF EnsureInit
<1>2. PICK g \in [Threads -> Points], y \in Points :
           /\ Outline(g) /\ ~Idle(t) /\ g[t] \in Points /\ Tail(todo[t]) \in Seq(Labels)
           /\ g[t].depth = depth[t] /\ Step("ensure", g[t], y) /\ InOrder(Tail(todo[t]), y)
  BY <1>1, LabelPoint
<1>3. Free(g[t]) /\ Settled(g[t]) /\ y = Inform(g[t])
  BY <1>2 DEF Step
<1>4. UNCHANGED <<depth, gmtx, info, globals>>
  BY DEF EnsureInit
<1>5. CASE inited
  <2>1. todo' = [todo EXCEPT ![t] = Tail(todo[t])]
    BY <1>2, <1>5 DEF EnsureInit, Continue
  <2>2. /\ y.depth = g[t].depth /\ y.gmtx = g[t].gmtx /\ y.rpt = g[t].rpt
        /\ y.adding = g[t].adding /\ y.phase = "known"
    BY <1>2, <1>3, InformFields
  <2>3. ShimTypeOK /\ depth' = [depth EXCEPT ![t] = y.depth]
    BY <1>2, <1>4, <2>2 DEF ShimInv, ShimTypeOK
  <2>4. slot' \in BOOLEAN /\ UNCHANGED <<gmtx, info, realPt, inited, state, armed>>
    BY <1>4, <2>3 DEF globals, ShimTypeOK
  <2> QED
    BY <1>2, <1>3, <1>5, <2>1, <2>2, <2>3, <2>4, PlainStep
<1>6. CASE ~inited
  <2>1. Continue(t, <<"init">>)
    BY <1>6 DEF EnsureInit
  <2>2. Step("init", g[t], y) /\ "init" \in Labels
    BY <1>3 DEF Step, KernelEntries, Labels
  <2>3. Chain(<<"init">>, g[t], y) /\ <<"init">> \in Seq(Labels)
    BY <1>2, <2>2, ChainOne
  <2> QED
    BY <1>2, <1>4, <2>1, <2>3, ExpandKeeps
<1> QED
  BY <1>5, <1>6


(***************************************************************************)
(* User code.                                                              *)
(***************************************************************************)
\* The outline of a thread in user code: at depth zero, with nothing held.
LEMMA UserPoint ==
  ASSUME ShimInv, NEW t \in Threads, InUser(t)
  PROVE  \E g \in [Threads -> Points] :
           /\ Outline(g) /\ ~Idle(t) /\ Informed(t, g[t]) /\ g[t] \in Points
           /\ g[t].depth = depth[t] /\ User(g[t])
           /\ Inform(g[t]) \in Points /\ User(Inform(g[t])) /\ InOrder(todo[t], Inform(g[t]))
<1>1. PICK g \in [Threads -> Points] : Outline(g)
  BY DEF ShimInv
<1> DEFINE x == g[t]
           y == Inform(x)
<1>2. x \in Points /\ InOrder(todo[t], x) /\ x.depth = depth[t]
  BY <1>1 DEF Outline, OrderedOK, AgreeOK
<1>3. ~Idle(t)
  <2>1. \A l \in {"unborn", "dead"} : <<l>> # <<>> /\ <<l>>[1] = l
    OBVIOUS
  <2>2. <<"destructors">>[1] = "destructors"
    OBVIOUS
  <2>3. Idle(t) => todo[t] # <<>> /\ todo[t][1] \in {"unborn", "dead"}
    BY <2>1 DEF Idle, Unborn, Dead
  <2> QED
    BY <2>2, <2>3 DEF InUser
<1>4. Informed(t, x)
  BY <1>1, <1>3 DEF Outline, InformedOK
<1>5. "destructors" \in Labels
  BY DEF Labels
<1>6. User(x)
  <2>1. CASE todo[t] = <<>>
    BY <1>2, <2>1, InOrderEmpty
  <2>2. CASE todo[t] = <<"destructors">>
    <3>1. todo[t] \in Seq(Labels) /\ todo[t] # <<>> /\ Head(todo[t]) = "destructors"
      BY <1>5, <2>2
    <3>2. PICK z \in Points : Step("destructors", x, z)
      BY <1>2, <3>1, InOrderHead
    <3> QED
      BY <3>2 DEF Step
  <2> QED
    BY <2>1, <2>2 DEF InUser
<1> HIDE DEF x
<1>7. y \in Points /\ User(y)
  BY <1>2, <1>6, PointsClosed, InformFields DEF User, Free, Settled
<1> HIDE DEF y
<1>8. InOrder(<<>>, y)
  BY <1>7, InOrderEmpty
<1>9. InOrder(todo[t], y)
  <2>1. CASE todo[t] = <<>>
    BY <1>8, <2>1
  <2>2. CASE todo[t] = <<"destructors">>
    <3>1. Step("destructors", y, y)
      BY <1>7 DEF Step, KernelEntries
    <3>2. Chain(<<"destructors">>, y, y)
      BY <1>5, <1>7, <3>1, ChainOne
    <3> QED
      BY <1>7, <2>2, <3>2 DEF InOrder
  <2> QED
    BY <2>1, <2>2 DEF InUser
<1> QED
  BY <1>1, <1>2, <1>3, <1>4, <1>6, <1>7, <1>9 DEF x, y

\* A call from user code leaves a thread that State knows.
LEMMA UserCallKeeps ==
  ASSUME ShimInv, NEW t \in Threads, UserCall(t)
  PROVE  ShimInv'
<1>1. InUser(t) /\ UNCHANGED <<depth, gmtx, info, globals>>
  BY DEF UserCall
<1>2. PICK g \in [Threads -> Points] :
           /\ Outline(g) /\ ~Idle(t) /\ g[t] \in Points /\ User(g[t])
           /\ Inform(g[t]) \in Points /\ InOrder(todo[t], Inform(g[t]))
  BY <1>1, UserPoint
<1>3. PICK c \in Calls : Insert(t, c)
  BY DEF UserCall
<1> DEFINE x == g[t]
           y == Inform(x)
<1>4. Free(x) /\ Settled(x)
  BY <1>2 DEF User
<1>5. {"enter", "hook", "init"} \subseteq Labels
  BY DEF Labels
<1>6. \A l \in {"enter", "hook", "init"} : Step(l, x, y)
  BY <1>2, <1>4 DEF Step, KernelEntries
<1>7. \A l \in {"enter", "hook", "init"} : Chain(<<l>>, x, y) /\ <<l>> \in Seq(Labels)
  BY <1>2, <1>5, <1>6, ChainOne
<1>8. \A c0 \in {Op, CreateOp, JoinOp} : Chain(c0, x, y) /\ c0 \in Seq(Labels)
  BY <1>2, <1>4, OpChain, CreateOpChain, JoinOpChain, ProgramTypes
<1> HIDE DEF x, y
<1>9. Chain(c, x, y) /\ c \in Seq(Labels)
  BY <1>3, <1>7, <1>8 DEF Calls
<1> QED
  BY <1>1, <1>2, <1>3, <1>9, InsertKeeps DEF x, y

\* The thread function returns.
LEMMA UserReturnsKeeps ==
  ASSUME ShimInv, NEW t \in Threads, UserReturns(t)
  PROVE  ShimInv'
<1>1. InUser(t) /\ todo[t] = <<>> /\ t # Main /\ UNCHANGED <<depth, gmtx, info, globals>>
  BY DEF UserReturns, InUser
<1>2. PICK g \in [Threads -> Points] :
           /\ Outline(g) /\ ~Idle(t) /\ g[t] \in Points /\ User(g[t]) /\ Informed(t, g[t])
  BY <1>1, UserPoint
<1> DEFINE x == g[t]
           q == DoThreadExit \o <<"destructors">>
<1>3. Free(x) /\ x.phase = "known"
  BY <1>1, <1>2 DEF User, Settled, Informed
<1>4. Chain(DoThreadExit, x, x) /\ DoThreadExit \in Seq(Labels)
  BY <1>2, <1>3, DoThreadExitChain, ProgramTypes
<1>5. Step("destructors", x, x) /\ "destructors" \in Labels
  BY <1>2 DEF Step, KernelEntries, Labels
<1>6. Chain(<<"destructors">>, x, x) /\ <<"destructors">> \in Seq(Labels)
  BY <1>2, <1>5, ChainOne
<1>7. Chain(q, x, x)
  BY <1>2, <1>4, <1>6, ChainConcat, Zenon
<1>8. q \in Seq(Labels)
  BY <1>4, <1>6
<1>9. InOrder(todo[t], x)
  BY <1>2 DEF Outline, OrderedOK
<1>10. Insert(t, q)
  BY DEF UserReturns
<1> HIDE DEF q
<1> QED
  BY <1>1, <1>2, <1>7, <1>8, <1>9, <1>10, InsertKeeps

\* pthread_exit: at whatever depth, nothing is held when the thread is gone.
LEMMA PthreadExitKeeps ==
  ASSUME ShimInv, NEW t \in Threads, PthreadExit(t)
  PROVE  ShimInv'
<1>1. InUser(t) /\ todo[t] = <<>> /\ UNCHANGED <<depth, gmtx, info, globals>>
  BY DEF PthreadExit, InUser
<1>2. PICK g \in [Threads -> Points] :
           /\ Outline(g) /\ ~Idle(t) /\ g[t] \in Points /\ User(g[t])
  BY <1>1, UserPoint
<1>3. PICK s \in {<<"up">>, <<>>} : Insert(t, s \o <<"ensure">> \o DoThreadExit \o <<"dead">>)
  BY DEF PthreadExit
<1> DEFINE x == g[t]
<1>4. PICK w \in Points : Chain(s, x, w) /\ s \in Seq(Labels) /\ Free(w) /\ Settled(w)
  <2>1. Raise(x) \in Points /\ Chain(<<"up">>, x, Raise(x)) /\ <<"up">> \in Seq(Labels)
    BY <1>2, PointsClosed, UpDown, ProgramTypes DEF Labels
  <2>2. Free(Raise(x)) /\ Settled(Raise(x)) /\ Free(x) /\ Settled(x)
    BY <1>2, RaiseFields DEF User, Free, Settled
  <2>3. Chain(<<>>, x, x) /\ <<>> \in Seq(Labels)
    BY <1>2, ChainEmpty
  <2> QED
    BY <1>2, <1>3, <2>1, <2>2, <2>3
<1> DEFINE y == Inform(w)
<1>5. y \in Points /\ Free(y) /\ y.phase = "known"
  BY <1>4, PointsClosed, InformFields DEF Free
<1>6. Step("ensure", w, y) /\ Step("dead", y, x) /\ "ensure" \in Labels /\ "dead" \in Labels
  BY <1>2, <1>4, <1>5 DEF Step, KernelEntries, Labels
<1> HIDE DEF x, y
<1>7. Chain(<<"ensure">>, w, y) /\ <<"ensure">> \in Seq(Labels)
  BY <1>4, <1>5, <1>6, ChainOne
<1>8. Chain(<<"dead">>, y, x) /\ <<"dead">> \in Seq(Labels) /\ x \in Points
  BY <1>2, <1>5, <1>6, ChainOne DEF x
<1>9. Chain(DoThreadExit, y, y) /\ DoThreadExit \in Seq(Labels)
  BY <1>5, DoThreadExitChain, ProgramTypes
<1> DEFINE r == s \o <<"ensure">> \o DoThreadExit
<1>10. Chain(r, x, y) /\ r \in Seq(Labels)
  BY <1>4, <1>5, <1>7, <1>8, <1>9, Chain3, Zenon
<1>11. Insert(t, r \o <<"dead">>)
  BY <1>3
<1> HIDE DEF r
<1>12. Chain(r \o <<"dead">>, x, x)
  BY <1>5, <1>8, <1>10, ChainConcat, Zenon
<1>13. r \o <<"dead">> \in Seq(Labels)
  BY <1>8, <1>10
<1>14. InOrder(todo[t], x)
  BY <1>2 DEF Outline, OrderedOK, x
<1> QED
  BY <1>1, <1>2, <1>8, <1>11, <1>12, <1>13, <1>14, InsertKeeps DEF x

\* A thread ends after its destructors.
LEMMA ThreadEndsKeeps ==
  ASSUME ShimInv, NEW t \in Threads, ThreadEnds(t)
  PROVE  ShimInv'
<1>1. /\ InUser(t) /\ UNCHANGED <<depth, gmtx, info, globals>>
      /\ todo' = [todo EXCEPT ![t] = Dead]
  BY DEF ThreadEnds, InUser
<1>2. PICK g \in [Threads -> Points] :
           /\ Outline(g) /\ ~Idle(t) /\ g[t] \in Points /\ User(g[t])
           /\ g[t].depth = depth[t] /\ Inform(g[t]) \in Points /\ User(Inform(g[t]))
  BY <1>1, UserPoint
<1> DEFINE x == g[t]
           z == Inform(x)
<1>3. z.depth = x.depth /\ z.gmtx = x.gmtx /\ z.rpt = x.rpt /\ ~z.adding /\ ~x.adding
      /\ z.phase = "known" /\ Settled(x) /\ Free(z)
  BY <1>2, InformFields DEF User, Free
<1>4. Step("dead", z, z) /\ "dead" \in Labels
  BY <1>2, <1>3 DEF Step, KernelEntries, Labels
<1>5. InOrder(Dead, z) /\ Dead \in Seq(Labels)
  BY <1>2, <1>4, ChainOne DEF InOrder, Dead
<1>6. depth' = [depth EXCEPT ![t] = z.depth] /\ ShimTypeOK
  BY <1>1, <1>2, <1>3 DEF ShimInv, ShimTypeOK
<1>7. (z.gmtx <=> gmtx' = t) /\ (z.rpt <=> realPt' = t)
  BY <1>1, <1>2, <1>3 DEF Outline, AgreeOK, globals
<1>8. /\ gmtx' \in Threads \cup {None} /\ realPt' \in Threads \cup {None, Ready}
      /\ info' \subseteq Threads /\ {slot', inited', state', armed'} \subseteq BOOLEAN
  BY <1>1, <1>6 DEF ShimTypeOK, globals
<1>9. \A c \in Threads : Known(c) => Known(c)'
  BY <1>1 DEF Known, globals
<1>10. z.phase \notin AlonePhases /\ x.phase \notin {"new", "reg"}
  BY <1>3 DEF AlonePhases, Settled
<1>13. z \in Points
  BY <1>2
<1> HIDE DEF z
<1>11. gmtx' = gmtx /\ realPt' = realPt /\ inited' = inited /\ armed' = armed
  BY <1>1 DEF globals
<1>12. MayMove(g, t, Dead, z)
  BY <1>1, <1>2, <1>3, <1>5, <1>6, <1>7, <1>8, <1>9, <1>10, <1>11 DEF MayMove
<1> QED
  BY <1>1, <1>2, <1>5, <1>6, <1>13, <1>12, OutlineStep


(***************************************************************************)
(* The two locks.                                                          *)
(***************************************************************************)
\* A step of a thread that takes or releases GMTX or REAL_PT.
LEMMA LockStep ==
  ASSUME ShimInv, NEW g \in [Threads -> Points], Outline(g), NEW t \in Threads, ~Idle(t),
         NEW z \in Points, NEW s \in Seq(Labels), todo' = [todo EXCEPT ![t] = s], InOrder(s, z),
         UNCHANGED <<depth, info, slot, inited, state, armed>>,
         gmtx' \in Threads \cup {None}, realPt' \in Threads \cup {None, Ready},
         z.depth = g[t].depth, z.adding = g[t].adding, z.adding => z.gmtx,
         z.gmtx <=> gmtx' = t, z.rpt <=> realPt' = t,
         \A c \in Threads : c # t => (gmtx' = c <=> gmtx = c) /\ (realPt' = c <=> realPt = c),
         z.phase = g[t].phase \/ (z.phase = "known" /\ g[t].phase = "child" /\ Known(t))
  PROVE  ShimInv'
<1>1. Informed(t, g[t])
  BY DEF Outline, InformedOK
<1>2. Informed(t, z)'
  BY <1>1 DEF Informed, Known
<1>3. depth' = [depth EXCEPT ![t] = z.depth] /\ ShimTypeOK
  BY DEF Outline, AgreeOK, ShimInv, ShimTypeOK
<1>4. info' \subseteq Threads /\ {slot', inited', state', armed'} \subseteq BOOLEAN
  BY <1>3 DEF ShimTypeOK
<1>5. \A c \in Threads : Known(c) => Known(c)'
  BY DEF Known
<1>6. z.phase = "child" => g[t].phase = "child"
  OBVIOUS
<1>7. z.phase \in AlonePhases => g[t].phase \in AlonePhases
  BY DEF AlonePhases
<1>8. g[t].phase \in {"new", "reg"} => z.phase \in {"new", "reg"}
  OBVIOUS
<1>9. MayMove(g, t, s, z)
  BY <1>2, <1>3, <1>4, <1>5, <1>6, <1>7, <1>8 DEF MayMove
<1> QED
  BY <1>3, <1>9, OutlineStep

\* rpt: REAL_PT is there, or this thread sets out to initialise it.
LEMMA RptKeeps ==
  ASSUME ShimInv, NEW t \in Threads, Rpt(t)
  PROVE  ShimInv'
<1>1. At(t, "rpt") /\ "rpt" \notin {"dead", "unborn"}
  BY DEF Rpt
<1>2. PICK g \in [Threads -> Points], y \in Points :
           /\ Outline(g) /\ ~Idle(t) /\ g[t] \in Points /\ Tail(todo[t]) \in Seq(Labels)
           /\ Step("rpt", g[t], y) /\ InOrder(Tail(todo[t]), y)
  BY <1>1, LabelPoint
<1> DEFINE x == g[t]
           z == [x EXCEPT !.rpt = TRUE]
<1>3. y = x /\ ~x.rpt /\ x.depth > 0
  BY <1>2 DEF Step, KernelEntries
<1>4. CASE realPt = Ready /\ Continue(t, <<>>) /\ UNCHANGED realPt
  <2>1. UNCHANGED <<depth, gmtx, info, globals>>
    BY <1>4 DEF Rpt, globals
  <2>2. Chain(<<>>, x, x) /\ <<>> \in Seq(Labels)
    BY <1>2, ChainEmpty
  <2> QED
    BY <1>2, <1>3, <1>4, <2>1, <2>2, ExpandKeeps
<1>5. CASE realPt = None /\ Continue(t, <<"libc", "rptset">>) /\ realPt' = t
  <2>1. z \in Points /\ z.depth = x.depth /\ z.gmtx = x.gmtx /\ z.rpt = TRUE
        /\ z.adding = x.adding /\ z.phase = x.phase
    BY <1>2 DEF Points
  <2>2. [z EXCEPT !.rpt = FALSE] = x
    BY <1>2, <1>3 DEF Points
  <2> HIDE DEF z
  <2>3. Step("libc", z, z) /\ Step("rptset", z, x)
    BY <1>3, <2>1, <2>2 DEF Step
  <2>4. "libc" \in Labels /\ "rptset" \in Labels
    BY DEF Labels
  <2> DEFINE q == <<"libc", "rptset">>
             r == Tail(todo[t])
  <2>5. Chain(q, z, x)
    BY <1>2, <2>1, <2>3, <2>4, ChainTwo, Zenon
  <2>6. q \in Seq(Labels)
    BY <2>4
  <2>7. todo' = [todo EXCEPT ![t] = q \o r]
    BY <1>5 DEF Continue
  <2> HIDE DEF q, r
  <2>8. InOrder(q \o r, z) /\ q \o r \in Seq(Labels)
    <3>1. InOrder(r, x) /\ r \in Seq(Labels) /\ x \in Points
      BY <1>2, <1>3 DEF r
    <3>2. InOrder(q \o r, z)
      BY <2>1, <2>5, <2>6, <3>1, InOrderConcat, Zenon
    <3> QED
      BY <2>6, <3>1, <3>2
  <2>9. /\ UNCHANGED <<depth, info, slot, inited, state, armed>>
        /\ gmtx' = gmtx /\ gmtx \in Threads \cup {None}
    BY DEF Rpt, ShimInv, ShimTypeOK
  <2>10. (z.gmtx <=> gmtx' = t) /\ (z.adding => z.gmtx)
    BY <1>2, <2>1, <2>9 DEF Outline, AgreeOK
  <2>11. \A c \in Threads : c # t => (gmtx' = c <=> gmtx = c) /\ (realPt' = c <=> realPt = c)
    BY <1>5, <2>9, ShimAssumption
  <2> QED
    BY <1>2, <1>5, <2>1, <2>7, <2>8, <2>9, <2>10, <2>11, LockStep DEF x
<1> QED
  BY <1>4, <1>5 DEF Rpt

\* REAL_PT is set by the thread that set out to.
LEMMA RptSetKeeps ==
  ASSUME ShimInv, NEW t \in Threads, RptSet(t)
  PROVE  ShimInv'
<1>1. At(t, "rptset") /\ "rptset" \notin {"dead", "unborn"}
  BY DEF RptSet
<1>2. PICK g \in [Threads -> Points], y \in Points :
           /\ Outline(g) /\ ~Idle(t) /\ g[t] \in Points /\ Tail(todo[t]) \in Seq(Labels)
           /\ Step("rptset", g[t], y) /\ InOrder(Tail(todo[t]), y)
  BY <1>1, LabelPoint
<1>3. g[t].rpt /\ y = [g[t] EXCEPT !.rpt = FALSE]
  BY <1>2 DEF Step
<1>4. /\ y.depth = g[t].depth /\ y.gmtx = g[t].gmtx /\ ~y.rpt
      /\ y.adding = g[t].adding /\ y.phase = g[t].phase
  BY <1>2, <1>3 DEF Points
<1>5. todo' = [todo EXCEPT ![t] = Tail(todo[t])]
  BY <1>2 DEF RptSet, Continue
<1>6. /\ UNCHANGED <<depth, info, slot, inited, state, armed>> /\ realPt' = Ready
      /\ gmtx' = gmtx /\ gmtx \in Threads \cup {None}
  BY DEF RptSet, ShimInv, ShimTypeOK
<1>7. (y.gmtx <=> gmtx' = t) /\ (y.adding => y.gmtx) /\ realPt = t
  BY <1>2, <1>3, <1>4, <1>6 DEF Outline, AgreeOK
<1>8. Ready \notin Threads
  BY ShimAssumption
<1> QED
  BY <1>2, <1>4, <1>5, <1>6, <1>7, <1>8, LockStep

\* GMTX is granted.  A child that gets it finds itself in State: its creator held
\* GMTX from the call of the real pthread_create until it had entered the child.
LEMMA RealLockKeeps ==
  ASSUME ShimInv, NEW t \in Threads, RealLock(t)
  PROVE  ShimInv'
<1>1. At(t, "lock") /\ "lock" \notin {"dead", "unborn"}
  BY DEF RealLock
<1>2. PICK g \in [Threads -> Points], y \in Points :
           /\ Outline(g) /\ ~Idle(t) /\ g[t] \in Points /\ Tail(todo[t]) \in Seq(Labels)
           /\ Step("lock", g[t], y) /\ InOrder(Tail(todo[t]), y)
  BY <1>1, LabelPoint
<1>3. y = [g[t] EXCEPT !.gmtx = TRUE, !.phase = IF @ = "child" THEN "known" ELSE @]
  BY <1>2 DEF Step
<1>4. /\ y.depth = g[t].depth /\ y.gmtx /\ y.rpt = g[t].rpt /\ y.adding = g[t].adding
      /\ y.phase = IF g[t].phase = "child" THEN "known" ELSE g[t].phase
  BY <1>2, <1>3 DEF Points
<1>5. todo' = [todo EXCEPT ![t] = Tail(todo[t])]
  BY <1>2 DEF RealLock, Continue
<1>6. /\ UNCHANGED <<depth, info, slot, inited, state, armed>> /\ gmtx' = t /\ gmtx = None
      /\ realPt' = realPt /\ realPt \in Threads \cup {None, Ready}
  BY DEF RealLock, ShimInv, ShimTypeOK, globals
<1>7. (y.rpt <=> realPt' = t) /\ None \notin Threads
  BY <1>2, <1>4, <1>6, ShimAssumption DEF Outline, AgreeOK
<1>8. \A u \in Threads : ~g[u].adding
  BY <1>2, <1>6, <1>7 DEF Outline, AgreeOK
<1>9. g[t].phase = "child" => Known(t)
  BY <1>2, <1>8 DEF Outline, AdoptedOK
<1> QED
  BY <1>2, <1>4, <1>5, <1>6, <1>7, <1>9, LockStep

\* GMTX is released by its holder.
LEMMA RealUnlockKeeps ==
  ASSUME ShimInv, NEW t \in Threads, RealUnlock(t)
  PROVE  ShimInv'
<1>1. At(t, "unlock") /\ "unlock" \notin {"dead", "unborn"}
  BY DEF RealUnlock
<1>2. PICK g \in [Threads -> Points], y \in Points :
           /\ Outline(g) /\ ~Idle(t) /\ g[t] \in Points /\ Tail(todo[t]) \in Seq(Labels)
           /\ Step("unlock", g[t], y) /\ InOrder(Tail(todo[t]), y)
  BY <1>1, LabelPoint
<1>3. g[t].gmtx /\ ~g[t].adding /\ y = [g[t] EXCEPT !.gmtx = FALSE]
  BY <1>2 DEF Step
<1>4. /\ y.depth = g[t].depth /\ ~y.gmtx /\ y.rpt = g[t].rpt
      /\ y.adding = g[t].adding /\ ~y.adding /\ y.phase = g[t].phase
  BY <1>2, <1>3 DEF Points
<1>5. todo' = [todo EXCEPT ![t] = Tail(todo[t])]
  BY <1>2 DEF RealUnlock, Continue
<1>6. /\ UNCHANGED <<depth, info, slot, inited, state, armed>> /\ gmtx' = None
      /\ realPt' = realPt /\ realPt \in Threads \cup {None, Ready}
  BY DEF RealUnlock, ShimInv, ShimTypeOK, globals
<1>7. (y.rpt <=> realPt' = t) /\ gmtx = t /\ None \notin Threads
  BY <1>2, <1>3, <1>4, <1>6, ShimAssumption DEF Outline, AgreeOK
<1> QED
  BY <1>2, <1>4, <1>5, <1>6, <1>7, LockStep

\* A wait releases GMTX, and the thread comes back for it.
LEMMA RealCondWaitKeeps ==
  ASSUME ShimInv, NEW t \in Threads, RealCondWait(t)
  PROVE  ShimInv'
<1>1. At(t, "condwait") /\ "condwait" \notin {"dead", "unborn"}
  BY DEF RealCondWait
<1>2. PICK g \in [Threads -> Points], y \in Points :
           /\ Outline(g) /\ ~Idle(t) /\ g[t] \in Points /\ Tail(todo[t]) \in Seq(Labels)
           /\ Step("condwait", g[t], y) /\ InOrder(Tail(todo[t]), y)
  BY <1>1, LabelPoint
<1> DEFINE x == g[t]
           z == [x EXCEPT !.gmtx = FALSE]
           q == <<"lock">>
           r == Tail(todo[t])
<1>3. x.gmtx /\ ~x.adding /\ x.phase = "known" /\ y = x /\ x.depth > 0
  BY <1>2 DEF Step, KernelEntries
<1>4. /\ z \in Points /\ z.depth = x.depth /\ ~z.gmtx /\ z.rpt = x.rpt
      /\ z.adding = x.adding /\ ~z.adding /\ z.phase = x.phase
  BY <1>2, <1>3 DEF Points
<1>5. [z EXCEPT !.gmtx = TRUE, !.phase = IF @ = "child" THEN "known" ELSE @] = x
  BY <1>2, <1>3 DEF Points
<1> HIDE DEF z
<1>6. Step("lock", z, x) /\ "lock" \in Labels
  BY <1>3, <1>4, <1>5 DEF Step, Labels
<1>7. Chain(q, z, x) /\ q \in Seq(Labels)
  BY <1>2, <1>4, <1>6, ChainOne
<1>8. todo' = [todo EXCEPT ![t] = q \o r]
  BY DEF RealCondWait, Continue
<1> HIDE DEF q, r
<1>9. InOrder(q \o r, z) /\ q \o r \in Seq(Labels)
  <2>1. InOrder(r, x) /\ r \in Seq(Labels) /\ x \in Points
    BY <1>2, <1>3 DEF r
  <2>2. InOrder(q \o r, z)
    BY <1>4, <1>7, <2>1, InOrderConcat, Zenon
  <2> QED
    BY <1>7, <2>1, <2>2
<1>10. /\ UNCHANGED <<depth, info, slot, inited, state, armed>> /\ gmtx' = None
       /\ realPt' = realPt /\ realPt \in Threads \cup {None, Ready}
  BY DEF RealCondWait, ShimInv, ShimTypeOK, globals
<1>11. (z.rpt <=> realPt' = t) /\ gmtx = t /\ None \notin Threads
  BY <1>2, <1>3, <1>4, <1>10, ShimAssumption DEF Outline, AgreeOK
<1> QED
  BY <1>2, <1>4, <1>8, <1>9, <1>10, <1>11, LockStep DEF x


(***************************************************************************)
(* State and its initialisation.                                           *)
(***************************************************************************)
\* Thread t changes State, INITED or the filter and goes on with the list s at z.
StateMove(g, t, s, z) ==
    /\ todo' = [todo EXCEPT ![t] = s] /\ InOrder(s, z)
    /\ UNCHANGED <<depth, gmtx, realPt, slot>>
    /\ info' \subseteq Threads /\ {inited', state', armed'} \subseteq BOOLEAN
    /\ z.depth = g[t].depth /\ z.gmtx = g[t].gmtx /\ z.rpt = g[t].rpt /\ (z.adding => g[t].adding)
    /\ Informed(t, z)' /\ (inited => inited') /\ z.phase # "child"
    /\ \A c \in Threads : c # t /\ ~Idle(c) /\ Known(c) => Known(c)'
    /\ \A c \in Threads : c # t /\ ~Idle(c) /\ g[t].adding => z.adding \/ Known(c)'
    /\ z.phase \in AlonePhases =>
          g[t].phase \in AlonePhases \/ \A c \in Threads : c # t => Idle(c)
    /\ armed => armed'
    /\ inited' /\ ~inited => z.phase \in {"new", "reg"} \/ ReinitFirst
    /\ g[t].phase \in {"new", "reg"} => z.phase \in {"new", "reg"} \/ (Seccomp => armed')

\* A step of a thread that changes State, INITED or the filter.
LEMMA StateStep ==
  ASSUME ShimInv, NEW g \in [Threads -> Points], Outline(g), NEW t \in Threads, ~Idle(t),
         NEW z \in Points, NEW s \in Seq(Labels), StateMove(g, t, s, z)
  PROVE  ShimInv'
<1> USE DEF StateMove
<1>1. depth' = [depth EXCEPT ![t] = z.depth] /\ ShimTypeOK
  BY DEF Outline, AgreeOK, ShimInv, ShimTypeOK
<1>2. (z.gmtx <=> gmtx' = t) /\ (z.rpt <=> realPt' = t) /\ (z.adding => z.gmtx)
  BY DEF Outline, AgreeOK
<1>3. /\ gmtx' \in Threads \cup {None} /\ realPt' \in Threads \cup {None, Ready}
      /\ {slot', inited', state', armed'} \subseteq BOOLEAN
  BY <1>1 DEF ShimTypeOK
<1>4. MayMove(g, t, s, z)
  BY <1>1, <1>2, <1>3 DEF MayMove
<1> QED
  BY <1>1, <1>4, OutlineStep

\* The creator enters its child in State.
LEMMA AddChildKeeps ==
  ASSUME ShimInv, NEW t \in Threads, AddChild(t)
  PROVE  ShimInv'
<1>1. At(t, "addchild") /\ "addchild" \notin {"dead", "unborn"}
  BY DEF AddChild
<1>2. PICK g \in [Threads -> Points], y \in Points :
           /\ Outline(g) /\ ~Idle(t) /\ g[t] \in Points /\ Tail(todo[t]) \in Seq(Labels)
           /\ Step("addchild", g[t], y) /\ InOrder(Tail(todo[t]), y) /\ Informed(t, g[t])
  BY <1>1, LabelPoint
<1>3. g[t].phase = "known" /\ y = [g[t] EXCEPT !.adding = FALSE]
  BY <1>2 DEF Step
<1>4. /\ y.depth = g[t].depth /\ y.gmtx = g[t].gmtx /\ y.rpt = g[t].rpt
      /\ ~y.adding /\ y.phase = "known"
  BY <1>2, <1>3 DEF Points
<1>5. todo' = [todo EXCEPT ![t] = Tail(todo[t])]
  BY <1>2 DEF AddChild, Continue
<1>6. /\ UNCHANGED <<depth, gmtx, realPt, slot, inited, state, armed>>
      /\ info' = info \cup {c \in Threads : ~Idle(c)}
  BY DEF AddChild, globals, Idle
<1>7. info' \subseteq Threads /\ {inited', state', armed'} \subseteq BOOLEAN
  BY <1>6 DEF ShimInv, ShimTypeOK
<1>8. inited /\ state
  BY <1>2, <1>3 DEF Informed, Known
<1>9. \A c \in Threads : ~Idle(c) => Known(c)'
  BY <1>6, <1>8 DEF Known
<1>10. Informed(t, y)'
  BY <1>2, <1>4, <1>6, <1>8, <1>9 DEF Informed
<1>11. y.phase \notin AlonePhases
  BY <1>4 DEF AlonePhases
<1>12. StateMove(g, t, Tail(todo[t]), y)
  BY <1>2, <1>3, <1>4, <1>5, <1>6, <1>7, <1>9, <1>10, <1>11 DEF StateMove
<1> QED
  BY <1>2, <1>3, <1>4, <1>5, <1>6, <1>7, <1>9, <1>10, <1>11, <1>12, StateStep

\* rsched_init: the first caller is the main thread, alone, and builds State.
LEMMA RschedInitKeeps ==
  ASSUME ShimInv, NEW t \in Threads, RschedInit(t)
  PROVE  ShimInv'
<1>1. At(t, "init") /\ "init" \notin {"dead", "unborn"}
  BY DEF RschedInit
<1>2. PICK g \in [Threads -> Points], y \in Points :
           /\ Outline(g) /\ ~Idle(t) /\ g[t] \in Points /\ Tail(todo[t]) \in Seq(Labels)
           /\ Step("init", g[t], y) /\ InOrder(Tail(todo[t]), y) /\ Informed(t, g[t])
           /\ g[t].depth = depth[t]
  BY <1>1, LabelPoint
<1> DEFINE x == g[t]
           r == Tail(todo[t])
<1>3. Free(x) /\ Settled(x) /\ y = Inform(x)
  BY <1>2 DEF Step
<1>4. inited' = TRUE /\ UNCHANGED <<depth, gmtx, info, realPt, slot, state, armed>>
  BY DEF RschedInit
<1>5. /\ y.depth = x.depth /\ y.gmtx = x.gmtx /\ y.rpt = x.rpt
      /\ y.adding = x.adding /\ y.phase = "known"
  BY <1>2, <1>3, InformFields
<1>6. CASE inited
  <2>1. todo' = [todo EXCEPT ![t] = r]
    BY <1>2, <1>6 DEF RschedInit, Continue
  <2>2. ShimTypeOK /\ inited' = inited
    BY <1>4, <1>6 DEF ShimInv, ShimTypeOK
  <2>3. depth' = [depth EXCEPT ![t] = y.depth] /\ slot' \in BOOLEAN
    BY <1>2, <1>4, <1>5, <2>2 DEF ShimTypeOK
  <2> QED
    BY <1>2, <1>3, <1>4, <1>5, <1>6, <2>1, <2>2, <2>3, PlainStep
<1>7. CASE ~inited
  <2> DEFINE z == [x EXCEPT !.phase = "new"]
             w == [z EXCEPT !.phase = "reg"]
             q == <<"newstate">> \o RegisterSelf \o <<"arm">>
  <2>1. Continue(t, q)
    BY <1>7 DEF RschedInit
  <2>2. \A c \in Threads : c # t => Idle(c)
    BY <1>2, <1>3, <1>7 DEF Informed, Settled, Outline, AloneOK
  <2>3. /\ z \in Points /\ z.depth = x.depth /\ z.gmtx = x.gmtx /\ z.rpt = x.rpt
        /\ z.adding = x.adding /\ z.phase = "new"
    BY <1>2 DEF Points, Phases
  <2>4. w \in Points /\ w.phase = "reg" /\ Inform(w) = y
    BY <1>2, <1>3 DEF Points, Phases, Inform
  <2>5. Free(z)
    BY <1>3, <2>3 DEF Free
  <2>6. Chain(RegisterSelf, z, w) /\ RegisterSelf \in Seq(Labels)
    BY <2>3, <2>5, RegisterSelfChain, ProgramTypes DEF Phases
  <2> HIDE DEF z, w
  <2>7. Step("newstate", z, z) /\ Step("arm", w, y) /\ "newstate" \in Labels /\ "arm" \in Labels
    BY <2>3, <2>4 DEF Step, KernelEntries, Labels
  <2>8. Chain(<<"newstate">>, z, z) /\ <<"newstate">> \in Seq(Labels)
    BY <2>3, <2>7, ChainOne
  <2>9. Chain(<<"arm">>, w, y) /\ <<"arm">> \in Seq(Labels)
    BY <1>2, <2>4, <2>7, ChainOne
  <2>10. Chain(q, z, y) /\ q \in Seq(Labels)
    BY <1>2, <2>3, <2>4, <2>6, <2>8, <2>9, Chain3, Zenon
  <2>11. todo' = [todo EXCEPT ![t] = q \o r]
    BY <2>1 DEF Continue
  <2> HIDE DEF q
  <2>12. InOrder(q \o r, z)
    BY <1>2, <2>3, <2>10, InOrderConcat, Zenon
  <2>13. q \o r \in Seq(Labels)
    BY <1>2, <2>10
  <2>14. Informed(t, z)'
    BY <1>4, <2>3 DEF Informed
  <2>15. info' \subseteq Threads /\ {inited', state', armed'} \subseteq BOOLEAN
    BY <1>4 DEF ShimInv, ShimTypeOK
  <2>16. x.phase \notin {"new", "reg"}
    BY <1>3 DEF Settled
  <2>17. UNCHANGED <<depth, gmtx, realPt, slot>> /\ inited' /\ armed' = armed
    BY <1>4
  <2>18. z.phase \in {"new", "reg"} /\ z.phase # "child"
    BY <2>3
  <2> DEFINE s == q \o r
  <2>19. todo' = [todo EXCEPT ![t] = s] /\ s \in Seq(Labels) /\ InOrder(s, z)
    BY <2>11, <2>12, <2>13
  <2> HIDE DEF s
  <2>20. StateMove(g, t, s, z)
    BY <1>2, <2>2, <2>3, <2>14, <2>15, <2>16, <2>17, <2>18, <2>19 DEF StateMove, x
  <2> QED
    BY <1>2, <2>2, <2>3, <2>14, <2>15, <2>16, <2>17, <2>18, <2>19, <2>20, StateStep
<1> QED
  BY <1>6, <1>7

\* Building State anew, or taking it away, with no other thread to miss it.
LEMMA RebuildKeeps ==
  ASSUME ShimInv, NEW t \in Threads, NewState(t) \/ DropState(t)
  PROVE  ShimInv'
<1>1. PICK l \in {"newstate", "dropstate"} :
        /\ At(t, l) /\ l \notin {"dead", "unborn"} /\ Continue(t, <<>>)
        /\ UNCHANGED <<depth, gmtx, realPt, slot, inited, armed>>
        /\ info' \subseteq Threads /\ state' \in BOOLEAN
  BY DEF NewState, DropState, ShimInv, ShimTypeOK
<1>2. PICK g \in [Threads -> Points], y \in Points :
           /\ Outline(g) /\ ~Idle(t) /\ g[t] \in Points /\ Tail(todo[t]) \in Seq(Labels)
           /\ Step(l, g[t], y) /\ InOrder(Tail(todo[t]), y) /\ Informed(t, g[t])
  BY <1>1, LabelPoint
<1>3. y = g[t] /\ g[t].phase \in {"bare", "new"}
  BY <1>2 DEF Step
<1>4. \A c \in Threads : c # t => Idle(c)
  BY <1>2, <1>3 DEF Outline, AloneOK, AlonePhases
<1>5. todo' = [todo EXCEPT ![t] = Tail(todo[t])]
  BY <1>1, <1>2 DEF Continue
<1>6. Informed(t, y)'
  BY <1>1, <1>2, <1>3 DEF Informed
<1>7. {inited', state', armed'} \subseteq BOOLEAN
  BY <1>1 DEF ShimInv, ShimTypeOK
<1>8. StateMove(g, t, Tail(todo[t]), y)
  BY <1>1, <1>2, <1>3, <1>4, <1>5, <1>6, <1>7 DEF StateMove
<1> QED
  BY <1>1, <1>2, <1>3, <1>4, <1>5, <1>6, <1>7, <1>8, StateStep

\* The caller enters itself in State.
LEMMA AddSelfKeeps ==
  ASSUME ShimInv, NEW t \in Threads, AddSelf(t)
  PROVE  ShimInv'
<1>1. /\ At(t, "addself") /\ "addself" \notin {"dead", "unborn"} /\ Continue(t, <<>>) /\ state
      /\ info' = info \cup {t} /\ UNCHANGED <<depth, gmtx, realPt, slot, inited, state, armed>>
  BY DEF AddSelf, globals
<1>2. PICK g \in [Threads -> Points], y \in Points :
           /\ Outline(g) /\ ~Idle(t) /\ g[t] \in Points /\ Tail(todo[t]) \in Seq(Labels)
           /\ Step("addself", g[t], y) /\ InOrder(Tail(todo[t]), y) /\ Informed(t, g[t])
  BY <1>1, LabelPoint
<1>3. \/ g[t].phase = "renew" /\ y = [g[t] EXCEPT !.phase = "known"]
      \/ g[t].phase = "new" /\ y = [g[t] EXCEPT !.phase = "reg"]
  BY <1>2 DEF Step, Inform
<1>4. /\ y.depth = g[t].depth /\ y.gmtx = g[t].gmtx /\ y.rpt = g[t].rpt
      /\ y.adding = g[t].adding
      /\ \/ g[t].phase = "renew" /\ y.phase = "known"
         \/ g[t].phase = "new" /\ y.phase = "reg"
  BY <1>2, <1>3 DEF Points
<1>5. todo' = [todo EXCEPT ![t] = Tail(todo[t])]
  BY <1>1, <1>2 DEF Continue
<1>6. info' \subseteq Threads /\ {inited', state', armed'} \subseteq BOOLEAN
  BY <1>1 DEF ShimInv, ShimTypeOK
<1>7. \A c \in Threads : Known(c) \/ c = t => Known(c)'
  BY <1>1 DEF Known
<1>8. Informed(t, y)'
  BY <1>1, <1>2, <1>4, <1>7 DEF Informed
<1>9. /\ y.phase \in AlonePhases => g[t].phase \in AlonePhases
      /\ g[t].phase \in {"new", "reg"} => y.phase \in {"new", "reg"}
      /\ y.phase # "child"
  BY <1>4 DEF AlonePhases
<1>10. UNCHANGED <<depth, gmtx, realPt, slot>> /\ inited' = inited /\ armed' = armed
  BY <1>1
<1>11. StateMove(g, t, Tail(todo[t]), y)
  BY <1>2, <1>4, <1>5, <1>6, <1>7, <1>8, <1>9, <1>10 DEF StateMove
<1> QED
  BY <1>2, <1>4, <1>5, <1>6, <1>7, <1>8, <1>9, <1>10, <1>11, StateStep

\* The filter is installed when it was asked for.
LEMMA ArmKeeps ==
  ASSUME ShimInv, NEW t \in Threads, Arm(t)
  PROVE  ShimInv'
<1>1. /\ At(t, "arm") /\ "arm" \notin {"dead", "unborn"} /\ Continue(t, <<>>)
      /\ armed' = (armed \/ Seccomp)
      /\ UNCHANGED <<depth, gmtx, info, realPt, slot, inited, state>>
  BY DEF Arm
<1>2. PICK g \in [Threads -> Points], y \in Points :
           /\ Outline(g) /\ ~Idle(t) /\ g[t] \in Points /\ Tail(todo[t]) \in Seq(Labels)
           /\ Step("arm", g[t], y) /\ InOrder(Tail(todo[t]), y) /\ Informed(t, g[t])
  BY <1>1, LabelPoint
<1>3. g[t].phase = "reg" /\ y = Inform(g[t])
  BY <1>2 DEF Step
<1>4. /\ y.depth = g[t].depth /\ y.gmtx = g[t].gmtx /\ y.rpt = g[t].rpt
      /\ y.adding = g[t].adding /\ y.phase = "known"
  BY <1>2, <1>3, InformFields
<1>5. todo' = [todo EXCEPT ![t] = Tail(todo[t])]
  BY <1>1, <1>2 DEF Continue
<1>6. info' \subseteq Threads /\ {inited', state', armed'} \subseteq BOOLEAN
  BY <1>1 DEF ShimInv, ShimTypeOK
<1>7. \A c \in Threads : Known(c) => Known(c)'
  BY <1>1 DEF Known
<1>8. Informed(t, y)'
  BY <1>1, <1>2, <1>3, <1>4, <1>7 DEF Informed
<1>9. y.phase \notin AlonePhases
  BY <1>4 DEF AlonePhases
<1>10. StateMove(g, t, Tail(todo[t]), y)
  BY <1>1, <1>2, <1>4, <1>5, <1>6, <1>7, <1>8, <1>9 DEF StateMove
<1> QED
  BY <1>1, <1>2, <1>4, <1>5, <1>6, <1>7, <1>8, <1>9, <1>10, StateStep

\* rsched_reinit sets INITED, whether or not rsched_init ever ran.
LEMMA SetInitedKeeps ==
  ASSUME ShimInv, NEW t \in Threads, SetInited(t)
  PROVE  ShimInv'
<1>1. /\ At(t, "setinited") /\ "setinited" \notin {"dead", "unborn"} /\ Continue(t, <<>>)
      /\ inited' = TRUE /\ UNCHANGED <<depth, gmtx, info, realPt, slot, state, armed>>
  BY DEF SetInited
<1>2. PICK g \in [Threads -> Points], y \in Points :
           /\ Outline(g) /\ ~Idle(t) /\ g[t] \in Points /\ Tail(todo[t]) \in Seq(Labels)
           /\ Step("setinited", g[t], y) /\ InOrder(Tail(todo[t]), y) /\ Informed(t, g[t])
  BY <1>1, LabelPoint
<1>3. g[t].phase = "bare" /\ y = [g[t] EXCEPT !.phase = "renew"]
  BY <1>2 DEF Step
<1>4. /\ y.depth = g[t].depth /\ y.gmtx = g[t].gmtx /\ y.rpt = g[t].rpt
      /\ y.adding = g[t].adding /\ y.phase = "renew"
  BY <1>2, <1>3 DEF Points
<1>5. todo' = [todo EXCEPT ![t] = Tail(todo[t])]
  BY <1>1, <1>2 DEF Continue
<1>6. info' \subseteq Threads /\ {inited', state', armed'} \subseteq BOOLEAN
  BY <1>1 DEF ShimInv, ShimTypeOK
<1>7. \A c \in Threads : Known(c) => Known(c)'
  BY <1>1 DEF Known
<1>8. Informed(t, y)' /\ (inited \/ ReinitFirst)
  BY <1>1, <1>2, <1>3, <1>4 DEF Informed
<1>9. g[t].phase \in AlonePhases /\ g[t].phase \notin {"new", "reg"}
  BY <1>3 DEF AlonePhases
<1>10. UNCHANGED <<depth, gmtx, realPt, slot>> /\ inited' /\ armed' = armed
  BY <1>1
<1>11. StateMove(g, t, Tail(todo[t]), y)
  BY <1>2, <1>4, <1>5, <1>6, <1>7, <1>8, <1>9, <1>10 DEF StateMove
<1> QED
  BY <1>2, <1>4, <1>5, <1>6, <1>7, <1>8, <1>9, <1>10, <1>11, StateStep

\* rsched_reinit is called.
LEMMA RschedReinitKeeps ==
  ASSUME ShimInv, NEW t \in Threads, RschedReinit(t)
  PROVE  ShimInv'
<1> DEFINE p == <<"dropstate", "newstate", "setinited">>
<1>1. /\ InUser(t) /\ todo[t] = <<>> /\ t = Main /\ (inited \/ ReinitFirst)
      /\ UNCHANGED <<depth, gmtx, info, globals>> /\ Insert(t, p \o RegisterSelf)
      /\ \A c \in Threads : c # t => Idle(c)
  BY DEF RschedReinit, InUser, Idle
<1>2. PICK g \in [Threads -> Points] :
           /\ Outline(g) /\ ~Idle(t) /\ g[t] \in Points /\ User(g[t])
           /\ Inform(g[t]) \in Points /\ InOrder(todo[t], Inform(g[t]))
  BY <1>1, UserPoint
<1> DEFINE x == g[t]
           y == Inform(x)
           z == [x EXCEPT !.phase = "bare"]
           w == [x EXCEPT !.phase = "renew"]
           q == p \o RegisterSelf
<1>3. /\ z \in Points /\ z.depth = x.depth /\ z.gmtx = x.gmtx /\ z.rpt = x.rpt
      /\ z.adding = x.adding /\ z.phase = "bare"
  BY <1>2 DEF Points, Phases
<1>4. w \in Points /\ w.phase = "renew" /\ Free(w)
  BY <1>2 DEF Points, Phases, User, Free
<1>5. w = [z EXCEPT !.phase = "renew"] /\ y = [w EXCEPT !.phase = "known"]
  BY <1>2 DEF Points, Inform
<1>6. x.phase \notin {"new", "reg"}
  BY <1>2 DEF User, Settled
<1> HIDE DEF x, y, z, w
<1>7. Chain(RegisterSelf, w, y) /\ RegisterSelf \in Seq(Labels)
  BY <1>4, <1>5, RegisterSelfChain, ProgramTypes DEF Phases
<1>8. Step("dropstate", z, z) /\ Step("newstate", z, z) /\ Step("setinited", z, w)
  BY <1>3, <1>5 DEF Step, KernelEntries
<1>9. "dropstate" \in Labels /\ "newstate" \in Labels /\ "setinited" \in Labels
  BY DEF Labels
<1>10. p \in Seq(Labels)
  BY <1>9
<1>11. Chain(p, z, w)
  BY <1>3, <1>4, <1>8, <1>9, ChainThree, Zenon
<1> HIDE DEF p
<1>12. Chain(q, z, y)
  BY <1>2, <1>3, <1>4, <1>7, <1>10, <1>11, ChainConcat, Zenon DEF y, x
<1>13. q \in Seq(Labels)
  BY <1>7, <1>10
<1>14. todo' = [todo EXCEPT ![t] = q \o todo[t]] /\ todo[t] \in Seq(Labels)
  BY <1>1 DEF Insert, ShimInv, ShimTypeOK
<1> HIDE DEF q
<1>15. y \in Points /\ InOrder(todo[t], y)
  BY <1>2 DEF y, x
<1>16. InOrder(q \o todo[t], z)
  BY <1>3, <1>12, <1>13, <1>14, <1>15, InOrderConcat, Zenon
<1>17. q \o todo[t] \in Seq(Labels)
  BY <1>13, <1>14
<1>18. /\ UNCHANGED <<depth, gmtx, info, realPt, slot, inited, state, armed>>
       /\ info' \subseteq Threads /\ {inited', state', armed'} \subseteq BOOLEAN
  BY <1>1 DEF globals, ShimInv, ShimTypeOK
<1>19. Informed(t, z)'
  BY <1>1, <1>3, <1>18 DEF Informed
<1>20. UNCHANGED <<depth, gmtx, realPt, slot>> /\ inited' = inited /\ armed' = armed
  BY <1>18
<1>21. /\ z.depth = g[t].depth /\ z.gmtx = g[t].gmtx /\ z.rpt = g[t].rpt
       /\ z.adding = g[t].adding /\ z.phase = "bare" /\ g[t].phase \notin {"new", "reg"}
  BY <1>3, <1>6 DEF x
<1> DEFINE s == q \o todo[t]
<1>22. /\ todo' = [todo EXCEPT ![t] = s] /\ s \in Seq(Labels) /\ InOrder(s, z) /\ z \in Points
       /\ \A c \in Threads : c # t => Idle(c)
  BY <1>1, <1>3, <1>14, <1>16, <1>17
<1>23. info' \subseteq Threads /\ {inited', state', armed'} \subseteq BOOLEAN
  BY <1>18
<1> HIDE DEF s
<1>24. StateMove(g, t, s, z)
  BY <1>2, <1>19, <1>20, <1>21, <1>22, <1>23 DEF StateMove
<1> QED
  BY <1>2, <1>19, <1>20, <1>21, <1>22, <1>23, <1>24, StateStep


\* The real pthread_create fails: the creator goes on as if there were a child.
LEMMA CreateFails ==
  ASSUME ShimInv, NEW g \in [Threads -> Points], Outline(g), NEW t \in Threads, ~Idle(t),
         NEW y \in Points, NEW r \in Seq(Labels), InOrder(r, y), todo' = [todo EXCEPT ![t] = r],
         UNCHANGED <<depth, gmtx, info, globals>>, Informed(t, g[t]),
         g[t].gmtx, g[t].phase = "known", y.depth = g[t].depth, y.gmtx = g[t].gmtx,
         y.rpt = g[t].rpt, y.adding, y.phase = "known"
  PROVE  ShimInv'
<1>1. depth' = [depth EXCEPT ![t] = y.depth] /\ ShimTypeOK
  BY DEF Outline, AgreeOK, ShimInv, ShimTypeOK
<1>2. (y.gmtx <=> gmtx' = t) /\ (y.rpt <=> realPt' = t)
  BY DEF Outline, AgreeOK, globals
<1>3. /\ gmtx' = gmtx /\ realPt' = realPt /\ info' = info
      /\ slot' = slot /\ inited' = inited /\ state' = state /\ armed' = armed
  BY DEF globals
<1>4. /\ gmtx' \in Threads \cup {None} /\ realPt' \in Threads \cup {None, Ready}
      /\ info' \subseteq Threads /\ {slot', inited', state', armed'} \subseteq BOOLEAN
  BY <1>1, <1>3 DEF ShimTypeOK
<1>5. \A c \in Threads : Known(c) => Known(c)'
  BY <1>3 DEF Known
<1>6. Informed(t, y)'
  BY <1>3, <1>5 DEF Informed
<1>7. y.phase \notin AlonePhases
  BY DEF AlonePhases
<1>8. MayMove(g, t, r, y)
  BY <1>1, <1>2, <1>3, <1>4, <1>5, <1>6, <1>7 DEF MayMove
<1> QED
  BY <1>1, <1>8, OutlineStep

\* The real pthread_create starts a child, outside the turn: it may run at once, and
\* waits for GMTX until the creator has entered it in State.
LEMMA CreateStarts ==
  ASSUME ShimInv, NEW g \in [Threads -> Points], Outline(g), NEW t \in Threads, ~Idle(t),
         NEW c \in Threads, Idle(c),
         NEW y \in Points, NEW r \in Seq(Labels), InOrder(r, y),
         todo' = [todo EXCEPT ![t] = r, ![c] = TrampolineStart],
         depth' = [depth EXCEPT ![c] = 0],
         UNCHANGED <<gmtx, info, globals>>, Informed(t, g[t]),
         g[t].gmtx, g[t].phase = "known", y.depth = g[t].depth, y.gmtx = g[t].gmtx,
         y.rpt = g[t].rpt, y.adding, y.phase = "known"
  PROVE  ShimInv'
<1> DEFINE n == [depth |-> 0, gmtx |-> FALSE, rpt |-> FALSE, adding |-> FALSE, phase |-> "child"]
           h == [g EXCEPT ![t] = y, ![c] = n]
<1>1. /\ n \in Points /\ n.depth = 0 /\ ~n.gmtx /\ ~n.rpt /\ ~n.adding /\ n.phase = "child"
      /\ Free(n)
  BY DEF Points, Phases, Free
<1>2. t # c /\ g[c] \in Points /\ Free(g[c])
  BY IdlePoint DEF Outline, OrderedOK, Idle
<1> HIDE DEF n
<1>3. h \in [Threads -> Points] /\ h[t] = y /\ h[c] = n
      /\ \A u \in Threads \ {t, c} : h[u] = g[u]
  BY <1>1, <1>2
<1> HIDE DEF h
<1>4. /\ todo'[t] = r /\ todo'[c] = TrampolineStart /\ depth'[c] = 0
      /\ \A u \in Threads \ {t, c} : todo'[u] = todo[u]
      /\ \A u \in Threads \ {c} : depth'[u] = depth[u]
  BY <1>2 DEF ShimInv, ShimTypeOK
<1>5. /\ gmtx' = gmtx /\ realPt' = realPt /\ info' = info
      /\ slot' = slot /\ inited' = inited /\ state' = state /\ armed' = armed
  BY DEF globals
<1>6. InOrder(TrampolineStart, n) /\ TrampolineStart \in Seq(Labels)
  <2>1. Chain(TrampolineStart, n, Inform(n)) /\ TrampolineStart \in Seq(Labels)
    BY <1>1, TrampolineChain, ProgramTypes
  <2>2. Inform(n) \in Points /\ User(Inform(n))
    BY <1>1, PointsClosed, InformFields DEF User, Free, Settled
  <2> QED
    BY <2>1, <2>2 DEF InOrder
<1>7. ShimTypeOK'
  <2>1. todo' \in [Threads -> Seq(Labels)]
    BY <1>6 DEF ShimInv, ShimTypeOK
  <2>2. depth' \in [Threads -> Nat]
    BY DEF ShimInv, ShimTypeOK
  <2> QED
    BY <1>5, <2>1, <2>2 DEF ShimInv, ShimTypeOK
<1>8. OrderedOK(h)'
  BY <1>3, <1>4, <1>6 DEF Outline, OrderedOK
<1>9. AgreeOK(h)'
  <2> SUFFICES ASSUME NEW u \in Threads
               PROVE  /\ h[u].depth = depth'[u] /\ (h[u].gmtx <=> gmtx' = u)
                      /\ (h[u].rpt <=> realPt' = u) /\ (h[u].adding => h[u].gmtx)
    BY DEF AgreeOK
  <2>1. /\ g[u].depth = depth[u] /\ (g[u].gmtx <=> gmtx = u)
        /\ (g[u].rpt <=> realPt = u) /\ (g[u].adding => g[u].gmtx)
    BY DEF Outline, AgreeOK
  <2>2. CASE u = c
    BY <1>1, <1>2, <1>3, <1>4, <1>5, <2>1, <2>2 DEF Free
  <2>3. CASE u = t
    <3>1. h[u] = y /\ depth'[u] = depth[u] /\ g[u] = g[t]
      BY <1>2, <1>3, <1>4, <2>3
    <3>2. y.depth = depth[u] /\ y.gmtx /\ gmtx' = u
      BY <1>5, <2>1, <3>1
    <3>3. y.rpt <=> realPt' = u
      BY <1>5, <2>1, <3>1
    <3> QED
      BY <3>1, <3>2, <3>3
  <2>4. CASE u \notin {t, c}
    BY <1>3, <1>4, <1>5, <2>1, <2>4
  <2> QED
    BY <2>2, <2>3, <2>4
<1>10. inited /\ Known(t) /\ (\A u \in Threads : Known(u)' <=> Known(u))
  BY <1>5 DEF Informed, Known
<1>11. \A u \in Threads \ {t, c} : Idle(u)' <=> Idle(u)
  BY <1>4 DEF Idle
<1>12. InformedOK(h)'
  <2> SUFFICES ASSUME NEW u \in Threads, ~Idle(u)' PROVE Informed(u, h[u])'
    BY DEF InformedOK
  <2>1. CASE u = c
    BY <1>1, <1>3, <1>5, <1>10, <2>1 DEF Informed
  <2>2. CASE u = t
    BY <1>3, <1>5, <1>10, <2>2 DEF Informed
  <2>3. CASE u \notin {t, c}
    <3>1. Informed(u, g[u]) /\ h[u] = g[u]
      BY <1>3, <1>11, <2>3 DEF Outline, InformedOK
    <3> QED
      BY <1>5, <1>10, <3>1 DEF Informed
  <2> QED
    BY <2>1, <2>2, <2>3
<1>13. AdoptedOK(h)'
  BY <1>3 DEF AdoptedOK
<1>14. \A u \in Threads : ~Idle(u) => g[u].phase \notin AlonePhases
  BY DEF Outline, AloneOK, AlonePhases
<1>15. AloneOK(h)'
  <2>1. ASSUME NEW u \in Threads, ~Idle(u)' PROVE h[u].phase \notin AlonePhases
    <3>1. CASE u \in {t, c}
      BY <1>1, <1>3, <3>1 DEF AlonePhases
    <3>2. CASE u \notin {t, c}
      BY <1>3, <1>11, <1>14, <2>1, <3>2
    <3> QED
      BY <3>1, <3>2
  <2> QED
    BY <1>5, <1>10, <2>1 DEF AloneOK
<1>16. ArmedOK(h)'
  BY <1>5, <1>14 DEF Outline, ArmedOK, AlonePhases
<1> QED
  BY <1>3, <1>7, <1>8, <1>9, <1>12, <1>13, <1>15, <1>16 DEF Outline, ShimInv

\* The real pthread_create, both ways.
LEMMA RealCreateKeeps ==
  ASSUME ShimInv, NEW t \in Threads, RealCreate(t)
  PROVE  ShimInv'
<1>1. At(t, "create") /\ "create" \notin {"dead", "unborn"} /\ UNCHANGED <<gmtx, info, globals>>
  BY DEF RealCreate
<1>2. PICK g \in [Threads -> Points], y \in Points :
           /\ Outline(g) /\ ~Idle(t) /\ g[t] \in Points /\ Tail(todo[t]) \in Seq(Labels)
           /\ Step("create", g[t], y) /\ InOrder(Tail(todo[t]), y) /\ Informed(t, g[t])
  BY <1>1, LabelPoint
<1>3. g[t].gmtx /\ g[t].phase = "known" /\ y = [g[t] EXCEPT !.adding = TRUE]
  BY <1>2 DEF Step
<1>4. /\ y.depth = g[t].depth /\ y.gmtx = g[t].gmtx /\ y.rpt = g[t].rpt
      /\ y.adding /\ y.phase = "known"
  BY <1>2, <1>3 DEF Points
<1>5. ASSUME NEW c \in Threads, todo[c] \in {Unborn, Dead},
             todo' = [todo EXCEPT ![t] = Tail(@), ![c] = TrampolineStart],
             depth' = [depth EXCEPT ![c] = 0]
      PROVE  ShimInv'
  <2>1. todo' = [todo EXCEPT ![t] = Tail(todo[t]), ![c] = TrampolineStart] /\ Idle(c)
    BY <1>5 DEF Idle
  <2> QED
    BY <1>1, <1>2, <1>3, <1>4, <1>5, <2>1, CreateStarts
<1>6. ASSUME Continue(t, <<>>), UNCHANGED depth PROVE ShimInv'
  <2>1. todo' = [todo EXCEPT ![t] = Tail(todo[t])] /\ UNCHANGED <<depth, gmtx, info, globals>>
    BY <1>1, <1>2, <1>6 DEF Continue
  <2> QED
    BY <1>2, <1>3, <1>4, <2>1, CreateFails
<1> QED
  BY <1>5, <1>6 DEF RealCreate

(***************************************************************************)
(* The theorems.                                                           *)
(***************************************************************************)
\* The outline holds when the main thread enters user code.
LEMMA ShimInitInv == ShimInit => ShimInv
<1> SUFFICES ASSUME ShimInit PROVE ShimInv
  OBVIOUS
<1> DEFINE m == [depth |-> 0, gmtx |-> FALSE, rpt |-> FALSE, adding |-> FALSE, phase |-> "any"]
           n == Inform(m)
           g == [t \in Threads |-> IF t = Main THEN m ELSE n]
<1>1. /\ m \in Points /\ m.depth = 0 /\ ~m.gmtx /\ ~m.rpt /\ ~m.adding /\ m.phase = "any"
      /\ User(m)
  BY DEF Points, Phases, Free, User, Settled
<1> HIDE DEF m
<1>2. /\ n \in Points /\ n.depth = 0 /\ ~n.gmtx /\ ~n.rpt /\ ~n.adding /\ n.phase = "known"
      /\ Free(n)
  BY <1>1, PointsClosed, InformFields DEF Free
<1> HIDE DEF n
<1>3. InOrder(<<>>, m)
  BY <1>1, InOrderEmpty
<1>4. InOrder(Unborn, n)
  <2>1. Step("unborn", n, m) /\ "unborn" \in Labels
    BY <1>1, <1>2 DEF Step, KernelEntries, Labels
  <2> QED
    BY <1>1, <1>2, <2>1, ChainOne DEF InOrder, Unborn
<1>5. Main \in Threads /\ None \notin Threads /\ {Seccomp, ReinitFirst} \subseteq BOOLEAN
  BY ShimAssumption
<1>6. /\ todo[Main] = <<>> /\ \A t \in Threads : t # Main => todo[t] = Unborn
      /\ depth = [t \in Threads |-> 0] /\ gmtx = None /\ realPt = None /\ info = {}
      /\ slot = FALSE /\ inited = FALSE /\ state = FALSE /\ armed = FALSE
  BY <1>5 DEF ShimInit
<1>7. ShimTypeOK
  <2>1. <<>> \in Seq(Labels) /\ Unborn \in Seq(Labels)
    BY DEF Unborn, Labels
  <2>2. todo \in [Threads -> Seq(Labels)]
    BY <2>1 DEF ShimInit
  <2> QED
    BY <1>6, <2>2 DEF ShimTypeOK
<1>8. g \in [Threads -> Points] /\ g[Main] = m /\ \A t \in Threads : t # Main => g[t] = n
  BY <1>1, <1>2, <1>5
<1> HIDE DEF g
<1>9. OrderedOK(g)
  BY <1>3, <1>4, <1>6, <1>8 DEF OrderedOK
<1>10. AgreeOK(g)
  BY <1>1, <1>2, <1>5, <1>6, <1>8 DEF AgreeOK
<1>11. \A t \in Threads : t # Main => Idle(t)
  BY <1>6 DEF Idle
<1>12. InformedOK(g)
  BY <1>1, <1>6, <1>8, <1>11 DEF InformedOK, Informed
<1>13. AdoptedOK(g)
  BY <1>1, <1>8, <1>11 DEF AdoptedOK
<1>14. AloneOK(g)
  BY <1>1, <1>8, <1>11 DEF AloneOK, AlonePhases
<1>15. ArmedOK(g)
  BY <1>6 DEF ArmedOK
<1> QED
  BY <1>7, <1>8, <1>9, <1>10, <1>12, <1>13, <1>14, <1>15 DEF Outline, ShimInv

\* Every step of every thread keeps it.
LEMMA ShimNextInv == ShimInv /\ [ShimNext]_shimVars => ShimInv'
<1> SUFFICES ASSUME ShimInv, [ShimNext]_shimVars PROVE ShimInv'
  OBVIOUS
<1>1. ASSUME NEW t \in Threads, ThreadStep(t) PROVE ShimInv'
  <2>1. CASE Up(t) \/ Down(t) \/ LibcReturns(t) \/ RealOther(t) \/ Body(t) \/ StoreNext(t)
    BY <2>1, LabelKeeps
  <2>2. CASE Interpose(t) \/ LoadNext(t) \/ ScheduleMemop(t) \/ LibcReenters(t)
    BY <2>2, InterposeKeeps, LoadNextKeeps, ScheduleMemopKeeps, LibcReentersKeeps
  <2>3. CASE Rpt(t) \/ RptSet(t) \/ RealLock(t) \/ RealUnlock(t) \/ RealCondWait(t)
    BY <2>3, RptKeeps, RptSetKeeps, RealLockKeeps, RealUnlockKeeps, RealCondWaitKeeps
  <2>4. CASE BodyCalls(t) \/ RealCreate(t) \/ AddChild(t)
    BY <2>4, BodyCallsKeeps, RealCreateKeeps, AddChildKeeps
  <2>5. CASE \/ EnsureInit(t) \/ RschedInit(t) \/ NewState(t) \/ AddSelf(t) \/ Arm(t)
             \/ DropState(t) \/ SetInited(t)
    BY <2>5, EnsureInitKeeps, RschedInitKeeps, RebuildKeeps, AddSelfKeeps, ArmKeeps,
       SetInitedKeeps
  <2>6. CASE \/ UserCall(t) \/ RschedReinit(t) \/ UserReturns(t) \/ PthreadExit(t)
             \/ ThreadEnds(t)
    BY <2>6, UserCallKeeps, RschedReinitKeeps, UserReturnsKeeps, PthreadExitKeeps,
       ThreadEndsKeeps
  <2> QED
    BY <1>1, <2>1, <2>2, <2>3, <2>4, <2>5, <2>6 DEF ThreadStep
<1>2. CASE UNCHANGED shimVars
  <2>1. /\ todo' = todo /\ depth' = depth /\ gmtx' = gmtx /\ info' = info /\ realPt' = realPt
        /\ slot' = slot /\ inited' = inited /\ state' = state /\ armed' = armed
    BY <1>2 DEF shimVars, globals
  <2>2. PICK g \in [Threads -> Points] : Outline(g)
    BY DEF ShimInv
  <2>3. ShimTypeOK'
    BY <2>1 DEF ShimInv, ShimTypeOK
  <2>4. Outline(g)'
    BY <2>1, <2>2 DEF Outline, OrderedOK, AgreeOK, InformedOK, AdoptedOK, AloneOK, ArmedOK,
       Informed, Idle, Known
  <2> QED
    BY <2>2, <2>3, <2>4 DEF ShimInv
<1> QED
  BY <1>1, <1>2 DEF ShimNext

\* Whatever the threads, the nesting of calls and the interleaving, every thread is
\* somewhere in a program whose labels are in order, and the outlines fit together.
THEOREM ShimInvariant == ShimSpec => []ShimInv
BY ShimInitInv, ShimNextInv, PTL DEF ShimSpec

\* The types of the shim's variables: CALL_DEPTH never wraps below zero.
THEOREM ShimTypeSafety == ShimSpec => []ShimTypeOK
<1>1. ShimInv => ShimTypeOK
  BY DEF ShimInv
<1> QED
  BY <1>1, ShimInvariant, PTL

\* No thread asks for GMTX while it holds it, or for REAL_PT while it initialises it,
\* however libc, the dynamic linker and the scheduler call one another.
THEOREM ShimNoSelfDeadlock == ShimSpec => []NoSelfDeadlock
<1>1. ASSUME ShimInv PROVE NoSelfDeadlock
  <2> SUFFICES ASSUME NEW t \in Threads
               PROVE  (At(t, "lock") => gmtx # t) /\ (At(t, "rpt") => realPt # t)
    BY DEF NoSelfDeadlock
  <2>1. ASSUME At(t, "lock") PROVE gmtx # t
    <3>1. PICK g \in [Threads -> Points], y \in Points : Outline(g) /\ Step("lock", g[t], y)
      BY <1>1, <2>1, LabelPoint
    <3> QED
      BY <3>1 DEF Step, Outline, AgreeOK
  <2>2. ASSUME At(t, "rpt") PROVE realPt # t
    <3>1. PICK g \in [Threads -> Points], y \in Points : Outline(g) /\ Step("rpt", g[t], y)
      BY <1>1, <2>2, LabelPoint
    <3> QED
      BY <3>1 DEF Step, Outline, AgreeOK
  <2> QED
    BY <2>1, <2>2
<1> QED
  BY <1>1, ShimInvariant, PTL

\* Whoever reaches State holds GMTX and finds State with its own entry in it: neither
\* st() nor State::t panics, across rsched_init, rsched_reinit and thread creation.
THEOREM ShimCallersKnown == ShimSpec => []CallersKnown
<1>1. ASSUME ShimInv PROVE CallersKnown
  <2> SUFFICES ASSUME NEW t \in Threads, At(t, "body") PROVE gmtx = t /\ Known(t)
    BY DEF CallersKnown
  <2>1. PICK g \in [Threads -> Points], y \in Points :
          Outline(g) /\ Step("body", g[t], y) /\ Informed(t, g[t])
    BY <1>1, LabelPoint
  <2>2. g[t].gmtx /\ g[t].phase = "known"
    BY <2>1 DEF Step
  <2> QED
    BY <2>1, <2>2 DEF Informed, Outline, AgreeOK
<1> QED
  BY <1>1, ShimInvariant, PTL

\* User code is at depth zero, the scheduler's way into the kernel above it.
LEMMA DepthTells ==
  ASSUME ShimInv, NEW t \in Threads
  PROVE  /\ InUser(t) => depth[t] = 0
         /\ \A l \in KernelEntries : At(t, l) => depth[t] > 0
<1>1. ASSUME InUser(t) PROVE depth[t] = 0
  <2>1. PICK g \in [Threads -> Points] : g[t].depth = depth[t] /\ User(g[t])
    BY <1>1, UserPoint
  <2> QED
    BY <2>1 DEF User
<1>2. ASSUME NEW l \in KernelEntries, At(t, l) PROVE depth[t] > 0
  <2>1. l \notin {"dead", "unborn"}
    BY DEF KernelEntries
  <2>2. PICK g \in [Threads -> Points], y \in Points :
          g[t].depth = depth[t] /\ Step(l, g[t], y)
    BY <1>2, <2>1, LabelPoint
  <2> QED
    BY <2>2 DEF Step
<1> QED
  BY <1>1, <1>2

\* The SIGSYS handler never ends the process for a system call of the scheduler, also
\* when rsched_reinit was the first call.
THEOREM ShimNeverTripsItself ==
  ShimSpec => [](\A t \in Threads, l \in KernelEntries : At(t, l) => FutexFate(t) # "fatal")
<1>1. ShimInv => \A t \in Threads, l \in KernelEntries : At(t, l) => FutexFate(t) # "fatal"
  BY DepthTells DEF FutexFate
<1> QED
  BY <1>1, ShimInvariant, PTL

\* Unless rsched_reinit comes before rsched_init, the seccomp tripwire tells the
\* program's futex calls from the scheduler's: once rsched is initialised a futex call
\* of user code is fatal.  When it does come first the filter is never installed.
THEOREM ShimTripwireSound ==
  ASSUME ReinitFirst = FALSE
  PROVE  ShimSpec => []TripwireSound
<1>1. ASSUME ShimInv PROVE TripwireSound
  <2>1. ASSUME NEW t \in Threads, InUser(t), Seccomp, inited, ~armed PROVE FALSE
    <3>1. PICK g \in [Threads -> Points] : Outline(g) /\ ~Idle(t) /\ User(g[t])
      BY <1>1, <2>1, UserPoint
    <3>2. PICK c \in Threads : ~Idle(c) /\ g[c].phase \in {"new", "reg"}
      BY <2>1, <3>1 DEF Outline, ArmedOK
    <3>3. c # t
      BY <3>1, <3>2 DEF User, Settled
    <3> QED
      BY <3>1, <3>2, <3>3 DEF Outline, AloneOK, AlonePhases
  <2> SUFFICES ASSUME NEW t \in Threads
               PROVE  /\ InUser(t) => depth[t] = 0
                      /\ InUser(t) /\ Seccomp /\ inited => FutexFate(t) = "fatal"
                      /\ (\E l \in KernelEntries : At(t, l)) => FutexFate(t) # "fatal"
    BY DEF TripwireSound
  <2>2. (InUser(t) => depth[t] = 0) /\ \A l \in KernelEntries : At(t, l) => depth[t] > 0
    BY <1>1, DepthTells
  <2> QED
    BY <2>1, <2>2 DEF FutexFate
<1> QED
  BY <1>1, ShimInvariant, PTL

=============================================================================
