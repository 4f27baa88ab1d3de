---------------------------- MODULE UnwindingProofs ----------------------------
(***************************************************************************)
(* Proofs about Unwinding: the inductive invariant of a goroutine's stack,   *)
(* for any number of calls, deferred calls and panics and any way `go` may   *)
(* start the goroutine, and what follows from it.                           *)
(***************************************************************************)
EXTENDS UnwindingSafety, FiniteSetTheorems, TLAPS

-----------------------------------------------------------------------------
(* Sequences and frames.                                                   *)

\* Append keeps what is there and puts the new element last.
LEMMA AppendFacts ==
  ASSUME NEW S, NEW s \in Seq(S), NEW e \in S
  PROVE  /\ Append(s, e) \in Seq(S)
         /\ Len(Append(s, e)) = Len(s) + 1
         /\ \A i \in 1 .. Len(s) : Append(s, e)[i] = s[i]
         /\ Append(s, e)[Len(s) + 1] = e
OBVIOUS

\* The first m elements of a sequence.
LEMMA PrefixFacts ==
  ASSUME NEW S, NEW s \in Seq(S), NEW m \in 0 .. Len(s)
  PROVE  /\ SubSeq(s, 1, m) \in Seq(S)
         /\ Len(SubSeq(s, 1, m)) = m
         /\ \A i \in 1 .. m : SubSeq(s, 1, m)[i] = s[i]
OBVIOUS

\* One element of a sequence replaced.
LEMMA ReplaceFacts ==
  ASSUME NEW S, NEW s \in Seq(S), NEW k \in 1 .. Len(s), NEW e \in S
  PROVE  /\ [s EXCEPT ![k] = e] \in Seq(S)
         /\ Len([s EXCEPT ![k] = e]) = Len(s)
         /\ \A i \in 1 .. Len(s) : i # k => [s EXCEPT ![k] = e][i] = s[i]
         /\ [s EXCEPT ![k] = e][k] = e
OBVIOUS

\* What the three kinds of update do to a frame.
LEMMA SetDefers ==
  ASSUME NEW f \in Frames, NEW d \in Seq(1 .. MaxDefers)
  PROVE  LET g == [f EXCEPT !.defers = d]
         IN  /\ g \in Frames
             /\ g.kind = f.kind /\ g.resume = f.resume /\ g.uses = f.uses
             /\ g.returning = f.returning /\ g.dead = f.dead /\ g.defers = d
BY DEF Frames

LEMMA SetReturning ==
  ASSUME NEW f \in Frames
  PROVE  LET g == [f EXCEPT !.returning = TRUE]
         IN  /\ g \in Frames
             /\ g.kind = f.kind /\ g.resume = f.resume /\ g.uses = f.uses
             /\ g.returning = TRUE /\ g.dead = f.dead /\ g.defers = f.defers
BY DEF Frames

LEMMA SetDead ==
  ASSUME NEW f \in Frames
  PROVE  LET g == [f EXCEPT !.dead = TRUE]
         IN  /\ g \in Frames
             /\ g.kind = f.kind /\ g.resume = f.resume /\ g.uses = f.uses
             /\ g.returning = f.returning /\ g.dead = TRUE /\ g.defers = f.defers
BY DEF Frames

-----------------------------------------------------------------------------
(* Frames that stay.                                                       *)

\* The first m frames stay: at most the m-th changes what it defers and
\* whether it returns, and at most the two on top die.
Keeps(m) ==
  /\ stack \in Seq(Frames) /\ stack' \in Seq(Frames)
  /\ m \in Nat /\ m <= Len(stack) /\ m <= Len(stack')
  /\ base' = base
  /\ \A i \in 1 .. m :
       /\ stack'[i].kind = stack[i].kind
       /\ stack'[i].resume = stack[i].resume
       /\ stack'[i].uses = stack[i].uses
       /\ i < m - 1 => stack'[i].dead = stack[i].dead
       /\ stack[i].dead => stack'[i].dead
       /\ i < m \/ ~stack[i].uses => stack'[i].returning = stack[i].returning
       /\ i < m \/ stack[i].kind # "function" \/ ~stack[i].uses =>
            (stack[i].defers = <<>> => stack'[i].defers = <<>>)

\* A frame that stays can still be unwound, if it could ...
LEMMA UnwindableKept ==
  ASSUME NEW m, Keeps(m), NEW k \in 1 .. m, k < m, Unwindable(k)
  PROVE  Unwindable(k)'
BY DEF Keeps, Unwindable, Open

\* ... and is what it was.
LEMMA FrameKept ==
  ASSUME NEW m, Keeps(m), NEW k \in 1 .. m, FrameOK(k)
  PROVE  FrameOK(k)'
<1> DEFINE f == stack[k]
           g == stack'[k]
<1>1. /\ g.kind = f.kind /\ g.resume = f.resume /\ g.uses = f.uses
      /\ k \in Nat /\ m \in Nat
  BY DEF Keeps
<1>2. f.kind # "function" => MayRaise(k)'
  <2> SUFFICES ASSUME f.kind # "function" PROVE MayRaise(k)'
    OBVIOUS
  <2>1. MayRaise(k)
    BY DEF FrameOK
  <2>2. Unwindable(k - 1)'
    BY <2>1, <1>1, UnwindableKept DEF MayRaise, Unwindable
  <2>3. stack'[k].defers = <<>>
    BY <2>1 DEF Keeps, MayRaise
  <2> QED
    BY <2>2, <2>3 DEF MayRaise
<1>3. f.kind = "deferExecute" => g.resume = "user" /\ stack'[k - 1].returning
  <2> SUFFICES ASSUME f.kind = "deferExecute"
               PROVE  g.resume = "user" /\ stack'[k - 1].returning
    OBVIOUS
  <2>1. k - 1 > 0
    BY DEF FrameOK, MayRaise, Unwindable
  <2> QED
    BY <2>1, <1>1 DEF FrameOK, Keeps
<1>4. k > 1 /\ f.kind = "function" /\ f.resume = "user" => ~stack'[k - 1].returning
  BY <1>1 DEF FrameOK, Keeps
<1>5. ASSUME k > 1, f.kind # "panicRaise", Open(k)'
      PROVE  Ready(f.resume, k - 1)'
  <2>1. Open(k)
    BY <1>1, <1>5 DEF Open, Keeps
  <2>2. Ready(f.resume, k - 1)
    BY <1>5, <2>1 DEF FrameOK
  <2>3. CASE f.resume = "panic_raise_body"
    <3>1. stack[k - 1].defers = <<>> /\ Unwindable(k - 1 - 1)
      BY <2>2, <2>3 DEF Ready, MayRaise
    <3>2. Unwindable(k - 1 - 1)'
      BY <3>1, <1>1, UnwindableKept DEF Unwindable
    <3>3. stack'[k - 1].defers = <<>>
      BY <3>1, <1>5, <1>1 DEF Keeps
    <3> QED
      BY <3>2, <3>3, <2>3, <1>1 DEF Ready, MayRaise
  <2>4. CASE f.resume # "panic_raise_body"
    <3>1. ~stack'[k - 1].dead
      BY <1>1, <1>5, <2>4 DEF Open
    <3>2. CASE f.resume = "user"
      <4>1. Unwindable(k - 1)
        BY <2>2, <3>2 DEF Ready, MayRunUser
      <4>2. Unwindable(k - 1)'
        BY <4>1, <1>1, <1>5, UnwindableKept
      <4> QED
        BY <4>2, <3>1, <3>2, <1>1 DEF Ready, MayRunUser
    <3>3. CASE f.resume = "defer_execute"
      <4>1. stack[k - 1].kind = "deferExecute" /\ Unwindable(k - 1 - 1) /\ ~stack[k - 1 - 1].dead
        BY <2>2, <3>3 DEF Ready, MayExecute, MayRunUser
      <4>2. k - 1 - 1 > 0
        BY <4>1 DEF Unwindable
      <4>3. Unwindable(k - 1 - 1)'
        BY <4>1, <4>2, <1>1, UnwindableKept
      <4>4. stack'[k - 1].kind = "deferExecute" /\ ~stack'[k - 1 - 1].dead
        BY <4>1, <4>2, <1>1 DEF Keeps
      <4> QED
        BY <4>3, <4>4, <3>1, <3>3, <1>1 DEF Ready, MayExecute, MayRunUser
    <3> QED
      BY <2>2, <2>4, <3>2, <3>3 DEF Ready
  <2> QED
    BY <2>3, <2>4
<1>6. ~f.uses => g.defers = <<>> /\ g.returning = f.returning
  BY DEF FrameOK, Keeps
<1> QED
  BY <1>1, <1>2, <1>3, <1>4, <1>5, <1>6 DEF FrameOK, Keeps

\* A stack cut off at m.
LEMMA CutKeeps ==
  ASSUME stack \in Seq(Frames), NEW m \in 0 .. Len(stack),
         stack' = SubSeq(stack, 1, m), base' = base
  PROVE  Keeps(m) /\ Len(stack') = m /\ \A i \in 1 .. m : stack'[i] = stack[i]
<1>1. /\ stack' \in Seq(Frames)
      /\ Len(stack') = m
      /\ \A i \in 1 .. m : stack'[i] = stack[i]
  BY PrefixFacts
<1> QED
  BY <1>1 DEF Keeps

\* What was ready in it is ready.
LEMMA CutReady ==
  ASSUME NEW m, Keeps(m), \A i \in 1 .. m : stack'[i] = stack[i],
         NEW k \in 1 .. m
  PROVE  /\ Unwindable(k) => Unwindable(k)'
         /\ MayRunUser(k) => MayRunUser(k)'
         /\ MayExecute(k) => MayExecute(k)'
         /\ MayRaise(k) => MayRaise(k)'
<1>1. m \in Nat
  BY DEF Keeps
<1>2. \A i \in 1 .. m : Unwindable(i) => Unwindable(i)'
  BY <1>1 DEF Unwindable, Open
<1>3. \A i \in 1 .. m : MayRunUser(i) => MayRunUser(i)'
  BY <1>2 DEF MayRunUser
<1>4. MayExecute(k) => MayExecute(k)'
  BY <1>1, <1>3 DEF MayExecute, MayRunUser, Unwindable
<1>5. MayRaise(k) => MayRaise(k)'
  BY <1>1, <1>2 DEF MayRaise, Unwindable
<1> QED
  BY <1>2, <1>3, <1>4, <1>5

\* A new top frame on a stack that stays.
LEMMA PushReplaced ==
  ASSUME NEW s \in Seq(Frames), NEW k \in 1 .. Len(s), NEW f \in Frames, NEW g \in Frames
  PROVE  LET t == Append([s EXCEPT ![k] = f], g)
         IN  /\ t \in Seq(Frames)
             /\ Len(t) = Len(s) + 1
             /\ \A i \in 1 .. Len(s) : i # k => t[i] = s[i]
             /\ t[k] = f
             /\ t[Len(s) + 1] = g
<1> DEFINE r == [s EXCEPT ![k] = f]
<1>1. /\ r \in Seq(Frames)
      /\ Len(r) = Len(s)
      /\ \A i \in 1 .. Len(s) : i # k => r[i] = s[i]
      /\ r[k] = f
  BY ReplaceFacts
<1> HIDE DEF r
<1>2. /\ Append(r, g) \in Seq(Frames)
      /\ Len(Append(r, g)) = Len(r) + 1
      /\ \A i \in 1 .. Len(r) : Append(r, g)[i] = r[i]
      /\ Append(r, g)[Len(r) + 1] = g
  BY <1>1, AppendFacts
<1> QED
  BY <1>1, <1>2 DEF r

\* StackOK is a matter of the frames that stay and of the one on top.
LEMMA PushKeepsStackOK ==
  ASSUME NEW n \in Nat, n = Len(stack), StackOK, Keeps(n), Len(stack') = n + 1,
         NEW top, top = n + 1, FrameOK(top)'
  PROVE  StackOK'
<1>1. \A k \in 1 .. n : FrameOK(k)'
  BY FrameKept DEF StackOK, Keeps
<1>2. ASSUME NEW k \in 1 .. n + 1 PROVE FrameOK(k)'
  <2>1. CASE k = top
    BY <2>1
  <2>2. CASE k # top
    BY <1>1, <2>2
  <2> QED
    BY <2>1, <2>2
<1>3. DOMAIN stack' = 1 .. n + 1
  BY DEF Keeps
<1> QED
  BY <1>2, <1>3 DEF StackOK

LEMMA CutKeepsStackOK ==
  ASSUME NEW m, StackOK, Keeps(m), Len(stack') = m
  PROVE  StackOK'
BY FrameKept DEF StackOK, Keeps

-----------------------------------------------------------------------------
(* Deferred calls that stay.                                               *)

\* Nothing is deferred in frames that come and go; the others keep theirs.
QuietAbove(m) ==
  /\ m \in Nat /\ m <= Len(stack) /\ m <= Len(stack')
  /\ stack \in Seq(Frames) /\ stack' \in Seq(Frames)
  /\ \A i \in 1 .. m : stack'[i].defers = stack[i].defers
  /\ \A i \in m + 1 .. Len(stack) : stack[i].defers = <<>>
  /\ \A i \in m + 1 .. Len(stack') : stack'[i].defers = <<>>

LEMMA QuietPending ==
  ASSUME NEW m, QuietAbove(m)
  PROVE  Pending' = Pending
<1>1. /\ m \in Nat
      /\ DOMAIN stack = 1 .. Len(stack) /\ DOMAIN stack' = 1 .. Len(stack')
      /\ Len(stack) \in Nat /\ Len(stack') \in Nat
  BY DEF QuietAbove
<1>2. DOMAIN <<>> = {}
  OBVIOUS
<1>3. ASSUME NEW d \in Pending PROVE d \in Pending'
  <2>1. PICK k \in DOMAIN stack : \E a \in DOMAIN stack[k].defers : d = stack[k].defers[a]
    BY <1>3 DEF Pending, PendingIn
  <2>2. k \in 1 .. m
    BY <1>1, <1>2, <2>1 DEF QuietAbove
  <2>3. k \in DOMAIN stack' /\ stack'[k].defers = stack[k].defers
    BY <1>1, <2>2 DEF QuietAbove
  <2> QED
    BY <2>1, <2>3 DEF Pending, PendingIn
<1>4. ASSUME NEW d \in Pending' PROVE d \in Pending
  <2>1. PICK k \in DOMAIN stack' : \E a \in DOMAIN stack'[k].defers : d = stack'[k].defers[a]
    BY <1>4 DEF Pending, PendingIn
  <2>2. k \in 1 .. m
    BY <1>1, <1>2, <2>1 DEF QuietAbove
  <2>3. k \in DOMAIN stack /\ stack'[k].defers = stack[k].defers
    BY <1>1, <2>2 DEF QuietAbove
  <2> QED
    BY <2>1, <2>3 DEF Pending, PendingIn
<1> QED
  BY <1>3, <1>4

LEMMA QuietSorted ==
  ASSUME NEW m, QuietAbove(m), Sorted
  PROVE  Sorted'
<1>1. /\ m \in Nat
      /\ DOMAIN stack = 1 .. Len(stack) /\ DOMAIN stack' = 1 .. Len(stack')
      /\ Len(stack) \in Nat /\ Len(stack') \in Nat
  BY DEF QuietAbove
<1>2. DOMAIN <<>> = {}
  OBVIOUS
<1> SUFFICES ASSUME NEW j \in DOMAIN stack', NEW k \in DOMAIN stack',
                    NEW a \in DOMAIN stack'[j].defers, NEW b \in DOMAIN stack'[k].defers,
                    j < k \/ (j = k /\ a < b)
             PROVE  stack'[j].defers[a] < stack'[k].defers[b]
  BY DEF Sorted
<1>3. j \in 1 .. m /\ k \in 1 .. m
  BY <1>1, <1>2 DEF QuietAbove
<1>4. /\ j \in DOMAIN stack /\ k \in DOMAIN stack
      /\ stack'[j].defers = stack[j].defers /\ stack'[k].defers = stack[k].defers
  BY <1>1, <1>3 DEF QuietAbove
<1> QED
  BY <1>4 DEF Sorted

\* A step that neither registers nor starts a deferred call.
LEMMA QuietStep ==
  ASSUME NEW m, QuietAbove(m), Sorted, DefersConserved,
         registered' = registered, started' = started
  PROVE  Sorted' /\ DefersConserved' /\ Pending' = Pending
BY QuietPending, QuietSorted DEF DefersConserved

-----------------------------------------------------------------------------
(* Steps of user code.                                                     *)

\* What user code finds.
LEMMA UserTop ==
  ASSUME UnwindingInv, outcome = "running", next = "user"
  PROVE  /\ stack \in Seq(Frames)
         /\ Len(stack) \in Nat /\ Len(stack) > 0
         /\ stack[Len(stack)] \in Frames
         /\ stack[Len(stack)].kind = "function"
         /\ ~stack[Len(stack)].dead
         /\ Open(Len(stack))
<1>1. stack \in Seq(Frames)
  BY DEF UnwindingInv, UnwindingTypeOK
<1>2. MayRunUser(Len(stack))
  BY DEF UnwindingInv, NextOK, Ready
<1> QED
  BY <1>1, <1>2 DEF MayRunUser, Unwindable

\* The frame of a function that is called.
LEMMA NewFunctionFrame ==
  ASSUME NEW resume \in Functions, NEW uses \in BOOLEAN
  PROVE  LET g == FunctionFrame(resume, uses)
         IN  /\ g \in Frames
             /\ g.kind = "function" /\ g.resume = resume /\ g.uses = uses
             /\ g.returning = FALSE /\ g.dead = FALSE /\ g.defers = <<>>
BY DEF FunctionFrame, Frame, Frames

\* A called function is on top, and control is in it.
LEMMA PushFunction ==
  ASSUME NEW n \in Nat, n = Len(stack), n > 0, NEW top, top = n + 1,
         NEW g \in Frames, g.kind = "function", ~g.dead, ~g.returning, g.defers = <<>>,
         g.resume \in {"user", "defer_execute", "panic_raise_body"},
         StackOK, Keeps(n), Len(stack') = n + 1, stack'[top] = g,
         Open(top)', Open(top)' => Ready(g.resume, n)',
         g.resume = "user" => ~stack'[n].returning,
         next' = "user"
  PROVE  StackOK' /\ NextOK' /\ ReturningOK'
<1>1. Unwindable(top)'
  BY DEF Unwindable
<1>2. FrameOK(top)'
  <2>1. top - 1 = n /\ top # 1
    OBVIOUS
  <2> QED
    BY <2>1 DEF FrameOK
<1>3. StackOK'
  BY <1>2, PushKeepsStackOK
<1>4. Ready("user", top)'
  BY <1>1 DEF Ready, MayRunUser
<1>5. NextOK'
  BY <1>4 DEF NextOK
<1>6. ReturningOK'
  BY DEF ReturningOK, Top
<1> QED
  BY <1>3, <1>5, <1>6

\* A panic stays covered when frames keep their resume functions.
LEMMA StaysCovered ==
  ASSUME NEW m, Keeps(m), PanicCovered,
         outcome = "running", panicking' => panicking,
         next # "panic_raise_body",
         \A k \in m + 1 .. Len(stack) : stack[k].resume # "panic_raise_body"
  PROVE  PanicCovered'
BY DEF PanicCovered, Keeps

LEMMA CallStep ==
  ASSUME UnwindingInv, outcome = "running", NEW uses \in BOOLEAN, Call(uses)
  PROVE  UnwindingInv'
<1> PICK n \in Nat : n = Len(stack)
  BY UserTop DEF Call, InBody
<1> DEFINE g == FunctionFrame("user", uses)
<1>1. /\ stack \in Seq(Frames) /\ n > 0
      /\ stack[n].kind = "function" /\ ~stack[n].dead /\ Open(n) /\ ~stack[n].returning
  BY UserTop DEF Call, InBody, Top
<1>2. /\ g \in Frames
      /\ g.kind = "function" /\ g.resume = "user"
      /\ g.returning = FALSE /\ g.dead = FALSE /\ g.defers = <<>>
  BY NewFunctionFrame DEF Functions
<1>3. stack' = Append(stack, g)
  BY DEF Call
<1> HIDE DEF g
<1>4. /\ stack' \in Seq(Frames)
      /\ Len(stack') = n + 1
      /\ \A i \in 1 .. n : stack'[i] = stack[i]
      /\ stack'[n + 1] = g
  BY <1>1, <1>2, <1>3, AppendFacts
<1>5. UNCHANGED <<next, panicking, panicData, base, outcome, panics, registered, started>>
  BY DEF Call
<1>6. Keeps(n) /\ QuietAbove(n)
  BY <1>1, <1>2, <1>4, <1>5 DEF Keeps, QuietAbove
<1>7. MayRunUser(n)' /\ ~stack'[n].returning
  BY <1>1, <1>4, <1>5 DEF MayRunUser, Unwindable, Open
<1>8. StackOK' /\ NextOK' /\ ReturningOK'
  <2> DEFINE top == n + 1
  <2>1. Open(top)'
    BY <1>1, <1>4 DEF Open
  <2>2. Ready("user", n)'
    BY <1>7 DEF Ready
  <2> QED
    BY <1>1, <1>2, <1>4, <1>5, <1>6, <1>7, <2>1, <2>2, PushFunction DEF Call, InBody, UnwindingInv
<1>9. UnwindingTypeOK'
  BY <1>4, <1>5, UnwindingConstants DEF UnwindingInv, UnwindingTypeOK, Call
<1>10. PanicCovered'
  BY <1>5, <1>6, StaysCovered DEF UnwindingInv, Call, InBody
<1>11. Sorted' /\ DefersConserved'
  BY <1>5, <1>6, QuietStep DEF UnwindingInv
<1>12. EndsSettled'
  BY <1>5 DEF EndsSettled
<1> QED
  BY <1>8, <1>9, <1>10, <1>11, <1>12 DEF UnwindingInv

\* All but the top frame are as they were.
LEMMA KeepsBelowTop ==
  ASSUME NEW n \in Nat, n = Len(stack), n > 0, stack \in Seq(Frames),
         stack' \in Seq(Frames), n <= Len(stack'), base' = base,
         \A i \in 1 .. n : i # n => stack'[i] = stack[i],
         stack'[n].kind = stack[n].kind, stack'[n].resume = stack[n].resume,
         stack'[n].uses = stack[n].uses,
         stack[n].dead => stack'[n].dead,
         ~stack[n].uses => stack'[n].returning = stack[n].returning,
         stack[n].kind # "function" \/ ~stack[n].uses => stack'[n].defers = stack[n].defers
  PROVE  Keeps(n)
<1>1. ASSUME NEW i \in 1 .. n
      PROVE  /\ stack'[i].kind = stack[i].kind
             /\ stack'[i].resume = stack[i].resume
             /\ stack'[i].uses = stack[i].uses
             /\ i < n - 1 => stack'[i].dead = stack[i].dead
             /\ stack[i].dead => stack'[i].dead
             /\ i < n \/ ~stack[i].uses => stack'[i].returning = stack[i].returning
             /\ i < n \/ stack[i].kind # "function" \/ ~stack[i].uses =>
                  (stack[i].defers = <<>> => stack'[i].defers = <<>>)
  <2>1. CASE i = n
    BY <2>1
  <2>2. CASE i # n
    BY <2>2
  <2> QED
    BY <2>1, <2>2
<1> QED
  BY <1>1 DEF Keeps

LEMMA DeferStep ==
  ASSUME UnwindingInv, outcome = "running", Defer
  PROVE  UnwindingInv'
<1> PICK n \in Nat : n = Len(stack)
  BY UserTop DEF Defer, InBody
<1> DEFINE d == registered + 1
           more == Append(stack[n].defers, d)
           g == [stack[n] EXCEPT !.defers = more]
<1>1. /\ stack \in Seq(Frames) /\ n > 0 /\ stack[n] \in Frames
      /\ stack[n].kind = "function" /\ ~stack[n].dead /\ Open(n) /\ ~stack[n].returning
      /\ stack[n].uses
  BY UserTop DEF Defer, InBody, Top
<1>2. /\ registered \in Nat /\ d \in 1 .. MaxDefers /\ started \subseteq 1 .. registered
  BY UnwindingConstants DEF UnwindingInv, UnwindingTypeOK, Defer
<1>3. stack[n].defers \in Seq(1 .. MaxDefers)
  BY <1>1 DEF Frames
<1>4. /\ more \in Seq(1 .. MaxDefers)
      /\ Len(more) = Len(stack[n].defers) + 1
      /\ \A i \in 1 .. Len(stack[n].defers) : more[i] = stack[n].defers[i]
      /\ more[Len(stack[n].defers) + 1] = d
  BY <1>2, <1>3, AppendFacts
<1>5. stack' = [stack EXCEPT ![n] = g]
  BY <1>1 DEF Defer
<1> HIDE DEF more
<1>6. /\ g \in Frames
      /\ g.kind = stack[n].kind /\ g.resume = stack[n].resume /\ g.uses = stack[n].uses
      /\ g.returning = stack[n].returning /\ g.dead = stack[n].dead /\ g.defers = more
  BY <1>1, <1>4, SetDefers
<1> HIDE DEF g
<1>7. /\ stack' \in Seq(Frames)
      /\ Len(stack') = n
      /\ \A i \in 1 .. n : i # n => stack'[i] = stack[i]
      /\ stack'[n] = g
  BY <1>1, <1>5, <1>6, ReplaceFacts
<1>8. /\ registered' = d
      /\ UNCHANGED <<next, panicking, panicData, base, outcome, calls, panics, started>>
  BY DEF Defer
<1>9. Keeps(n)
  <2>1. /\ stack'[n].kind = stack[n].kind /\ stack'[n].resume = stack[n].resume
        /\ stack'[n].uses = stack[n].uses /\ stack'[n].returning = stack[n].returning
        /\ stack'[n].dead = stack[n].dead
    BY <1>6, <1>7
  <2>2. stack[n].kind # "function" \/ ~stack[n].uses => stack'[n].defers = stack[n].defers
    BY <1>1
  <2>3. base' = base /\ n <= Len(stack')
    BY <1>7, <1>8
  <2>4. stack[n].dead => stack'[n].dead
    BY <2>1
  <2>5. ~stack[n].uses => stack'[n].returning = stack[n].returning
    BY <2>1
  <2> QED
    BY <1>1, <1>7, <2>1, <2>2, <2>3, <2>4, <2>5, KeepsBelowTop
<1>10. StackOK'
  BY <1>7, <1>9, CutKeepsStackOK DEF UnwindingInv
<1>11. NextOK'
  <2>1. MayRunUser(n)'
    BY <1>1, <1>6, <1>7 DEF MayRunUser, Unwindable, Open
  <2>2. next' = "user" /\ n = Len(stack')
    BY <1>7, <1>8 DEF Defer, InBody
  <2> QED
    BY <2>1, <2>2 DEF NextOK, Ready
<1>12. ReturningOK'
  BY <1>1, <1>6, <1>7 DEF ReturningOK, Top
<1>13. PanicCovered'
  BY <1>8, <1>9, StaysCovered DEF UnwindingInv, Defer, InBody
<1>14. \A k \in DOMAIN stack : \A a \in DOMAIN stack[k].defers :
         stack[k].defers[a] \in 1 .. registered \ started
  BY DEF UnwindingInv, DefersConserved, Pending, PendingIn
<1>15. DOMAIN stack = 1 .. n /\ DOMAIN stack' = 1 .. n
  BY <1>1, <1>7
<1>16. \A k \in 1 .. n : \A a \in DOMAIN stack[k].defers :
         a \in DOMAIN stack'[k].defers /\ stack'[k].defers[a] = stack[k].defers[a]
  <2> TAKE k \in 1 .. n
  <2>1. CASE k = n
    <3>1. stack'[n].defers = more
      BY <1>6, <1>7
    <3>2. DOMAIN stack[n].defers = 1 .. Len(stack[n].defers)
      BY <1>3
    <3>3. DOMAIN more = 1 .. Len(more) /\ Len(stack[n].defers) \in Nat
      BY <1>3, <1>4
    <3> QED
      BY <2>1, <3>1, <3>2, <3>3, <1>4
  <2>2. CASE k # n
    BY <2>2, <1>7
  <2> QED
    BY <2>1, <2>2
<1>17. \A k \in 1 .. n : \A a \in DOMAIN stack'[k].defers :
         \/ a \in DOMAIN stack[k].defers
         \/ /\ k = n
            /\ stack'[k].defers[a] = d
            /\ \A i \in DOMAIN stack[k].defers : i < a
  <2> TAKE k \in 1 .. n
  <2>1. CASE k = n
    BY <2>1, <1>3, <1>4, <1>6, <1>7
  <2>2. CASE k # n
    BY <2>2, <1>7
  <2> QED
    BY <2>1, <2>2
<1>18. \E a \in DOMAIN stack'[n].defers : stack'[n].defers[a] = d
  BY <1>3, <1>4, <1>6, <1>7
<1>19. DefersConserved'
  <2>1. ASSUME NEW e \in Pending' PROVE e \in 1 .. registered' \ started'
    <3>1. PICK k \in 1 .. n : \E a \in DOMAIN stack'[k].defers : e = stack'[k].defers[a]
      BY <2>1, <1>15 DEF Pending, PendingIn
    <3>2. PICK a \in DOMAIN stack'[k].defers : e = stack'[k].defers[a]
      BY <3>1
    <3>3. CASE e = d
      BY <3>3, <1>2, <1>8
    <3>4. CASE e # d
      <4>1. a \in DOMAIN stack[k].defers /\ e = stack[k].defers[a]
        BY <3>2, <3>4, <1>16, <1>17
      <4> QED
        BY <4>1, <1>2, <1>8, <1>14, <1>15
    <3> QED
      BY <3>3, <3>4
  <2>2. ASSUME NEW e \in 1 .. registered' \ started' PROVE e \in Pending'
    <3>1. CASE e = d
      BY <3>1, <1>1, <1>15, <1>18 DEF Pending, PendingIn
    <3>2. CASE e # d
      <4>1. e \in Pending
        BY <2>2, <3>2, <1>2, <1>8 DEF UnwindingInv, DefersConserved
      <4>2. PICK k \in 1 .. n : \E a \in DOMAIN stack[k].defers : e = stack[k].defers[a]
        BY <4>1, <1>15 DEF Pending, PendingIn
      <4> QED
        BY <4>2, <1>15, <1>16 DEF Pending, PendingIn
    <3> QED
      BY <3>1, <3>2
  <2> QED
    BY <2>1, <2>2 DEF DefersConserved
<1>20. Sorted'
  <2> SUFFICES ASSUME NEW j \in 1 .. n, NEW k \in 1 .. n,
                      NEW a \in DOMAIN stack'[j].defers, NEW b \in DOMAIN stack'[k].defers,
                      j < k \/ (j = k /\ a < b)
               PROVE  stack'[j].defers[a] < stack'[k].defers[b]
    BY <1>15 DEF Sorted
  <2>0. b \in Nat /\ a \in Nat
    <3>1. stack'[j] \in Frames /\ stack'[k] \in Frames
      BY <1>7
    <3> QED
      BY <3>1 DEF Frames
  <2>1. a \in DOMAIN stack[j].defers /\ stack'[j].defers[a] = stack[j].defers[a]
    <3>1. ASSUME a \notin DOMAIN stack[j].defers PROVE FALSE
      <4>1. j = n /\ \A i \in DOMAIN stack[j].defers : i < a
        BY <3>1, <1>17
      <4>2. k = n /\ j = k /\ a < b
        BY <4>1
      <4>3. b \notin DOMAIN stack[k].defers
        BY <4>1, <4>2, <2>0
      <4>4. a = Len(stack[n].defers) + 1 /\ b = Len(stack[n].defers) + 1
        BY <3>1, <4>1, <4>2, <4>3, <1>3, <1>4, <1>6, <1>7
      <4> QED
        BY <4>2, <4>4
    <3> QED
      BY <3>1, <1>16
  <2>2. stack[j].defers[a] \in 1 .. registered
    BY <2>1, <1>14, <1>15
  <2>3. CASE b \in DOMAIN stack[k].defers
    <3>1. stack'[k].defers[b] = stack[k].defers[b]
      BY <2>3, <1>16
    <3> QED
      BY <2>1, <2>3, <3>1, <1>15 DEF UnwindingInv, Sorted
  <2>4. CASE b \notin DOMAIN stack[k].defers
    <3>1. stack'[k].defers[b] = d
      BY <2>4, <1>17
    <3> QED
      BY <2>1, <2>2, <3>1, <1>2
  <2> QED
    BY <2>3, <2>4
<1>21. UnwindingTypeOK'
  BY <1>2, <1>7, <1>8 DEF UnwindingInv, UnwindingTypeOK
<1>22. EndsSettled'
  BY <1>8 DEF EndsSettled
<1> QED
  BY <1>10, <1>11, <1>12, <1>13, <1>19, <1>20, <1>21, <1>22 DEF UnwindingInv

\* A runtime frame is on top, above a function that can be unwound.
LEMMA PushRuntimeFrame ==
  ASSUME NEW n \in Nat, n = Len(stack), n > 0, NEW top, top = n + 1,
         NEW g \in Frames, ~g.dead, ~g.returning, g.defers = <<>>,
         g.kind = "panicRaise" \/ (/\ g.kind = "deferExecute"
                                  /\ g.resume = "user"
                                  /\ stack'[n].returning
                                  /\ MayRunUser(n)'),
         StackOK, Keeps(n), Len(stack') = n + 1, stack'[top] = g, Unwindable(n)'
  PROVE  StackOK' /\ MayRaise(top)'
<1>0. top - 1 = n /\ top # 1
  OBVIOUS
<1>1. MayRaise(top)'
  BY <1>0 DEF MayRaise
<1>2. g.kind = "deferExecute" => Ready(g.resume, n)'
  BY DEF Ready
<1>3. FrameOK(top)'
  BY <1>0, <1>1, <1>2 DEF FrameOK, Ready
<1>4. StackOK'
  BY <1>3, PushKeepsStackOK
<1> QED
  BY <1>1, <1>4

LEMMA RunDefersStep ==
  ASSUME UnwindingInv, outcome = "running", RunDefers
  PROVE  UnwindingInv'
<1> PICK n \in Nat : n = Len(stack)
  BY UserTop DEF RunDefers, InBody
<1> DEFINE f == [stack[n] EXCEPT !.returning = TRUE]
           g == DeferExecuteFrame
<1>1. /\ stack \in Seq(Frames) /\ n > 0 /\ stack[n] \in Frames
      /\ stack[n].kind = "function" /\ ~stack[n].dead /\ Open(n) /\ stack[n].uses
  BY UserTop DEF RunDefers, InBody, Top
<1>2. /\ g \in Frames
      /\ g.kind = "deferExecute" /\ g.resume = "user"
      /\ g.returning = FALSE /\ g.dead = FALSE /\ g.defers = <<>>
  BY DEF DeferExecuteFrame, Frame, Frames, Functions
<1>3. /\ f \in Frames
      /\ f.kind = stack[n].kind /\ f.resume = stack[n].resume /\ f.uses = stack[n].uses
      /\ f.returning = TRUE /\ f.dead = stack[n].dead /\ f.defers = stack[n].defers
  BY <1>1, SetReturning
<1>4. stack' = Append([stack EXCEPT ![n] = f], g)
  BY <1>1 DEF RunDefers
<1> HIDE DEF f, g
<1>5. /\ stack' \in Seq(Frames)
      /\ Len(stack') = n + 1
      /\ \A i \in 1 .. n : i # n => stack'[i] = stack[i]
      /\ stack'[n] = f
      /\ stack'[n + 1] = g
  BY <1>1, <1>2, <1>3, <1>4, PushReplaced
<1>6. /\ next' = "defer_execute" /\ base' = base
      /\ UNCHANGED <<panicking, panicData, outcome, calls, panics, registered, started>>
  BY DEF RunDefers
<1>7. Keeps(n)
  <2>1. /\ stack'[n].kind = stack[n].kind /\ stack'[n].resume = stack[n].resume
        /\ stack'[n].uses = stack[n].uses /\ stack'[n].dead = stack[n].dead
        /\ stack'[n].defers = stack[n].defers
    BY <1>3, <1>5
  <2>2. base' = base /\ n <= Len(stack')
    BY <1>5, <1>6
  <2>3. stack[n].dead => stack'[n].dead
    BY <2>1
  <2>4. ~stack[n].uses => stack'[n].returning = stack[n].returning
    BY <1>1
  <2>5. stack[n].kind # "function" \/ ~stack[n].uses => stack'[n].defers = stack[n].defers
    BY <2>1
  <2> QED
    BY <1>1, <1>5, <2>1, <2>2, <2>3, <2>4, <2>5, KeepsBelowTop
<1>8. QuietAbove(n)
  <2>1. \A i \in 1 .. n : stack'[i].defers = stack[i].defers
    BY <1>3, <1>5
  <2> QED
    BY <1>1, <1>2, <1>5, <2>1 DEF QuietAbove
<1>9. Unwindable(n)' /\ MayRunUser(n)'
  BY <1>1, <1>3, <1>5 DEF MayRunUser, Unwindable, Open
<1>10. StackOK' /\ MayExecute(n + 1)'
  <2> DEFINE top == n + 1
  <2>1. stack'[n].returning
    BY <1>3, <1>5
  <2>2. StackOK'
    BY <1>1, <1>2, <1>5, <1>7, <1>9, <2>1, PushRuntimeFrame DEF UnwindingInv
  <2>3. top - 1 = n
    OBVIOUS
  <2>4. MayExecute(top)'
    BY <1>2, <1>5, <1>9, <2>3 DEF MayExecute
  <2> QED
    BY <2>2, <2>4
<1>11. NextOK'
  BY <1>5, <1>6, <1>10 DEF NextOK, Ready
<1>12. ReturningOK'
  BY <1>6 DEF ReturningOK
<1>13. PanicCovered'
  BY <1>6, <1>7, StaysCovered DEF UnwindingInv, RunDefers, InBody
<1>14. Sorted' /\ DefersConserved'
  BY <1>6, <1>8, QuietStep DEF UnwindingInv
<1>15. UnwindingTypeOK'
  BY <1>5, <1>6 DEF UnwindingInv, UnwindingTypeOK, Functions
<1>16. EndsSettled'
  BY <1>6 DEF EndsSettled
<1> QED
  BY <1>10, <1>11, <1>12, <1>13, <1>14, <1>15, <1>16 DEF UnwindingInv

LEMMA PanicStep ==
  ASSUME UnwindingInv, outcome = "running", NEW data \in {"nil", "object"}, Panic(data)
  PROVE  UnwindingInv'
<1> PICK n \in Nat : n = Len(stack)
  BY UserTop DEF Panic, InBody
<1> DEFINE f == [stack[n] EXCEPT !.dead = TRUE]
           g == PanicRaiseFrame
<1>1. /\ stack \in Seq(Frames) /\ n > 0 /\ stack[n] \in Frames
      /\ stack[n].kind = "function" /\ Open(n)
  BY UserTop DEF Panic, InBody
<1>2. /\ g \in Frames
      /\ g.kind = "panicRaise"
      /\ g.returning = FALSE /\ g.dead = FALSE /\ g.defers = <<>>
  BY DEF PanicRaiseFrame, Frame, Frames
<1>3. /\ f \in Frames
      /\ f.kind = stack[n].kind /\ f.resume = stack[n].resume /\ f.uses = stack[n].uses
      /\ f.returning = stack[n].returning /\ f.dead = TRUE /\ f.defers = stack[n].defers
  BY <1>1, SetDead
<1>4. stack' = Append([stack EXCEPT ![n] = f], g)
  BY <1>1 DEF Panic
<1> HIDE DEF f, g
<1>5. /\ stack' \in Seq(Frames)
      /\ Len(stack') = n + 1
      /\ \A i \in 1 .. n : i # n => stack'[i] = stack[i]
      /\ stack'[n] = f
      /\ stack'[n + 1] = g
  BY <1>1, <1>2, <1>3, <1>4, PushReplaced
<1>6. /\ next' = "panic_raise_body" /\ base' = base /\ panicking' = TRUE /\ panicData' = data
      /\ panics' = panics + 1 /\ panics < MaxPanics
      /\ UNCHANGED <<outcome, calls, registered, started>>
  BY DEF Panic
<1>7. Keeps(n)
  <2>1. /\ stack'[n].kind = stack[n].kind /\ stack'[n].resume = stack[n].resume
        /\ stack'[n].uses = stack[n].uses /\ stack'[n].returning = stack[n].returning
        /\ stack'[n].defers = stack[n].defers
    BY <1>3, <1>5
  <2>2. stack'[n].dead
    BY <1>3, <1>5
  <2>3. base' = base /\ n <= Len(stack')
    BY <1>5, <1>6
  <2>4. ~stack[n].uses => stack'[n].returning = stack[n].returning
    BY <2>1
  <2>5. stack[n].kind # "function" \/ ~stack[n].uses => stack'[n].defers = stack[n].defers
    BY <2>1
  <2> QED
    BY <1>1, <1>5, <2>1, <2>2, <2>3, <2>4, <2>5, KeepsBelowTop
<1>8. QuietAbove(n)
  <2>1. \A i \in 1 .. n : stack'[i].defers = stack[i].defers
    BY <1>3, <1>5
  <2> QED
    BY <1>1, <1>2, <1>5, <2>1 DEF QuietAbove
<1>9. Unwindable(n)'
  BY <1>1, <1>3, <1>5 DEF Unwindable, Open
<1>10. StackOK' /\ MayRaise(n + 1)'
  <2> DEFINE top == n + 1
  <2>1. StackOK' /\ MayRaise(top)'
    BY <1>1, <1>2, <1>5, <1>7, <1>9, PushRuntimeFrame DEF UnwindingInv
  <2> QED
    BY <2>1
<1>11. NextOK'
  BY <1>5, <1>6, <1>10 DEF NextOK, Ready
<1>12. ReturningOK' /\ PanicCovered'
  BY <1>6 DEF ReturningOK, PanicCovered
<1>13. Sorted' /\ DefersConserved'
  BY <1>6, <1>8, QuietStep DEF UnwindingInv
<1>14. UnwindingTypeOK'
  BY <1>5, <1>6, UnwindingConstants DEF UnwindingInv, UnwindingTypeOK, Functions
<1>15. EndsSettled'
  BY <1>6 DEF EndsSettled
<1> QED
  BY <1>10, <1>11, <1>12, <1>13, <1>14, <1>15 DEF UnwindingInv

\* Steps that leave the stack alone.
LEMMA SameStack ==
  ASSUME UnwindingInv, UNCHANGED <<stack, base, registered, started>>
  PROVE  StackOK' /\ Sorted' /\ DefersConserved' /\ Pending' = Pending
BY DEF UnwindingInv, StackOK, FrameOK, Ready, MayRaise, MayExecute, MayRunUser,
       Unwindable, Open, Sorted, DefersConserved, Pending, PendingIn

LEMMA RecoverStep ==
  ASSUME UnwindingInv, outcome = "running", Recover
  PROVE  UnwindingInv'
<1>1. /\ next = "user" /\ panicking' = FALSE
      /\ UNCHANGED <<stack, next, panicData, base, outcome, calls, panics, registered, started>>
  BY DEF Recover, InBody
<1>2. StackOK' /\ Sorted' /\ DefersConserved'
  BY <1>1, SameStack
<1>3. NextOK'
  BY <1>1 DEF UnwindingInv, NextOK, Ready, MayRunUser, Unwindable, Open
<1>4. ReturningOK' /\ PanicCovered'
  BY <1>1 DEF UnwindingInv, ReturningOK, PanicCovered, Top
<1>5. UnwindingTypeOK'
  BY <1>1 DEF UnwindingInv, UnwindingTypeOK
<1>6. EndsSettled'
  BY <1>1 DEF EndsSettled
<1> QED
  BY <1>2, <1>3, <1>4, <1>5, <1>6 DEF UnwindingInv

-----------------------------------------------------------------------------
(* Frames that go.                                                         *)

\* A stack without deferred calls.
LEMMA NothingPending ==
  ASSUME \A k \in DOMAIN stack : stack[k].defers = <<>>
  PROVE  Pending = {}
<1>1. DOMAIN <<>> = {}
  OBVIOUS
<1> QED
  BY <1>1 DEF Pending, PendingIn

\* The function at m returns; what is above it goes with it.
LEMMA FunctionReturns ==
  ASSUME UnwindingInv, NEW n \in Nat, n = Len(stack), NEW m \in 1 .. n,
         stack[m].kind = "function", Open(m), ~(m = 1 /\ panicking),
         \A i \in m .. n : stack[i].defers = <<>>,
         NEW p \in Nat, p = IF m = 1 /\ base.words = 0 THEN 1 ELSE m - 1,
         stack' \in Seq(Frames), Len(stack') = p, \A i \in 1 .. p : stack'[i] = stack[i],
         next' = stack[m].resume,
         UNCHANGED <<base, panicking, registered, started>>
  PROVE  StackOK' /\ NextOK' /\ ReturningOK' /\ Sorted' /\ DefersConserved'
<1>1. stack \in Seq(Frames) /\ p <= n /\ p <= m /\ base.words \in Nat
  BY DEF UnwindingInv, UnwindingTypeOK
<1>2. Keeps(p)
  BY <1>1 DEF Keeps
<1>3. StackOK'
  BY <1>2, CutKeepsStackOK DEF UnwindingInv
<1>4. QuietAbove(p)
  <2>1. \A i \in p + 1 .. n : i \in m .. n
    BY <1>1
  <2>2. \A i \in 1 .. p : stack'[i].defers = stack[i].defers
    OBVIOUS
  <2> QED
    BY <1>1, <2>1, <2>2 DEF QuietAbove
<1>5. Sorted' /\ DefersConserved' /\ Pending' = Pending
  BY <1>4, QuietStep DEF UnwindingInv
<1>6. FrameOK(m)
  BY <1>1 DEF UnwindingInv, StackOK
<1>7. NextOK' /\ ReturningOK'
  <2>1. CASE m = 1
    <3>1. stack[m].resume \in {"terminate", "enter_main"} /\ ~panicking
      BY <1>6, <2>1 DEF FrameOK
    <3>2. Pending = {}
      BY <1>1, <2>1, NothingPending
    <3> QED
      BY <1>5, <3>1, <3>2 DEF NextOK, ReturningOK
  <2>2. CASE m # 1
    <3>1. p = m - 1 /\ p \in 1 .. p /\ m > 1
      BY <2>2
    <3>2. PICK r \in {"user", "defer_execute", "panic_raise_body"} : r = stack[m].resume
      BY <1>6, <3>1 DEF FrameOK
    <3>3. Ready(r, p)'
      <4>1. /\ MayRunUser(p) => MayRunUser(p)'
            /\ MayExecute(p) => MayExecute(p)'
            /\ MayRaise(p) => MayRaise(p)'
        BY <1>2, <3>1, CutReady
      <4>2. Ready(r, p)
        BY <1>6, <3>1, <3>2 DEF FrameOK
      <4> QED
        BY <4>1, <4>2 DEF Ready
    <3>4. NextOK'
      <4>1. p = Len(stack') /\ r = next'
        BY <3>2
      <4> QED
        BY <3>3, <4>1 DEF NextOK
    <3>5. stack[m].resume = "user" => ~stack[p].returning
      BY <1>6, <3>1 DEF FrameOK
    <3>6. stack'[p] = stack[p]
      BY <3>1
    <3>7. ReturningOK'
      BY <3>5, <3>6 DEF ReturningOK, Top
    <3> QED
      BY <3>4, <3>7
  <2> QED
    BY <2>1, <2>2
<1> QED
  BY <1>3, <1>5, <1>7

LEMMA ReturnStep ==
  ASSUME UnwindingInv, outcome = "running", Return
  PROVE  UnwindingInv'
<1> PICK n \in Nat : n = Len(stack)
  BY UserTop DEF Return
<1> PICK p \in Nat : p = IF n = 1 /\ base.words = 0 THEN 1 ELSE n - 1
  <2>1. n > 0
    BY UserTop DEF Return
  <2> QED
    BY <2>1
<1>1. /\ stack \in Seq(Frames) /\ n > 0 /\ stack[n] \in Frames
      /\ stack[n].kind = "function" /\ Open(n) /\ MayReturn(stack[n]) /\ next = "user"
  BY UserTop DEF Return, Top
<1>2. stack[n].defers = <<>>
  <2>1. CASE stack[n].uses
    <3>1. stack[n].returning /\ stack # <<>>
      BY <1>1, <2>1 DEF MayReturn
    <3> QED
      BY <1>1, <3>1 DEF UnwindingInv, ReturningOK, Top
  <2>2. CASE ~stack[n].uses
    BY <1>1, <2>2 DEF UnwindingInv, StackOK, FrameOK
  <2>3. stack[n].uses \in BOOLEAN
    BY <1>1 DEF Frames
  <2> QED
    BY <2>1, <2>2, <2>3
<1>3. p = Prev(stack) /\ p \in 0 .. n
  BY <1>1 DEF Prev
<1>4. /\ stack' = SubSeq(stack, 1, p)
      /\ next' = stack[n].resume
      /\ UNCHANGED <<panicking, panicData, base, outcome, calls, panics, registered, started>>
  BY <1>3 DEF Return, Popped, Top
<1>5. Keeps(p) /\ Len(stack') = p /\ \A i \in 1 .. p : stack'[i] = stack[i]
  BY <1>1, <1>3, <1>4, CutKeeps
<1>6. FrameOK(n)
  BY <1>1 DEF UnwindingInv, StackOK
<1>0. DOMAIN stack = 1 .. n
  BY <1>1
<1>7. ~(n = 1 /\ panicking)
  <2> SUFFICES ASSUME n = 1, panicking PROVE FALSE
    OBVIOUS
  <2>1. PICK k \in DOMAIN stack : stack[k].resume = "panic_raise_body"
    BY <1>1 DEF UnwindingInv, PanicCovered
  <2>3. k = n
    BY <1>0
  <2> QED
    BY <1>6, <2>1, <2>3 DEF FrameOK
<1>8. StackOK' /\ NextOK' /\ ReturningOK' /\ Sorted' /\ DefersConserved'
  <2>1. n \in 1 .. n /\ \A i \in n .. n : stack[i].defers = <<>>
    BY <1>1, <1>2
  <2>2. stack' \in Seq(Frames)
    BY <1>5 DEF Keeps
  <2> QED
    BY <1>1, <1>4, <1>5, <1>7, <2>1, <2>2, FunctionReturns
<1>9. PanicCovered'
  <2>1. CASE next' = "panic_raise_body"
    BY <2>1 DEF PanicCovered
  <2>2. CASE next' # "panic_raise_body"
    <3>1. \A k \in p + 1 .. Len(stack) : stack[k].resume # "panic_raise_body"
      BY <1>3, <1>4, <2>2
    <3> QED
      BY <1>1, <1>4, <1>5, <3>1, StaysCovered DEF UnwindingInv
  <2> QED
    BY <2>1, <2>2
<1>10. UnwindingTypeOK'
  <2>1. next' \in Functions
    BY <1>4, <1>6, <1>1 DEF FrameOK, Functions
  <2>2. stack' \in Seq(Frames)
    BY <1>5 DEF Keeps
  <2> QED
    BY <1>4, <2>1, <2>2 DEF UnwindingInv, UnwindingTypeOK
<1>11. EndsSettled'
  BY <1>4 DEF EndsSettled
<1> QED
  BY <1>8, <1>9, <1>10, <1>11 DEF UnwindingInv

-----------------------------------------------------------------------------
(* Steps of the runtime.                                                   *)

\* What is done with the last element of a sequence when it is taken.
LEMMA PopFacts ==
  ASSUME NEW S, NEW q \in Seq(S), q # <<>>, NEW l, l = Len(q)
  PROVE  /\ l \in Nat /\ l > 0
         /\ Pop(q).entry = q[l] /\ q[l] \in S
         /\ Pop(q).rest \in Seq(S)
         /\ DOMAIN Pop(q).rest = 1 .. l - 1
         /\ DOMAIN q = 1 .. l
         /\ \A a \in 1 .. l - 1 : Pop(q).rest[a] = q[a]
<1>1. l \in Nat /\ l > 0 /\ q[l] \in S /\ DOMAIN q = 1 .. l /\ l - 1 \in 0 .. Len(q)
  OBVIOUS
<1> DEFINE r == SubSeq(q, 1, l - 1)
<1>2. r \in Seq(S) /\ Len(r) = l - 1 /\ \A a \in 1 .. l - 1 : r[a] = q[a]
  BY <1>1, PrefixFacts
<1>3. DOMAIN r = 1 .. l - 1
  BY <1>2
<1> QED
  BY <1>1, <1>2, <1>3 DEF Pop

\* The frames once a deferred call of the frame at k is started above the n-th.
DeferredStarted(n, k, resume) ==
  /\ stack' \in Seq(Frames)
  /\ Len(stack') = n + 1
  /\ \A i \in 1 .. n : i # k => stack'[i] = stack[i]
  /\ stack'[k].kind = stack[k].kind /\ stack'[k].resume = stack[k].resume
  /\ stack'[k].uses = stack[k].uses /\ stack'[k].dead = stack[k].dead
  /\ stack'[k].returning = stack[k].returning
  /\ stack'[k].defers = Pop(stack[k].defers).rest
  /\ stack'[n + 1] \in Frames
  /\ stack'[n + 1].kind = "function" /\ stack'[n + 1].resume = resume
  /\ stack'[n + 1].returning = FALSE /\ stack'[n + 1].dead = FALSE
  /\ stack'[n + 1].defers = <<>>
  /\ next' = "user"
  /\ started' = started \cup {Pop(stack[k].defers).entry}
  /\ UNCHANGED <<panicking, panicData, base, outcome, calls, panics, registered>>

LEMMA RunDeferredFrames ==
  ASSUME UnwindingInv, NEW n \in Nat, n = Len(stack), NEW k \in 1 .. n,
         stack[k].defers # <<>>, NEW resume \in Functions, RunDeferred(k, resume)
  PROVE  DeferredStarted(n, k, resume)
<1> DEFINE rest == Pop(stack[k].defers).rest
           f == [stack[k] EXCEPT !.defers = rest]
<1>1. stack \in Seq(Frames) /\ stack[k] \in Frames
  BY DEF UnwindingInv, UnwindingTypeOK
<1>2. stack[k].defers \in Seq(1 .. MaxDefers)
  BY <1>1 DEF Frames
<1>3. rest \in Seq(1 .. MaxDefers)
  BY <1>2, PopFacts
<1> PICK uses \in BOOLEAN :
         stack' = Append([stack EXCEPT ![k].defers = rest], Deferred(resume, uses))
  BY DEF RunDeferred
<1> DEFINE g == FunctionFrame(resume, uses)
<1>4. stack' = Append([stack EXCEPT ![k] = f], g)
  BY DEF Deferred
<1>5. /\ next' = "user"
      /\ started' = started \cup {Pop(stack[k].defers).entry}
      /\ UNCHANGED <<panicking, panicData, base, outcome, calls, panics, registered>>
  BY DEF RunDeferred
<1> HIDE DEF rest
<1>6. /\ f \in Frames
      /\ f.kind = stack[k].kind /\ f.resume = stack[k].resume /\ f.uses = stack[k].uses
      /\ f.returning = stack[k].returning /\ f.dead = stack[k].dead /\ f.defers = rest
  BY <1>1, <1>3, SetDefers
<1>7. /\ g \in Frames
      /\ g.kind = "function" /\ g.resume = resume
      /\ g.returning = FALSE /\ g.dead = FALSE /\ g.defers = <<>>
  BY NewFunctionFrame
<1> HIDE DEF f, g
<1>8. /\ stack' \in Seq(Frames)
      /\ Len(stack') = n + 1
      /\ \A i \in 1 .. n : i # k => stack'[i] = stack[i]
      /\ stack'[k] = f
      /\ stack'[n + 1] = g
  <2>1. k \in 1 .. Len(stack)
    OBVIOUS
  <2>2. f \in Frames /\ g \in Frames
    BY <1>6, <1>7
  <2> QED
    BY <1>1, <1>4, <2>1, <2>2, PushReplaced
<1> QED
  BY <1>5, <1>6, <1>7, <1>8 DEF rest, DeferredStarted

\* A deferred call is started: it is the newest of those that wait, and the
\* others wait on.
LEMMA NewestTaken ==
  ASSUME UnwindingInv, NEW n \in Nat, n = Len(stack), NEW k \in 1 .. n, k = n - 1,
         stack[n].defers = <<>>, stack[k].defers # <<>>,
         NEW resume \in Functions, RunDeferred(k, resume)
  PROVE  /\ Sorted' /\ DefersConserved'
         /\ started' \subseteq 1 .. registered
         /\ \A d \in started' \ started : \A e \in Pending : e <= d
<1> PICK l : l = Len(stack[k].defers)
  OBVIOUS
<1> PICK d : d = stack[k].defers[l]
  OBVIOUS
<1>1. /\ stack \in Seq(Frames) /\ registered \in Nat /\ started \subseteq 1 .. registered
      /\ Sorted /\ DefersConserved
  BY UnwindingConstants DEF UnwindingInv, UnwindingTypeOK
<1>2. stack[k].defers \in Seq(1 .. MaxDefers)
  <2>1. stack[k] \in Frames
    BY <1>1
  <2> QED
    BY <2>1 DEF Frames
<1>3. /\ l \in Nat /\ l > 0 /\ Pop(stack[k].defers).entry = d
      /\ DOMAIN stack[k].defers = 1 .. l
      /\ DOMAIN Pop(stack[k].defers).rest = 1 .. l - 1
      /\ \A a \in 1 .. l - 1 : Pop(stack[k].defers).rest[a] = stack[k].defers[a]
  BY <1>2, PopFacts
<1>4. /\ stack' \in Seq(Frames) /\ Len(stack') = n + 1
      /\ \A i \in 1 .. n : i # k => stack'[i] = stack[i]
      /\ stack'[k].defers = Pop(stack[k].defers).rest
      /\ stack'[n + 1].defers = <<>>
      /\ started' = started \cup {Pop(stack[k].defers).entry}
      /\ registered' = registered
  BY RunDeferredFrames DEF DeferredStarted
<1>4a. started' = started \cup {d}
  BY <1>3, <1>4
<1>4b. /\ DOMAIN stack'[k].defers = 1 .. l - 1
       /\ \A a \in 1 .. l - 1 : a \in 1 .. l /\ a < l /\ stack'[k].defers[a] = stack[k].defers[a]
  BY <1>3, <1>4
<1>5. DOMAIN stack = 1 .. n /\ DOMAIN stack' = 1 .. n + 1 /\ DOMAIN <<>> = {}
  BY <1>1, <1>4
<1>6. \A j \in 1 .. n + 1 : \A a \in DOMAIN stack'[j].defers :
         /\ j \in 1 .. n
         /\ a \in DOMAIN stack[j].defers
         /\ stack'[j].defers[a] = stack[j].defers[a]
         /\ j = k => a < l
  <2> TAKE j \in 1 .. n + 1
  <2>1. CASE j = n + 1
    BY <2>1, <1>4, <1>5
  <2>2. CASE j = k
    BY <2>2, <1>3, <1>4b
  <2>3. CASE j # n + 1 /\ j # k
    BY <2>3, <1>4
  <2> QED
    BY <2>1, <2>2, <2>3
<1>7. \A j \in 1 .. n : \A a \in DOMAIN stack[j].defers :
         \/ j = k /\ a = l
         \/ /\ a \in DOMAIN stack'[j].defers
            /\ stack'[j].defers[a] = stack[j].defers[a]
  <2> TAKE j \in 1 .. n
  <2>1. CASE j = k
    <3>1. \A a \in 1 .. l : a = l \/ a \in 1 .. l - 1
      BY <1>3
    <3> QED
      BY <2>1, <3>1, <1>3, <1>4b
  <2>2. CASE j # k
    BY <2>2, <1>4
  <2> QED
    BY <2>1, <2>2
<1>8. \A j \in 1 .. n : \A a \in DOMAIN stack[j].defers :
         (j = k /\ a = l) \/ stack[j].defers[a] < d
  <2> TAKE j \in 1 .. n
  <2> TAKE a \in DOMAIN stack[j].defers
  <2>1. j # n
    BY <1>5
  <2>2. j < k \/ j = k
    BY <2>1
  <2>3. l \in DOMAIN stack[k].defers
    BY <1>3
  <2>4. CASE j < k
    BY <2>3, <2>4, <1>1, <1>5 DEF Sorted
  <2>5. CASE j = k /\ a # l
    <3>1. a < l
      BY <2>5, <1>3
    <3> QED
      BY <2>3, <2>5, <3>1, <1>1, <1>5 DEF Sorted
  <2> QED
    BY <2>2, <2>4, <2>5
<1>9. \A e : e \in Pending <=> \E j \in 1 .. n : \E a \in DOMAIN stack[j].defers : e = stack[j].defers[a]
  BY <1>5 DEF Pending, PendingIn
<1>10. \A e : e \in Pending' <=> \E j \in 1 .. n + 1 : \E a \in DOMAIN stack'[j].defers : e = stack'[j].defers[a]
  BY <1>5 DEF Pending, PendingIn
<1>11. d \in Pending /\ d \in 1 .. registered
  <2>1. d \in Pending
    <3>1. l \in DOMAIN stack[k].defers
      BY <1>3
    <3> QED
      BY <3>1, <1>9
  <2> QED
    BY <2>1, <1>1 DEF DefersConserved
<1>12. Sorted'
  <2> SUFFICES ASSUME NEW i \in 1 .. n + 1, NEW j \in 1 .. n + 1,
                      NEW a \in DOMAIN stack'[i].defers, NEW b \in DOMAIN stack'[j].defers,
                      i < j \/ (i = j /\ a < b)
               PROVE  stack'[i].defers[a] < stack'[j].defers[b]
    BY <1>5 DEF Sorted
  <2>1. /\ i \in DOMAIN stack /\ a \in DOMAIN stack[i].defers
        /\ stack'[i].defers[a] = stack[i].defers[a]
    BY <1>5, <1>6
  <2>2. /\ j \in DOMAIN stack /\ b \in DOMAIN stack[j].defers
        /\ stack'[j].defers[b] = stack[j].defers[b]
    BY <1>5, <1>6
  <2> QED
    BY <2>1, <2>2, <1>1 DEF Sorted
<1>13. \A e : e \in Pending' <=> e \in Pending /\ e # d
  <2> TAKE e
  <2>1. ASSUME e \in Pending' PROVE e \in Pending /\ e # d
    <3>1. PICK j \in 1 .. n + 1 : \E a \in DOMAIN stack'[j].defers : e = stack'[j].defers[a]
      BY <2>1, <1>10
    <3>2. PICK a \in DOMAIN stack'[j].defers : e = stack'[j].defers[a]
      BY <3>1
    <3>3. j \in 1 .. n /\ a \in DOMAIN stack[j].defers /\ e = stack[j].defers[a] /\ (j = k => a < l)
      BY <3>2, <1>6
    <3>4. e < d
      BY <3>3, <1>3, <1>8
    <3>5. e \in Pending
      BY <3>3, <1>9
    <3> QED
      BY <3>4, <3>5, <1>11
  <2>2. ASSUME e \in Pending, e # d PROVE e \in Pending'
    <3>1. PICK j \in 1 .. n : \E a \in DOMAIN stack[j].defers : e = stack[j].defers[a]
      BY <2>2, <1>9
    <3>2. PICK a \in DOMAIN stack[j].defers : e = stack[j].defers[a]
      BY <3>1
    <3>3. a \in DOMAIN stack'[j].defers /\ e = stack'[j].defers[a]
      BY <2>2, <3>2, <1>7
    <3>4. j \in 1 .. n + 1
      OBVIOUS
    <3> QED
      BY <3>3, <3>4, <1>10
  <2> QED
    BY <2>1, <2>2
<1>14. DefersConserved'
  <2>1. \A e : e \in Pending <=> e \in 1 .. registered \ started
    BY <1>1 DEF DefersConserved
  <2>2. \A e : e \in Pending' <=> e \in 1 .. registered' \ started'
    BY <2>1, <1>4, <1>4a, <1>13
  <2> QED
    BY <2>2 DEF DefersConserved
<1>15. \A e \in Pending : e <= d
  <2> TAKE e \in Pending
  <2>1. PICK j \in 1 .. n : \E a \in DOMAIN stack[j].defers : e = stack[j].defers[a]
    BY <1>9
  <2>2. e = d \/ e < d
    BY <2>1, <1>8
  <2>3. e \in 1 .. registered
    BY <1>1 DEF DefersConserved
  <2> QED
    BY <2>2, <2>3, <1>11
<1> QED
  BY <1>1, <1>4a, <1>11, <1>12, <1>14, <1>15

\* A deferred call is started by the runtime frame on top.
LEMMA RunDeferredStep ==
  ASSUME UnwindingInv, outcome = "running", NEW n \in Nat, n = Len(stack),
         NEW k \in 1 .. n, k = n - 1, NEW resume \in {"defer_execute", "panic_raise_body"},
         Ready(resume, n), MayRaise(n), stack[k].defers # <<>>,
         panicking /\ resume = "defer_execute" =>
           \E i \in DOMAIN stack : stack[i].resume = "panic_raise_body",
         RunDeferred(k, resume)
  PROVE  UnwindingInv'
<1>1. /\ stack \in Seq(Frames) /\ n > 1 /\ resume \in Functions /\ FrameOK(n) /\ n \in 1 .. n
      /\ DOMAIN stack = 1 .. n
  BY DEF UnwindingInv, UnwindingTypeOK, StackOK, Functions
<1>2. /\ stack[n].defers = <<>> /\ stack[k].kind = "function" /\ Open(k)
  BY DEF MayRaise, Unwindable
<1>3. /\ stack' \in Seq(Frames)
      /\ Len(stack') = n + 1
      /\ \A i \in 1 .. n : i # k => stack'[i] = stack[i]
      /\ stack'[k].kind = stack[k].kind /\ stack'[k].resume = stack[k].resume
      /\ stack'[k].uses = stack[k].uses /\ stack'[k].dead = stack[k].dead
      /\ stack'[k].returning = stack[k].returning
      /\ stack'[n + 1] \in Frames
      /\ stack'[n + 1].kind = "function" /\ stack'[n + 1].resume = resume
      /\ stack'[n + 1].returning = FALSE /\ stack'[n + 1].dead = FALSE
      /\ stack'[n + 1].defers = <<>>
      /\ next' = "user"
      /\ UNCHANGED <<panicking, panicData, base, outcome, calls, panics, registered>>
  <2>1. DeferredStarted(n, k, resume)
    BY <1>1, RunDeferredFrames
  <2> QED
    BY <2>1 DEF DeferredStarted
<1>4. Keeps(n)
  <2>1. ASSUME NEW i \in 1 .. n
        PROVE  /\ stack'[i].kind = stack[i].kind
               /\ stack'[i].resume = stack[i].resume
               /\ stack'[i].uses = stack[i].uses
               /\ stack'[i].dead = stack[i].dead
               /\ stack'[i].returning = stack[i].returning
               /\ stack[i].defers = <<>> => stack'[i].defers = <<>>
    <3>1. CASE i = k
      BY <3>1, <1>3
    <3>2. CASE i # k
      BY <3>2, <1>3
    <3> QED
      BY <3>1, <3>2
  <2> QED
    BY <2>1, <1>1, <1>3 DEF Keeps
<1>5. ASSUME resume = "defer_execute" PROVE Ready(resume, n)' /\ ~stack[n].dead
  <2>1. MayExecute(n)
    BY <1>5 DEF Ready
  <2>2. /\ stack[n].kind = "deferExecute" /\ ~stack[n].dead
        /\ Unwindable(k) /\ ~stack[k].dead
    BY <2>1 DEF MayExecute, MayRunUser
  <2>3. stack'[n].kind = "deferExecute" /\ ~stack'[n].dead /\ ~stack'[k].dead
    BY <2>2, <1>1, <1>3 DEF Keeps
  <2>4. Unwindable(k)'
    BY <1>1, <1>4, <2>2, UnwindableKept
  <2>5. MayExecute(n)'
    BY <2>3, <2>4 DEF MayExecute, MayRunUser
  <2> QED
    BY <1>5, <2>2, <2>5 DEF Ready
<1>6. ASSUME resume = "panic_raise_body" PROVE Ready(resume, n)'
  <2>1. Unwindable(k) /\ stack[n].defers = <<>>
    BY <1>1, <1>2 DEF Unwindable
  <2>2. Unwindable(k)'
    BY <1>1, <1>4, <2>1, UnwindableKept
  <2>3. stack'[n].defers = <<>>
    BY <2>1, <1>1, <1>3
  <2>4. MayRaise(n)'
    BY <2>2, <2>3 DEF MayRaise
  <2> QED
    BY <1>6, <2>4 DEF Ready
<1>7. StackOK' /\ NextOK' /\ ReturningOK'
  <2> PICK top \in Nat : top = n + 1
    OBVIOUS
  <2> PICK g \in Frames : g = stack'[n + 1]
    BY <1>3
  <2>1. Ready(resume, n)'
    BY <1>5, <1>6
  <2>2. Open(top)'
    <3>1. CASE resume = "panic_raise_body"
      BY <3>1, <1>3 DEF Open
    <3>2. CASE resume = "defer_execute"
      <4>1. ~stack'[n].dead
        BY <3>2, <1>1, <1>3, <1>5
      <4>2. top - 1 = n
        OBVIOUS
      <4> QED
        BY <4>1, <4>2 DEF Open
    <3> QED
      BY <3>1, <3>2
  <2>3. /\ g.kind = "function" /\ g.resume = resume /\ ~g.dead /\ ~g.returning
        /\ g.defers = <<>> /\ g.resume # "user"
    BY <1>3
  <2>4. Open(top)' => Ready(g.resume, n)'
    BY <2>1, <2>3
  <2>5. g.resume \in {"user", "defer_execute", "panic_raise_body"}
    BY <2>3
  <2>6. n > 0 /\ StackOK
    BY <1>1 DEF UnwindingInv
  <2> QED
    BY <1>3, <1>4, <2>2, <2>3, <2>4, <2>5, <2>6, PushFunction
<1>8. PanicCovered'
  <2>1. DOMAIN stack' = 1 .. n + 1
    BY <1>3
  <2>2. CASE resume = "panic_raise_body"
    BY <2>1, <2>2, <1>3 DEF PanicCovered
  <2>3. CASE resume = "defer_execute"
    BY <2>1, <2>3, <1>1, <1>3, <1>4 DEF PanicCovered, Keeps
  <2> QED
    BY <2>2, <2>3
<1>9. Sorted' /\ DefersConserved' /\ started' \subseteq 1 .. registered
  BY <1>1, <1>2, NewestTaken
<1>10. UnwindingTypeOK'
  BY <1>3, <1>9 DEF UnwindingInv, UnwindingTypeOK, Functions
<1>11. EndsSettled'
  BY <1>3 DEF EndsSettled
<1> QED
  BY <1>7, <1>8, <1>9, <1>10, <1>11 DEF UnwindingInv

\* What defer_execute finds.
LEMMA ExecuteTop ==
  ASSUME UnwindingInv, outcome = "running", next = "defer_execute",
         NEW n \in Nat, n = Len(stack)
  PROVE  /\ stack \in Seq(Frames) /\ n > 1 /\ n - 1 \in 1 .. n /\ n \in 1 .. n
         /\ Prev(stack) = n - 1
         /\ Ready("defer_execute", n) /\ MayRunUser(n - 1)
         /\ stack[n].kind = "deferExecute" /\ stack[n].resume = "user"
         /\ MayRaise(n)
<1>1. stack \in Seq(Frames) /\ Ready("defer_execute", n)
  BY DEF UnwindingInv, UnwindingTypeOK, NextOK
<1>2. MayExecute(n)
  BY <1>1 DEF Ready
<1>3. n > 1 /\ MayRunUser(n - 1) /\ stack[n].kind = "deferExecute"
  BY <1>2 DEF MayExecute, MayRunUser, Unwindable
<1>4. FrameOK(n)
  BY <1>1, <1>3 DEF UnwindingInv, StackOK
<1> QED
  BY <1>1, <1>3, <1>4 DEF FrameOK, MayRaise, Prev

LEMMA DeferExecuteStep ==
  ASSUME UnwindingInv, outcome = "running", DeferExecute
  PROVE  UnwindingInv'
<1>0. next = "defer_execute" /\ stack \in Seq(Frames)
  BY DEF DeferExecute, UnwindingInv, UnwindingTypeOK
<1> PICK n \in Nat : n = Len(stack)
  BY <1>0
<1>1. /\ n > 1 /\ n - 1 \in 1 .. n /\ n \in 1 .. n
      /\ Prev(stack) = n - 1
      /\ Ready("defer_execute", n) /\ MayRunUser(n - 1)
      /\ stack[n].kind = "deferExecute" /\ stack[n].resume = "user"
      /\ MayRaise(n) /\ stack[n].defers = <<>>
  BY <1>0, ExecuteTop DEF MayRaise
<1> PICK k \in 1 .. n : k = n - 1
  BY <1>1
<1>2. CASE stack[k].defers # <<>>
  <2>1. RunDeferred(k, "defer_execute")
    BY <1>1, <1>2 DEF DeferExecute
  <2>2. panicking => \E i \in DOMAIN stack : stack[i].resume = "panic_raise_body"
    BY <1>0 DEF UnwindingInv, PanicCovered
  <2> QED
    BY <1>1, <1>2, <2>1, <2>2, RunDeferredStep
<1>3. CASE stack[k].defers = <<>>
  <2>1. /\ stack' = SubSeq(stack, 1, k)
        /\ next' = "user"
        /\ UNCHANGED <<panicking, panicData, base, outcome, calls, panics, registered, started>>
    BY <1>1, <1>3 DEF DeferExecute, Popped, Top
  <2>2. k \in 0 .. Len(stack)
    OBVIOUS
  <2>3. Keeps(k) /\ Len(stack') = k /\ \A i \in 1 .. k : stack'[i] = stack[i]
    BY <1>0, <2>1, <2>2, CutKeeps
  <2>4. StackOK'
    BY <2>3, CutKeepsStackOK DEF UnwindingInv
  <2>5. k \in 1 .. k
    OBVIOUS
  <2>6. MayRunUser(k)'
    BY <1>1, <2>3, <2>5, CutReady
  <2>7. NextOK'
    BY <2>1, <2>3, <2>6 DEF NextOK, Ready
  <2>8. ReturningOK'
    BY <1>3, <2>3, <2>5 DEF ReturningOK, Top
  <2>9. \A i \in k + 1 .. n : i = n
    OBVIOUS
  <2>10. PanicCovered'
    <3>1. \A i \in k + 1 .. Len(stack) : stack[i].resume # "panic_raise_body"
      BY <1>1, <2>9
    <3> QED
      BY <1>0, <2>1, <2>3, <3>1, StaysCovered DEF UnwindingInv
  <2>11. QuietAbove(k)
    BY <1>0, <1>1, <2>3, <2>9 DEF QuietAbove, Keeps
  <2>12. Sorted' /\ DefersConserved'
    BY <2>1, <2>11, QuietStep DEF UnwindingInv
  <2>13. UnwindingTypeOK'
    BY <2>1, <2>3 DEF UnwindingInv, UnwindingTypeOK, Functions, Keeps
  <2>14. EndsSettled'
    BY <2>1 DEF EndsSettled
  <2> QED
    BY <2>4, <2>7, <2>8, <2>10, <2>12, <2>13, <2>14 DEF UnwindingInv
<1> QED
  BY <1>2, <1>3

\* What panic_raise_body finds: the frame of a panic, or one the panic leaves.
LEMMA RaiseTop ==
  ASSUME UnwindingInv, outcome = "running", next = "panic_raise_body",
         NEW n \in Nat, n = Len(stack)
  PROVE  /\ stack \in Seq(Frames) /\ n > 0 /\ n \in 1 .. n /\ DOMAIN stack = 1 .. n
         /\ stack[n].defers = <<>>
         /\ MayRaise(n) \/ Leaving(n)
<1>1. stack \in Seq(Frames) /\ (MayRaise(n) \/ Leaving(n))
  BY DEF UnwindingInv, UnwindingTypeOK, NextOK, Ready
<1>2. n > 0 /\ stack[n].defers = <<>>
  BY <1>1 DEF MayRaise, Unwindable, Leaving
<1> QED
  BY <1>1, <1>2

\* A step that leaves the stack alone and ends the goroutine.
LEMMA EndStep ==
  ASSUME UnwindingInv, next' = next, next # "user",
         UNCHANGED <<stack, panicData, base, calls, panics, registered, started>>,
         panicking' \in BOOLEAN,
         outcome' \in {"terminated", "exited", "aborted", "undefined"},
         outcome' # "undefined" => Pending = {} /\ ~panicking'
  PROVE  UnwindingInv'
<1>1. StackOK' /\ Sorted' /\ DefersConserved' /\ Pending' = Pending
  BY SameStack
<1>2. NextOK' /\ ReturningOK' /\ PanicCovered'
  BY DEF NextOK, ReturningOK, PanicCovered
<1>3. EndsSettled'
  BY <1>1 DEF EndsSettled
<1>4. UnwindingTypeOK'
  BY DEF UnwindingInv, UnwindingTypeOK
<1> QED
  BY <1>1, <1>2, <1>3, <1>4 DEF UnwindingInv

\* The frame that the panic leaves next, once nothing is deferred in it.
LEMMA NextToLeave ==
  ASSUME UnwindingInv, panicking, NEW m \in Nat, m \in 1 .. Len(stack),
         stack[m].kind = "function", Open(m), stack[m].defers = <<>>,
         m = 1 => base.words > 0
  PROVE  MayRaise(m) \/ Leaving(m)
<1>1. FrameOK(m)
  BY DEF UnwindingInv, UnwindingTypeOK, StackOK
<1>2. CASE m = 1
  BY <1>2 DEF Leaving
<1>3. CASE m # 1
  <2> PICK j \in Nat : j = m - 1
    OBVIOUS
  <2>1. Ready(stack[m].resume, j) /\ j > 0 /\ j \in 1 .. Len(stack)
    BY <1>1, <1>3 DEF FrameOK
  <2>2. FrameOK(j)
    BY <2>1 DEF UnwindingInv, UnwindingTypeOK, StackOK
  <2>3. CASE MayRunUser(j)
    BY <2>3 DEF MayRunUser, MayRaise
  <2>4. CASE MayExecute(j)
    <3>1. MayRaise(j)
      BY <2>2, <2>4 DEF MayExecute, FrameOK
    <3> QED
      BY <1>3, <3>1 DEF Leaving
  <2>5. CASE MayRaise(j)
    BY <1>3, <2>5 DEF Leaving
  <2> QED
    BY <2>1, <2>3, <2>4, <2>5 DEF Ready
<1> QED
  BY <1>2, <1>3

\* The panic leaves the frame above m, where nothing is deferred either.
LEMMA LeaveStep ==
  ASSUME UnwindingInv, outcome = "running", next = "panic_raise_body", panicking,
         NEW n \in Nat, n = Len(stack), NEW m \in 1 .. n, m = n - 1,
         stack[n].defers = <<>>, MayRaise(m) \/ Leaving(m),
         stack' = Left(SubSeq(stack, 1, m)),
         UNCHANGED <<next, panicking, panicData, base, outcome, calls, panics, registered, started>>
  PROVE  UnwindingInv'
<1> DEFINE s == SubSeq(stack, 1, m)
<1>1. stack \in Seq(Frames) /\ m \in 0 .. Len(stack) /\ m \in Nat
  BY DEF UnwindingInv, UnwindingTypeOK
<1>2. s \in Seq(Frames) /\ Len(s) = m /\ \A i \in 1 .. m : s[i] = stack[i]
  BY <1>1, PrefixFacts
<1>3. DOMAIN s = 1 .. m
  BY <1>2
<1> HIDE DEF s
<1>4. \A i \in 1 .. m : stack[i] \in Frames
  BY <1>1
<1>5. stack' = [i \in 1 .. m |-> IF i = m - 1 THEN [stack[i] EXCEPT !.dead = TRUE] ELSE stack[i]]
  BY <1>2, <1>3 DEF Left, s
<1>6. \A i \in 1 .. m :
         /\ stack'[i] \in Frames
         /\ stack'[i].kind = stack[i].kind /\ stack'[i].resume = stack[i].resume
         /\ stack'[i].uses = stack[i].uses /\ stack'[i].returning = stack[i].returning
         /\ stack'[i].defers = stack[i].defers
         /\ i = m - 1 => stack'[i].dead
         /\ i # m - 1 => stack'[i].dead = stack[i].dead
  <2> TAKE i \in 1 .. m
  <2>1. CASE i = m - 1
    <3>1. stack'[i] = [stack[i] EXCEPT !.dead = TRUE] /\ stack[i] \in Frames
      BY <2>1, <1>4, <1>5
    <3> DEFINE f == stack[i]
               g == [f EXCEPT !.dead = TRUE]
    <3>2. /\ g \in Frames
          /\ g.kind = f.kind /\ g.resume = f.resume /\ g.uses = f.uses
          /\ g.returning = f.returning /\ g.dead = TRUE /\ g.defers = f.defers
      BY <3>1, SetDead
    <3>3. stack'[i] = g
      BY <3>1
    <3> HIDE DEF g
    <3> QED
      BY <2>1, <3>2, <3>3
  <2>2. CASE i # m - 1
    BY <2>2, <1>4, <1>5
  <2> QED
    BY <2>1, <2>2
<1>7. stack' \in Seq(Frames) /\ Len(stack') = m
  <2>1. stack' \in [1 .. m -> Frames]
    BY <1>5, <1>6
  <2> QED
    BY <1>1, <2>1
<1>8. Keeps(m)
  <2>1. ASSUME NEW i \in 1 .. m
        PROVE  /\ stack'[i].kind = stack[i].kind
               /\ stack'[i].resume = stack[i].resume
               /\ stack'[i].uses = stack[i].uses
               /\ i < m - 1 => stack'[i].dead = stack[i].dead
               /\ stack[i].dead => stack'[i].dead
               /\ stack'[i].returning = stack[i].returning
               /\ stack[i].defers = <<>> => stack'[i].defers = <<>>
    BY <1>6
  <2>2. m <= Len(stack) /\ m <= Len(stack') /\ base' = base
    BY <1>1, <1>7
  <2> QED
    BY <1>1, <1>7, <2>1, <2>2 DEF Keeps
<1>9. StackOK'
  BY <1>7, <1>8, CutKeepsStackOK DEF UnwindingInv
<1>10. \A i \in 1 .. m : MayRaise(i) => MayRaise(i)'
  <2> TAKE i \in 1 .. m
  <2> SUFFICES ASSUME MayRaise(i) PROVE MayRaise(i)'
    OBVIOUS
  <2> PICK j \in 1 .. m : j = i - 1
    <3>1. i - 1 > 0
      BY DEF MayRaise, Unwindable
    <3> QED
      BY <3>1
  <2>1. Unwindable(j) /\ j < m
    BY DEF MayRaise
  <2>2. Unwindable(j)'
    BY <1>8, <2>1, UnwindableKept
  <2> QED
    BY <2>2, <1>6 DEF MayRaise
<1>11. (MayRaise(m) \/ Leaving(m))'
  <2>1. CASE MayRaise(m)
    BY <2>1, <1>10
  <2>2. CASE Leaving(m) /\ m = 1
    <3>1. stack[m].defers = <<>> /\ m > 0 /\ base.words > 0 /\ m \in 1 .. m
      BY <2>2 DEF Leaving
    <3>2. stack'[m].defers = <<>>
      BY <3>1, <1>6
    <3> QED
      BY <2>2, <3>1, <3>2 DEF Leaving
  <2>3. CASE Leaving(m) /\ m # 1
    <3> PICK j \in 1 .. m : j = m - 1
      BY <2>3
    <3>1. MayRaise(j)
      BY <2>3 DEF Leaving
    <3>2. MayRaise(j)'
      BY <3>1, <1>10
    <3>3. stack'[m].defers = <<>> /\ m > 0
      BY <2>3, <1>6 DEF Leaving
    <3> QED
      BY <2>3, <3>2, <3>3 DEF Leaving
  <2> QED
    BY <2>1, <2>2, <2>3
<1>12. NextOK'
  <2>1. m = Len(stack')
    BY <1>7
  <2> QED
    BY <1>11, <2>1 DEF NextOK, Ready
<1>13. ReturningOK' /\ PanicCovered'
  BY DEF ReturningOK, PanicCovered
<1>14. QuietAbove(m)
  <2>1. \A i \in m + 1 .. Len(stack) : i = n
    OBVIOUS
  <2> QED
    BY <1>1, <1>6, <1>7, <2>1 DEF QuietAbove
<1>15. Sorted' /\ DefersConserved'
  BY <1>14, QuietStep DEF UnwindingInv
<1>16. UnwindingTypeOK'
  BY <1>7 DEF UnwindingInv, UnwindingTypeOK
<1>17. EndsSettled'
  BY DEF EndsSettled
<1> QED
  BY <1>9, <1>12, <1>13, <1>15, <1>16, <1>17 DEF UnwindingInv

LEMMA PanicRaiseBodyStep ==
  ASSUME UnwindingInv, outcome = "running", PanicRaiseBody
  PROVE  UnwindingInv'
<1>0. next = "panic_raise_body" /\ stack \in Seq(Frames)
  BY DEF PanicRaiseBody, UnwindingInv, UnwindingTypeOK
<1> PICK n \in Nat : n = Len(stack)
  BY <1>0
<1>1. /\ n > 0 /\ n \in 1 .. n /\ DOMAIN stack = 1 .. n
      /\ stack[n].defers = <<>>
      /\ MayRaise(n) \/ Leaving(n)
  BY <1>0, RaiseTop
<1>2. base.words \in Nat /\ panicking \in BOOLEAN
  BY DEF UnwindingInv, UnwindingTypeOK
\* The panic has left the first frame, above a result.
<1>3. CASE n = 1
  <2>1. panicking /\ base.words > 0
    BY <1>1, <1>3 DEF MayRaise, Unwindable, Leaving
  <2>2. Pending = {}
    BY <1>1, <1>3, NothingPending
  <2>3. Prev(stack) = 0
    BY <1>3, <2>1 DEF Prev
  <2>4. CASE NoDefersBelow
    <3>1. Settle(Popped(stack)) /\ UNCHANGED <<panicData, base, calls, panics, registered, started>>
      BY <2>3, <2>4 DEF PanicRaiseBody
    <3>2. IsStackEmpty(Popped(stack))
      <4>1. SubSeq(stack, 1, 0) \in Seq(Frames) /\ Len(SubSeq(stack, 1, 0)) = 0
        <5>1. 0 \in 0 .. Len(stack)
          OBVIOUS
        <5> QED
          BY <1>0, <5>1, PrefixFacts
      <4> QED
        BY <2>1, <2>3, <4>1 DEF Popped, IsStackEmpty
    <3>3. Crash /\ UNCHANGED <<stack, next>>
      BY <2>1, <3>1, <3>2 DEF Settle
    <3>4. panicking' = FALSE /\ outcome' \in {"exited", "aborted"}
      BY <3>3 DEF Crash
    <3> QED
      BY <1>0, <2>2, <3>1, <3>3, <3>4, EndStep
  <2>5. CASE ~NoDefersBelow
    <3>1. outcome' = "undefined" /\ UNCHANGED <<stack, next, panicking, panicData, base,
                                               calls, panics, registered, started>>
      BY <2>3, <2>5 DEF PanicRaiseBody
    <3> QED
      BY <1>0, <1>2, <3>1, EndStep
  <2> QED
    BY <2>4, <2>5
<1>4. CASE n # 1
  <2> PICK m \in 1 .. n : m = n - 1
    BY <1>1, <1>4
  <2>1. Prev(stack) = m /\ m # 0 /\ m \in 1 .. Len(stack) /\ m \in Nat /\ m \in 0 .. Len(stack)
    BY <1>4 DEF Prev
  <2>2. CASE stack[m].defers # <<>>
    <3>1. RunDeferred(m, "panic_raise_body")
      BY <2>1, <2>2 DEF PanicRaiseBody
    <3>2. MayRaise(n)
      BY <1>1, <1>4, <2>2 DEF Leaving, MayRaise
    <3>3. Ready("panic_raise_body", n)
      BY <3>2 DEF Ready
    <3> QED
      BY <3>1, <3>2, <3>3, <2>2, RunDeferredStep
  <2>3. CASE stack[m].defers = <<>>
    <3> DEFINE below == SubSeq(stack, 1, m)
    <3>1. Settle(below) /\ UNCHANGED <<panicData, base, calls, panics, registered, started>>
      BY <2>1, <2>3 DEF PanicRaiseBody, Popped
    <3>2. below \in Seq(Frames) /\ Len(below) = m /\ \A i \in 1 .. m : below[i] = stack[i]
      BY <1>0, <2>1, PrefixFacts
    <3>3. CASE panicking /\ IsStackEmpty(below)
      <4>1. Crash /\ UNCHANGED <<stack, next>>
        BY <3>1, <3>3 DEF Settle
      <4>2. panicking' = FALSE /\ outcome' \in {"exited", "aborted"}
        BY <4>1 DEF Crash
      <4>3. m = 1 /\ n = 1 + 1
        BY <2>1, <3>2, <3>3 DEF IsStackEmpty
      <4>4. \A k \in DOMAIN stack : k = m \/ k = n
        BY <1>1, <4>3
      <4>5. Pending = {}
        BY <1>1, <2>3, <4>4, NothingPending
      <4> QED
        BY <1>0, <3>1, <4>1, <4>2, <4>5, EndStep
    <3>4. CASE panicking /\ ~IsStackEmpty(below)
      <4>1. stack' = Left(below) /\ UNCHANGED <<next, panicking, outcome>>
        BY <3>1, <3>4 DEF Settle
      <4>2. m = 1 => base.words > 0
        BY <1>2, <3>2, <3>4 DEF IsStackEmpty
      <4>3. MayRaise(m) \/ Leaving(m)
        <5>1. CASE MayRaise(n)
          <6>1. stack[m].kind = "function" /\ Open(m)
            BY <5>1 DEF MayRaise, Unwindable
          <6> QED
            BY <2>1, <2>3, <3>4, <4>2, <6>1, NextToLeave
        <5>2. CASE Leaving(n)
          BY <1>4, <5>2 DEF Leaving
        <5> QED
          BY <1>1, <5>1, <5>2
      <4> QED
        BY <1>0, <1>1, <3>1, <3>4, <4>1, <4>3, LeaveStep
    <3>5. CASE ~panicking
      <4>1. /\ stack' = Popped(below) /\ next' = below[Len(below)].resume
            /\ UNCHANGED <<panicking, outcome>>
        BY <3>1, <3>5 DEF Settle
      <4>2. MayRaise(n)
        BY <1>1, <3>5 DEF Leaving
      <4>3. stack[m].kind = "function" /\ Open(m)
        BY <4>2 DEF MayRaise, Unwindable
      <4>4. next' = stack[m].resume
        BY <2>1, <3>2, <4>1
      <4> PICK p \in Nat : p = IF m = 1 /\ base.words = 0 THEN 1 ELSE m - 1
        OBVIOUS
      <4>5. p \in 0 .. Len(below) /\ stack' = SubSeq(below, 1, p) /\ p <= m
        BY <3>2, <4>1 DEF Popped, Prev
      <4> HIDE DEF below
      <4>6. /\ stack' \in Seq(Frames) /\ Len(stack') = p
            /\ \A i \in 1 .. p : stack'[i] = below[i]
        BY <3>2, <4>5, PrefixFacts
      <4>7. \A i \in 1 .. p : stack'[i] = stack[i]
        BY <3>2, <4>5, <4>6
      <4>8. \A i \in m .. n : i = m \/ i = n
        OBVIOUS
      <4>9. \A i \in m .. n : stack[i].defers = <<>>
        BY <1>1, <2>3, <4>8
      <4>10. StackOK' /\ NextOK' /\ ReturningOK' /\ Sorted' /\ DefersConserved'
        BY <3>1, <3>5, <4>1, <4>3, <4>4, <4>6, <4>7, <4>9, FunctionReturns
      <4>11. PanicCovered' /\ EndsSettled'
        BY <3>5, <4>1 DEF PanicCovered, EndsSettled
      <4>12. UnwindingTypeOK'
        <5>1. FrameOK(m)
          BY <1>1 DEF UnwindingInv, StackOK
        <5>2. next' \in Functions
          BY <4>3, <4>4, <5>1 DEF FrameOK, Functions
        <5> QED
          BY <3>1, <4>1, <4>6, <5>2 DEF UnwindingInv, UnwindingTypeOK
      <4> QED
        BY <4>10, <4>11, <4>12 DEF UnwindingInv
    <3> QED
      BY <1>2, <3>3, <3>4, <3>5
  <2> QED
    BY <2>2, <2>3
<1> QED
  BY <1>3, <1>4

LEMMA EnterMainStep ==
  ASSUME UnwindingInv, outcome = "running", EnterMain
  PROVE  UnwindingInv'
<1> PICK uses \in BOOLEAN : stack' = <<FunctionFrame("terminate", uses)>>
  BY DEF EnterMain
<1> DEFINE g == FunctionFrame("terminate", uses)
<1>1. /\ g \in Frames
      /\ g.kind = "function" /\ g.resume = "terminate" /\ g.uses = uses
      /\ g.returning = FALSE /\ g.dead = FALSE /\ g.defers = <<>>
  BY NewFunctionFrame DEF Functions
<1>2. stack' = <<g>>
  OBVIOUS
<1> HIDE DEF g
<1>3. stack' \in Seq(Frames) /\ Len(stack') = 1 /\ DOMAIN stack' = {1} /\ stack'[1] = g
  BY <1>1, <1>2
<1>4. /\ next = "enter_main" /\ next' = "user"
      /\ base' = [words |-> 0, closure |-> FALSE]
      /\ UNCHANGED <<panicking, panicData, outcome, calls, panics, registered, started>>
  BY DEF EnterMain
<1>5. ~panicking /\ Pending = {}
  BY <1>4 DEF UnwindingInv, NextOK, Ready
<1>6. StackOK'
  BY <1>1, <1>3 DEF StackOK, FrameOK
<1>7. NextOK'
  BY <1>1, <1>3, <1>4 DEF NextOK, Ready, MayRunUser, Unwindable, Open
<1>8. ReturningOK'
  BY <1>1, <1>3 DEF ReturningOK, Top
<1>9. PanicCovered'
  BY <1>4, <1>5 DEF PanicCovered
<1>10. DOMAIN <<>> = {}
  OBVIOUS
<1>11. Sorted'
  BY <1>1, <1>3, <1>10 DEF Sorted
<1>12. Pending' = {}
  BY <1>1, <1>3, <1>10 DEF Pending, PendingIn
<1>13. DefersConserved'
  BY <1>4, <1>5, <1>12 DEF UnwindingInv, DefersConserved
<1>14. UnwindingTypeOK'
  BY <1>3, <1>4 DEF UnwindingInv, UnwindingTypeOK, Functions
<1>15. EndsSettled'
  BY <1>4 DEF EndsSettled
<1> QED
  BY <1>6, <1>7, <1>8, <1>9, <1>11, <1>13, <1>14, <1>15 DEF UnwindingInv

LEMMA TerminateStep ==
  ASSUME UnwindingInv, outcome = "running", Terminate
  PROVE  UnwindingInv'
<1>1. /\ next = "terminate" /\ outcome' = "terminated"
      /\ UNCHANGED <<stack, next, panicking, panicData, base, calls, panics, registered, started>>
  BY DEF Terminate
<1>2. ~panicking /\ Pending = {}
  BY <1>1 DEF UnwindingInv, NextOK, Ready
<1>3. panicking' \in BOOLEAN
  BY <1>1 DEF UnwindingInv, UnwindingTypeOK
<1> QED
  BY <1>1, <1>2, <1>3, EndStep

-----------------------------------------------------------------------------
(* The invariant.                                                          *)

LEMMA UnwindingInitially ==
  ASSUME UnwindingInit
  PROVE  UnwindingInv
<1> DEFINE Starts(resume, uses) ==
      /\ stack = <<FunctionFrame(resume, uses)>>
      /\ base \in [words : Nat, closure : BOOLEAN]
      /\ resume = "enter_main" => base.words > 0
<1>0. \E resume \in {"enter_main", "terminate"}, uses \in BOOLEAN : Starts(resume, uses)
  <2>1. CASE Start(MainBase, "enter_main", FALSE)
    <3>1. Starts("enter_main", FALSE)
      BY <2>1 DEF Start, MainBase
    <3> QED
      BY <3>1
  <2>2. CASE \E b \in Spawned, uses \in BOOLEAN : Start(b, "terminate", uses)
    BY <2>2, UnwindingConstants DEF Start
  <2> QED
    BY <2>1, <2>2 DEF UnwindingInit
<1> PICK resume \in {"enter_main", "terminate"}, uses \in BOOLEAN : Starts(resume, uses)
  BY <1>0
<1> DEFINE g == FunctionFrame(resume, uses)
<1>1. /\ g \in Frames
      /\ g.kind = "function" /\ g.resume = resume /\ g.uses = uses
      /\ g.returning = FALSE /\ g.dead = FALSE /\ g.defers = <<>>
  <2>1. resume \in Functions
    BY DEF Functions
  <2> QED
    BY <2>1, NewFunctionFrame
<1>2. stack = <<g>>
  OBVIOUS
<1> HIDE DEF g
<1>3. stack \in Seq(Frames) /\ Len(stack) = 1 /\ DOMAIN stack = {1} /\ stack[1] = g
  BY <1>1, <1>2
<1>4. /\ next = "user" /\ panicking = FALSE /\ panicData = "nil" /\ outcome = "running"
      /\ calls = 0 /\ panics = 0 /\ registered = 0 /\ started = {}
  BY DEF UnwindingInit
<1>5. StackOK
  BY <1>1, <1>3 DEF StackOK, FrameOK
<1>6. NextOK
  BY <1>1, <1>3, <1>4 DEF NextOK, Ready, MayRunUser, Unwindable, Open
<1>7. ReturningOK
  BY <1>1, <1>3 DEF ReturningOK, Top
<1>8. PanicCovered
  BY <1>4 DEF PanicCovered
<1>9. DOMAIN <<>> = {}
  OBVIOUS
<1>10. Sorted
  BY <1>1, <1>3, <1>9 DEF Sorted
<1>11. Pending = {}
  BY <1>1, <1>3, <1>9 DEF Pending, PendingIn
<1>12. DefersConserved
  <2>1. 1 .. 0 = {}
    OBVIOUS
  <2> QED
    BY <1>4, <1>11, <2>1 DEF DefersConserved
<1>13. UnwindingTypeOK
  <2>1. base \in [words : Nat, closure : BOOLEAN]
    OBVIOUS
  <2>2. 0 \in 0 .. MaxCalls /\ 0 \in 0 .. MaxPanics /\ 0 \in 0 .. MaxDefers
    BY UnwindingConstants
  <2> QED
    BY <1>3, <1>4, <2>1, <2>2 DEF UnwindingTypeOK, Functions
<1>14. EndsSettled
  BY <1>4 DEF EndsSettled
<1> QED
  BY <1>5, <1>6, <1>7, <1>8, <1>10, <1>12, <1>13, <1>14 DEF UnwindingInv

LEMMA UnwindingStep ==
  UnwindingInv /\ [UnwindingNext]_vars => UnwindingInv'
<1> SUFFICES ASSUME UnwindingInv, [UnwindingNext]_vars
             PROVE  UnwindingInv'
  OBVIOUS
<1>1. CASE outcome = "running" /\ EnterMain
  BY <1>1, EnterMainStep
<1>2. CASE outcome = "running" /\ Terminate
  BY <1>2, TerminateStep
<1>3. ASSUME outcome = "running", NEW uses \in BOOLEAN, Call(uses)
      PROVE  UnwindingInv'
  BY <1>3, CallStep
<1>4. CASE outcome = "running" /\ Defer
  BY <1>4, DeferStep
<1>5. CASE outcome = "running" /\ RunDefers
  BY <1>5, RunDefersStep
<1>6. CASE outcome = "running" /\ Return
  BY <1>6, ReturnStep
<1>7. ASSUME outcome = "running", NEW data \in {"nil", "object"}, Panic(data)
      PROVE  UnwindingInv'
  BY <1>7, PanicStep
<1>8. CASE outcome = "running" /\ Recover
  BY <1>8, RecoverStep
<1>9. CASE outcome = "running" /\ DeferExecute
  BY <1>9, DeferExecuteStep
<1>10. CASE outcome = "running" /\ PanicRaiseBody
  BY <1>10, PanicRaiseBodyStep
<1>11. CASE UNCHANGED vars
  <2>1. UNCHANGED <<stack, next, panicking, panicData, base, outcome,
                    calls, panics, registered, started>>
    BY <1>11 DEF vars
  <2>2. StackOK' /\ Sorted' /\ DefersConserved' /\ Pending' = Pending
    BY <2>1, SameStack
  <2>3. NextOK' /\ ReturningOK' /\ PanicCovered' /\ EndsSettled'
    BY <2>1, <2>2 DEF UnwindingInv, NextOK, ReturningOK, PanicCovered, EndsSettled, Top,
       Ready, MayRunUser, MayExecute, MayRaise, Unwindable, Open, Leaving
  <2>4. UnwindingTypeOK'
    BY <2>1 DEF UnwindingInv, UnwindingTypeOK
  <2> QED
    BY <2>2, <2>3, <2>4 DEF UnwindingInv
<1> QED
  BY <1>1, <1>2, <1>3, <1>4, <1>5, <1>6, <1>7, <1>8, <1>9, <1>10, <1>11
  DEF UnwindingNext, Running

\* Whatever functions call, defer, panic with and recover, each finds the stack
\* as it needs it, and deferred calls are run once and never lost.
THEOREM UnwindingInvariant == UnwindingSpec => []UnwindingInv
<1>1. UnwindingInit => UnwindingInv
  BY UnwindingInitially
<1> QED
  BY <1>1, UnwindingStep, PTL DEF UnwindingSpec

\* A deferred call is run once, and not lost with its frame (defer.rs:95-98,
\* panic.rs:19-37), through nested panics and recoveries.
THEOREM EveryDeferIsConserved == UnwindingSpec => []DefersConserved
<1>1. UnwindingInv => DefersConserved
  BY DEF UnwindingInv
<1> QED
  BY <1>1, UnwindingInvariant, PTL

\* A goroutine ends only when its deferred calls have been run, and never by
\* return while a panic is on its way (panic.rs:19-37).
THEOREM EveryEndIsSettled == UnwindingSpec => []EndsSettled
<1>1. UnwindingInv => EndsSettled
  BY DEF UnwindingInv
<1> QED
  BY <1>1, UnwindingInvariant, PTL

\* A function a panic has left never executes another statement, although its
\* frame stays on the stack (panic.rs:19-37).
THEOREM TheDeadNeverResume == UnwindingSpec => []DeadNeverResume
<1>1. UnwindingInv => DeadNeverResume
  <2> SUFFICES ASSUME UnwindingInv, outcome = "running", next = "user"
               PROVE  stack # <<>> /\ Top.kind = "function" /\ ~Top.dead
    BY DEF DeadNeverResume
  <2> QED
    BY UserTop DEF Top
<1> QED
  BY <1>1, UnwindingInvariant, PTL

\* While a panic is on its way, user code runs only on behalf of a deferred
\* call that panic_raise_body has started (panic.rs:19-37).
THEOREM PanicOnlyRunsDeferred == UnwindingSpec => []PanicRunsOnlyDeferred
<1>1. UnwindingInv => PanicRunsOnlyDeferred
  BY DEF UnwindingInv, PanicCovered, PanicRunsOnlyDeferred
<1> QED
  BY <1>1, UnwindingInvariant, PTL

\* Deferred calls run last in, first out, across all frames (defer.rs:95-98,
\* panic.rs:19-37).
THEOREM TheNewestIsFirst == UnwindingSpec => NewestFirst
<1> DEFINE A == \A d \in started' \ started : \A e \in Pending : e <= d
<1>1. UnwindingInv /\ [UnwindingNext]_vars => [A]_vars
  <2> SUFFICES ASSUME UnwindingInv, [UnwindingNext]_vars PROVE A \/ UNCHANGED vars
    OBVIOUS
  <2>1. CASE UNCHANGED vars
    BY <2>1
  <2>2. CASE outcome = "running" /\ DeferExecute
    <3>0. next = "defer_execute" /\ stack \in Seq(Frames)
      BY <2>2 DEF DeferExecute, UnwindingInv, UnwindingTypeOK
    <3> PICK n \in Nat : n = Len(stack)
      BY <3>0
    <3>1. n - 1 \in 1 .. n /\ Prev(stack) = n - 1 /\ stack[n].defers = <<>>
      BY <2>2, <3>0, ExecuteTop DEF MayRaise
    <3> PICK k \in 1 .. n : k = n - 1
      BY <3>1
    <3>2. CASE stack[k].defers = <<>>
      <4>1. started' = started
        BY <2>2, <3>1, <3>2 DEF DeferExecute
      <4> QED
        BY <4>1
    <3>3. CASE stack[k].defers # <<>>
      <4>1. RunDeferred(k, "defer_execute") /\ "defer_execute" \in Functions
        BY <2>2, <3>1, <3>3 DEF DeferExecute, Functions
      <4> QED
        BY <3>1, <3>3, <4>1, NewestTaken
    <3> QED
      BY <3>2, <3>3
  <2>3. CASE outcome = "running" /\ PanicRaiseBody
    <3>0. next = "panic_raise_body" /\ stack \in Seq(Frames)
      BY <2>3 DEF PanicRaiseBody, UnwindingInv, UnwindingTypeOK
    <3> PICK n \in Nat : n = Len(stack)
      BY <3>0
    <3>1. n > 0 /\ stack[n].defers = <<>> /\ (MayRaise(n) \/ Leaving(n))
      BY <2>3, <3>0, RaiseTop
    <3>2. CASE started' = started
      BY <3>2
    <3>3. CASE started' # started
      <4> PICK k \in Nat : k = Prev(stack)
        BY <3>1 DEF Prev
      <4>1. RunDeferred(k, "panic_raise_body") /\ k # 0 /\ stack[k].defers # <<>>
        BY <2>3, <3>3 DEF PanicRaiseBody
      <4>2. k = n - 1
        <5>1. n = 1 => base.words > 0
          BY <3>1 DEF MayRaise, Unwindable, Leaving
        <5> QED
          BY <5>1 DEF Prev
      <4>3. k \in 1 .. n /\ "panic_raise_body" \in Functions
        BY <4>1, <4>2 DEF Functions
      <4> QED
        BY <3>1, <4>1, <4>2, <4>3, NewestTaken
    <3> QED
      BY <3>2, <3>3
  <2>4. CASE UNCHANGED started
    BY <2>4
  <2> QED
    BY <2>1, <2>2, <2>3, <2>4
    DEF UnwindingNext, Running, EnterMain, Terminate, Call, Defer, RunDefers,
        Return, Panic, Recover, vars
<1> QED
  BY <1>1, UnwindingInvariant, PTL DEF UnwindingSpec, NewestFirst

-----------------------------------------------------------------------------
(* What a step does to the frames.                                         *)

\* The first m frames stay what they are; they may only die, or begin to return.
Stays(m) ==
  /\ stack \in Seq(Frames) /\ stack' \in Seq(Frames)
  /\ m \in Nat /\ m <= Len(stack) /\ m <= Len(stack')
  /\ \A i \in 1 .. m :
       /\ stack'[i].kind = stack[i].kind
       /\ stack'[i].resume = stack[i].resume
       /\ stack[i].dead => stack'[i].dead
       /\ stack[i].returning => stack'[i].returning

\* What user code leaves to a function it calls, ...
LEMMA CallFrames ==
  ASSUME UnwindingInv, outcome = "running", NEW uses \in BOOLEAN, Call(uses),
         NEW n \in Nat, n = Len(stack)
  PROVE  /\ Stays(n) /\ n > 0 /\ Len(stack') = n + 1
         /\ stack'[n + 1].resume = "user"
         /\ next = "user" /\ next' = "user"
         /\ calls < MaxCalls /\ calls' = calls + 1
         /\ UNCHANGED <<panicking, base, outcome, panics, registered, started>>
<1>1. /\ next = "user" /\ next' = "user" /\ calls < MaxCalls /\ calls' = calls + 1
      /\ UNCHANGED <<panicking, base, outcome, panics, registered, started>>
      /\ stack' = Append(stack, FunctionFrame("user", uses))
  BY DEF Call, InBody
<1>2. stack \in Seq(Frames) /\ n > 0
  BY <1>1, UserTop
<1> DEFINE g == FunctionFrame("user", uses)
<1>3. g \in Frames /\ g.resume = "user"
  BY NewFunctionFrame DEF Functions
<1>4. stack' = Append(stack, g)
  BY <1>1
<1> HIDE DEF g
<1>5. /\ stack' \in Seq(Frames) /\ Len(stack') = n + 1
      /\ \A i \in 1 .. n : stack'[i] = stack[i]
      /\ stack'[n + 1] = g
  BY <1>2, <1>3, <1>4, AppendFacts
<1> QED
  BY <1>1, <1>2, <1>3, <1>5 DEF Stays

\* ... where it defers a call, ...
LEMMA DeferFrames ==
  ASSUME UnwindingInv, outcome = "running", Defer, NEW n \in Nat, n = Len(stack)
  PROVE  /\ Stays(n) /\ n > 0 /\ Len(stack') = n
         /\ next = "user" /\ next' = "user"
         /\ registered < MaxDefers /\ registered' = registered + 1
         /\ UNCHANGED <<panicking, base, outcome, calls, panics, started>>
<1>1. /\ next = "user" /\ next' = "user"
      /\ registered < MaxDefers /\ registered' = registered + 1
      /\ UNCHANGED <<panicking, base, outcome, calls, panics, started>>
      /\ stack' = [stack EXCEPT ![n].defers = Append(@, registered + 1)]
  BY DEF Defer, InBody
<1>2. stack \in Seq(Frames) /\ n > 0 /\ stack[n] \in Frames
  BY <1>1, UserTop
<1> DEFINE d == Append(stack[n].defers, registered + 1)
           f == [stack[n] EXCEPT !.defers = d]
<1>3. d \in Seq(1 .. MaxDefers)
  <2>1. stack[n].defers \in Seq(1 .. MaxDefers)
    BY <1>2 DEF Frames
  <2>2. registered + 1 \in 1 .. MaxDefers
    BY <1>1, UnwindingConstants DEF UnwindingInv, UnwindingTypeOK
  <2> QED
    BY <2>1, <2>2, AppendFacts
<1>4. stack' = [stack EXCEPT ![n] = f]
  BY <1>1
<1> HIDE DEF d
<1>5. /\ f \in Frames
      /\ f.kind = stack[n].kind /\ f.resume = stack[n].resume
      /\ f.returning = stack[n].returning /\ f.dead = stack[n].dead
  BY <1>2, <1>3, SetDefers
<1> HIDE DEF f
<1>6. /\ stack' \in Seq(Frames) /\ Len(stack') = n
      /\ \A i \in 1 .. n : i # n => stack'[i] = stack[i]
      /\ stack'[n] = f
  <2>1. n \in 1 .. Len(stack)
    BY <1>2
  <2> QED
    BY <1>2, <1>4, <1>5, <2>1, ReplaceFacts
<1>7. \A i \in 1 .. n : i = n \/ stack'[i] = stack[i]
  BY <1>6
<1> QED
  BY <1>1, <1>2, <1>5, <1>6, <1>7 DEF Stays

\* ... when it runs its deferred calls, ...
LEMMA RunDefersFrames ==
  ASSUME UnwindingInv, outcome = "running", RunDefers, NEW n \in Nat, n = Len(stack)
  PROVE  /\ Stays(n) /\ n > 0 /\ Len(stack') = n + 1
         /\ stack[n].kind = "function" /\ ~stack[n].returning /\ stack'[n].returning
         /\ stack'[n + 1].kind = "deferExecute" /\ stack'[n + 1].resume = "user"
         /\ next = "user" /\ next' = "defer_execute"
         /\ UNCHANGED <<panicking, base, outcome, calls, panics, registered, started>>
<1>1. /\ next = "user" /\ next' = "defer_execute" /\ ~stack[n].returning
      /\ UNCHANGED <<panicking, base, outcome, calls, panics, registered, started>>
      /\ stack' = Append([stack EXCEPT ![n].returning = TRUE], DeferExecuteFrame)
  BY DEF RunDefers, InBody, Top
<1>2. stack \in Seq(Frames) /\ n > 0 /\ stack[n] \in Frames /\ stack[n].kind = "function"
  BY <1>1, UserTop
<1> DEFINE f == [stack[n] EXCEPT !.returning = TRUE]
           g == DeferExecuteFrame
<1>3. stack' = Append([stack EXCEPT ![n] = f], g)
  BY <1>1
<1>4. /\ f \in Frames
      /\ f.kind = stack[n].kind /\ f.resume = stack[n].resume
      /\ f.returning = TRUE /\ f.dead = stack[n].dead
  BY <1>2, SetReturning
<1>5. g \in Frames /\ g.kind = "deferExecute" /\ g.resume = "user"
  BY DEF DeferExecuteFrame, Frame, Frames, Functions
<1> HIDE DEF f, g
<1>6. /\ stack' \in Seq(Frames) /\ Len(stack') = n + 1
      /\ \A i \in 1 .. n : i # n => stack'[i] = stack[i]
      /\ stack'[n] = f /\ stack'[n + 1] = g
  <2>1. n \in 1 .. Len(stack)
    BY <1>2
  <2> QED
    BY <1>2, <1>3, <1>4, <1>5, <2>1, PushReplaced
<1>7. \A i \in 1 .. n : i = n \/ stack'[i] = stack[i]
  BY <1>6
<1> QED
  BY <1>1, <1>2, <1>4, <1>5, <1>6, <1>7 DEF Stays

\* ... when it returns ...
LEMMA ReturnFrames ==
  ASSUME UnwindingInv, outcome = "running", Return, NEW n \in Nat, n = Len(stack)
  PROVE  \E p \in 0 .. n :
           /\ p = IF n = 1 /\ base.words = 0 THEN 1 ELSE n - 1
           /\ Stays(p) /\ n > 0 /\ Len(stack') = p
           /\ stack[n].kind = "function"
           /\ next = "user" /\ next' = stack[n].resume
           /\ UNCHANGED <<panicking, base, outcome, calls, panics, registered, started>>
<1>1. next = "user"
  BY DEF Return
<1>2. stack \in Seq(Frames) /\ n > 0 /\ stack[n].kind = "function"
  BY <1>1, UserTop
<1> PICK p \in 0 .. n : p = IF n = 1 /\ base.words = 0 THEN 1 ELSE n - 1
  BY <1>2
<1>3. p = Prev(stack)
  BY DEF Prev
<1>4. /\ stack' = SubSeq(stack, 1, p) /\ next' = stack[n].resume
      /\ UNCHANGED <<panicking, base, outcome, calls, panics, registered, started>>
  BY <1>3 DEF Return, Popped, Top
<1>5. Keeps(p) /\ Len(stack') = p /\ \A i \in 1 .. p : stack'[i] = stack[i]
  BY <1>2, <1>4, CutKeeps
<1>6. Stays(p)
  BY <1>5 DEF Keeps, Stays
<1> QED
  BY <1>1, <1>2, <1>4, <1>5, <1>6

\* ... and when it panics.
LEMMA PanicFrames ==
  ASSUME UnwindingInv, outcome = "running", NEW data \in {"nil", "object"}, Panic(data),
         NEW n \in Nat, n = Len(stack)
  PROVE  /\ Stays(n) /\ n > 0 /\ Len(stack') = n + 1
         /\ stack'[n].dead
         /\ stack'[n + 1].kind = "panicRaise" /\ stack'[n + 1].resume = "NULL"
         /\ next = "user" /\ next' = "panic_raise_body"
         /\ panics < MaxPanics /\ panics' = panics + 1
         /\ UNCHANGED <<base, outcome, calls, registered, started>>
<1>1. /\ next = "user" /\ next' = "panic_raise_body"
      /\ panics < MaxPanics /\ panics' = panics + 1
      /\ UNCHANGED <<base, outcome, calls, registered, started>>
      /\ stack' = Append([stack EXCEPT ![n].dead = TRUE], PanicRaiseFrame)
  BY DEF Panic, InBody
<1>2. stack \in Seq(Frames) /\ n > 0 /\ stack[n] \in Frames
  BY <1>1, UserTop
<1> DEFINE f == [stack[n] EXCEPT !.dead = TRUE]
           g == PanicRaiseFrame
<1>3. stack' = Append([stack EXCEPT ![n] = f], g)
  BY <1>1
<1>4. /\ f \in Frames
      /\ f.kind = stack[n].kind /\ f.resume = stack[n].resume
      /\ f.returning = stack[n].returning /\ f.dead = TRUE
  BY <1>2, SetDead
<1>5. g \in Frames /\ g.kind = "panicRaise" /\ g.resume = "NULL"
  BY DEF PanicRaiseFrame, Frame, Frames, Functions
<1> HIDE DEF f, g
<1>6. /\ stack' \in Seq(Frames) /\ Len(stack') = n + 1
      /\ \A i \in 1 .. n : i # n => stack'[i] = stack[i]
      /\ stack'[n] = f /\ stack'[n + 1] = g
  <2>1. n \in 1 .. Len(stack)
    BY <1>2
  <2> QED
    BY <1>2, <1>3, <1>4, <1>5, <2>1, PushReplaced
<1>7. \A i \in 1 .. n : i = n \/ stack'[i] = stack[i]
  BY <1>6
<1> QED
  BY <1>1, <1>2, <1>4, <1>5, <1>6, <1>7 DEF Stays

\* A deferred call is started above the runtime frame on top.
DeferredCalled(n, resume) ==
  /\ Stays(n) /\ n > 0 /\ Len(stack') = n + 1
  /\ stack'[n + 1].kind = "function" /\ stack'[n + 1].resume = resume
  /\ next' = "user"
  /\ UNCHANGED <<panicking, base, outcome, calls, panics, registered>>
  /\ \E d \in 1 .. registered \ started : started' = started \cup {d}

LEMMA DeferredFrames ==
  ASSUME UnwindingInv, NEW n \in Nat, n = Len(stack), NEW k \in 1 .. n,
         stack[k].defers # <<>>, NEW resume \in Functions, RunDeferred(k, resume)
  PROVE  DeferredCalled(n, resume)
<1>1. DeferredStarted(n, k, resume)
  BY RunDeferredFrames
<1>2. stack \in Seq(Frames) /\ stack[k] \in Frames
  BY DEF UnwindingInv, UnwindingTypeOK
<1>3. \A i \in 1 .. n : i = k \/ stack'[i] = stack[i]
  BY <1>1 DEF DeferredStarted
<1>4. Stays(n)
  BY <1>1, <1>2, <1>3 DEF DeferredStarted, Stays
<1> DEFINE d == Pop(stack[k].defers).entry
<1>5. d \in 1 .. registered \ started
  <2>1. stack[k].defers \in Seq(1 .. MaxDefers)
    BY <1>2 DEF Frames
  <2> PICK l \in Nat : l = Len(stack[k].defers)
    BY <2>1
  <2>2. d = stack[k].defers[l] /\ l \in DOMAIN stack[k].defers
    BY <2>1, PopFacts
  <2>3. k \in DOMAIN stack
    BY <1>2
  <2>4. d \in Pending
    BY <2>2, <2>3 DEF Pending, PendingIn
  <2> QED
    BY <2>4 DEF UnwindingInv, DefersConserved
<1>6. started' = started \cup {d}
  BY <1>1 DEF DeferredStarted
<1> QED
  BY <1>1, <1>4, <1>5, <1>6 DEF DeferredStarted, DeferredCalled

\* The runtime frame on top is done, and goes.
LEMMA TopGoes ==
  ASSUME stack \in Seq(Frames), NEW n \in Nat, n = Len(stack), NEW m \in 0 .. n,
         stack' = SubSeq(stack, 1, m)
  PROVE  Stays(m) /\ Len(stack') = m
BY PrefixFacts DEF Stays

\* defer_execute starts the next deferred call, or returns to the function.
LEMMA DeferExecuteFrames ==
  ASSUME UnwindingInv, outcome = "running", DeferExecute, NEW n \in Nat, n = Len(stack)
  PROVE  /\ next = "defer_execute" /\ n > 1
         /\ \/ DeferredCalled(n, "defer_execute")
            \/ /\ Stays(n - 1) /\ Len(stack') = n - 1
               /\ stack[n].kind = "deferExecute"
               /\ next' = "user"
               /\ UNCHANGED <<panicking, base, outcome, calls, panics, registered, started>>
<1>1. next = "defer_execute"
  BY DEF DeferExecute
<1>2. /\ stack \in Seq(Frames) /\ n > 1 /\ n - 1 \in 1 .. n /\ Prev(stack) = n - 1
      /\ stack[n].kind = "deferExecute" /\ stack[n].resume = "user"
  BY <1>1, ExecuteTop
<1>3. CASE stack[n - 1].defers # <<>>
  <2>1. RunDeferred(n - 1, "defer_execute") /\ "defer_execute" \in Functions
    BY <1>2, <1>3 DEF DeferExecute, Functions
  <2>2. DeferredCalled(n, "defer_execute")
    BY <1>2, <1>3, <2>1, DeferredFrames
  <2> QED
    BY <1>1, <1>2, <2>2
<1>4. CASE stack[n - 1].defers = <<>>
  <2>1. /\ stack' = SubSeq(stack, 1, n - 1) /\ next' = "user"
        /\ UNCHANGED <<panicking, base, outcome, calls, panics, registered, started>>
    BY <1>2, <1>4 DEF DeferExecute, Popped, Top
  <2>2. n - 1 \in 0 .. n
    BY <1>2
  <2>3. Stays(n - 1) /\ Len(stack') = n - 1
    BY <1>2, <2>1, <2>2, TopGoes
  <2> QED
    BY <1>1, <1>2, <2>1, <2>3
<1> QED
  BY <1>3, <1>4

\* The panic ends the goroutine, or the process; ...
RaiseEnds ==
  /\ outcome' # "running"
  /\ panicking' => panicking
  /\ UNCHANGED <<stack, next, base, calls, panics, registered, started>>

\* ... leaves the function below the top frame, too; ...
RaiseLeaves(n) ==
  /\ n > 1 /\ Stays(n - 1) /\ Len(stack') = n - 1
  /\ n > 2 => stack'[n - 2].dead
  /\ UNCHANGED <<next, panicking, base, outcome, calls, panics, registered, started>>

\* ... or was recovered, and the function below returns.
RaiseReturns(n) ==
  /\ n > 1
  /\ \E p \in 0 .. n - 1 :
       /\ p = IF n = 2 /\ base.words = 0 THEN 1 ELSE n - 2
       /\ Stays(p) /\ Len(stack') = p
  /\ stack[n - 1].kind = "function"
  /\ next' = stack[n - 1].resume
  /\ UNCHANGED <<panicking, base, outcome, calls, panics, registered, started>>

LEMMA RaiseFrames ==
  ASSUME UnwindingInv, outcome = "running", PanicRaiseBody, NEW n \in Nat, n = Len(stack)
  PROVE  /\ next = "panic_raise_body" /\ n > 0
         /\ \/ DeferredCalled(n, "panic_raise_body")
            \/ RaiseEnds
            \/ RaiseLeaves(n)
            \/ RaiseReturns(n)
<1>0. next = "panic_raise_body"
  BY DEF PanicRaiseBody
<1>1. /\ stack \in Seq(Frames) /\ n > 0 /\ n \in 1 .. n
      /\ MayRaise(n) \/ Leaving(n)
  BY <1>0, RaiseTop
<1>2. base.words \in Nat /\ panicking \in BOOLEAN
  BY DEF UnwindingInv, UnwindingTypeOK
<1>3. CASE n = 1
  <2>1. panicking /\ base.words > 0
    BY <1>1, <1>3 DEF MayRaise, Unwindable, Leaving
  <2>2. Prev(stack) = 0
    BY <1>3, <2>1 DEF Prev
  <2>3. CASE NoDefersBelow
    <3>1. Settle(Popped(stack)) /\ UNCHANGED <<base, calls, panics, registered, started>>
      BY <2>2, <2>3 DEF PanicRaiseBody
    <3>2. Len(SubSeq(stack, 1, 0)) = 0
      <4>1. 0 \in 0 .. Len(stack)
        OBVIOUS
      <4> QED
        BY <1>1, <4>1, PrefixFacts
    <3>3. IsStackEmpty(Popped(stack))
      BY <2>1, <2>2, <3>2 DEF Popped, IsStackEmpty
    <3>4. Crash /\ UNCHANGED <<stack, next>>
      BY <2>1, <3>1, <3>3 DEF Settle
    <3>5. RaiseEnds
      BY <3>1, <3>4 DEF Crash, RaiseEnds
    <3> QED
      BY <1>0, <1>1, <3>5
  <2>4. CASE ~NoDefersBelow
    <3>1. RaiseEnds
      BY <2>2, <2>4 DEF PanicRaiseBody, RaiseEnds
    <3> QED
      BY <1>0, <1>1, <3>1
  <2> QED
    BY <2>3, <2>4
<1>4. CASE n # 1
  <2> PICK m \in 1 .. n : m = n - 1
    BY <1>1, <1>4
  <2>1. Prev(stack) = m /\ m # 0 /\ m \in Nat /\ m \in 0 .. Len(stack) /\ n > 1
    BY <1>4 DEF Prev
  <2>2. CASE stack[m].defers # <<>>
    <3>1. RunDeferred(m, "panic_raise_body") /\ "panic_raise_body" \in Functions
      BY <2>1, <2>2 DEF PanicRaiseBody, Functions
    <3>2. DeferredCalled(n, "panic_raise_body")
      BY <2>2, <3>1, DeferredFrames
    <3> QED
      BY <1>0, <1>1, <3>2
  <2>3. CASE stack[m].defers = <<>>
    <3> DEFINE below == SubSeq(stack, 1, m)
    <3>1. Settle(below) /\ UNCHANGED <<base, calls, panics, registered, started>>
      BY <2>1, <2>3 DEF PanicRaiseBody, Popped
    <3>2. below \in Seq(Frames) /\ Len(below) = m /\ \A i \in 1 .. m : below[i] = stack[i]
      BY <1>1, <2>1, PrefixFacts
    <3>3. \A i \in 1 .. m : stack[i] \in Frames
      BY <1>1
    <3> HIDE DEF below
    <3>4. CASE panicking /\ IsStackEmpty(below)
      <4>1. Crash /\ UNCHANGED <<stack, next>>
        BY <3>1, <3>4 DEF Settle
      <4>2. RaiseEnds
        BY <3>1, <4>1 DEF Crash, RaiseEnds
      <4> QED
        BY <1>0, <1>1, <4>2
    <3>5. CASE panicking /\ ~IsStackEmpty(below)
      <4>1. stack' = Left(below) /\ UNCHANGED <<next, panicking, outcome>>
        BY <3>1, <3>5 DEF Settle
      <4>2. DOMAIN below = 1 .. m /\ DOMAIN stack' = 1 .. m /\ Len(stack') = m
        BY <2>1, <3>2, <4>1 DEF Left
      <4>3. ASSUME NEW i \in 1 .. m
            PROVE  /\ stack'[i] \in Frames
                   /\ stack'[i].kind = stack[i].kind /\ stack'[i].resume = stack[i].resume
                   /\ stack'[i].returning = stack[i].returning
                   /\ stack[i].dead => stack'[i].dead
                   /\ i = m - 1 => stack'[i].dead
        <5>1. stack'[i] = IF i = m - 1 THEN [stack[i] EXCEPT !.dead = TRUE] ELSE stack[i]
          BY <3>2, <4>1, <4>2 DEF Left
        <5>2. stack[i] \in Frames
          BY <3>3
        <5> QED
          BY <5>1, <5>2, SetDead
      <4>4. stack' \in Seq(Frames)
        <5>1. stack' = [i \in 1 .. m |-> stack'[i]]
          BY <3>2, <4>1, <4>2 DEF Left
        <5> QED
          BY <2>1, <4>2, <4>3, <5>1
      <4>5. Stays(m)
        BY <1>1, <2>1, <4>2, <4>3, <4>4 DEF Stays
      <4>6. n > 2 => stack'[n - 2].dead
        <5>1. n > 2 => n - 2 \in 1 .. m /\ n - 2 = m - 1
          OBVIOUS
        <5> QED
          BY <4>3, <5>1
      <4>7. RaiseLeaves(n)
        BY <2>1, <3>1, <4>1, <4>2, <4>5, <4>6 DEF RaiseLeaves
      <4> QED
        BY <1>0, <1>1, <4>7
    <3>6. CASE ~panicking
      <4>1. /\ stack' = Popped(below) /\ next' = below[Len(below)].resume
            /\ UNCHANGED <<panicking, outcome>>
        BY <3>1, <3>6 DEF Settle
      <4>2. MayRaise(n)
        BY <1>1, <3>6 DEF Leaving
      <4>3. stack[m].kind = "function"
        BY <4>2 DEF MayRaise, Unwindable
      <4>4. next' = stack[m].resume
        BY <2>1, <3>2, <4>1
      <4> PICK p \in 0 .. m : p = IF m = 1 /\ base.words = 0 THEN 1 ELSE m - 1
        OBVIOUS
      <4>5. stack' = SubSeq(below, 1, p) /\ p \in 0 .. Len(below)
        BY <3>2, <4>1 DEF Popped, Prev
      <4>6. /\ stack' \in Seq(Frames) /\ Len(stack') = p
            /\ \A i \in 1 .. p : stack'[i] = below[i]
        BY <3>2, <4>5, PrefixFacts
      <4>7. \A i \in 1 .. p : stack'[i] = stack[i]
        BY <3>2, <4>6
      <4>8. Stays(p)
        BY <1>1, <4>6, <4>7 DEF Stays
      <4>9. p \in 0 .. n - 1 /\ p = IF n = 2 /\ base.words = 0 THEN 1 ELSE n - 2
        OBVIOUS
      <4>10. RaiseReturns(n)
        BY <2>1, <3>1, <4>1, <4>3, <4>4, <4>6, <4>8, <4>9 DEF RaiseReturns
      <4> QED
        BY <1>0, <1>1, <4>10
    <3> QED
      BY <1>2, <3>4, <3>5, <3>6
  <2> QED
    BY <2>2, <2>3
<1> QED
  BY <1>3, <1>4

-----------------------------------------------------------------------------
(* Where a panic goes, it has left the functions it looks into.            *)

\* What a panic has left stays left.
LEMMA RaisedStays ==
  ASSUME NEW m, Stays(m), NEW k \in 1 .. m, RaisedAt(k)
  PROVE  RaisedAt(k)'
BY DEF Stays, RaisedAt

\* RaisedDead is a matter of the frame on top, and of a new one's resume function.
LEMMA RaisedBelow ==
  ASSUME RaisedDead, NEW m, Stays(m), Len(stack') <= m + 1,
         \/ Len(stack') = m
         \/ stack'[m + 1].resume # "panic_raise_body"
         \/ m > 0 /\ RaisedAt(m),
         next' # "panic_raise_body" \/ outcome' # "running" \/ RaisedAt(Len(stack))'
  PROVE  RaisedDead'
<1>1. m \in Nat /\ Len(stack') \in Nat /\ Len(stack) \in Nat
  BY DEF Stays
<1>2. ASSUME NEW k \in 2 .. Len(stack'), stack'[k].resume = "panic_raise_body"
      PROVE  RaisedAt(k - 1)'
  <2>1. CASE k <= m
    <3>1. k \in 2 .. Len(stack) /\ k - 1 \in 1 .. m /\ stack[k].resume = "panic_raise_body"
      BY <1>1, <1>2, <2>1 DEF Stays
    <3>2. RaisedAt(k - 1)
      BY <3>1 DEF RaisedDead
    <3> QED
      BY <3>1, <3>2, RaisedStays
  <2>2. CASE k > m
    <3>1. k = m + 1 /\ Len(stack') = m + 1
      BY <1>1, <2>2
    <3>2. m > 0 /\ RaisedAt(m)
      BY <1>1, <1>2, <3>1
    <3>3. RaisedAt(m)'
      BY <1>1, <3>2, RaisedStays
    <3> QED
      BY <1>1, <3>1, <3>3
  <2> QED
    BY <1>1, <2>1, <2>2
<1> QED
  BY <1>2 DEF RaisedDead, RaisedAt

\* The function at m returns to what it was called from.
LEMMA RaisedReturn ==
  ASSUME UnwindingInv, RaisedDead, NEW m \in 1 .. Len(stack),
         stack[m].kind = "function",
         NEW p \in Nat, p = IF m = 1 /\ base.words = 0 THEN 1 ELSE m - 1,
         Stays(p), Len(stack') = p, next' = stack[m].resume
  PROVE  RaisedDead' /\ MainAlone'
<1>1. Len(stack) \in Nat /\ DOMAIN stack = 1 .. Len(stack) /\ stack' \in Seq(Frames)
  BY DEF Stays
<1>2. FrameOK(m)
  BY <1>1 DEF UnwindingInv, StackOK
<1>3. base.words \in Nat
  BY DEF UnwindingInv, UnwindingTypeOK
<1>4. MainAlone'
  <2> SUFFICES ASSUME next' = "enter_main" PROVE stack' = <<>>
    BY DEF MainAlone
  <2>1. m = 1 /\ base.words > 0
    BY <1>2 DEF FrameOK
  <2>2. Len(stack') = 0
    BY <1>3, <2>1
  <2> QED
    BY <1>1, <2>2
<1>5. next' # "panic_raise_body" \/ RaisedAt(Len(stack))'
  <2> SUFFICES ASSUME stack[m].resume = "panic_raise_body" PROVE RaisedAt(p)'
    OBVIOUS
  <2>1. m > 1
    BY <1>2 DEF FrameOK
  <2>2. p = m - 1 /\ p \in 1 .. p /\ m \in 2 .. Len(stack)
    BY <1>1, <2>1
  <2>3. RaisedAt(p)
    BY <2>2 DEF RaisedDead
  <2> QED
    BY <2>2, <2>3, RaisedStays
<1>6. RaisedDead'
  BY <1>5, RaisedBelow
<1> QED
  BY <1>4, <1>6

\* A step, and the frames it drops.
DropsNoLive ==
  \A k \in DOMAIN stack : k > Len(stack') =>
    \/ stack[k].kind # "function"
    \/ stack[k].dead
    \/ k = Len(stack) /\ next = "user"

LEMMA NothingDropped ==
  ASSUME stack \in Seq(Frames), Len(stack') >= Len(stack), Len(stack') \in Nat
  PROVE  DropsNoLive
BY DEF DropsNoLive

LEMMA DeferredCallRaised ==
  ASSUME UnwindingInv, RaisedDead, outcome = "running", NEW n \in Nat, n = Len(stack),
         next \in {"defer_execute", "panic_raise_body"}, DeferredCalled(n, next)
  PROVE  DropsNoLive /\ RaisedDead' /\ MainAlone'
<1>1. /\ Stays(n) /\ n > 0 /\ Len(stack') = n + 1
      /\ stack'[n + 1].resume = next /\ next' = "user"
  BY DEF DeferredCalled
<1>2. next = "panic_raise_body" => RaisedAt(n)
  BY DEF RaisedDead
<1>3. RaisedDead'
  BY <1>1, <1>2, RaisedBelow
<1>4. DropsNoLive
  BY <1>1, NothingDropped DEF Stays
<1>5. MainAlone'
  BY <1>1 DEF MainAlone
<1> QED
  BY <1>3, <1>4, <1>5

LEMMA UserStepRaised ==
  ASSUME UnwindingInv, RaisedDead, outcome = "running",
         \/ \E uses \in BOOLEAN : Call(uses)
         \/ Defer
         \/ RunDefers
         \/ Return
         \/ \E data \in {"nil", "object"} : Panic(data)
         \/ Recover
  PROVE  DropsNoLive /\ RaisedDead' /\ MainAlone'
<1>0. stack \in Seq(Frames)
  BY DEF UnwindingInv, UnwindingTypeOK
<1> PICK n \in Nat : n = Len(stack)
  BY <1>0
<1>1. ASSUME NEW uses \in BOOLEAN, Call(uses) PROVE DropsNoLive /\ RaisedDead' /\ MainAlone'
  <2>1. /\ Stays(n) /\ n > 0 /\ Len(stack') = n + 1
        /\ stack'[n + 1].resume = "user" /\ next' = "user"
    BY <1>1, CallFrames
  <2>2. RaisedDead'
    BY <2>1, RaisedBelow
  <2>3. DropsNoLive
    BY <1>0, <2>1, NothingDropped
  <2> QED
    BY <2>1, <2>2, <2>3 DEF MainAlone
<1>2. CASE Defer
  <2>1. Stays(n) /\ n > 0 /\ Len(stack') = n /\ next' = "user"
    BY <1>2, DeferFrames
  <2>2. RaisedDead'
    BY <2>1, RaisedBelow
  <2>3. DropsNoLive
    BY <1>0, <2>1, NothingDropped
  <2> QED
    BY <2>1, <2>2, <2>3 DEF MainAlone
<1>3. CASE RunDefers
  <2>1. /\ Stays(n) /\ n > 0 /\ Len(stack') = n + 1
        /\ stack'[n + 1].resume = "user" /\ next' = "defer_execute"
    BY <1>3, RunDefersFrames
  <2>2. RaisedDead'
    BY <2>1, RaisedBelow
  <2>3. DropsNoLive
    BY <1>0, <2>1, NothingDropped
  <2> QED
    BY <2>1, <2>2, <2>3 DEF MainAlone
<1>4. CASE Return
  <2> PICK p \in 0 .. n :
         /\ p = IF n = 1 /\ base.words = 0 THEN 1 ELSE n - 1
         /\ Stays(p) /\ n > 0 /\ Len(stack') = p
         /\ stack[n].kind = "function"
         /\ next = "user" /\ next' = stack[n].resume
    BY <1>4, ReturnFrames
  <2>1. n \in 1 .. Len(stack) /\ p \in Nat
    OBVIOUS
  <2>2. RaisedDead' /\ MainAlone'
    BY <2>1, RaisedReturn
  <2>3. \A k \in DOMAIN stack : k > p => k = n
    BY <1>0
  <2>4. DropsNoLive
    BY <2>3 DEF DropsNoLive
  <2> QED
    BY <2>2, <2>4
<1>5. ASSUME NEW data \in {"nil", "object"}, Panic(data)
      PROVE  DropsNoLive /\ RaisedDead' /\ MainAlone'
  <2>1. /\ Stays(n) /\ n > 0 /\ Len(stack') = n + 1 /\ stack'[n].dead
        /\ stack'[n + 1].kind = "panicRaise" /\ stack'[n + 1].resume = "NULL"
        /\ next' = "panic_raise_body"
    BY <1>5, PanicFrames
  <2>2. RaisedAt(Len(stack))'
    <3>1. Len(stack') - 1 = n
      BY <2>1
    <3> QED
      BY <2>1, <3>1 DEF RaisedAt
  <2>3. RaisedDead'
    BY <2>1, <2>2, RaisedBelow
  <2>4. DropsNoLive
    BY <1>0, <2>1, NothingDropped
  <2> QED
    BY <2>1, <2>3, <2>4 DEF MainAlone
<1>6. CASE Recover
  <2>1. UNCHANGED <<stack, next, outcome>> /\ next = "user"
    BY <1>6 DEF Recover, InBody
  <2>2. Stays(n) /\ Len(stack') = n
    BY <1>0, <2>1 DEF Stays
  <2>3. RaisedDead'
    BY <2>1, <2>2, RaisedBelow
  <2>4. DropsNoLive
    BY <1>0, <2>2, NothingDropped
  <2> QED
    BY <2>1, <2>3, <2>4 DEF MainAlone
<1> QED
  BY <1>1, <1>2, <1>3, <1>4, <1>5, <1>6

LEMMA RuntimeStepRaised ==
  ASSUME UnwindingInv, RaisedDead, outcome = "running", DeferExecute \/ PanicRaiseBody
  PROVE  DropsNoLive /\ RaisedDead' /\ MainAlone'
<1>0. stack \in Seq(Frames)
  BY DEF UnwindingInv, UnwindingTypeOK
<1> PICK n \in Nat : n = Len(stack)
  BY <1>0
<1>1. CASE DeferExecute
  <2>1. /\ next = "defer_execute" /\ n > 1
        /\ \/ DeferredCalled(n, "defer_execute")
           \/ /\ Stays(n - 1) /\ Len(stack') = n - 1
              /\ stack[n].kind = "deferExecute"
              /\ next' = "user"
    BY <1>1, DeferExecuteFrames
  <2>2. CASE DeferredCalled(n, "defer_execute")
    BY <2>1, <2>2, DeferredCallRaised
  <2>3. CASE /\ Stays(n - 1) /\ Len(stack') = n - 1
             /\ stack[n].kind = "deferExecute"
             /\ next' = "user"
    <3>1. RaisedDead'
      BY <2>3, RaisedBelow
    <3>2. \A k \in DOMAIN stack : k > n - 1 => k = n
      BY <1>0
    <3>3. DropsNoLive
      BY <2>3, <3>2 DEF DropsNoLive
    <3> QED
      BY <2>3, <3>1, <3>3 DEF MainAlone
  <2> QED
    BY <2>1, <2>2, <2>3
<1>2. CASE PanicRaiseBody
  <2>1. next = "panic_raise_body" /\ n > 0
    BY <1>2, RaiseFrames
  <2>2. RaisedAt(n)
    BY <2>1 DEF RaisedDead
  <2>3. CASE DeferredCalled(n, "panic_raise_body")
    BY <2>1, <2>3, DeferredCallRaised
  <2>4. CASE RaiseEnds
    <3>1. Stays(n) /\ Len(stack') = n /\ outcome' # "running" /\ next' = next
      BY <1>0, <2>4 DEF RaiseEnds, Stays
    <3>2. RaisedDead'
      BY <3>1, RaisedBelow
    <3>3. DropsNoLive
      BY <1>0, <3>1, NothingDropped
    <3> QED
      BY <2>1, <3>1, <3>2, <3>3 DEF MainAlone
  <2>5. CASE RaiseLeaves(n)
    <3>1. /\ n > 1 /\ Stays(n - 1) /\ Len(stack') = n - 1
          /\ n > 2 => stack'[n - 2].dead
          /\ next' = next
      BY <2>5 DEF RaiseLeaves
    <3> PICK m \in Nat : m = n - 1
      BY <3>1
    <3>2. RaisedAt(m)'
      <4>1. stack[m].dead /\ stack'[m].dead
        BY <2>2, <3>1 DEF RaisedAt, Stays
      <4>2. m > 1 => stack'[m - 1].dead
        BY <3>1
      <4> QED
        BY <4>1, <4>2 DEF RaisedAt
    <3>3. RaisedDead'
      BY <3>1, <3>2, RaisedBelow
    <3>4. \A k \in DOMAIN stack : k > n - 1 => k = n
      BY <1>0
    <3>5. DropsNoLive
      BY <2>2, <3>1, <3>4 DEF DropsNoLive, RaisedAt
    <3> QED
      BY <2>1, <3>1, <3>3, <3>5 DEF MainAlone
  <2>6. CASE RaiseReturns(n)
    <3>1. n > 1 /\ stack[n - 1].kind = "function" /\ next' = stack[n - 1].resume
      BY <2>6 DEF RaiseReturns
    <3> PICK m \in Nat : m = n - 1
      BY <3>1
    <3> PICK p \in 0 .. m :
          /\ p = IF m = 1 /\ base.words = 0 THEN 1 ELSE m - 1
          /\ Stays(p) /\ Len(stack') = p
      BY <2>6 DEF RaiseReturns
    <3>2. m \in 1 .. Len(stack) /\ p \in Nat
      BY <3>1
    <3>3. RaisedDead' /\ MainAlone'
      BY <3>1, <3>2, RaisedReturn
    <3>4. \A k \in DOMAIN stack : k > p => k = n \/ k = m
      BY <1>0
    <3>5. stack[m].dead /\ (stack[n].kind = "function" => stack[n].dead)
      BY <2>2, <3>1 DEF RaisedAt
    <3>6. DropsNoLive
      BY <3>4, <3>5 DEF DropsNoLive
    <3> QED
      BY <3>3, <3>6
  <2> QED
    BY <1>2, <2>3, <2>4, <2>5, <2>6, RaiseFrames
<1> QED
  BY <1>1, <1>2

RaisedInv == RaisedDead /\ MainAlone

LEMMA RaisedInitially ==
  ASSUME UnwindingInit
  PROVE  RaisedInv
<1>1. next = "user"
  BY DEF UnwindingInit
<1>2. Len(stack) = 1
  <2>1. \E f : stack = <<f>>
    BY DEF UnwindingInit, Start
  <2> QED
    BY <2>1
<1>3. 2 .. 1 = {}
  OBVIOUS
<1> QED
  BY <1>1, <1>2, <1>3 DEF RaisedInv, RaisedDead, MainAlone

LEMMA RaisedStep ==
  ASSUME UnwindingInv, RaisedInv, [UnwindingNext]_vars
  PROVE  RaisedInv' /\ (DropsNoLive \/ UNCHANGED stack)
<1>0. stack \in Seq(Frames)
  BY DEF UnwindingInv, UnwindingTypeOK
<1>1. CASE outcome = "running" /\ EnterMain
  <2> PICK uses \in BOOLEAN : stack' = <<FunctionFrame("terminate", uses)>>
    BY <1>1 DEF EnterMain
  <2>1. stack = <<>> /\ next' = "user"
    BY <1>1 DEF EnterMain, RaisedInv, MainAlone
  <2>2. Len(stack') = 1 /\ 2 .. 1 = {} /\ DOMAIN stack = {}
    BY <2>1
  <2>3. RaisedDead'
    BY <2>1, <2>2 DEF RaisedDead
  <2>4. DropsNoLive
    BY <2>2 DEF DropsNoLive
  <2> QED
    BY <2>1, <2>3, <2>4 DEF RaisedInv, MainAlone
<1>2. CASE outcome = "running" /\ Terminate
  BY <1>2 DEF Terminate, RaisedInv, RaisedDead, RaisedAt, MainAlone
<1>3. CASE UNCHANGED vars
  BY <1>3 DEF vars, RaisedInv, RaisedDead, RaisedAt, MainAlone
<1>4. ASSUME outcome = "running",
             \/ \E uses \in BOOLEAN : Call(uses)
             \/ Defer
             \/ RunDefers
             \/ Return
             \/ \E data \in {"nil", "object"} : Panic(data)
             \/ Recover
      PROVE  RaisedInv' /\ DropsNoLive
  BY <1>4, UserStepRaised DEF RaisedInv
<1>5. ASSUME outcome = "running", DeferExecute \/ PanicRaiseBody
      PROVE  RaisedInv' /\ DropsNoLive
  BY <1>5, RuntimeStepRaised DEF RaisedInv
<1> QED
  BY <1>1, <1>2, <1>3, <1>4, <1>5 DEF UnwindingNext, Running

\* Every function finds the stack as it needs it, and wherever a panic goes it has
\* left the functions it looks into (panic.rs:19-49).
THEOREM TheStackIsInOrder == UnwindingSpec => []StackInv
<1>1. UnwindingInit => StackInv
  BY UnwindingInitially, RaisedInitially DEF StackInv, RaisedInv
<1>2. StackInv /\ [UnwindingNext]_vars => StackInv'
  BY UnwindingStep, RaisedStep DEF StackInv, RaisedInv
<1> QED
  BY <1>1, <1>2, PTL DEF UnwindingSpec

\* Neither unwinding nor the return after a recovery drops the frame of a function
\* that is still to go on (panic.rs:39-49).
THEOREM LiveFunctionsStay == UnwindingSpec => NoLiveFunctionDropped
<1>1. StackInv /\ [UnwindingNext]_vars => [DropsNoLive]_vars
  <2> SUFFICES ASSUME UnwindingInv, RaisedInv, [UnwindingNext]_vars
               PROVE  DropsNoLive \/ UNCHANGED vars
    BY DEF StackInv, RaisedInv
  <2>1. CASE UNCHANGED stack
    <3>1. stack \in Seq(Frames)
      BY DEF UnwindingInv, UnwindingTypeOK
    <3>2. Len(stack') >= Len(stack) /\ Len(stack') \in Nat
      BY <2>1, <3>1
    <3> QED
      BY <3>1, <3>2, NothingDropped
  <2> QED
    BY <2>1, RaisedStep
<1>2. NoLiveFunctionDropped <=> [][DropsNoLive]_vars
  BY DEF NoLiveFunctionDropped, DropsNoLive
<1> QED
  BY <1>1, <1>2, TheStackIsInOrder, PTL DEF UnwindingSpec

-----------------------------------------------------------------------------
(* Below the first frame.                                                  *)

\* A panic that is in its last function: nothing waits, and nothing goes on.
Lost ==
  /\ panicking
  /\ Pending = {}
  /\ base.words > 0
  /\ stack # <<>> /\ Top.kind = "function" /\ Top.dead

\* panic_raise_body has gone as far as the last frame only by passing through it.
LEMMA LooksBelowLast ==
  ASSUME StackInv, LooksBelow
  PROVE  Lost
<1>1. /\ outcome = "running" /\ next = "panic_raise_body" /\ Len(stack) <= 1
      /\ Len(stack) \in Nat /\ DOMAIN stack = 1 .. Len(stack)
  BY DEF LooksBelow, StackInv, UnwindingInv, UnwindingTypeOK
<1>2. ~Ready(next, Len(stack))
  BY <1>1 DEF Ready, MayRaise, Unwindable
<1>3. Leaving(Len(stack))
  BY <1>1, <1>2 DEF StackInv, UnwindingInv, NextOK
<1>4. Len(stack) = 1 /\ panicking /\ stack[1].defers = <<>> /\ base.words > 0
  BY <1>1, <1>3 DEF Leaving
<1>5. stack[1].kind = "function"
  BY <1>1, <1>4 DEF StackInv, UnwindingInv, StackOK, FrameOK
<1>6. stack[1].dead
  BY <1>1, <1>4, <1>5 DEF StackInv, RaisedDead, RaisedAt
<1>7. Pending = {}
  BY <1>1, <1>4 DEF Pending, PendingIn
<1> QED
  BY <1>4, <1>5, <1>6, <1>7 DEF Lost, Top

LEMMA LostStays ==
  ASSUME Lost, UNCHANGED <<stack, panicking, base>>
  PROVE  Lost'
<1>1. Top' = Top
  BY DEF Top
<1>2. Pending' = Pending
  BY DEF Pending, PendingIn
<1> QED
  BY <1>1, <1>2 DEF Lost

\* What a goroutine leaves behind when it goes astray is what it was when it
\* looked below.
LEMMA LostStep ==
  ASSUME StackInv, OnlyTheLostLookBelow, [UnwindingNext]_vars, StackInv'
  PROVE  OnlyTheLostLookBelow'
<1>1. CASE outcome' # "undefined"
  <2>1. StackInv' /\ LooksBelow' => Lost'
    BY LooksBelowLast, PTL
  <2> QED
    BY <1>1, <2>1 DEF OnlyTheLostLookBelow, Lost
<1>2. CASE outcome' = "undefined" /\ outcome = "undefined"
  <2>1. UNCHANGED vars
    BY <1>2 DEF UnwindingNext
  <2> QED
    BY <2>1, LostStays DEF vars, OnlyTheLostLookBelow, LooksBelow, Lost
<1>3. CASE outcome' = "undefined" /\ outcome # "undefined"
  <2>1. outcome = "running" /\ PanicRaiseBody
    BY <1>3 DEF UnwindingNext, Running, EnterMain, Terminate, Call, Defer, RunDefers, Return,
                Panic, Recover, DeferExecute, RunDeferred, vars
  <2>2. /\ Prev(stack) = 0 /\ next = "panic_raise_body"
        /\ UNCHANGED <<stack, panicking, base>>
    <3>1. ~Settle(Popped(stack)) /\ ~RunDeferred(Prev(stack), "panic_raise_body")
      BY <1>3, <2>1 DEF Settle, Crash, RunDeferred
    <3> QED
      BY <2>1, <3>1 DEF PanicRaiseBody
  <2>3. Len(stack) <= 1
    <3>1. stack \in Seq(Frames)
      BY DEF StackInv, UnwindingInv, UnwindingTypeOK
    <3>2. Len(stack) \in Nat /\ (Len(stack) = 1 \/ Len(stack) - 1 = 0)
      BY <2>2, <3>1 DEF Prev
    <3>3. \A n \in Nat : n = 1 \/ n - 1 = 0 => n <= 1
      OBVIOUS
    <3> QED
      BY <3>2, <3>3
  <2>4. Lost
    BY <2>1, <2>2, <2>3, LooksBelowLast DEF LooksBelow
  <2> QED
    BY <2>2, <2>4, LostStays DEF OnlyTheLostLookBelow, Lost
<1> QED
  BY <1>1, <1>2, <1>3

\* Whatever result a goroutine is started with, unwinding looks for deferred calls
\* where no frame is (panic.rs:19-20) only with a panic nobody has recovered, when
\* all deferred calls have been run and the last function has been left.
THEOREM OnlyLostPanicsLookBelow == UnwindingSpec => []OnlyTheLostLookBelow
<1>1. UnwindingInit => OnlyTheLostLookBelow
  BY DEF UnwindingInit, OnlyTheLostLookBelow, LooksBelow
<1>2. StackInv /\ StackInv' /\ OnlyTheLostLookBelow /\ [UnwindingNext]_vars
        => OnlyTheLostLookBelow'
  BY LostStep
<1> QED
  BY <1>1, <1>2, TheStackIsInOrder, PTL DEF UnwindingSpec

-----------------------------------------------------------------------------
(* Every step uses something up.                                           *)

LEMMA StartedCounted ==
  ASSUME UnwindingTypeOK
  PROVE  IsFiniteSet(started) /\ Cardinality(started) \in 0 .. registered
<1>1. registered \in Nat /\ started \in SUBSET (1 .. registered)
  BY UnwindingConstants DEF UnwindingTypeOK
<1>2. IsFiniteSet(1 .. registered) /\ Cardinality(1 .. registered) = registered
  BY <1>1, FS_Interval
<1>3. IsFiniteSet(started) /\ Cardinality(started) <= registered
  BY <1>1, <1>2, FS_Subset
<1> QED
  BY <1>1, <1>3, FS_CardinalityType

LEMMA UnreturnedCounted ==
  UnwindingTypeOK => IsFiniteSet(Unreturned) /\ Cardinality(Unreturned) \in Nat
<1> SUFFICES ASSUME UnwindingTypeOK
             PROVE  IsFiniteSet(Unreturned) /\ Cardinality(Unreturned) \in Nat
  OBVIOUS
<1>1. stack \in Seq(Frames)
  BY DEF UnwindingTypeOK
<1>2. DOMAIN stack = 1 .. Len(stack) /\ Len(stack) \in Nat
  BY <1>1
<1>3. IsFiniteSet(1 .. Len(stack))
  BY <1>2, FS_Interval
<1>4. Unreturned \in SUBSET (1 .. Len(stack))
  BY <1>2 DEF Unreturned
<1>5. IsFiniteSet(Unreturned)
  BY <1>3, <1>4, FS_Subset
<1> QED
  BY <1>5, FS_CardinalityType

LEMMA StepsCounted ==
  UnwindingTypeOK => Owed \in Nat /\ Held \in Nat /\ Stage \in Nat
<1> SUFFICES ASSUME UnwindingTypeOK
             PROVE  Owed \in Nat /\ Held \in Nat /\ Stage \in Nat
  OBVIOUS
<1> DEFINE s == Cardinality(started)
           u == Cardinality(Unreturned)
<1>1. /\ calls \in Nat /\ calls <= MaxCalls /\ MaxCalls \in Nat
      /\ panics \in Nat /\ panics <= MaxPanics /\ MaxPanics \in Nat
      /\ registered \in Nat /\ registered <= MaxDefers /\ MaxDefers \in Nat
      /\ Len(stack) \in Nat
  BY UnwindingConstants DEF UnwindingTypeOK
<1>2. s \in Nat /\ s <= registered /\ u \in Nat
  BY <1>1, StartedCounted, UnreturnedCounted
<1> HIDE DEF s, u
<1>3. Owed \in Nat
  BY <1>1, <1>2 DEF Owed, s
<1>4. Held \in Nat
  BY <1>1, <1>2 DEF Held, u
<1>5. Stage \in Nat
  BY DEF Stage, Count
<1> QED
  BY <1>3, <1>4, <1>5

\* A step advances when what it adds to one part is less than what it takes from
\* the others.
LEMMA SumFalls ==
  ASSUME NEW a \in Int, NEW b \in Int, NEW c \in Int, a + b + c < 0,
         NEW o \in Nat, NEW h \in Nat, NEW g \in Nat,
         NEW p \in Nat, NEW q \in Nat, NEW r \in Nat,
         p = o + a, q <= h + b, r <= g + c
  PROVE  p + q + r \in 0 .. (o + h + g) - 1
OBVIOUS

LEMMA Advances ==
  ASSUME UnwindingTypeOK, UnwindingTypeOK',
         NEW a \in Int, NEW b \in Int, NEW c \in Int, a + b + c < 0,
         Owed' = Owed + a, Held' <= Held + b, Stage' <= Stage + c
  PROVE  StepsLeft' \in 0 .. StepsLeft - 1
<1>1. Owed \in Nat /\ Held \in Nat /\ Stage \in Nat
  BY StepsCounted
<1>2. (Owed \in Nat /\ Held \in Nat /\ Stage \in Nat)'
  BY StepsCounted, PTL
<1>3. Owed' + Held' + Stage' \in 0 .. (Owed + Held + Stage) - 1
  BY <1>1, <1>2, SumFalls, Zenon
<1> QED
  BY <1>3 DEF StepsLeft

\* main.main is entered once.
LEMMA MainAheadStays ==
  ASSUME NEW m, Stays(m), Len(stack') = m \/ m > 0, next' = "enter_main" => MainAhead
  PROVE  MainAhead' => MainAhead
<1>1. m \in Nat /\ Len(stack') \in Nat /\ Len(stack) \in Nat
  BY DEF Stays
<1>2. CASE m = 0
  <2>1. stack' = <<>>
    BY <1>1, <1>2 DEF Stays
  <2> QED
    BY <2>1 DEF MainAhead
<1>3. CASE m > 0
  <2>1. 1 \in 1 .. m /\ stack # <<>>
    BY <1>1, <1>3 DEF Stays
  <2>2. stack'[1].resume = stack[1].resume
    BY <2>1 DEF Stays
  <2> QED
    BY <2>1, <2>2 DEF MainAhead
<1> QED
  BY <1>1, <1>2, <1>3

LEMMA StageFalls ==
  ASSUME MainAhead' => MainAhead, next # "terminate", outcome = "running",
         panicking \in BOOLEAN, panicking' \in BOOLEAN
  PROVE  /\ Stage' <= Stage + 1
         /\ (panicking' => panicking) => Stage' <= Stage
         /\ (panicking' => panicking) /\ (panicking /\ ~panicking') => Stage' <= Stage - 1
         /\ (panicking' => panicking) /\ outcome' # "running" => Stage' <= Stage - 1
         /\ (panicking' => panicking) /\ next' = "terminate" => Stage' <= Stage - 1
<1>1. Stage = Count(MainAhead, 4) + Count(panicking, 1) + 2
  BY DEF Stage, Count
<1>2. Stage' <= Count(MainAhead', 4) + Count(panicking', 1) + 2
  BY DEF Stage, Count
<1>3. outcome' # "running" => Stage' <= Count(MainAhead', 4) + Count(panicking', 1) + 1
  BY DEF Stage, Count
<1>4. next' = "terminate" => Stage' <= Count(MainAhead', 4) + Count(panicking', 1) + 1
  BY DEF Stage, Count
<1>5. Count(MainAhead', 4) <= Count(MainAhead, 4) /\ Count(MainAhead, 4) \in Nat /\ Count(MainAhead', 4) \in Nat
  BY DEF Count
<1>6. /\ Count(panicking, 1) \in 0 .. 1 /\ Count(panicking', 1) \in 0 .. 1
      /\ (panicking' => panicking) => Count(panicking', 1) <= Count(panicking, 1)
      /\ panicking /\ ~panicking' => Count(panicking', 1) = 0 /\ Count(panicking, 1) = 1
  BY DEF Count
<1>7. Stage' \in Nat
  BY DEF Stage, Count
<1> QED
  BY <1>1, <1>2, <1>3, <1>4, <1>5, <1>6, <1>7

\* Frames that stay add nothing, ...
LEMMA HeldStays ==
  ASSUME UnwindingTypeOK, UnwindingTypeOK', NEW m, Stays(m), Len(stack') = m
  PROVE  Held' <= Held + (m - Len(stack))
<1>1. Unreturned' \in SUBSET Unreturned
  BY DEF Unreturned, Stays
<1>2. Cardinality(Unreturned') <= Cardinality(Unreturned)
  BY <1>1, UnreturnedCounted, FS_Subset
<1>3. /\ Cardinality(Unreturned) \in Nat /\ Cardinality(Unreturned') \in Nat
      /\ Len(stack) \in Nat /\ Len(stack') \in Nat /\ m \in Nat
  <2>1. (IsFiniteSet(Unreturned) /\ Cardinality(Unreturned) \in Nat)'
    BY UnreturnedCounted, PTL
  <2> QED
    BY <2>1, UnreturnedCounted DEF Stays
<1> QED
  BY <1>2, <1>3 DEF Held

\* ... a new one adds itself and, for a function, its return.
LEMMA HeldGrows ==
  ASSUME UnwindingTypeOK, UnwindingTypeOK',
         NEW m, Stays(m), m = Len(stack), Len(stack') = m + 1
  PROVE  /\ Held' <= Held + 3
         /\ stack'[m + 1].kind # "function" => Held' <= Held + 1
         /\ stack'[m + 1].kind # "function" /\ m \in Unreturned /\ stack'[m].returning =>
              Held' <= Held - 1
<1>0. /\ DOMAIN stack = 1 .. m /\ DOMAIN stack' = 1 .. m + 1
      /\ m \in Nat
  BY DEF Stays
<1>1. Unreturned' \in SUBSET (Unreturned \cup {m + 1})
  BY <1>0 DEF Unreturned, Stays
<1>2. stack'[m + 1].kind # "function" => Unreturned' \in SUBSET Unreturned
  BY <1>0, <1>1 DEF Unreturned
<1>3. stack'[m + 1].kind # "function" /\ stack'[m].returning =>
        Unreturned' \in SUBSET (Unreturned \ {m})
  BY <1>2 DEF Unreturned
<1>4. /\ IsFiniteSet(Unreturned)
      /\ Cardinality(Unreturned) \in Nat /\ Cardinality(Unreturned') \in Nat
      /\ Len(stack) \in Nat /\ Len(stack') \in Nat
  <2>1. (IsFiniteSet(Unreturned) /\ Cardinality(Unreturned) \in Nat)'
    BY UnreturnedCounted, PTL
  <2> QED
    BY <2>1, UnreturnedCounted DEF Stays
<1>5. Cardinality(Unreturned') <= Cardinality(Unreturned) + 1
  <2>1. /\ IsFiniteSet(Unreturned \cup {m + 1})
        /\ Cardinality(Unreturned \cup {m + 1}) \in {Cardinality(Unreturned), Cardinality(Unreturned) + 1}
    BY <1>4, FS_AddElement
  <2>2. Cardinality(Unreturned') <= Cardinality(Unreturned \cup {m + 1})
    BY <1>1, <2>1, FS_Subset
  <2>3. Cardinality(Unreturned \cup {m + 1}) \in Nat
    BY <2>1, FS_CardinalityType
  <2> QED
    BY <1>4, <2>1, <2>2, <2>3
<1>6. stack'[m + 1].kind # "function" => Cardinality(Unreturned') <= Cardinality(Unreturned)
  BY <1>2, <1>4, FS_Subset
<1>7. stack'[m + 1].kind # "function" /\ m \in Unreturned /\ stack'[m].returning =>
        Cardinality(Unreturned') <= Cardinality(Unreturned) - 1
  <2> SUFFICES ASSUME stack'[m + 1].kind # "function", m \in Unreturned, stack'[m].returning
               PROVE  Cardinality(Unreturned') <= Cardinality(Unreturned) - 1
    OBVIOUS
  <2>1. /\ IsFiniteSet(Unreturned \ {m})
        /\ Cardinality(Unreturned \ {m}) = Cardinality(Unreturned) - 1
    BY <1>4, FS_RemoveElement
  <2>2. Cardinality(Unreturned') <= Cardinality(Unreturned \ {m})
    BY <1>3, <2>1, FS_Subset
  <2> QED
    BY <1>4, <2>1, <2>2
<1> QED
  BY <1>0, <1>4, <1>5, <1>6, <1>7 DEF Held

\* What is owed, after each kind of step.
LEMMA OwedChanges ==
  ASSUME UnwindingTypeOK
  PROVE  /\ UNCHANGED <<calls, panics, registered, started>> => Owed' = Owed + 0
         /\ calls' = calls + 1 /\ UNCHANGED <<panics, registered, started>> =>
              Owed' = Owed + (-4)
         /\ panics' = panics + 1 /\ UNCHANGED <<calls, registered, started>> =>
              Owed' = Owed + (-3)
         /\ registered' = registered + 1 /\ UNCHANGED <<calls, panics, started>> =>
              Owed' = Owed + (-1)
         /\ (\E d \in 1 .. registered \ started : started' = started \cup {d})
              /\ UNCHANGED <<calls, panics, registered>> => Owed' = Owed + (-4)
<1> DEFINE s == Cardinality(started)
<1>1. /\ calls \in Int /\ MaxCalls \in Int /\ panics \in Int /\ MaxPanics \in Int
      /\ registered \in Int /\ MaxDefers \in Int
  BY UnwindingConstants DEF UnwindingTypeOK
<1>2. IsFiniteSet(started) /\ s \in Int
  BY <1>1, StartedCounted DEF UnwindingTypeOK
<1>3. started' = started => Cardinality(started') = s
  OBVIOUS
<1>4. (\E d \in 1 .. registered \ started : started' = started \cup {d}) =>
        Cardinality(started') = s + 1
  BY <1>2, FS_AddElement
<1> HIDE DEF s
<1>5. Owed = 4 * (MaxCalls - calls) + 3 * (MaxPanics - panics)
             + 5 * (MaxDefers - registered) + 4 * (registered - s)
  BY DEF Owed, s
<1>6. UNCHANGED <<calls, panics, registered, started>> => Owed' = Owed + 0
  BY <1>1, <1>2, <1>3, <1>5 DEF Owed
<1>7. calls' = calls + 1 /\ UNCHANGED <<panics, registered, started>> => Owed' = Owed + (-4)
  BY <1>1, <1>2, <1>3, <1>5 DEF Owed
<1>8. panics' = panics + 1 /\ UNCHANGED <<calls, registered, started>> => Owed' = Owed + (-3)
  BY <1>1, <1>2, <1>3, <1>5 DEF Owed
<1>9. registered' = registered + 1 /\ UNCHANGED <<calls, panics, started>> => Owed' = Owed + (-1)
  BY <1>1, <1>2, <1>3, <1>5 DEF Owed
<1>10. (\E d \in 1 .. registered \ started : started' = started \cup {d})
         /\ UNCHANGED <<calls, panics, registered>> => Owed' = Owed + (-4)
  BY <1>1, <1>2, <1>4, <1>5 DEF Owed
<1> QED
  BY <1>6, <1>7, <1>8, <1>9, <1>10

\* A deferred call that is started is not owed any more.
LEMMA DeferredCallAdvances ==
  ASSUME UnwindingTypeOK, UnwindingTypeOK', outcome = "running",
         NEW n \in Nat, n = Len(stack),
         next \in {"defer_execute", "panic_raise_body"}, DeferredCalled(n, next)
  PROVE  StepsLeft' \in 0 .. StepsLeft - 1
<1>1. /\ Stays(n) /\ n > 0 /\ Len(stack') = n + 1 /\ next' = "user"
      /\ UNCHANGED <<panicking, outcome>>
  BY DEF DeferredCalled
<1>2. panicking \in BOOLEAN /\ panicking' \in BOOLEAN
  BY DEF UnwindingTypeOK
<1>3. Owed' = Owed + (-4)
  BY OwedChanges DEF DeferredCalled
<1>4. Held' <= Held + 3
  BY <1>1, HeldGrows
<1>5. Stage' <= Stage
  BY <1>1, <1>2, MainAheadStays, StageFalls
<1>6. Stage' <= Stage + 0
  BY <1>5, StepsCounted
<1>7. (-4) + 3 + 0 < 0
  OBVIOUS
<1> QED
  BY <1>3, <1>4, <1>6, <1>7, Advances

\* Only the first frame returns to where main.main is entered.
LEMMA ReturnsToMain ==
  ASSUME UnwindingInv, NEW m \in DOMAIN stack, stack[m].kind = "function",
         stack[m].resume = "enter_main"
  PROVE  MainAhead /\ base.words > 0 /\ m = 1
<1>1. FrameOK(m)
  BY DEF UnwindingInv, StackOK
<1>2. stack \in Seq(Frames)
  BY DEF UnwindingInv, UnwindingTypeOK
<1>3. m = 1
  BY <1>1, <1>2 DEF FrameOK
<1> QED
  BY <1>1, <1>2, <1>3 DEF FrameOK, MainAhead

LEMMA UserStepAdvances ==
  ASSUME UnwindingInv, UnwindingTypeOK', outcome = "running",
         \/ \E uses \in BOOLEAN : Call(uses)
         \/ Defer
         \/ RunDefers
         \/ Return
         \/ \E data \in {"nil", "object"} : Panic(data)
         \/ Recover
  PROVE  StepsLeft' \in 0 .. StepsLeft - 1
<1>0. UnwindingTypeOK /\ stack \in Seq(Frames)
  BY DEF UnwindingInv, UnwindingTypeOK
<1> PICK n \in Nat : n = Len(stack)
  BY <1>0
<1>1. /\ panicking \in BOOLEAN /\ panicking' \in BOOLEAN
      /\ Owed \in Int /\ Held \in Int /\ Stage \in Int
  BY <1>0, StepsCounted DEF UnwindingTypeOK
<1>2. ASSUME NEW uses \in BOOLEAN, Call(uses) PROVE StepsLeft' \in 0 .. StepsLeft - 1
  <2>1. /\ Stays(n) /\ n > 0 /\ Len(stack') = n + 1 /\ next = "user" /\ next' = "user"
        /\ calls' = calls + 1
        /\ UNCHANGED <<panicking, outcome, panics, registered, started>>
    BY <1>2, CallFrames
  <2>2. Owed' = Owed + (-4)
    BY <1>0, <2>1, OwedChanges
  <2>3. Held' <= Held + 3
    BY <1>0, <2>1, HeldGrows
  <2>4. Stage' <= Stage + 0
    BY <1>1, <2>1, MainAheadStays, StageFalls
  <2>5. (-4) + 3 + 0 < 0
    OBVIOUS
  <2> QED
    BY <1>0, <2>2, <2>3, <2>4, <2>5, Advances
<1>3. CASE Defer
  <2>1. /\ Stays(n) /\ n > 0 /\ Len(stack') = n /\ next = "user" /\ next' = "user"
        /\ registered' = registered + 1
        /\ UNCHANGED <<panicking, outcome, calls, panics, started>>
    BY <1>3, DeferFrames
  <2>2. Owed' = Owed + (-1)
    BY <1>0, <2>1, OwedChanges
  <2>3. Held' <= Held + (n - Len(stack))
    BY <1>0, <2>1, HeldStays
  <2>4. Stage' <= Stage + 0
    BY <1>1, <2>1, MainAheadStays, StageFalls
  <2>5. n - Len(stack) \in Int /\ (-1) + (n - Len(stack)) + 0 < 0
    OBVIOUS
  <2> QED
    BY <1>0, <2>2, <2>3, <2>4, <2>5, Advances
<1>4. CASE RunDefers
  <2>1. /\ Stays(n) /\ n > 0 /\ Len(stack') = n + 1 /\ next = "user" /\ next' = "defer_execute"
        /\ stack[n].kind = "function" /\ ~stack[n].returning /\ stack'[n].returning
        /\ stack'[n + 1].kind = "deferExecute"
        /\ UNCHANGED <<panicking, outcome, calls, panics, registered, started>>
    BY <1>4, RunDefersFrames
  <2>2. Owed' = Owed + 0
    BY <1>0, <2>1, OwedChanges
  <2>3. n \in Unreturned
    BY <1>0, <2>1 DEF Unreturned
  <2>4. Held' <= Held - 1
    BY <1>0, <2>1, <2>3, HeldGrows
  <2>5. Held' <= Held + (-1)
    BY <1>1, <2>4
  <2>6. Stage' <= Stage + 0
    BY <1>1, <2>1, MainAheadStays, StageFalls
  <2>7. 0 + (-1) + 0 < 0
    OBVIOUS
  <2> QED
    BY <1>0, <2>2, <2>5, <2>6, <2>7, Advances
<1>5. CASE Return
  <2> PICK p \in 0 .. n :
         /\ p = IF n = 1 /\ base.words = 0 THEN 1 ELSE n - 1
         /\ Stays(p) /\ n > 0 /\ Len(stack') = p
         /\ stack[n].kind = "function"
         /\ next = "user" /\ next' = stack[n].resume
         /\ UNCHANGED <<panicking, base, outcome, calls, panics, registered, started>>
    BY <1>5, ReturnFrames
  <2>1. n \in DOMAIN stack
    BY <1>0
  <2>2. Owed' = Owed + 0
    BY <1>0, OwedChanges
  <2>3. Held' <= Held + (p - n)
    BY <1>0, HeldStays
  <2>4. MainAhead' => MainAhead
    BY <2>1, ReturnsToMain, MainAheadStays
  <2>5. CASE p = n - 1
    <3>1. Stage' <= Stage + 0
      BY <1>1, <2>4, StageFalls
    <3>2. p - n \in Int /\ 0 + (p - n) + 0 < 0
      BY <2>5
    <3> QED
      BY <1>0, <2>2, <2>3, <3>1, <3>2, Advances
  <2>6. CASE p # n - 1
    <3>1. n = 1 /\ base.words = 0 /\ p = 1
      BY <2>6
    <3>2. FrameOK(n)
      BY <2>1 DEF UnwindingInv, StackOK
    <3>3. next' = "terminate"
      BY <3>1, <3>2 DEF FrameOK
    <3>4. Stage' <= Stage - 1
      BY <1>1, <2>4, <3>3, StageFalls
    <3>5. Stage' <= Stage + (-1)
      BY <1>1, <3>4
    <3>6. p - n \in Int /\ 0 + (p - n) + (-1) < 0
      BY <3>1
    <3> QED
      BY <1>0, <2>2, <2>3, <3>5, <3>6, Advances
  <2> QED
    BY <2>5, <2>6
<1>6. ASSUME NEW data \in {"nil", "object"}, Panic(data)
      PROVE  StepsLeft' \in 0 .. StepsLeft - 1
  <2>1. /\ Stays(n) /\ n > 0 /\ Len(stack') = n + 1
        /\ stack'[n + 1].kind = "panicRaise"
        /\ next = "user" /\ next' = "panic_raise_body"
        /\ panics' = panics + 1
        /\ UNCHANGED <<outcome, calls, registered, started>>
    BY <1>6, PanicFrames
  <2>2. Owed' = Owed + (-3)
    BY <1>0, <2>1, OwedChanges
  <2>3. Held' <= Held + 1
    BY <1>0, <2>1, HeldGrows
  <2>4. Stage' <= Stage + 1
    BY <1>1, <2>1, MainAheadStays, StageFalls
  <2>5. (-3) + 1 + 1 < 0
    OBVIOUS
  <2> QED
    BY <1>0, <2>2, <2>3, <2>4, <2>5, Advances
<1>7. CASE Recover
  <2>1. /\ next = "user" /\ panicking /\ ~panicking'
        /\ UNCHANGED <<stack, next, outcome, calls, panics, registered, started>>
    BY <1>7 DEF Recover, InBody
  <2>2. Stays(n) /\ Len(stack') = n
    BY <1>0, <2>1 DEF Stays
  <2>3. Owed' = Owed + 0
    BY <1>0, <2>1, OwedChanges
  <2>4. Held' <= Held + (n - Len(stack))
    BY <1>0, <2>2, HeldStays
  <2>5. Stage' <= Stage - 1
    BY <1>1, <2>1, <2>2, MainAheadStays, StageFalls
  <2>6. Stage' <= Stage + (-1)
    BY <1>1, <2>5
  <2>7. n - Len(stack) \in Int /\ 0 + (n - Len(stack)) + (-1) < 0
    OBVIOUS
  <2> QED
    BY <1>0, <2>3, <2>4, <2>6, <2>7, Advances
<1> QED
  BY <1>2, <1>3, <1>4, <1>5, <1>6, <1>7

LEMMA RuntimeStepAdvances ==
  ASSUME UnwindingInv, UnwindingTypeOK', outcome = "running", DeferExecute \/ PanicRaiseBody
  PROVE  StepsLeft' \in 0 .. StepsLeft - 1
<1>0. UnwindingTypeOK /\ stack \in Seq(Frames)
  BY DEF UnwindingInv, UnwindingTypeOK
<1> PICK n \in Nat : n = Len(stack)
  BY <1>0
<1>1. /\ panicking \in BOOLEAN /\ panicking' \in BOOLEAN
      /\ Owed \in Int /\ Held \in Int /\ Stage \in Int
  BY <1>0, StepsCounted DEF UnwindingTypeOK
\* A runtime frame that goes, perhaps with the function below it.
<1>2. ASSUME NEW p \in 0 .. n - 1, Stays(p), Len(stack') = p, next # "terminate",
             MainAhead' => MainAhead,
             UNCHANGED <<panicking, outcome, calls, panics, registered, started>>
      PROVE  StepsLeft' \in 0 .. StepsLeft - 1
  <2>1. Owed' = Owed + 0
    BY <1>0, <1>2, OwedChanges
  <2>2. Held' <= Held + (p - n)
    BY <1>0, <1>2, HeldStays
  <2>3. Stage' <= Stage + 0
    BY <1>1, <1>2, StageFalls
  <2>4. p - n \in Int /\ 0 + (p - n) + 0 < 0
    OBVIOUS
  <2> QED
    BY <1>0, <2>1, <2>2, <2>3, <2>4, Advances
<1>3. CASE DeferExecute
  <2>1. /\ next = "defer_execute" /\ n > 1
        /\ \/ DeferredCalled(n, "defer_execute")
           \/ /\ Stays(n - 1) /\ Len(stack') = n - 1
              /\ next' = "user"
              /\ UNCHANGED <<panicking, outcome, calls, panics, registered, started>>
    BY <1>3, DeferExecuteFrames
  <2>2. CASE DeferredCalled(n, "defer_execute")
    BY <1>0, <2>1, <2>2, DeferredCallAdvances
  <2>3. CASE /\ Stays(n - 1) /\ Len(stack') = n - 1
             /\ next' = "user"
             /\ UNCHANGED <<panicking, outcome, calls, panics, registered, started>>
    <3>1. n - 1 \in 0 .. n - 1
      BY <2>1
    <3>2. MainAhead' => MainAhead
      BY <2>3, MainAheadStays
    <3> QED
      BY <1>2, <2>1, <2>3, <3>1, <3>2
  <2> QED
    BY <2>1, <2>2, <2>3
<1>4. CASE PanicRaiseBody
  <2>1. next = "panic_raise_body" /\ n > 0
    BY <1>4, RaiseFrames
  <2>2. CASE DeferredCalled(n, "panic_raise_body")
    BY <1>0, <2>1, <2>2, DeferredCallAdvances
  <2>3. CASE RaiseEnds
    <3>1. /\ outcome' # "running" /\ (panicking' => panicking)
          /\ UNCHANGED <<stack, next, calls, panics, registered, started>>
      BY <2>3 DEF RaiseEnds
    <3>2. Stays(n) /\ Len(stack') = n
      BY <1>0, <3>1 DEF Stays
    <3>3. Owed' = Owed + 0
      BY <1>0, <3>1, OwedChanges
    <3>4. Held' <= Held + (n - Len(stack))
      BY <1>0, <3>2, HeldStays
    <3>5. MainAhead' => MainAhead
      BY <2>1, <3>1, <3>2, MainAheadStays
    <3>6. Stage' <= Stage - 1
      BY <1>1, <2>1, <3>1, <3>5, StageFalls
    <3>7. Stage' <= Stage + (-1)
      BY <1>1, <3>6
    <3>8. n - Len(stack) \in Int /\ 0 + (n - Len(stack)) + (-1) < 0
      OBVIOUS
    <3> QED
      BY <1>0, <3>3, <3>4, <3>7, <3>8, Advances
  <2>4. CASE RaiseLeaves(n)
    <3>1. /\ n - 1 \in 0 .. n - 1 /\ Stays(n - 1) /\ Len(stack') = n - 1 /\ next' = next
          /\ UNCHANGED <<panicking, outcome, calls, panics, registered, started>>
      BY <2>4 DEF RaiseLeaves
    <3>2. MainAhead' => MainAhead
      BY <2>1, <3>1, MainAheadStays
    <3> QED
      BY <1>2, <2>1, <3>1, <3>2
  <2>5. CASE RaiseReturns(n)
    <3>1. /\ n > 1 /\ stack[n - 1].kind = "function" /\ next' = stack[n - 1].resume
          /\ UNCHANGED <<panicking, outcome, calls, panics, registered, started>>
      BY <2>5 DEF RaiseReturns
    <3> PICK p \in 0 .. n - 1 : Stays(p) /\ Len(stack') = p
      BY <2>5 DEF RaiseReturns
    <3>2. n - 1 \in DOMAIN stack
      BY <1>0, <3>1
    <3>3. MainAhead' => MainAhead
      BY <3>1, <3>2, ReturnsToMain, MainAheadStays
    <3> QED
      BY <1>2, <2>1, <3>1, <3>3
  <2> QED
    BY <1>4, <2>2, <2>3, <2>4, <2>5, RaiseFrames
<1> QED
  BY <1>3, <1>4

LEMMA EnterMainAdvances ==
  ASSUME UnwindingInv, UnwindingTypeOK', MainAlone, outcome = "running", EnterMain
  PROVE  StepsLeft' \in 0 .. StepsLeft - 1
<1>0. UnwindingTypeOK
  BY DEF UnwindingInv
<1> PICK uses \in BOOLEAN : stack' = <<FunctionFrame("terminate", uses)>>
  BY DEF EnterMain
<1>1. /\ next = "enter_main" /\ next' = "user" /\ stack = <<>>
      /\ UNCHANGED <<panicking, outcome, calls, panics, registered, started>>
  BY DEF EnterMain, MainAlone
<1>2. /\ stack' \in Seq(Frames) /\ Len(stack') = 0 + 1 /\ stack'[1].resume = "terminate"
      /\ stack \in Seq(Frames) /\ Len(stack) = 0 /\ 1 .. 0 = {} /\ 0 \in Nat
  <2>1. FunctionFrame("terminate", uses) \in Frames
    BY NewFunctionFrame DEF Functions
  <2>2. FunctionFrame("terminate", uses).resume = "terminate"
    BY NewFunctionFrame DEF Functions
  <2> QED
    BY <1>1, <2>1, <2>2
<1>3. Owed' = Owed + 0
  BY <1>0, <1>1, OwedChanges
<1>4. Held' <= Held + 3
  <2>1. Stays(0)
    BY <1>2 DEF Stays
  <2> QED
    BY <1>0, <1>2, <2>1, HeldGrows
<1>5. MainAhead /\ ~MainAhead'
  BY <1>1, <1>2 DEF MainAhead
<1>6. Stage' <= Stage + (-4)
  <2>1. Count(MainAhead, 4) = 4 /\ Count(MainAhead', 4) = 0
    BY <1>5 DEF Count
  <2>2. /\ Count(panicking, 1)' = Count(panicking, 1)
        /\ Count(outcome = "running", 1)' = Count(outcome = "running", 1)
        /\ Count(next # "terminate", 1)' = 1 /\ Count(next # "terminate", 1) = 1
        /\ Count(panicking, 1) \in Int /\ Count(outcome = "running", 1) \in Int
    BY <1>1 DEF Count
  <2> QED
    BY <2>1, <2>2 DEF Stage
<1>7. 0 + 3 + (-4) < 0
  OBVIOUS
<1> QED
  BY <1>0, <1>3, <1>4, <1>6, <1>7, Advances

LEMMA TerminateAdvances ==
  ASSUME UnwindingInv, UnwindingTypeOK', outcome = "running", Terminate
  PROVE  StepsLeft' \in 0 .. StepsLeft - 1
<1>0. UnwindingTypeOK /\ stack \in Seq(Frames)
  BY DEF UnwindingInv, UnwindingTypeOK
<1>1. /\ outcome' = "terminated"
      /\ UNCHANGED <<stack, next, panicking, calls, panics, registered, started>>
  BY DEF Terminate
<1> PICK n \in Nat : n = Len(stack)
  BY <1>0
<1>2. Owed' = Owed + 0
  BY <1>0, <1>1, OwedChanges
<1>3. Held' <= Held + (n - Len(stack))
  <2>1. Stays(n) /\ Len(stack') = n
    BY <1>0, <1>1 DEF Stays
  <2> QED
    BY <1>0, <2>1, HeldStays
<1>4. Stage' <= Stage + (-1)
  <2>1. Count(outcome = "running", 1) = 1 /\ Count(outcome' = "running", 1) = 0
    BY <1>1 DEF Count
  <2>2. /\ (MainAhead <=> MainAhead') /\ (panicking <=> panicking')
        /\ (next # "terminate" <=> next' # "terminate")
    BY <1>1 DEF MainAhead
  <2>3. /\ Count(MainAhead, 4) \in Int /\ Count(MainAhead', 4) = Count(MainAhead, 4)
        /\ Count(panicking, 1) \in Int /\ Count(panicking', 1) = Count(panicking, 1)
        /\ Count(next # "terminate", 1) \in Int
        /\ Count(next' # "terminate", 1) = Count(next # "terminate", 1)
    BY <2>2 DEF Count
  <2> QED
    BY <2>1, <2>3 DEF Stage
<1>5. n - Len(stack) \in Int /\ 0 + (n - Len(stack)) + (-1) < 0
  OBVIOUS
<1> QED
  BY <1>0, <1>2, <1>3, <1>4, <1>5, Advances

\* Every step of a goroutine, in user code, in a deferred call, in unwinding and
\* after a recovery, uses up something that only finitely many calls, defer
\* statements and panics of its functions can add to (defer.rs:80-98,
\* panic.rs:19-49): whatever it issues finitely much of, it ends, and so does each
\* panic.
THEOREM GoroutinesAdvance == UnwindingSpec => EveryStepAdvances
<1> DEFINE Advance == StepsLeft' \in 0 .. StepsLeft - 1
<1>1. StackInv /\ StackInv' /\ [UnwindingNext]_vars => [Advance]_vars
  <2> SUFFICES ASSUME StackInv, StackInv', UnwindingNext PROVE Advance \/ UNCHANGED vars
    OBVIOUS
  <2>1. UnwindingInv /\ UnwindingTypeOK' /\ MainAlone
    BY DEF StackInv, UnwindingInv
  <2> QED
    BY <2>1, UserStepAdvances, RuntimeStepAdvances, EnterMainAdvances, TerminateAdvances
    DEF UnwindingNext, Running
<1> QED
  BY <1>1, TheStackIsInOrder, PTL DEF UnwindingSpec, EveryStepAdvances
=============================================================================
