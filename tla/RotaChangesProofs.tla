--------------------------- MODULE RotaChangesProofs ---------------------------
(***************************************************************************)
(* Proofs about RotaChanges, for any number of requests, rotas, Shifts and *)
(* people.                                                                 *)
(*                                                                         *)
(* The effective rota is a replay of the ledger, a recursive function of   *)
(* it.  The first sections get induction on the natural numbers from the   *)
(* well-foundedness of their order, show that the recursive functions of   *)
(* the model exist, and unfold them; then come lemmas about the replay of  *)
(* any rows, about the rows one change writes, the inductive invariant,    *)
(* and what the newest change of a Shift does.                             *)
(***************************************************************************)
EXTENDS RotaChanges, SequenceTheorems, WellFoundedInduction, TLAPS

-----------------------------------------------------------------------------
(* Recursive functions, from induction. *)

\* Induction on the natural numbers, for a set S of them: a well-founded order
\* has a least element outside S, and there is none.
LEMMA Induction ==
    ASSUME NEW S, 0 \in S, \A n \in Nat : n \in S => n + 1 \in S
    PROVE  \A n \in Nat : n \in S
<1>1. SUFFICES ASSUME Nat \ S # {}
               PROVE  FALSE
  OBVIOUS
<1>2. PICK n \in Nat \ S : \A m \in Nat \ S : ~(<<m, n>> \in OpToRel(<, Nat))
  BY <1>1, WFMin, NatLessThanWellFounded
<1>3. n # 0
  BY <1>2
<1>4. n - 1 \in Nat /\ (n - 1) + 1 = n /\ n - 1 < n
  BY <1>3
<1>5. n - 1 \notin S
  BY <1>2, <1>4
<1>6. <<n - 1, n>> \in OpToRel(<, Nat)
  BY <1>2, <1>4 DEF OpToRel
<1> QED
  BY <1>2, <1>4, <1>5, <1>6

\* f iterates a step from c, n times.
Iterates(f, c, step, n) ==
    f[0] = c /\ \A i \in 1 .. n : f[i] = step[<<f[i - 1], i>>]

\* Such a function exists: what makes the recursive functions of the model the
\* functions their equations define.
LEMMA Recursion ==
    ASSUME NEW S, NEW c \in S, NEW step \in [S \X Nat -> S], NEW n \in Nat
    PROVE  \E f \in [0 .. n -> S] : Iterates(f, c, step, n)
<1> DEFINE P(f, m) == f[0] = c /\ \A i \in 1 .. m : f[i] = step[<<f[i - 1], i>>]
           T == {m \in Nat : \E f \in [0 .. m -> S] : P(f, m)}
<1>1. 0 \in T
  <2>1. [i \in 0 .. 0 |-> c] \in [0 .. 0 -> S] /\ P([i \in 0 .. 0 |-> c], 0)
    OBVIOUS
  <2> QED
    BY <2>1
<1>2. ASSUME NEW m \in Nat, m \in T
      PROVE  m + 1 \in T
  <2>1. PICK f \in [0 .. m -> S] : P(f, m)
    BY <1>2
  <2> DEFINE g == [i \in 0 .. m + 1 |-> IF i <= m THEN f[i] ELSE step[<<f[m], m + 1>>]]
  <2>2. step[<<f[m], m + 1>>] \in S
    <3>1. <<f[m], m + 1>> \in S \X Nat
      BY <2>1
    <3> QED
      BY <3>1
  <2>3. g \in [0 .. m + 1 -> S]
    BY <2>1, <2>2
  <2>4. g[0] = c
    BY <2>1
  <2>5. ASSUME NEW i \in 1 .. m + 1
        PROVE  g[i] = step[<<g[i - 1], i>>]
    <3>1. CASE i <= m
      <4>1. i \in 1 .. m /\ i \in 0 .. m + 1 /\ i - 1 \in 0 .. m + 1 /\ i - 1 <= m
        BY <3>1
      <4>2. g[i] = f[i] /\ g[i - 1] = f[i - 1]
        BY <3>1, <4>1
      <4> QED
        BY <2>1, <4>1, <4>2
    <3>2. CASE i = m + 1
      BY <3>2
    <3> QED
      BY <3>1, <3>2
  <2>6. P(g, m + 1)
    BY <2>4, <2>5
  <2>7. m + 1 \in Nat
    OBVIOUS
  <2> HIDE DEF P, g
  <2> QED
    BY <2>3, <2>6, <2>7
<1> HIDE DEF T
<1>3. \A m \in Nat : m \in T
  BY <1>1, <1>2, Induction
<1> QED
  BY <1>3 DEF T, Iterates

-----------------------------------------------------------------------------
(* The replay of the ledger, unfolded. *)

\* The seats after each row, when those of one time are applied.
Each(f, seats, rows, time) ==
    /\ f \in [0 .. Len(rows) -> Seats]
    /\ f[0] = seats
    /\ \A i \in 1 .. Len(rows) :
          f[i] = IF rows[i].time = time THEN Apply(f[i - 1], rows[i]) ELSE f[i - 1]

\* A row changes the seats of one person, and no other.
LEMMA ApplyType ==
    ASSUME NEW seats \in Seats, NEW row \in Row
    PROVE  /\ Apply(seats, row) \in Seats
           /\ \A who \in People \ {row.who} : Apply(seats, row)[who] = seats[who]
           /\ row.dir = "remove" => Apply(seats, row)[row.who] = <<>>
           /\ row.dir = "add" => Apply(seats, row)[row.who] = Append(seats[row.who], row.role)
<1> DEFINE roles == Seq(Roles \cup {None})
           new == IF row.dir = "remove" THEN <<>> ELSE Append(seats[row.who], row.role)
<1>1. row.who \in People /\ row.role \in Roles \cup {None} /\ row.dir \in {"remove", "add"}
  BY DEF Row
<1>2. seats \in [People -> roles]
  BY DEF Seats
<1>3. new \in roles
  BY <1>1, <1>2, AppendProperties, EmptySeq
<1> HIDE DEF roles
<1>4. Apply(seats, row) = [seats EXCEPT ![row.who] = new]
  BY <1>1, <1>2 DEF Apply
<1>5. Apply(seats, row) \in [People -> roles]
  BY <1>1, <1>2, <1>3, <1>4
<1>6. Apply(seats, row)[row.who] = new
  BY <1>1, <1>2, <1>4
<1>7. \A who \in People \ {row.who} : Apply(seats, row)[who] = seats[who]
  BY <1>1, <1>2, <1>4
<1> QED
  BY <1>5, <1>6, <1>7 DEF Seats, roles

\* ApplyTime unfolds: it is the last of the seats after each row.
LEMMA ApplyTimeSteps ==
    ASSUME NEW seats \in Seats, NEW rows \in Seq(Row), NEW time
    PROVE  \E f : Each(f, seats, rows, time) /\ ApplyTime(seats, rows, time) = f[Len(rows)]
<1> DEFINE n == Len(rows)
           OneRow(x, i) == IF rows[i].time = time THEN Apply(x, rows[i]) ELSE x
           step == [a \in Seats \X Nat |-> IF a[2] \in 1 .. n THEN OneRow(a[1], a[2]) ELSE a[1]]
           Body(f) == [i \in 0 .. n |-> IF i = 0 THEN seats
                         ELSE IF rows[i].time = time THEN Apply(f[i - 1], rows[i])
                                                     ELSE f[i - 1]]
           F == CHOOSE f : f = Body(f)
<1>1. n \in Nat /\ \A i \in 1 .. n : rows[i] \in Row
  BY LenProperties, ElementOfSeq
<1>2. \A x \in Seats, i \in 1 .. n : OneRow(x, i) \in Seats
  BY <1>1, ApplyType
<1>3. step \in [Seats \X Nat -> Seats]
  <2> HIDE DEF OneRow
  <2> QED
    BY <1>2
<1>4. PICK g \in [0 .. n -> Seats] :
         g[0] = seats /\ \A i \in 1 .. n : g[i] = step[<<g[i - 1], i>>]
  <2> HIDE DEF step, n
  <2>1. \E g \in [0 .. n -> Seats] : Iterates(g, seats, step, n)
    BY <1>1, <1>3, Recursion
  <2> QED
    BY <2>1 DEF Iterates
<1>5. ASSUME NEW i \in 1 .. n
      PROVE  g[i - 1] \in Seats /\ g[i] = OneRow(g[i - 1], i)
  <2>1. g[i - 1] \in Seats /\ i \in Nat
    BY <1>1, <1>4
  <2>2. step[<<g[i - 1], i>>] = OneRow(g[i - 1], i)
    <3> HIDE DEF OneRow
    <3> QED
      BY <2>1
  <2> QED
    BY <1>4, <2>1, <2>2
<1>6. g = Body(g)
  <2>1. \A i \in 0 .. n : g[i] = Body(g)[i]
    BY <1>1, <1>4, <1>5
  <2> QED
    BY <1>4, <2>1
<1>7. F = Body(F)
  <2> HIDE DEF Body
  <2> QED
    BY <1>6
<1>8. F[0] = seats
  BY <1>1, <1>7
<1>9. \A i \in 1 .. n : F[i] = OneRow(F[i - 1], i)
  BY <1>1, <1>7
<1>10. \A i \in 0 .. n : F[i] \in Seats
  <2> DEFINE T == {i \in Nat : i <= n => F[i] \in Seats}
  <2> HIDE DEF F, OneRow, n
  <2>1. 0 \in T
    BY <1>8
  <2>2. ASSUME NEW i \in Nat, i \in T
        PROVE  i + 1 \in T
    <3>1. CASE i + 1 <= n
      <4>1. i + 1 \in 1 .. n /\ i <= n /\ (i + 1) - 1 = i
        BY <1>1, <3>1
      <4>2. F[i + 1] = OneRow(F[i], i + 1)
        BY <1>9, <4>1
      <4> QED
        BY <1>2, <2>2, <4>1, <4>2
    <3>2. CASE ~(i + 1 <= n)
      BY <3>2
    <3> QED
      BY <3>1, <3>2
  <2> HIDE DEF T
  <2>3. \A i \in Nat : i \in T
    BY <2>1, <2>2, Induction
  <2> QED
    BY <1>1, <2>3 DEF T
<1>11. Each(F, seats, rows, time)
  <2>1. F \in [0 .. n -> Seats]
    <3>1. F = [i \in 0 .. n |-> F[i]]
      BY <1>7
    <3> HIDE DEF F, n
    <3> QED
      BY <1>10, <3>1
  <2> HIDE DEF F
  <2> QED
    BY <2>1, <1>8, <1>9 DEF Each
<1>12. ApplyTime(seats, rows, time) = F[n]
  BY DEF ApplyTime
<1> HIDE DEF F
<1> QED
  BY <1>11, <1>12

\* The seats after each time.
Replayed(f, seats, rows) ==
    /\ f \in [0 .. MaxClock -> Seats]
    /\ f[0] = seats
    /\ \A time \in 1 .. MaxClock : f[time] = ApplyTime(f[time - 1], rows, time)

\* The rows of one time make seats of seats.
LEMMA ApplyTimeType ==
    ASSUME NEW seats \in Seats, NEW rows \in Seq(Row), NEW time
    PROVE  ApplyTime(seats, rows, time) \in Seats
<1>1. PICK f : Each(f, seats, rows, time) /\ ApplyTime(seats, rows, time) = f[Len(rows)]
  BY ApplyTimeSteps
<1>2. Len(rows) \in Nat
  BY LenProperties
<1> QED
  BY <1>1, <1>2 DEF Each

\* Replay unfolds: it is the last of the seats after each time.
LEMMA ReplaySteps ==
    ASSUME NEW seats \in Seats, NEW rows \in Seq(Row)
    PROVE  \E f : Replayed(f, seats, rows) /\ Replay(seats, rows) = f[MaxClock]
<1> DEFINE n == MaxClock
           step == [a \in Seats \X Nat |-> ApplyTime(a[1], rows, a[2])]
           Body(f) == [t \in 0 .. n |-> IF t = 0 THEN seats ELSE ApplyTime(f[t - 1], rows, t)]
           F == CHOOSE f : f = Body(f)
<1>1. n \in Nat
  BY AsksAssumption
<1>2. \A x \in Seats, t \in Nat : ApplyTime(x, rows, t) \in Seats
  BY ApplyTimeType
<1>3. step \in [Seats \X Nat -> Seats]
  BY <1>2
<1>4. PICK g \in [0 .. n -> Seats] :
         g[0] = seats /\ \A t \in 1 .. n : g[t] = step[<<g[t - 1], t>>]
  <2> HIDE DEF step
  <2>1. \E g \in [0 .. n -> Seats] : Iterates(g, seats, step, n)
    BY <1>1, <1>3, Recursion
  <2> QED
    BY <2>1 DEF Iterates
<1>5. ASSUME NEW t \in 1 .. n
      PROVE  g[t - 1] \in Seats /\ g[t] = ApplyTime(g[t - 1], rows, t)
  <2>1. g[t - 1] \in Seats /\ t \in Nat
    BY <1>1, <1>4
  <2>2. step[<<g[t - 1], t>>] = ApplyTime(g[t - 1], rows, t)
    BY <2>1
  <2> QED
    BY <1>4, <2>1, <2>2
<1>6. g = Body(g)
  <2>1. \A t \in 0 .. n : g[t] = Body(g)[t]
    BY <1>1, <1>4, <1>5
  <2> QED
    BY <1>4, <2>1
<1>7. F = Body(F)
  <2> HIDE DEF Body
  <2> QED
    BY <1>6
<1>8. F[0] = seats
  <2> HIDE DEF F
  <2> QED
    BY <1>1, <1>7
<1>9. \A t \in 1 .. n : F[t] = ApplyTime(F[t - 1], rows, t)
  <2> HIDE DEF F
  <2> QED
    BY <1>1, <1>7
<1>10. \A t \in 0 .. n : F[t] \in Seats
  <2> DEFINE T == {t \in Nat : t <= n => F[t] \in Seats}
  <2> HIDE DEF F
  <2>1. 0 \in T
    BY <1>8
  <2>2. ASSUME NEW t \in Nat, t \in T
        PROVE  t + 1 \in T
    <3>1. CASE t + 1 <= n
      <4>1. t + 1 \in 1 .. n /\ t <= n /\ (t + 1) - 1 = t
        BY <1>1, <3>1
      <4>2. F[t + 1] = ApplyTime(F[t], rows, t + 1)
        BY <1>9, <4>1
      <4> QED
        BY <1>2, <2>2, <4>1, <4>2
    <3>2. CASE ~(t + 1 <= n)
      BY <3>2
    <3> QED
      BY <3>1, <3>2
  <2> HIDE DEF T
  <2>3. \A t \in Nat : t \in T
    BY <2>1, <2>2, Induction
  <2> QED
    BY <1>1, <2>3 DEF T
<1>11. Replayed(F, seats, rows)
  <2>1. F \in [0 .. n -> Seats]
    <3>1. F = [t \in 0 .. n |-> F[t]]
      BY <1>7
    <3> HIDE DEF F
    <3> QED
      BY <1>10, <3>1
  <2> HIDE DEF F
  <2> QED
    BY <2>1, <1>8, <1>9 DEF Replayed
<1>12. Replay(seats, rows) = F[n]
  BY DEF Replay
<1> HIDE DEF F
<1> QED
  BY <1>11, <1>12

-----------------------------------------------------------------------------
(* What the replay does with rows. *)

\* Two runs of rows of one time apply one after the other.
LEMMA ApplyConcat ==
    ASSUME NEW seats \in Seats, NEW a \in Seq(Row), NEW b \in Seq(Row), NEW time
    PROVE  ApplyTime(seats, a \o b, time) = ApplyTime(ApplyTime(seats, a, time), b, time)
<1> DEFINE m == Len(a)
           n == Len(b)
           mid == ApplyTime(seats, a, time)
<1>1. /\ m \in Nat /\ n \in Nat /\ a \o b \in Seq(Row) /\ Len(a \o b) = m + n
      /\ \A i \in 1 .. m : (a \o b)[i] = a[i]
      /\ \A i \in 1 .. n : (a \o b)[m + i] = b[i]
  BY LenProperties, ConcatProperties
<1>2. mid \in Seats
  BY ApplyTimeType
<1>3. PICK f : Each(f, seats, a \o b, time) /\ ApplyTime(seats, a \o b, time) = f[m + n]
  <2> DEFINE ab == a \o b
  <2>1. ab \in Seq(Row) /\ Len(ab) = m + n
    BY <1>1
  <2> HIDE DEF ab, m, n
  <2>2. \E f : Each(f, seats, ab, time) /\ ApplyTime(seats, ab, time) = f[m + n]
    BY <2>1, ApplyTimeSteps
  <2> QED
    BY <2>2 DEF ab
<1>4. PICK g : Each(g, seats, a, time) /\ mid = g[m]
  BY ApplyTimeSteps
<1>5. PICK h : Each(h, mid, b, time) /\ ApplyTime(mid, b, time) = h[n]
  <2> HIDE DEF mid
  <2> QED
    BY <1>2, ApplyTimeSteps
<1> HIDE DEF mid, m, n
<1>6. f[m] = g[m]
  <2> DEFINE T == {i \in Nat : i <= m => f[i] = g[i]}
  <2>1. 0 \in T
    BY <1>3, <1>4 DEF Each
  <2>2. ASSUME NEW i \in Nat, i \in T
        PROVE  i + 1 \in T
    <3>1. CASE i + 1 <= m
      <4>1. i + 1 \in 1 .. m /\ i + 1 \in 1 .. m + n /\ (i + 1) - 1 = i /\ f[i] = g[i]
        BY <1>1, <2>2, <3>1
      <4>2. f[i + 1] = IF a[i + 1].time = time THEN Apply(f[i], a[i + 1]) ELSE f[i]
        BY <1>1, <1>3, <4>1 DEF Each
      <4>3. g[i + 1] = IF a[i + 1].time = time THEN Apply(g[i], a[i + 1]) ELSE g[i]
        BY <1>4, <4>1 DEF Each, m
      <4> QED
        BY <4>1, <4>2, <4>3
    <3>2. CASE ~(i + 1 <= m)
      BY <3>2
    <3> QED
      BY <3>1, <3>2
  <2> HIDE DEF T
  <2>3. \A i \in Nat : i \in T
    BY <2>1, <2>2, Induction
  <2> QED
    BY <1>1, <2>3 DEF T
<1>7. f[m + n] = h[n]
  <2> DEFINE T == {i \in Nat : i <= n => f[m + i] = h[i]}
  <2>1. 0 \in T
    <3>1. f[m + 0] = h[0]
      BY <1>1, <1>4, <1>5, <1>6 DEF Each
    <3> QED
      BY <3>1
  <2>2. ASSUME NEW i \in Nat, i \in T
        PROVE  i + 1 \in T
    <3>1. CASE i + 1 <= n
      <4>1. /\ i + 1 \in 1 .. n /\ m + (i + 1) \in 1 .. m + n
            /\ (m + (i + 1)) - 1 = m + i /\ (i + 1) - 1 = i /\ f[m + i] = h[i]
        BY <1>1, <2>2, <3>1
      <4>2. f[m + (i + 1)] = IF b[i + 1].time = time THEN Apply(f[m + i], b[i + 1]) ELSE f[m + i]
        BY <1>1, <1>3, <4>1 DEF Each
      <4>3. h[i + 1] = IF b[i + 1].time = time THEN Apply(h[i], b[i + 1]) ELSE h[i]
        BY <1>5, <4>1 DEF Each, n
      <4> QED
        BY <4>1, <4>2, <4>3
    <3>2. CASE ~(i + 1 <= n)
      BY <3>2
    <3> QED
      BY <3>1, <3>2
  <2> HIDE DEF T
  <2>3. \A i \in Nat : i \in T
    BY <2>1, <2>2, Induction
  <2> QED
    BY <1>1, <2>3 DEF T
<1> QED
  BY <1>3, <1>5, <1>7 DEF mid

\* Rows of other times do nothing.
LEMMA ApplyOther ==
    ASSUME NEW seats \in Seats, NEW rows \in Seq(Row), NEW time,
           \A i \in 1 .. Len(rows) : rows[i].time # time
    PROVE  ApplyTime(seats, rows, time) = seats
<1> DEFINE n == Len(rows)
<1>1. n \in Nat
  BY LenProperties
<1>2. PICK f : Each(f, seats, rows, time) /\ ApplyTime(seats, rows, time) = f[n]
  BY ApplyTimeSteps
<1> DEFINE T == {i \in Nat : i <= n => f[i] = seats}
<1>3. 0 \in T
  BY <1>2 DEF Each
<1>4. ASSUME NEW i \in Nat, i \in T
      PROVE  i + 1 \in T
  <2>1. CASE i + 1 <= n
    <3>1. i + 1 \in 1 .. n /\ (i + 1) - 1 = i /\ f[i] = seats
      BY <1>1, <1>4, <2>1
    <3> QED
      BY <1>2, <3>1 DEF Each
  <2>2. CASE ~(i + 1 <= n)
    BY <2>2
  <2> QED
    BY <2>1, <2>2
<1> HIDE DEF T
<1>5. \A i \in Nat : i \in T
  BY <1>3, <1>4, Induction
<1> QED
  BY <1>1, <1>2, <1>5 DEF T

\* No rows do nothing.
LEMMA ApplyNone ==
    ASSUME NEW seats \in Seats, NEW time
    PROVE  ApplyTime(seats, <<>>, time) = seats
<1> DEFINE none == <<>>
<1>1. none \in Seq(Row) /\ Len(none) = 0
  BY EmptySeq
<1> HIDE DEF none
<1>2. \A i \in 1 .. Len(none) : none[i].time # time
  BY <1>1
<1>3. ApplyTime(seats, none, time) = seats
  BY <1>1, <1>2, ApplyOther
<1> QED
  BY <1>3 DEF none

\* One row of that time is applied.
LEMMA ApplyOne ==
    ASSUME NEW seats \in Seats, NEW row \in Row
    PROVE  ApplyTime(seats, <<row>>, row.time) = Apply(seats, row)
<1>1. <<row>> \in Seq(Row) /\ Len(<<row>>) = 1 /\ <<row>>[1] = row
  OBVIOUS
<1>2. PICK f : /\ Each(f, seats, <<row>>, row.time)
               /\ ApplyTime(seats, <<row>>, row.time) = f[1]
  BY <1>1, ApplyTimeSteps
<1>3. f[1] = Apply(f[1 - 1], row) /\ f[0] = seats
  BY <1>1, <1>2 DEF Each
<1> QED
  BY <1>2, <1>3

\* The rows of one time do not widen a lead: who has at most k seats more over y
\* than over x has at most k more after them.
LEMMA ApplyBound ==
    ASSUME NEW x \in Seats, NEW y \in Seats, NEW rows \in Seq(Row), NEW time,
           NEW v \in People, NEW k \in Nat, Times(v, y) <= Times(v, x) + k
    PROVE  Times(v, ApplyTime(y, rows, time)) <= Times(v, ApplyTime(x, rows, time)) + k
<1> DEFINE n == Len(rows)
<1>1. n \in Nat /\ \A i \in 1 .. n : rows[i] \in Row
  BY LenProperties, ElementOfSeq
<1>2. PICK f : Each(f, x, rows, time) /\ ApplyTime(x, rows, time) = f[n]
  BY ApplyTimeSteps
<1>3. PICK g : Each(g, y, rows, time) /\ ApplyTime(y, rows, time) = g[n]
  BY ApplyTimeSteps
<1>4. ASSUME NEW s \in Seats, NEW t \in Seats, NEW row \in Row, Times(v, t) <= Times(v, s) + k
      PROVE  Times(v, Apply(t, row)) <= Times(v, Apply(s, row)) + k
  <2>1. s[v] \in Seq(Roles \cup {None}) /\ t[v] \in Seq(Roles \cup {None})
    BY DEF Seats
  <2>2. row.dir \in {"remove", "add"} /\ row.role \in Roles \cup {None}
    BY DEF Row
  <2>3. CASE row.who # v
    BY <1>4, <2>3, ApplyType DEF Times
  <2>4. CASE row.who = v /\ row.dir = "remove"
    <3>1. Apply(t, row)[v] = <<>> /\ Apply(s, row)[v] = <<>>
      BY <2>4, ApplyType
    <3> QED
      BY <3>1, EmptySeq DEF Times
  <2>5. CASE row.who = v /\ row.dir = "add"
    <3>1. /\ Apply(t, row)[v] = Append(t[v], row.role)
          /\ Apply(s, row)[v] = Append(s[v], row.role)
      BY <2>5, ApplyType
    <3>2. /\ Len(Append(t[v], row.role)) = Len(t[v]) + 1
          /\ Len(Append(s[v], row.role)) = Len(s[v]) + 1
          /\ Len(t[v]) \in Nat /\ Len(s[v]) \in Nat
      BY <2>1, <2>2, AppendProperties, LenProperties
    <3> QED
      BY <1>4, <3>1, <3>2 DEF Times
  <2> QED
    BY <2>2, <2>3, <2>4, <2>5
<1> DEFINE T == {i \in Nat : i <= n => Times(v, g[i]) <= Times(v, f[i]) + k}
<1>5. 0 \in T
  BY <1>2, <1>3 DEF Each
<1>6. ASSUME NEW i \in Nat, i \in T
      PROVE  i + 1 \in T
  <2>1. CASE i + 1 <= n
    <3>1. /\ i + 1 \in 1 .. n /\ (i + 1) - 1 = i /\ i \in 0 .. n
          /\ Times(v, g[i]) <= Times(v, f[i]) + k
      BY <1>1, <1>6, <2>1
    <3>2. f[i] \in Seats /\ g[i] \in Seats /\ rows[i + 1] \in Row
      BY <1>1, <1>2, <1>3, <3>1 DEF Each
    <3>3. Times(v, Apply(g[i], rows[i + 1])) <= Times(v, Apply(f[i], rows[i + 1])) + k
      BY <1>4, <3>1, <3>2
    <3>4. /\ f[i + 1] = IF rows[i + 1].time = time THEN Apply(f[i], rows[i + 1]) ELSE f[i]
          /\ g[i + 1] = IF rows[i + 1].time = time THEN Apply(g[i], rows[i + 1]) ELSE g[i]
      BY <1>2, <1>3, <3>1 DEF Each
    <3>5. Times(v, g[i + 1]) <= Times(v, f[i + 1]) + k
      BY <3>1, <3>3, <3>4
    <3> QED
      BY <3>5
  <2>2. CASE ~(i + 1 <= n)
    BY <2>2
  <2> QED
    BY <2>1, <2>2
<1> HIDE DEF T
<1>7. \A i \in Nat : i \in T
  BY <1>5, <1>6, Induction
<1> QED
  BY <1>1, <1>2, <1>3, <1>7 DEF T

\* All the rows are of one time.
AllAt(rows, time) == \A i \in 1 .. Len(rows) : rows[i].time = time

\* The seats after each time of a longer ledger, against those of the shorter.
LEMMA ConcatStep ==
    ASSUME NEW x \in Seats, NEW rows \in Seq(Row), NEW more \in Seq(Row),
           NEW time, AllAt(more, time), NEW t
    PROVE  ApplyTime(x, rows \o more, t) =
              IF t = time THEN ApplyTime(ApplyTime(x, rows, t), more, t)
                          ELSE ApplyTime(x, rows, t)
<1>1. ApplyTime(x, rows, t) \in Seats
  BY ApplyTimeType
<1>2. ApplyTime(x, rows \o more, t) = ApplyTime(ApplyTime(x, rows, t), more, t)
  BY ApplyConcat
<1>3. ASSUME t # time
      PROVE  ApplyTime(ApplyTime(x, rows, t), more, t) = ApplyTime(x, rows, t)
  BY <1>1, <1>3, ApplyOther DEF AllAt
<1> QED
  BY <1>2, <1>3

\* A change that gives v at most k more seats than they had gives them at most k
\* more once everything later has been replayed over it.
LEMMA ReplayBound ==
    ASSUME NEW seats \in Seats, NEW rows \in Seq(Row), NEW more \in Seq(Row),
           NEW time \in Nat, AllAt(more, time),
           NEW v \in People, NEW k \in Nat,
           \A x \in Seats : Times(v, ApplyTime(x, more, time)) <= Times(v, x) + k
    PROVE  Times(v, Replay(seats, rows \o more)) <= Times(v, Replay(seats, rows)) + k
<1> DEFINE both == rows \o more
<1>0. both \in Seq(Row) /\ MaxClock \in Nat
  BY ConcatProperties, AsksAssumption
<1>1. \A x \in Seats : \A t :
        ApplyTime(x, both, t) = IF t = time THEN ApplyTime(ApplyTime(x, rows, t), more, t)
                                            ELSE ApplyTime(x, rows, t)
  BY ConcatStep
<1> HIDE DEF both
<1>2. PICK f : Replayed(f, seats, rows) /\ Replay(seats, rows) = f[MaxClock]
  BY ReplaySteps
<1>3. PICK g : Replayed(g, seats, both) /\ Replay(seats, both) = g[MaxClock]
  BY <1>0, ReplaySteps
<1>4. \A x \in Seats : Times(v, x) \in Nat
  BY LenProperties DEF Times, Seats
<1> DEFINE extra(t) == IF t < time THEN 0 ELSE k
           T == {t \in Nat : t <= MaxClock => Times(v, g[t]) <= Times(v, f[t]) + extra(t)}
<1>5. 0 \in T
  <2>1. g[0] = seats /\ f[0] = seats
    BY <1>2, <1>3 DEF Replayed
  <2> QED
    BY <1>4, <2>1
<1>6. ASSUME NEW t \in Nat, t \in T
      PROVE  t + 1 \in T
  <2> DEFINE u == t + 1
  <2>1. CASE u <= MaxClock
    <3>1. u \in 1 .. MaxClock /\ u - 1 = t /\ t \in 0 .. MaxClock
      BY <1>0, <2>1
    <3>2. g[t] \in Seats /\ f[t] \in Seats /\ Times(v, g[t]) <= Times(v, f[t]) + extra(t)
      BY <1>2, <1>3, <1>6, <3>1 DEF Replayed
    <3>3. f[u] = ApplyTime(f[t], rows, u) /\ g[u] = ApplyTime(g[t], both, u)
      BY <1>2, <1>3, <3>1 DEF Replayed
    <3>4. extra(t) \in Nat
      OBVIOUS
    <3>5. Times(v, ApplyTime(g[t], rows, u)) <= Times(v, f[u]) + extra(t)
      <4> HIDE DEF extra, u
      <4> QED
        BY <3>2, <3>3, <3>4, ApplyBound
    <3>6. CASE u # time
      <4>1. g[u] = ApplyTime(g[t], rows, u)
        BY <1>1, <3>2, <3>3, <3>6
      <4>2. extra(t) <= extra(u)
        BY <3>6
      <4>3. Times(v, f[u]) \in Nat /\ Times(v, g[u]) \in Nat
        BY <1>2, <1>3, <1>4, <3>1 DEF Replayed
      <4> HIDE DEF extra
      <4>4. extra(u) \in Nat
        BY DEF extra
      <4>5. Times(v, g[u]) <= Times(v, f[u]) + extra(u)
        BY <3>4, <3>5, <4>1, <4>2, <4>3, <4>4
      <4> QED
        BY <4>5
    <3>7. CASE u = time
      <4>1. ApplyTime(g[t], rows, u) \in Seats
        BY <3>2, ApplyTimeType
      <4>2. g[u] = ApplyTime(ApplyTime(g[t], rows, u), more, u)
        BY <1>1, <3>2, <3>3, <3>7
      <4>3. Times(v, g[u]) <= Times(v, ApplyTime(g[t], rows, u)) + k
        BY <3>7, <4>1, <4>2
      <4>4. extra(t) = 0 /\ extra(u) = k
        BY <3>7
      <4>5. /\ Times(v, f[u]) \in Nat /\ Times(v, g[u]) \in Nat
            /\ Times(v, ApplyTime(g[t], rows, u)) \in Nat
        BY <1>2, <1>3, <1>4, <3>1, <4>1 DEF Replayed
      <4> HIDE DEF extra
      <4>6. Times(v, g[u]) <= Times(v, f[u]) + extra(u)
        BY <3>5, <4>3, <4>4, <4>5
      <4> QED
        BY <4>6
    <3> QED
      BY <3>6, <3>7
  <2>2. CASE ~(u <= MaxClock)
    BY <2>2
  <2> QED
    BY <2>1, <2>2
<1> HIDE DEF T
<1>7. \A t \in Nat : t \in T
  BY <1>5, <1>6, Induction
<1>8. Times(v, g[MaxClock]) <= Times(v, f[MaxClock]) + extra(MaxClock)
  BY <1>0, <1>7 DEF T
<1>9. Times(v, f[MaxClock]) \in Nat /\ Times(v, g[MaxClock]) \in Nat
  BY <1>0, <1>2, <1>3, <1>4 DEF Replayed
<1> QED
  BY <1>2, <1>3, <1>8, <1>9 DEF both

\* A change whose time is later than every row's is replayed last.
LEMMA ReplayLatest ==
    ASSUME NEW seats \in Seats, NEW rows \in Seq(Row), NEW more \in Seq(Row),
           NEW time \in Nat, 1 <= time, time <= MaxClock,
           AllAt(more, time),
           \A i \in 1 .. Len(rows) : rows[i].time < time
    PROVE  Replay(seats, rows \o more) = ApplyTime(Replay(seats, rows), more, time)
<1> DEFINE both == rows \o more
<1>0. both \in Seq(Row) /\ MaxClock \in Nat
  BY ConcatProperties, AsksAssumption
<1>1. \A x \in Seats : \A t :
        ApplyTime(x, both, t) = IF t = time THEN ApplyTime(ApplyTime(x, rows, t), more, t)
                                            ELSE ApplyTime(x, rows, t)
  <2> SUFFICES ASSUME NEW x \in Seats, NEW t
               PROVE  ApplyTime(x, rows \o more, t) =
                         IF t = time THEN ApplyTime(ApplyTime(x, rows, t), more, t)
                                     ELSE ApplyTime(x, rows, t)
    OBVIOUS
  <2> QED
    BY ConcatStep
<1>2. ASSUME NEW x \in Seats, NEW t \in Nat, t >= time
      PROVE  ApplyTime(x, rows, t) = x
  <2>1. ASSUME NEW i \in 1 .. Len(rows)
        PROVE  rows[i].time # t
    <3>0. rows[i] \in Row
      BY ElementOfSeq
    <3>1. rows[i].time \in Nat
      BY <3>0 DEF Row
    <3> QED
      BY <1>0, <1>2, <3>1
  <2> QED
    BY <2>1, ApplyOther
<1> HIDE DEF both
<1>3. PICK f : Replayed(f, seats, rows) /\ Replay(seats, rows) = f[MaxClock]
  BY ReplaySteps
<1>4. PICK g : Replayed(g, seats, both) /\ Replay(seats, both) = g[MaxClock]
  BY <1>0, ReplaySteps
<1> DEFINE last(t) == IF t < time THEN f[t] ELSE ApplyTime(f[t], more, time)
           T == {t \in Nat : t <= MaxClock => g[t] = last(t)}
<1>5. 0 \in T
  <2>1. g[0] = seats /\ f[0] = seats
    BY <1>3, <1>4 DEF Replayed
  <2> QED
    BY <2>1
<1>6. ASSUME NEW t \in Nat, t \in T
      PROVE  t + 1 \in T
  <2> DEFINE u == t + 1
  <2>1. CASE u <= MaxClock
    <3>1. u \in 1 .. MaxClock /\ u - 1 = t /\ t \in 0 .. MaxClock
      BY <1>0, <2>1
    <3>2. g[t] \in Seats /\ f[t] \in Seats /\ g[t] = last(t)
      BY <1>3, <1>4, <1>6, <3>1 DEF Replayed
    <3>3. f[u] = ApplyTime(f[t], rows, u) /\ g[u] = ApplyTime(g[t], both, u)
      BY <1>3, <1>4, <3>1 DEF Replayed
    <3>4. CASE u < time
      BY <1>0, <1>1, <3>2, <3>3, <3>4
    <3>5. CASE u = time
      <4>1. g[t] = f[t]
        BY <3>2, <3>5
      <4> QED
        BY <1>1, <3>2, <3>3, <3>5, <4>1
    <3>6. CASE u > time
      <4>1. t >= time /\ u # time /\ g[t] = ApplyTime(f[t], more, time)
        BY <1>0, <3>2, <3>6
      <4>2. g[u] = ApplyTime(g[t], rows, u)
        BY <1>1, <3>2, <3>3, <4>1
      <4>3. g[u] = g[t] /\ f[u] = f[t]
        BY <1>2, <3>2, <3>3, <3>6, <4>2
      <4> QED
        BY <3>6, <4>1, <4>3
    <3> QED
      BY <1>0, <3>4, <3>5, <3>6
  <2>2. CASE ~(u <= MaxClock)
    BY <2>2
  <2> QED
    BY <2>1, <2>2
<1> HIDE DEF T
<1>7. \A t \in Nat : t \in T
  BY <1>5, <1>6, Induction
<1>8. g[MaxClock] = last(MaxClock)
  BY <1>0, <1>7 DEF T
<1> QED
  BY <1>0, <1>3, <1>4, <1>8 DEF both

\* The replay makes seats of seats.
LEMMA ReplayType ==
    ASSUME NEW seats \in Seats, NEW rows \in Seq(Row)
    PROVE  Replay(seats, rows) \in Seats
<1>1. PICK f : Replayed(f, seats, rows) /\ Replay(seats, rows) = f[MaxClock]
  BY ReplaySteps
<1> QED
  BY <1>1, AsksAssumption DEF Replayed

\* An allocation without alterations is the effective rota.
LEMMA ReplayNothing ==
    ASSUME NEW seats \in Seats
    PROVE  Replay(seats, <<>>) = seats
<1> DEFINE none == <<>>
<1>1. none \in Seq(Row)
  BY EmptySeq
<1> HIDE DEF none
<1>2. PICK f : Replayed(f, seats, none) /\ Replay(seats, none) = f[MaxClock]
  BY <1>1, ReplaySteps
<1>3. \A x \in Seats : \A t : ApplyTime(x, none, t) = x
  BY ApplyNone DEF none
<1> DEFINE T == {t \in Nat : t <= MaxClock => f[t] = seats}
<1>4. 0 \in T
  BY <1>2 DEF Replayed
<1>5. ASSUME NEW t \in Nat, t \in T
      PROVE  t + 1 \in T
  <2>1. CASE t + 1 <= MaxClock
    <3>1. t + 1 \in 1 .. MaxClock /\ (t + 1) - 1 = t /\ f[t] = seats
      BY <1>5, <2>1, AsksAssumption
    <3>2. f[t + 1] = ApplyTime(f[t], none, t + 1)
      BY <1>2, <3>1 DEF Replayed
    <3> QED
      BY <1>3, <3>1, <3>2
  <2>2. CASE ~(t + 1 <= MaxClock)
    BY <2>2
  <2> QED
    BY <2>1, <2>2
<1> HIDE DEF T
<1>6. \A t \in Nat : t \in T
  BY <1>4, <1>5, Induction
<1> QED
  BY <1>2, <1>6, AsksAssumption DEF T, none

-----------------------------------------------------------------------------
(* The rows of one half of a change. *)

\* Rows of one time, twice.
LEMMA ConcatAllAt ==
    ASSUME NEW a \in Seq(Row), NEW b \in Seq(Row), NEW time, AllAt(a, time), AllAt(b, time)
    PROVE  a \o b \in Seq(Row) /\ AllAt(a \o b, time)
<1>1. /\ a \o b \in Seq(Row) /\ Len(a) \in Nat /\ Len(b) \in Nat
      /\ Len(a \o b) = Len(a) + Len(b)
      /\ \A i \in 1 .. Len(a) + Len(b) :
            (a \o b)[i] = IF i <= Len(a) THEN a[i] ELSE b[i - Len(a)]
  BY LenProperties, ConcatProperties
<1>2. ASSUME NEW i \in 1 .. Len(a \o b)
      PROVE  (a \o b)[i].time = time
  <2>1. CASE i <= Len(a)
    <3>1. i \in 1 .. Len(a) /\ (a \o b)[i] = a[i]
      BY <1>1, <2>1
    <3> QED
      BY <3>1 DEF AllAt
  <2>2. CASE ~(i <= Len(a))
    <3>1. i - Len(a) \in 1 .. Len(b) /\ (a \o b)[i] = b[i - Len(a)]
      BY <1>1, <2>2
    <3> QED
      BY <3>1 DEF AllAt
  <2> QED
    BY <2>1, <2>2
<1> QED
  BY <1>1, <1>2 DEF AllAt

\* A line is a row of the change's time, or none.
LEMMA LineType ==
    ASSUME NEW time \in 1 .. MaxClock, NEW dir \in {"remove", "add"},
           NEW who \in People \cup {None}, NEW role \in Roles \cup {None}
    PROVE  Line(time, dir, who, role) \in Seq(Row) /\ AllAt(Line(time, dir, who, role), time)
<1> DEFINE row == [time |-> time, dir |-> dir, who |-> who, role |-> role]
<1>1. CASE who = None
  <2>1. Line(time, dir, who, role) = <<>>
    BY <1>1 DEF Line, Named
  <2> QED
    BY <2>1, EmptySeq DEF AllAt
<1>2. CASE who # None
  <2>1. Line(time, dir, who, role) = <<row>>
    BY <1>2 DEF Line, Named
  <2>2. who \in People
    BY <1>2
  <2>3. row \in Row /\ row.time = time
    BY <2>2, Zenon DEF Row
  <2> HIDE DEF row
  <2>4. <<row>> \in Seq(Row) /\ Len(<<row>>) = 1 /\ <<row>>[1] = row
    BY <2>3
  <2>5. AllAt(<<row>>, time)
    BY <2>3, <2>4 DEF AllAt
  <2> QED
    BY <2>1, <2>4, <2>5
<1> QED
  BY <1>1, <1>2

\* One line was applied: who it is for has none of their seats, or one more.
Moved(x, y, dir, who, role) ==
    /\ y \in Seats
    /\ \A p \in People : p # who => y[p] = x[p]
    /\ who # None =>
          y[who] = IF dir = "remove" THEN <<>> ELSE Append(x[who], role)

\* That is what applying one line does.
LEMMA LineApplied ==
    ASSUME NEW x \in Seats, NEW time \in 1 .. MaxClock, NEW dir \in {"remove", "add"},
           NEW who \in People \cup {None}, NEW role \in Roles \cup {None}
    PROVE  Moved(x, ApplyTime(x, Line(time, dir, who, role), time), dir, who, role)
<1> DEFINE row == [time |-> time, dir |-> dir, who |-> who, role |-> role]
           y == ApplyTime(x, Line(time, dir, who, role), time)
<1>1. CASE who = None
  <2>1. Line(time, dir, who, role) = <<>>
    BY <1>1 DEF Line, Named
  <2>2. y = x
    BY <2>1, ApplyNone
  <2> QED
    BY <1>1, <2>2 DEF Moved
<1>2. CASE who # None
  <2>1. Line(time, dir, who, role) = <<row>>
    BY <1>2 DEF Line, Named
  <2>2. who \in People
    BY <1>2
  <2>3. row \in Row
    BY <2>2, Zenon DEF Row
  <2>4. row.time = time /\ row.dir = dir /\ row.who = who /\ row.role = role
    OBVIOUS
  <2> HIDE DEF row
  <2>5. y = Apply(x, row)
    BY <2>1, <2>3, <2>4, ApplyOne
  <2>6. /\ Apply(x, row) \in Seats
        /\ \A p \in People \ {row.who} : Apply(x, row)[p] = x[p]
        /\ row.dir = "remove" => Apply(x, row)[row.who] = <<>>
        /\ row.dir = "add" => Apply(x, row)[row.who] = Append(x[row.who], row.role)
    BY <2>3, ApplyType
  <2> HIDE DEF y
  <2>7. Moved(x, y, dir, who, role)
    BY <2>4, <2>5, <2>6 DEF Moved
  <2> QED
    BY <2>7 DEF y
<1> QED
  BY <1>1, <1>2

\* The seats of p when out goes out and then in comes in, with a Role.
Left(seats, p, out) == IF p = out THEN <<>> ELSE seats[p]
Half(seats, p, in, out, role) ==
    IF p = in THEN Append(Left(seats, p, out), role) ELSE Left(seats, p, out)

\* Whom a half of a change may name.
Entry(in, out, inCustom, outCustom) ==
    /\ in \in Volunteers \cup {None} /\ out \in Volunteers \cup {None}
    /\ inCustom \in Customs \cup {None} /\ outCustom \in Customs \cup {None}

\* The rows of a half are rows of the change's time.
LEMMA RowsType ==
    ASSUME NEW time \in 1 .. MaxClock, NEW in, NEW out, NEW inCustom, NEW outCustom,
           Entry(in, out, inCustom, outCustom), NEW role \in Roles \cup {None}
    PROVE  /\ Rows(time, in, out, inCustom, outCustom, role) \in Seq(Row)
           /\ AllAt(Rows(time, in, out, inCustom, outCustom, role), time)
<1> DEFINE a == Line(time, "remove", out, None)
           b == Line(time, "add", in, role)
           c == Line(time, "remove", outCustom, None)
           d == Line(time, "add", inCustom, None)
<1>1. /\ in \in People \cup {None} /\ out \in People \cup {None}
      /\ inCustom \in People \cup {None} /\ outCustom \in People \cup {None}
  BY DEF Entry, People
<1>2. /\ a \in Seq(Row) /\ AllAt(a, time) /\ b \in Seq(Row) /\ AllAt(b, time)
      /\ c \in Seq(Row) /\ AllAt(c, time) /\ d \in Seq(Row) /\ AllAt(d, time)
  BY <1>1, LineType
<1> HIDE DEF a, b, c, d
<1>3. a \o b \in Seq(Row) /\ AllAt(a \o b, time)
  BY <1>2, ConcatAllAt
<1> DEFINE ab == a \o b
<1> HIDE DEF ab
<1>4. ab \o c \in Seq(Row) /\ AllAt(ab \o c, time)
  BY <1>2, <1>3, ConcatAllAt DEF ab
<1> DEFINE abc == ab \o c
<1> HIDE DEF abc
<1>5. abc \o d \in Seq(Row) /\ AllAt(abc \o d, time)
  BY <1>2, <1>4, ConcatAllAt DEF abc
<1> QED
  BY <1>5 DEF Rows, a, b, c, d, ab, abc

\* What the rows of a half do to each person's seats: first out goes, then in
\* comes, and custom entries likewise.
LEMMA RowsApplied ==
    ASSUME NEW x \in Seats, NEW time \in 1 .. MaxClock,
           NEW in, NEW out, NEW inCustom, NEW outCustom,
           Entry(in, out, inCustom, outCustom), NEW role \in Roles \cup {None}, NEW y,
           y = ApplyTime(x, Rows(time, in, out, inCustom, outCustom, role), time)
    PROVE  /\ y \in Seats
           /\ \A v \in Volunteers : y[v] = Half(x, v, in, out, role)
           /\ \A p \in Customs : y[p] = Half(x, p, inCustom, outCustom, None)
<1> DEFINE a == Line(time, "remove", out, None)
           b == Line(time, "add", in, role)
           c == Line(time, "remove", outCustom, None)
           d == Line(time, "add", inCustom, None)
           xa == ApplyTime(x, a, time)
           xb == ApplyTime(xa, b, time)
           xc == ApplyTime(xb, c, time)
           xd == ApplyTime(xc, d, time)
<1>1. /\ in \in People \cup {None} /\ out \in People \cup {None}
      /\ inCustom \in People \cup {None} /\ outCustom \in People \cup {None}
  BY DEF Entry, People
<1>2. a \in Seq(Row) /\ b \in Seq(Row) /\ c \in Seq(Row) /\ d \in Seq(Row)
  BY <1>1, LineType
<1>3. Moved(x, xa, "remove", out, None)
  <2>1. Moved(x, ApplyTime(x, Line(time, "remove", out, None), time),
              "remove", out, None)
    BY <1>1, LineApplied
  <2> QED
    BY <2>1
<1>4. Moved(xa, xb, "add", in, role)
  <2> HIDE DEF xa
  <2>0. xa \in Seats
    BY <1>3 DEF Moved
  <2>1. Moved(xa, ApplyTime(xa, Line(time, "add", in, role), time),
              "add", in, role)
    BY <1>1, <2>0, LineApplied
  <2> QED
    BY <2>1
<1>5. Moved(xb, xc, "remove", outCustom, None)
  <2> HIDE DEF xb
  <2>0. xb \in Seats
    BY <1>4 DEF Moved
  <2>1. Moved(xb, ApplyTime(xb, Line(time, "remove", outCustom, None), time),
              "remove", outCustom, None)
    BY <1>1, <2>0, LineApplied
  <2> QED
    BY <2>1
<1>6. Moved(xc, xd, "add", inCustom, None)
  <2> HIDE DEF xc
  <2>0. xc \in Seats
    BY <1>5 DEF Moved
  <2>1. Moved(xc, ApplyTime(xc, Line(time, "add", inCustom, None), time),
              "add", inCustom, None)
    BY <1>1, <2>0, LineApplied
  <2> QED
    BY <2>1
<1>7. y = xd
  <2> DEFINE ab == a \o b
             abc == ab \o c
  <2>1. ab \in Seq(Row) /\ abc \in Seq(Row)
    <3> HIDE DEF a, b, c
    <3> QED
      BY <1>2, ConcatProperties
  <2> HIDE DEF a, b, c, d
  <2>2. ApplyTime(x, ab, time) = xb
    BY <1>2, ApplyConcat
  <2> HIDE DEF ab
  <2>3. ApplyTime(x, abc, time) = xc
    BY <1>2, <2>1, <2>2, ApplyConcat
  <2> HIDE DEF abc
  <2>4. ApplyTime(x, abc \o d, time) = xd
    BY <1>2, <2>1, <2>3, ApplyConcat
  <2>5. Rows(time, in, out, inCustom, outCustom, role) = abc \o d
    BY DEF Rows, a, b, c, d, ab, abc
  <2> QED
    BY <2>4, <2>5
<1> HIDE DEF a, b, c, d, xa, xb, xc, xd
<1>8. ASSUME NEW v \in Volunteers
      PROVE  y[v] = Half(x, v, in, out, role)
  <2>1. v \in People /\ v # inCustom /\ v # outCustom /\ v # None
    BY PeopleAssumption DEF Entry, People
  <2>2. y[v] = xb[v]
    BY <1>5, <1>6, <1>7, <2>1 DEF Moved
  <2>3. xa[v] = Left(x, v, out)
    BY <1>3, <2>1 DEF Left, Moved
  <2>4. xb[v] = Half(x, v, in, out, role)
    BY <1>4, <2>1, <2>3 DEF Half, Moved
  <2> QED
    BY <2>2, <2>4
<1>9. ASSUME NEW p \in Customs
      PROVE  y[p] = Half(x, p, inCustom, outCustom, None)
  <2>1. p \in People /\ p # in /\ p # out /\ p # None
    BY PeopleAssumption DEF Entry, People
  <2>2. xb[p] = x[p]
    BY <1>3, <1>4, <2>1 DEF Moved
  <2>3. xc[p] = Left(x, p, outCustom)
    BY <1>5, <2>1, <2>2 DEF Left, Moved
  <2>4. xd[p] = Half(x, p, inCustom, outCustom, None)
    BY <1>6, <2>1, <2>3 DEF Half, Moved
  <2> QED
    BY <1>7, <2>4
<1> QED
  BY <1>6, <1>7, <1>8, <1>9 DEF Moved

-----------------------------------------------------------------------------
(* What CommitChange writes. *)

\* The first Role of a volunteer on a Shift is a Role, if there is one.
LEMMA RoleOnType ==
    ASSUME NEW seats \in Seats, NEW who \in Volunteers \cup {None}
    PROVE  RoleOn(who, seats) \in Roles \cup {None}
<1> DEFINE named == {i \in 1 .. Len(seats[who]) : seats[who][i] # None}
<1>1. CASE who = None \/ named = {}
  BY <1>1 DEF RoleOn
<1>2. CASE who # None /\ named # {}
  <2>1. who \in People
    BY <1>2 DEF People
  <2>2. seats[who] \in Seq(Roles \cup {None})
    BY <2>1 DEF Seats
  <2>3. named \subseteq Nat
    OBVIOUS
  <2> HIDE DEF named
  <2>4. PICK i \in named : \A m \in named : ~(<<m, i>> \in OpToRel(<, Nat))
    BY <1>2, <2>3, WFMin, NatLessThanWellFounded
  <2>5. \A j \in named : i <= j
    <3>1. SUFFICES ASSUME NEW j \in named, j < i
                   PROVE  FALSE
      BY <2>3
    <3>2. j \in Nat /\ i \in Nat
      BY <2>3
    <3>3. <<j, i>> \in OpToRel(<, Nat)
      BY <3>1, <3>2 DEF OpToRel
    <3> QED
      BY <2>4, <3>3
  <2>6. (CHOOSE k \in named : \A j \in named : k <= j) \in named
    BY <2>4, <2>5
  <2> DEFINE least == CHOOSE k \in named : \A j \in named : k <= j
  <2>7. RoleOn(who, seats) = seats[who][least]
    BY <1>2 DEF RoleOn, named
  <2> HIDE DEF least
  <2>8. least \in 1 .. Len(seats[who])
    BY <2>6 DEF named, least
  <2>9. seats[who][least] \in Roles \cup {None}
    BY <2>2, <2>8, ElementOfSeq
  <2> QED
    BY <2>7, <2>9
<1> QED
  BY <1>1, <1>2

\* A volunteer with one seat that has a Role has just that.
LEMMA RoleOfOneSeat ==
    ASSUME NEW seats \in Seats, NEW who \in Volunteers,
           Times(who, seats) = 1, RoleOn(who, seats) # None
    PROVE  seats[who] = <<RoleOn(who, seats)>>
<1> DEFINE named == {i \in 1 .. Len(seats[who]) : seats[who][i] # None}
           role == seats[who][1]
<1>1. seats[who] \in Seq(Roles \cup {None}) /\ Len(seats[who]) = 1
  BY DEF Seats, People, Times
<1>2. named # {} /\ who # None
  BY DEF RoleOn
<1>3. named = {1}
  BY <1>1, <1>2
<1>4. RoleOn(who, seats) = seats[who][CHOOSE i \in named : \A j \in named : i <= j]
  BY <1>2 DEF RoleOn
<1>5. (CHOOSE i \in named : \A j \in named : i <= j) = 1
  <2> HIDE DEF named
  <2> QED
    BY <1>3
<1>6. RoleOn(who, seats) = role
  <2> HIDE DEF named
  <2> QED
    BY <1>4, <1>5
<1>7. seats[who] = <<role>>
  <2>1. <<role>> \in Seq(Roles \cup {None}) /\ Len(<<role>>) = 1 /\ <<role>>[1] = role
    BY <1>1, ElementOfSeq
  <2> QED
    BY <1>1, <2>1, SeqEqual
<1> QED
  BY <1>6, <1>7

\* Whoever joins is given a Role, or none.
LEMMA RoleForIncomingType ==
    ASSUME NEW joining \in Seats, NEW leaving \in Seats,
           NEW in \in Volunteers \cup {None}, NEW out \in Volunteers \cup {None}
    PROVE  RoleForIncoming(in, out, joining, leaving) \in Roles \cup {None}
BY RoleOnType DEF RoleForIncoming

\* The effective rota seats people.
LEMMA EffectiveType ==
    ASSUME TypeOK, NEW s \in Shifts
    PROVE  Effective(s) \in Seats
BY ReplayType DEF TypeOK, Effective

\* What CommitChange makes of its request.
There(c) ==
    IF change[c].swap # None THEN Effective(change[c].swap)
                             ELSE Effective(change[c].shift)
HereRole(c) ==
    IF change[c].ask.in # None /\ change[c].ask.role = None
    THEN RoleForIncoming(change[c].ask.in, change[c].ask.out,
                         Effective(change[c].shift), There(c))
    ELSE change[c].ask.role
BackRole(c) ==
    RoleForIncoming(change[c].ask.out, change[c].ask.in, There(c),
                    Effective(change[c].shift))
HereRows(c) ==
    Rows(change[c].time, change[c].ask.in, change[c].ask.out,
         change[c].ask.inCustom, change[c].ask.outCustom, HereRole(c))
BackRows(c) ==
    Rows(change[c].time, change[c].ask.out, change[c].ask.in,
         change[c].ask.outCustom, change[c].ask.inCustom, BackRole(c))

\* What it adds to the ledger of a Shift.
More(c, s) ==
    (IF s = change[c].shift THEN HereRows(c) ELSE <<>>)
    \o (IF change[c].swap # None /\ s = change[c].swap THEN BackRows(c) ELSE <<>>)

\* What a change that commits has gone through.
LEMMA CommitFacts ==
    ASSUME IndInv, NEW c \in Changers, CommitChange(c)
    PROVE  /\ change[c].at = "begun"
           /\ change[c].shift \in Shifts
           /\ change[c].swap \in Shifts \cup {None}
           /\ change[c].time \in 1 .. MaxClock /\ change[c].time <= clock
           /\ Stated(change[c].ask)
           /\ change[c].swap # None <=> change[c].ask.swap # None
           /\ Fits(Effective(change[c].shift), change[c].ask.in, change[c].ask.out,
                   change[c].ask.outCustom)
           /\ change[c].swap # None =>
                 Fits(Effective(change[c].swap), change[c].ask.out, change[c].ask.in,
                      change[c].ask.inCustom)
           /\ LockRota(change[c].shift)
           /\ change[c].swap # None => LockRota(change[c].swap)
           /\ UNCHANGED <<rota, date, base, clock>>
           /\ change' = [change EXCEPT ![c] = IdleChange]
<1>1. change[c].at = "begun" /\ UNCHANGED <<rota, date, base, clock>>
      /\ change' = [change EXCEPT ![c] = IdleChange]
  BY DEF CommitChange
<1>2. /\ change[c].shift \in Shifts /\ Stated(change[c].ask)
      /\ change[c].swap # None <=> change[c].ask.swap # None
      /\ change[c].time \in 1 .. clock
  BY <1>1 DEF IndInv, ChangesInOrder
<1>3. change[c].swap \in Shifts \cup {None} /\ clock \in 0 .. MaxClock
  BY DEF IndInv, TypeOK
<1>4. change[c].time \in 1 .. MaxClock /\ change[c].time <= clock
  BY <1>2, <1>3, AsksAssumption
<1>5. /\ LockRota(change[c].shift)
      /\ Fits(Effective(change[c].shift), change[c].ask.in, change[c].ask.out,
              change[c].ask.outCustom)
  BY DEF CommitChange
<1>6. ASSUME change[c].swap # None
      PROVE  /\ LockRota(change[c].swap)
             /\ Fits(Effective(change[c].swap), change[c].ask.out, change[c].ask.in,
                     change[c].ask.inCustom)
  BY <1>6 DEF CommitChange
<1> QED
  BY <1>1, <1>2, <1>3, <1>4, <1>5, <1>6

\* Its request names whom it may, and what it works out are Roles.
LEMMA CommitTypes ==
    ASSUME IndInv, NEW c \in Changers, CommitChange(c)
    PROVE  /\ Entry(change[c].ask.in, change[c].ask.out,
                    change[c].ask.inCustom, change[c].ask.outCustom)
           /\ Entry(change[c].ask.out, change[c].ask.in,
                    change[c].ask.outCustom, change[c].ask.inCustom)
           /\ HereRole(c) \in Roles \cup {None} /\ BackRole(c) \in Roles \cup {None}
<1>1. change[c].ask \in Ask
  BY CommitFacts, AsksAssumption DEF IndInv, ChangesInOrder
<1>2. /\ change[c].ask.in \in Volunteers \cup {None}
      /\ change[c].ask.out \in Volunteers \cup {None}
      /\ change[c].ask.inCustom \in Customs \cup {None}
      /\ change[c].ask.outCustom \in Customs \cup {None}
      /\ change[c].ask.role \in Roles \cup {None}
  BY <1>1 DEF Ask
<1>3. Effective(change[c].shift) \in Seats /\ There(c) \in Seats
  BY CommitFacts, EffectiveType DEF There, IndInv
<1>4. HereRole(c) \in Roles \cup {None} /\ BackRole(c) \in Roles \cup {None}
  BY <1>2, <1>3, RoleForIncomingType DEF HereRole, BackRole
<1> QED
  BY <1>2, <1>4 DEF Entry

\* It writes rows of its own time.
LEMMA CommitRows ==
    ASSUME IndInv, NEW c \in Changers, CommitChange(c)
    PROVE  /\ HereRows(c) \in Seq(Row) /\ AllAt(HereRows(c), change[c].time)
           /\ BackRows(c) \in Seq(Row) /\ AllAt(BackRows(c), change[c].time)
<1>1. change[c].time \in 1 .. MaxClock
  BY CommitFacts
<1> QED
  BY <1>1, CommitTypes, RowsType DEF HereRows, BackRows

\* The ledger of each Shift grows by these rows.
LEMMA MoreType ==
    ASSUME IndInv, NEW c \in Changers, CommitChange(c), NEW s \in Shifts
    PROVE  /\ More(c, s) \in Seq(Row) /\ AllAt(More(c, s), change[c].time)
           /\ ledger'[s] = ledger[s] \o More(c, s)
<1> DEFINE a == IF s = change[c].shift THEN HereRows(c) ELSE <<>>
           b == IF change[c].swap # None /\ s = change[c].swap THEN BackRows(c) ELSE <<>>
<1>1. AllAt(<<>>, change[c].time) /\ <<>> \in Seq(Row)
  BY EmptySeq DEF AllAt
<1>2. /\ a \in Seq(Row) /\ AllAt(a, change[c].time)
      /\ b \in Seq(Row) /\ AllAt(b, change[c].time)
  BY <1>1, CommitRows
<1>3. ledger'[s] = (ledger[s] \o a) \o b
  BY Zenon DEF CommitChange, HereRows, BackRows, HereRole, BackRole, There
<1>4. ledger[s] \in Seq(Row)
  BY DEF IndInv, TypeOK
<1> HIDE DEF a, b
<1>5. (ledger[s] \o a) \o b = ledger[s] \o (a \o b)
  <2>1. \A x, y, z \in Seq(Row) : (x \o y) \o z = x \o (y \o z)
    BY ConcatAssociative
  <2> QED
    BY <1>2, <1>4, <2>1
<1>6. a \o b \in Seq(Row) /\ AllAt(a \o b, change[c].time)
  BY <1>2, ConcatAllAt
<1> QED
  BY <1>3, <1>5, <1>6 DEF More, a, b

-----------------------------------------------------------------------------
(* Nobody is seated twice. *)

\* Seats are counted.
LEMMA TimesType ==
    ASSUME NEW seats \in Seats, NEW v \in People
    PROVE  Times(v, seats) \in Nat
BY LenProperties DEF Times, Seats

\* The rows of a Shift when the change is one half of two, or both, or neither.
LEMMA MoreCases ==
    ASSUME IndInv, NEW c \in Changers, CommitChange(c), NEW s \in Shifts
    PROVE  /\ s = change[c].shift /\ s # change[c].swap => More(c, s) = HereRows(c)
           /\ s # change[c].shift /\ s = change[c].swap => More(c, s) = BackRows(c)
           /\ s = change[c].shift /\ s = change[c].swap =>
                 More(c, s) = HereRows(c) \o BackRows(c)
           /\ s # change[c].shift /\ s # change[c].swap => More(c, s) = <<>>
<1>1. HereRows(c) \in Seq(Row) /\ BackRows(c) \in Seq(Row) /\ s # None
  BY CommitRows, PeopleAssumption
<1>2. \A x \in Seq(Row) : x \o <<>> = x /\ <<>> \o x = x
  BY ConcatEmptySeq
<1>3. <<>> \o <<>> = <<>>
  BY <1>2, EmptySeq
<1> QED
  BY <1>1, <1>2, <1>3 DEF More

\* Over seats x, a half of a change gives v a seat more if v comes in, else none.
LEMMA HalfBound ==
    ASSUME NEW x \in Seats, NEW time \in 1 .. MaxClock,
           NEW in, NEW out, NEW inCustom, NEW outCustom,
           Entry(in, out, inCustom, outCustom), NEW role \in Roles \cup {None},
           NEW v \in Volunteers
    PROVE  Times(v, ApplyTime(x, Rows(time, in, out, inCustom, outCustom, role), time))
              <= Times(v, x) + (IF v = in THEN 1 ELSE 0)
<1> DEFINE y == ApplyTime(x, Rows(time, in, out, inCustom, outCustom, role), time)
<1>1. y[v] = Half(x, v, in, out, role)
  BY RowsApplied
<1>2. x[v] \in Seq(Roles \cup {None}) /\ Len(x[v]) \in Nat
  BY LenProperties DEF Seats, People
<1>3. Left(x, v, out) \in Seq(Roles \cup {None}) /\ Len(Left(x, v, out)) <= Len(x[v])
      /\ Len(Left(x, v, out)) \in Nat
  BY <1>2, EmptySeq DEF Left
<1>4. Len(Append(Left(x, v, out), role)) = Len(Left(x, v, out)) + 1
  BY <1>3, AppendProperties
<1> HIDE DEF y
<1>5. Len(y[v]) <= Len(x[v]) + (IF v = in THEN 1 ELSE 0)
  <2>1. CASE v = in
    <3>1. y[v] = Append(Left(x, v, out), role)
      BY <1>1, <2>1 DEF Half
    <3>2. Len(y[v]) <= Len(x[v]) + 1
      BY <1>2, <1>3, <1>4, <3>1
    <3> QED
      BY <2>1, <3>2
  <2>2. CASE v # in
    <3>1. y[v] = Left(x, v, out)
      BY <1>1, <2>2 DEF Half
    <3>2. Len(y[v]) <= Len(x[v]) + 0
      BY <1>2, <1>3, <3>1
    <3> QED
      BY <2>2, <3>2
  <2> QED
    BY <2>1, <2>2
<1> QED
  BY <1>5 DEF Times, y

\* A half that fits gives nobody a second seat.
Gives(c, s, v) ==
    IF \/ s = change[c].shift /\ s # change[c].swap /\ v = change[c].ask.in
       \/ s # change[c].shift /\ s = change[c].swap /\ v = change[c].ask.out
    THEN 1 ELSE 0

\* Over any seats x, the change gives v the seats Gives says, at most: also when
\* both its halves are of one Shift, which only custom entries survive.
LEMMA MoreBound ==
    ASSUME IndInv, NEW c \in Changers, CommitChange(c), NEW s \in Shifts,
           NEW v \in Volunteers, NEW x \in Seats
    PROVE  Times(v, ApplyTime(x, More(c, s), change[c].time)) <= Times(v, x) + Gives(c, s, v)
<1> DEFINE time == change[c].time
           ask == change[c].ask
<1>1. /\ time \in 1 .. MaxClock
      /\ Entry(ask.in, ask.out, ask.inCustom, ask.outCustom)
      /\ Entry(ask.out, ask.in, ask.outCustom, ask.inCustom)
      /\ HereRole(c) \in Roles \cup {None} /\ BackRole(c) \in Roles \cup {None}
      /\ HereRows(c) \in Seq(Row) /\ BackRows(c) \in Seq(Row)
      /\ Times(v, x) \in Nat
  BY CommitFacts, CommitTypes, CommitRows, TimesType DEF People
<1>2. \A z \in Seats : Times(v, ApplyTime(z, HereRows(c), time))
                          <= Times(v, z) + (IF v = ask.in THEN 1 ELSE 0)
  BY <1>1, HalfBound DEF HereRows
<1>3. \A z \in Seats : Times(v, ApplyTime(z, BackRows(c), time))
                          <= Times(v, z) + (IF v = ask.out THEN 1 ELSE 0)
  BY <1>1, HalfBound DEF BackRows
<1>4. CASE s = change[c].shift /\ s # change[c].swap
  BY <1>2, <1>4, MoreCases DEF Gives
<1>5. CASE s # change[c].shift /\ s = change[c].swap
  BY <1>3, <1>5, MoreCases DEF Gives
<1>6. CASE s = change[c].shift /\ s = change[c].swap
  <2>1. s # None
    BY PeopleAssumption
  <2>2. Fits(Effective(s), ask.in, ask.out, ask.outCustom)
    BY <1>6, CommitFacts
  <2>3. Fits(Effective(s), ask.out, ask.in, ask.inCustom)
    BY <1>6, <2>1, CommitFacts
  <2>4. ask.in = None /\ ask.out = None
    BY <2>2, <2>3 DEF Fits
  <2>5. v # ask.in /\ v # ask.out
    BY <2>4, PeopleAssumption DEF People
  <2> DEFINE mid == ApplyTime(x, HereRows(c), time)
  <2>6. mid \in Seats
    BY <1>1, ApplyTimeType
  <2>7. Times(v, mid) <= Times(v, x)
    <3>1. Times(v, mid) <= Times(v, x) + 0
      BY <1>2, <2>5
    <3>2. Times(v, mid) \in Nat
      BY <2>6, TimesType DEF People
    <3> HIDE DEF mid
    <3> QED
      BY <1>1, <3>1, <3>2
  <2>8. Times(v, ApplyTime(mid, BackRows(c), time)) <= Times(v, mid)
    <3>1. Times(v, mid) \in Nat
      BY <2>6, TimesType DEF People
    <3> QED
      BY <1>3, <2>5, <2>6, <3>1
  <2>9. ApplyTime(x, More(c, s), time) = ApplyTime(mid, BackRows(c), time)
    <3>1. More(c, s) = HereRows(c) \o BackRows(c)
      BY <1>6, MoreCases
    <3>2. ApplyTime(x, HereRows(c) \o BackRows(c), time)
             = ApplyTime(ApplyTime(x, HereRows(c), time), BackRows(c), time)
      BY <1>1, ApplyConcat
    <3> QED
      BY <3>1, <3>2
  <2>10. /\ Times(v, mid) \in Nat
         /\ Times(v, ApplyTime(mid, BackRows(c), time)) \in Nat
    BY <1>1, <2>6, ApplyTimeType, TimesType DEF People
  <2>11. Gives(c, s, v) = 0
    BY <1>6 DEF Gives
  <2> HIDE DEF mid
  <2> QED
    BY <1>1, <2>7, <2>8, <2>9, <2>10, <2>11
<1>7. CASE s # change[c].shift /\ s # change[c].swap
  BY <1>1, <1>7, MoreCases, ApplyNone DEF Gives
<1> QED
  BY <1>4, <1>5, <1>6, <1>7

\* Whoever gets a seat had none.
LEMMA GivesToNewcomers ==
    ASSUME IndInv, NEW c \in Changers, CommitChange(c), NEW s \in Shifts,
           NEW v \in Volunteers, Gives(c, s, v) # 0
    PROVE  Times(v, Effective(s)) = 0
<1>1. Times(v, Effective(s)) \in Nat /\ v # None /\ s # None
  BY EffectiveType, PeopleAssumption, TimesType DEF People, IndInv
<1>2. CASE s = change[c].shift /\ v = change[c].ask.in
  <2>1. Fits(Effective(s), change[c].ask.in, change[c].ask.out, change[c].ask.outCustom)
    BY <1>2, CommitFacts
  <2> QED
    BY <1>1, <1>2, <2>1 DEF Fits, On
<1>3. CASE s = change[c].swap /\ v = change[c].ask.out
  <2>1. Fits(Effective(s), change[c].ask.out, change[c].ask.in, change[c].ask.inCustom)
    BY <1>1, <1>3, CommitFacts
  <2> QED
    BY <1>1, <1>3, <2>1 DEF Fits, On
<1> QED
  BY <1>2, <1>3 DEF Gives

\* The rows are replayed where their time puts them, which may be before rows
\* they were validated after: the bound carries through what is replayed later.
LEMMA CommitNobodyTwice ==
    ASSUME IndInv, NEW c \in Changers, CommitChange(c)
    PROVE  NobodyTwice'
<1>1. SUFFICES ASSUME NEW s \in Shifts, NEW v \in Volunteers, RotaOf[s] \notin InFlight
               PROVE  Times(v, EffectiveAfter(s)) <= 1
  BY DEF NobodyTwice, Effective, EffectiveAfter, Times
<1> DEFINE time == change[c].time
           rows == ledger[s]
           more == More(c, s)
           k == Gives(c, s, v)
<1>2. /\ more \in Seq(Row) /\ AllAt(more, time) /\ ledger'[s] = rows \o more
      /\ rows \in Seq(Row) /\ base[s] \in Seats /\ base' = base
      /\ time \in Nat /\ v \in People /\ k \in Nat /\ k <= 1
  BY MoreType, CommitFacts DEF IndInv, TypeOK, People, Gives
<1>3. \A x \in Seats : Times(v, ApplyTime(x, more, time)) <= Times(v, x) + k
  BY MoreBound
<1>4. k # 0 => Times(v, Effective(s)) = 0
  BY GivesToNewcomers
<1>5. Times(v, Effective(s)) <= 1 /\ Times(v, Effective(s)) \in Nat
  BY <1>1, <1>2, EffectiveType, TimesType DEF IndInv, NobodyTwice
<1> HIDE DEF time, rows, more, k
<1>6. Times(v, Replay(base[s], rows \o more)) <= Times(v, Replay(base[s], rows)) + k
  BY <1>2, <1>3, ReplayBound
<1>7. Times(v, EffectiveAfter(s)) <= Times(v, Effective(s)) + k
  BY <1>2, <1>6 DEF EffectiveAfter, Effective, rows
<1>8. Times(v, EffectiveAfter(s)) \in Nat
  <2>1. rows \o more \in Seq(Row)
    BY <1>2, ConcatProperties
  <2>2. EffectiveAfter(s) \in Seats
    BY <1>2, <2>1, ReplayType DEF EffectiveAfter
  <2> QED
    BY <1>2, <2>2, TimesType
<1>9. CASE k = 0
  BY <1>5, <1>7, <1>8, <1>9
<1>10. CASE k # 0
  BY <1>2, <1>4, <1>7, <1>8, <1>10
<1> QED
  BY <1>9, <1>10

-----------------------------------------------------------------------------
(* The invariant. *)

\* The requests TypeOK allows.
Requests ==
    [at : {"idle", "dated", "resolved", "begun"}, ask : Ask \cup {None},
     shift : Shifts \cup {None}, swap : Shifts \cup {None}, time : 0 .. MaxClock]

\* The invariant holds to begin with.
LEMMA InitInv ==
    ASSUME Init
    PROVE  IndInv
<1>1. TypeOK
  <2>1. rota \in [Rotas -> {"unallocated", "allocated", "discarded"}]
    BY DEF Init
  <2>2. date \in [Shifts -> Dates \cup {None}]
    BY ShiftsAssumption DEF Init
  <2>3. Nobody \in Seats
    BY EmptySeq DEF Nobody, Seats
  <2>4. ASSUME NEW s \in Shifts
        PROVE  /\ base[s] \in Seats
               /\ ledger[s] \in Seq(Row)
               /\ \A i \in DOMAIN ledger[s] : ledger[s][i].time <= clock
    <3>1. base[s] = Nobody \/ base[s] \in Seatings[s]
      BY DEF Init
    <3>2. ledger[s] = <<>>
      BY DEF Init
    <3> QED
      BY <2>3, <3>1, <3>2, EmptySeq, SeatingsAssumption
  <2>5. clock \in 0 .. MaxClock
    BY AsksAssumption DEF Init
  <2>6. IdleChange \in Requests
    <3>1. 0 \in 0 .. MaxClock
      BY AsksAssumption
    <3> QED
      BY <3>1, Zenon DEF IdleChange, Requests
  <2>7. change \in [Changers -> Requests]
    BY <2>6 DEF Init
  <2> QED
    BY <2>1, <2>2, <2>4, <2>5, <2>7 DEF TypeOK, Requests
<1>2. ChangesInOrder
  BY DEF Init, ChangesInOrder, IdleChange
<1>3. InFlightOnly
  BY DEF Init, InFlightOnly
<1>4. NobodyTwice
  <2>1. SUFFICES ASSUME NEW s \in Shifts, NEW v \in Volunteers, RotaOf[s] \notin InFlight
                 PROVE  Times(v, Effective(s)) <= 1
    BY DEF NobodyTwice
  <2>2. base[s] \in Seatings[s] /\ ledger[s] = <<>>
    BY <2>1 DEF Init
  <2>3. base[s] \in Seats /\ Times(v, base[s]) <= 1
    BY <2>2, SeatingsAssumption
  <2>4. Effective(s) = base[s]
    BY <2>2, <2>3, ReplayNothing DEF Effective
  <2> QED
    BY <2>3, <2>4
<1>5. NothingOnDiscarded
  BY DEF Init, NothingOnDiscarded
<1> QED
  BY <1>1, <1>2, <1>3, <1>4, <1>5 DEF IndInv

\* A step that leaves the database alone leaves it to its requests to keep order.
LEMMA RequestStep ==
    ASSUME IndInv, UNCHANGED db, clock' \in clock .. MaxClock,
           NEW c \in Changers, NEW q \in Requests, change' = [change EXCEPT ![c] = q],
           ChangesInOrder'
    PROVE  IndInv'
<1>1. TypeOK'
  <2>1. change' \in [Changers -> Requests]
    BY DEF IndInv, TypeOK, Requests
  <2>2. clock \in 0 .. MaxClock /\ clock' \in 0 .. MaxClock
    BY AsksAssumption DEF IndInv, TypeOK
  <2>3. ASSUME NEW s \in Shifts, NEW i \in DOMAIN ledger[s]
        PROVE  ledger[s][i].time <= clock'
    <3>1. ledger[s] \in Seq(Row) /\ ledger[s][i].time <= clock
      BY <2>3 DEF IndInv, TypeOK
    <3>2. ledger[s][i] \in Row
      BY <2>3, <3>1, ElementOfSeq
    <3>3. ledger[s][i].time \in Nat
      BY <3>2 DEF Row
    <3> QED
      BY <2>2, <3>1, <3>3, AsksAssumption
  <2> QED
    BY <2>1, <2>2, <2>3 DEF IndInv, TypeOK, db, Requests
<1> QED
  BY <1>1 DEF IndInv, InFlightOnly, NobodyTwice, NothingOnDiscarded, Effective, db

\* The other requests are as far as they were.
LEMMA OrderKept ==
    ASSUME IndInv, clock' \in clock .. MaxClock,
           NEW c \in Changers, NEW q \in Requests, change' = [change EXCEPT ![c] = q],
           q.at # "idle" => q.ask \in Asks /\ Stated(q.ask) /\ q.shift \in Shifts,
           q.at = "dated" => q.ask.swap # None,
           q.at \in {"resolved", "begun"} => (q.swap # None <=> q.ask.swap # None),
           q.at = "begun" => q.time \in 1 .. clock'
    PROVE  ChangesInOrder'
<1>1. SUFFICES ASSUME NEW d \in Changers
               PROVE  /\ change'[d].at # "idle" =>
                            /\ change'[d].ask \in Asks /\ Stated(change'[d].ask)
                            /\ change'[d].shift \in Shifts
                      /\ change'[d].at = "dated" => change'[d].ask.swap # None
                      /\ change'[d].at \in {"resolved", "begun"} =>
                            (change'[d].swap # None <=> change'[d].ask.swap # None)
                      /\ change'[d].at = "begun" => change'[d].time \in 1 .. clock'
  BY DEF ChangesInOrder
<1>2. change \in [Changers -> Requests] /\ clock \in Nat
  BY DEF IndInv, TypeOK, Requests
<1>3. CASE d = c
  <2>1. change'[d] = q
    BY <1>2, <1>3
  <2> QED
    BY <2>1
<1>4. CASE d # c
  <2>1. change'[d] = change[d]
    BY <1>2, <1>4
  <2>2. change[d].at = "begun" => change[d].time \in 1 .. clock'
    BY <1>2 DEF IndInv, ChangesInOrder
  <2> QED
    BY <2>1, <2>2 DEF IndInv, ChangesInOrder
<1> QED
  BY <1>3, <1>4

\* A request that arrives.
LEMMA ResolveDateInv ==
    ASSUME IndInv, NEW c \in Changers, ResolveDate(c)
    PROVE  IndInv'
<1>1. PICK ask \in Asks, s \in Shifts :
         /\ Stated(ask) /\ date[s] = ask.date
         /\ change' = [change EXCEPT ![c] =
                [at |-> IF ask.swap \in {None, ask.date} THEN "resolved" ELSE "dated",
                 ask |-> ask, shift |-> s,
                 swap |-> IF ask.swap = ask.date THEN s ELSE None,
                 time |-> 0]]
  BY DEF ResolveDate
<1> DEFINE q == [at |-> IF ask.swap \in {None, ask.date} THEN "resolved" ELSE "dated",
                 ask |-> ask, shift |-> s,
                 swap |-> IF ask.swap = ask.date THEN s ELSE None,
                 time |-> 0]
<1>2. ask \in Ask /\ s # None /\ ask.date # None
  <2>1. ask \in Ask
    BY AsksAssumption
  <2>2. ask.date \in Dates
    BY <2>1 DEF Ask
  <2> QED
    BY <2>1, <2>2, PeopleAssumption
<1>3. q \in Requests
  <2>1. (IF ask.swap \in {None, ask.date} THEN "resolved" ELSE "dated")
           \in {"idle", "dated", "resolved", "begun"}
    OBVIOUS
  <2>2. (IF ask.swap = ask.date THEN s ELSE None) \in Shifts \cup {None}
    OBVIOUS
  <2>3. 0 \in 0 .. MaxClock /\ ask \in Ask \cup {None} /\ s \in Shifts \cup {None}
    BY <1>2, AsksAssumption
  <2> QED
    BY <2>1, <2>2, <2>3, Zenon DEF Requests
<1>4. /\ q.ask = ask /\ q.shift = s /\ q.at \in {"resolved", "dated"}
      /\ q.at = "dated" => ask.swap # None
      /\ q.at = "resolved" => (q.swap # None <=> ask.swap # None)
  BY <1>2
<1>5. UNCHANGED db /\ clock' \in clock .. MaxClock
  BY DEF ResolveDate, IndInv, TypeOK
<1>6. change' = [change EXCEPT ![c] = q]
  BY <1>1
<1> HIDE DEF q
<1>7. ChangesInOrder'
  BY <1>1, <1>3, <1>4, <1>5, <1>6, OrderKept
<1> QED
  BY <1>3, <1>5, <1>6, <1>7, RequestStep

\* The other date of a swap.
LEMMA ResolveSwapDateInv ==
    ASSUME IndInv, NEW c \in Changers, ResolveSwapDate(c)
    PROVE  IndInv'
<1>1. PICK s \in Shifts :
         change' = [change EXCEPT ![c].at = "resolved", ![c].swap = s]
  BY DEF ResolveSwapDate
<1> DEFINE q == [change[c] EXCEPT !.at = "resolved", !.swap = s]
<1>2. change[c] \in Requests /\ change[c].at = "dated" /\ change \in [Changers -> Requests]
  BY DEF IndInv, TypeOK, Requests, ResolveSwapDate
<1>3. q \in Requests /\ q.at = "resolved" /\ q.swap = s /\ q.ask = change[c].ask
      /\ q.shift = change[c].shift
  BY <1>2 DEF Requests
<1>4. s # None
  BY PeopleAssumption
<1>5. change[c].ask \in Asks /\ Stated(change[c].ask) /\ change[c].shift \in Shifts
      /\ change[c].ask.swap # None
  BY <1>2 DEF IndInv, ChangesInOrder
<1>6. UNCHANGED db /\ clock' \in clock .. MaxClock
  BY DEF ResolveSwapDate, IndInv, TypeOK
<1>7. change' = [change EXCEPT ![c] = q]
  BY <1>1, <1>2
<1> HIDE DEF q
<1>8. ChangesInOrder'
  BY <1>3, <1>4, <1>5, <1>6, <1>7, OrderKept
<1> QED
  BY <1>3, <1>6, <1>7, <1>8, RequestStep

\* The change gets its time.
LEMMA BeginChangeInv ==
    ASSUME IndInv, NEW c \in Changers, BeginChange(c)
    PROVE  IndInv'
<1> DEFINE q == [change[c] EXCEPT !.at = "begun", !.time = clock + 1]
<1>1. change[c] \in Requests /\ change[c].at = "resolved" /\ change \in [Changers -> Requests]
      /\ clock \in 0 .. MaxClock /\ clock < MaxClock
  BY DEF IndInv, TypeOK, Requests, BeginChange
<1>2. clock + 1 \in 0 .. MaxClock /\ clock + 1 \in 1 .. clock + 1
      /\ clock + 1 \in clock .. MaxClock
  BY <1>1, AsksAssumption
<1>3. q \in Requests /\ q.at = "begun" /\ q.time = clock + 1 /\ q.ask = change[c].ask
      /\ q.shift = change[c].shift /\ q.swap = change[c].swap
  BY <1>1, <1>2 DEF Requests
<1>4. change[c].ask \in Asks /\ Stated(change[c].ask) /\ change[c].shift \in Shifts
      /\ (change[c].swap # None <=> change[c].ask.swap # None)
  BY <1>1 DEF IndInv, ChangesInOrder
<1>5. UNCHANGED db /\ clock' = clock + 1
  BY DEF BeginChange
<1>6. change' = [change EXCEPT ![c] = q]
  BY <1>1 DEF BeginChange
<1> HIDE DEF q
<1>7. clock' \in clock .. MaxClock
  BY <1>2, <1>5
<1>8. q.at = "begun" => q.time \in 1 .. clock'
  BY <1>2, <1>3, <1>5
<1>9. ChangesInOrder'
  BY <1>3, <1>4, <1>6, <1>7, <1>8, OrderKept
<1> QED
  BY <1>3, <1>5, <1>6, <1>7, <1>9, RequestStep

\* An idle request is one.
LEMMA IdleType ==
    IdleChange \in Requests /\ IdleChange.at = "idle"
<1>1. 0 \in 0 .. MaxClock
  BY AsksAssumption
<1>2. IdleChange \in Requests
  BY <1>1, Zenon DEF IdleChange, Requests
<1> QED
  BY <1>2 DEF IdleChange

\* A request ends with nothing done.
LEMMA GiveUpInv ==
    ASSUME IndInv, NEW c \in Changers, GiveUp(c)
    PROVE  IndInv'
<1>1. UNCHANGED db /\ clock' \in clock .. MaxClock
  BY DEF GiveUp, IndInv, TypeOK
<1>2. change' = [change EXCEPT ![c] = IdleChange]
  BY DEF GiveUp
<1>3. ChangesInOrder'
  BY <1>1, <1>2, IdleType, OrderKept
<1> QED
  BY <1>1, <1>2, <1>3, IdleType, RequestStep

\* The rows of a change are past, and a discarded rota gets none.
LEMMA CommitChangeInv ==
    ASSUME IndInv, NEW c \in Changers, CommitChange(c)
    PROVE  IndInv'
<1>1. UNCHANGED <<rota, date, base, clock>> /\ change' = [change EXCEPT ![c] = IdleChange]
  BY CommitFacts
<1>2. ASSUME NEW s \in Shifts
      PROVE  /\ ledger'[s] \in Seq(Row)
             /\ \A i \in DOMAIN ledger'[s] : ledger'[s][i].time <= clock
  <2> DEFINE rows == ledger[s]
             more == More(c, s)
  <2>1. /\ rows \in Seq(Row) /\ more \in Seq(Row) /\ ledger'[s] = rows \o more
        /\ AllAt(more, change[c].time) /\ change[c].time <= clock
    BY MoreType, CommitFacts DEF IndInv, TypeOK
  <2>2. \A i \in 1 .. Len(rows) : rows[i].time <= clock
    BY <2>1 DEF IndInv, TypeOK
  <2>3. \A i \in 1 .. Len(more) : more[i].time <= clock
    BY <2>1 DEF AllAt
  <2> HIDE DEF rows, more
  <2>4. /\ rows \o more \in Seq(Row) /\ Len(rows) \in Nat /\ Len(more) \in Nat
        /\ Len(rows \o more) = Len(rows) + Len(more)
        /\ \A i \in 1 .. Len(rows) + Len(more) :
              (rows \o more)[i] = IF i <= Len(rows) THEN rows[i] ELSE more[i - Len(rows)]
    BY <2>1, LenProperties, ConcatProperties
  <2>5. ASSUME NEW i \in 1 .. Len(rows) + Len(more)
        PROVE  (rows \o more)[i].time <= clock
    <3>1. CASE i <= Len(rows)
      <4>1. i \in 1 .. Len(rows) /\ (rows \o more)[i] = rows[i]
        BY <2>4, <3>1
      <4> QED
        BY <2>2, <4>1
    <3>2. CASE ~(i <= Len(rows))
      <4>1. i - Len(rows) \in 1 .. Len(more) /\ (rows \o more)[i] = more[i - Len(rows)]
        BY <2>4, <3>2
      <4> QED
        BY <2>3, <4>1
    <3> QED
      BY <3>1, <3>2
  <2>6. DOMAIN (rows \o more) = 1 .. Len(rows) + Len(more)
    BY <2>4
  <2> QED
    BY <2>1, <2>4, <2>5, <2>6
<1>3. TypeOK'
  <2>1. change' \in [Changers -> Requests]
    BY <1>1, IdleType DEF IndInv, TypeOK, Requests
  <2> QED
    BY <1>1, <1>2, <2>1 DEF IndInv, TypeOK, Requests
<1>4. ChangesInOrder'
  <2>1. clock' \in clock .. MaxClock
    BY <1>1 DEF IndInv, TypeOK
  <2> QED
    BY <1>1, <2>1, IdleType, OrderKept
<1>5. NothingOnDiscarded'
  <2>1. SUFFICES ASSUME NEW s \in Shifts, rota[RotaOf[s]] = "discarded"
                 PROVE  ledger'[s] = <<>>
    BY <1>1 DEF NothingOnDiscarded
  <2>2. s # change[c].shift /\ s # change[c].swap
    BY <2>1, CommitFacts, PeopleAssumption DEF LockRota
  <2>3. More(c, s) = <<>> /\ ledger[s] = <<>>
    BY <2>1, <2>2, MoreCases DEF IndInv, NothingOnDiscarded
  <2>4. ledger'[s] = <<>> \o <<>>
    BY <2>3, MoreType
  <2> QED
    BY <2>4, EmptySeq, ConcatEmptySeq
<1> QED
  BY <1>1, <1>3, <1>4, <1>5, CommitNobodyTwice DEF IndInv, InFlightOnly

\* Only a rota that was in flight gets new seats.
LEMMA AllocateInv ==
    ASSUME IndInv, NEW r \in Rotas, Allocate(r)
    PROVE  IndInv'
<1>1. UNCHANGED <<date, ledger, clock, change>> /\ rota[r] = "unallocated"
      /\ rota' = [rota EXCEPT ![r] = "allocated"] /\ r \in InFlight
  BY DEF Allocate, IndInv, InFlightOnly
<1>2. ASSUME NEW s \in Shifts
      PROVE  IF RotaOf[s] = r THEN base'[s] \in Seatings[s] ELSE base'[s] = base[s]
  BY DEF Allocate
<1>3. \A s \in Shifts : base'[s] \in Seats
  BY <1>2, SeatingsAssumption DEF IndInv, TypeOK
<1>4. TypeOK'
  BY <1>1, <1>3 DEF IndInv, TypeOK
<1>5. NobodyTwice'
  <2>1. SUFFICES ASSUME NEW s \in Shifts, NEW v \in Volunteers, RotaOf[s] \notin InFlight
                 PROVE  Times(v, EffectiveAfter(s)) <= 1
    BY DEF NobodyTwice, Effective, EffectiveAfter, Times
  <2>2. EffectiveAfter(s) = Effective(s)
    BY <1>1, <1>2, <2>1 DEF Effective, EffectiveAfter
  <2> QED
    BY <2>1, <2>2 DEF IndInv, NobodyTwice
<1>6. ChangesInOrder' /\ InFlightOnly' /\ NothingOnDiscarded'
  BY <1>1 DEF IndInv, TypeOK, ChangesInOrder, InFlightOnly, NothingOnDiscarded
<1> QED
  BY <1>4, <1>5, <1>6 DEF IndInv

\* A rota with alterations is not discarded.
LEMMA DiscardInv ==
    ASSUME IndInv, NEW r \in Rotas, Discard(r)
    PROVE  IndInv'
<1>1. TypeOK'
  BY DEF Discard, IndInv, TypeOK
<1>2. NobodyTwice'
  BY DEF Discard, IndInv, NobodyTwice, Effective
<1>3. ChangesInOrder' /\ InFlightOnly' /\ NothingOnDiscarded'
  BY DEF Discard, IndInv, TypeOK, ChangesInOrder, InFlightOnly, NothingOnDiscarded
<1> QED
  BY <1>1, <1>2, <1>3 DEF IndInv

\* Every step keeps the invariant.
LEMMA StepInv ==
    ASSUME IndInv, [Next]_vars
    PROVE  IndInv'
<1>1. ASSUME NEW s \in Shifts, NEW d \in Dates, Move(s, d)
      PROVE  IndInv'
  <2>1. UNCHANGED <<rota, base, ledger, clock, change>>
        /\ date' \in [Shifts -> Dates \cup {None}]
    BY <1>1 DEF Move, IndInv, TypeOK
  <2>2. TypeOK'
    BY <2>1 DEF IndInv, TypeOK
  <2>3. NobodyTwice'
    BY <2>1 DEF IndInv, NobodyTwice, Effective
  <2> QED
    BY <2>1, <2>2, <2>3 DEF IndInv, ChangesInOrder, InFlightOnly, NothingOnDiscarded
<1>2. CASE UNCHANGED vars
  <2>1. TypeOK'
    BY <1>2 DEF vars, db, IndInv, TypeOK
  <2>2. NobodyTwice'
    BY <1>2 DEF vars, db, IndInv, NobodyTwice, Effective
  <2> QED
    BY <1>2, <2>1, <2>2 DEF vars, db, IndInv, ChangesInOrder, InFlightOnly, NothingOnDiscarded
<1> QED
  BY <1>1, <1>2, ResolveDateInv, ResolveSwapDateInv, BeginChangeInv, CommitChangeInv,
     GiveUpInv, AllocateInv, DiscardInv DEF Next

\* The inductive invariant: types, changes in order, no rota back in flight, nobody
\* seated twice, nothing on a discarded rota.
THEOREM Inductive == Spec => []IndInv
<1>1. Init => IndInv
  BY InitInv
<1>2. IndInv /\ [Next]_vars => IndInv'
  BY StepInv
<1> QED
  BY <1>1, <1>2, PTL DEF Spec

\* Every variable keeps its type, and no row is from the future.
THEOREM TypeCorrect == Spec => []TypeOK
<1>1. IndInv => TypeOK
  BY DEF IndInv
<1> QED
  BY <1>1, Inductive, PTL

\* Nobody is on a Shift of a published rota twice, however many changes overlap
\* and in whatever order they began and committed (validateDateChanges).
THEOREM OneSeatEach == Spec => []NobodyTwice
<1>1. IndInv => NobodyTwice
  BY DEF IndInv
<1> QED
  BY <1>1, Inductive, PTL

\* Whoever resolved a Shift before its rota was discarded records nothing on it
\* (WithRotaLock), and a rota with alterations is not discarded (the foreign key).
THEOREM DiscardedStaysEmpty == Spec => []NothingOnDiscarded
<1>1. IndInv => NothingOnDiscarded
  BY DEF IndInv
<1> QED
  BY <1>1, Inductive, PTL

-----------------------------------------------------------------------------
(* The newest change. *)

\* Only a change's own commit ends it with rows on record.
LEMMA CommitsIs ==
    ASSUME IndInv, [Next]_vars, NEW c \in Changers, Commits(c)
    PROVE  CommitChange(c)
<1>1. ledger' # ledger /\ change[c].at = "begun" /\ change'[c].at = "idle"
  BY DEF Commits
<1>2. PICK d \in Changers : CommitChange(d)
  BY <1>1 DEF Next, vars, db, ResolveDate, ResolveSwapDate, BeginChange, GiveUp,
              Allocate, Discard, Move
<1>3. CASE d # c
  <2>1. change'[c] = change[c]
    BY <1>2, <1>3, CommitFacts DEF IndInv, TypeOK
  <2> QED
    BY <1>1, <2>1
<1> QED
  BY <1>2, <1>3

\* The half of the newest change on one Shift is replayed over the rota it was
\* validated against.
LEMMA NewestIsReplayedLast ==
    ASSUME IndInv, NEW c \in Changers, CommitChange(c), NEW s \in Shifts, Newest(c, s)
    PROVE  EffectiveAfter(s) = ApplyTime(Effective(s), More(c, s), change[c].time)
<1> DEFINE rows == ledger[s]
           more == More(c, s)
           time == change[c].time
<1>1. /\ more \in Seq(Row) /\ AllAt(more, time) /\ ledger'[s] = rows \o more
      /\ rows \in Seq(Row) /\ base[s] \in Seats /\ base' = base
      /\ time \in Nat /\ 1 <= time /\ time <= MaxClock
  BY MoreType, CommitFacts, AsksAssumption DEF IndInv, TypeOK
<1>2. \A i \in 1 .. Len(rows) : rows[i].time < time
  BY <1>1 DEF Newest
<1> HIDE DEF rows, more, time
<1>3. Replay(base[s], rows \o more) = ApplyTime(Replay(base[s], rows), more, time)
  BY <1>1, <1>2, ReplayLatest
<1> QED
  BY <1>1, <1>3 DEF EffectiveAfter, Effective, rows, more, time

\* A half that fits, replayed last, does what was asked.
LEMMA HalfTakesEffect ==
    ASSUME IndInv, NEW s \in Shifts, NEW time \in 1 .. MaxClock,
           NEW in, NEW out, NEW inCustom, NEW outCustom,
           Entry(in, out, inCustom, outCustom), NEW role \in Roles \cup {None},
           Fits(Effective(s), in, out, outCustom),
           EffectiveAfter(s) = ApplyTime(Effective(s),
               Rows(time, in, out, inCustom, outCustom, role), time)
    PROVE  TookEffect(s, in, out, inCustom, outCustom)
<1> DEFINE x == Effective(s)
           y == EffectiveAfter(s)
<1>0. x \in Seats
  BY EffectiveType DEF IndInv
<1>1. /\ y \in Seats
      /\ \A v \in Volunteers : y[v] = Half(x, v, in, out, role)
      /\ \A p \in Customs : y[p] = Half(x, p, inCustom, outCustom, None)
  BY <1>0, RowsApplied
<1>2. /\ out # None => On(out, x) /\ out \in Volunteers
      /\ in # None => ~On(in, x) /\ in \in Volunteers
      /\ inCustom # None => inCustom \in Customs
      /\ outCustom # None => outCustom \in Customs
  BY DEF Fits, Entry
<1>3. \A p \in People : x[p] \in Seq(Roles \cup {None})
  BY <1>0 DEF Seats
<1> HIDE DEF x, y
<1>4. ASSUME out # None
      PROVE  ~On(out, y)
  <2>1. out # in
    BY <1>2, <1>4
  <2>2. y[out] = <<>>
    BY <1>1, <1>2, <1>4, <2>1 DEF Half, Left
  <2> QED
    BY <2>2, EmptySeq DEF On, Times
<1>5. ASSUME in # None
      PROVE  Times(in, y) = 1
  <2>1. in # out /\ in \in People
    BY <1>2, <1>5 DEF People
  <2>2. Len(x[in]) = 0
    BY <1>2, <1>3, <1>5, <2>1, LenProperties DEF On, Times
  <2>3. y[in] = Append(x[in], role)
    BY <1>1, <1>2, <1>5, <2>1 DEF Half, Left
  <2> QED
    BY <1>3, <2>1, <2>2, <2>3, AppendProperties DEF Times
<1>6. ASSUME outCustom \notin {None, inCustom}
      PROVE  ~On(outCustom, y)
  <2>1. y[outCustom] = <<>>
    BY <1>1, <1>2, <1>6 DEF Half, Left
  <2> QED
    BY <2>1, EmptySeq DEF On, Times
<1>7. ASSUME inCustom # None
      PROVE  On(inCustom, y)
  <2>1. inCustom \in Customs /\ inCustom \in People
    BY <1>2, <1>7 DEF People
  <2> DEFINE kept == Left(x, inCustom, outCustom)
  <2>2. kept \in Seq(Roles \cup {None})
    BY <1>3, <2>1, EmptySeq DEF Left
  <2>3. y[inCustom] = Append(kept, None)
    BY <1>1, <2>1 DEF Half
  <2> HIDE DEF kept
  <2>4. Len(Append(kept, None)) = Len(kept) + 1 /\ Len(kept) \in Nat
    BY <2>2, AppendProperties, LenProperties
  <2> QED
    BY <2>3, <2>4 DEF On, Times
<1>8. \A v \in Volunteers \ {in, out} : y[v] = x[v]
  BY <1>1 DEF Half, Left
<1> QED
  BY <1>4, <1>5, <1>6, <1>7, <1>8 DEF TookEffect, x, y

\* What is recorded on either Shift of the change that was newest on it.
LEMMA NewestHere ==
    ASSUME IndInv, NEW c \in Changers, CommitChange(c),
           change[c].swap # change[c].shift, Newest(c, change[c].shift)
    PROVE  EffectiveAfter(change[c].shift)
              = ApplyTime(Effective(change[c].shift), HereRows(c), change[c].time)
BY CommitFacts, MoreCases, NewestIsReplayedLast

\* and to the other Shift of a swap.
LEMMA NewestThere ==
    ASSUME IndInv, NEW c \in Changers, CommitChange(c),
           change[c].swap \notin {None, change[c].shift}, Newest(c, change[c].swap)
    PROVE  EffectiveAfter(change[c].swap)
              = ApplyTime(Effective(change[c].swap), BackRows(c), change[c].time)
BY CommitFacts, MoreCases, NewestIsReplayedLast

\* The newest change on a Shift does what was asked and disturbs nobody else
\* (ApplyAlterations over what CommitChange inserted).
THEOREM NewestTakesEffect == Spec => LatestTakesEffect
<1>1. ASSUME IndInv, [Next]_vars, NEW c \in Changers, Commits(c)
      PROVE  LET ask == change[c].ask
                 s   == change[c].shift
                 t   == change[c].swap
             IN  /\ Newest(c, s) /\ t # s =>
                       TookEffect(s, ask.in, ask.out, ask.inCustom, ask.outCustom)
                 /\ t \notin {None, s} /\ Newest(c, t) =>
                       TookEffect(t, ask.out, ask.in, ask.outCustom, ask.inCustom)
  <2> DEFINE ask == change[c].ask
             s   == change[c].shift
             t   == change[c].swap
  <2>1. CommitChange(c)
    BY <1>1, CommitsIs
  <2>2. /\ change[c].time \in 1 .. MaxClock /\ s \in Shifts /\ t \in Shifts \cup {None}
        /\ Entry(ask.in, ask.out, ask.inCustom, ask.outCustom)
        /\ Entry(ask.out, ask.in, ask.outCustom, ask.inCustom)
        /\ HereRole(c) \in Roles \cup {None} /\ BackRole(c) \in Roles \cup {None}
        /\ Fits(Effective(s), ask.in, ask.out, ask.outCustom)
        /\ t # None => Fits(Effective(t), ask.out, ask.in, ask.inCustom)
    BY <1>1, <2>1, CommitFacts, CommitTypes
  <2>3. ASSUME Newest(c, s), t # s
        PROVE  TookEffect(s, ask.in, ask.out, ask.inCustom, ask.outCustom)
    BY <1>1, <2>1, <2>2, <2>3, NewestHere, HalfTakesEffect DEF HereRows
  <2>4. ASSUME t \notin {None, s}, Newest(c, t)
        PROVE  TookEffect(t, ask.out, ask.in, ask.outCustom, ask.inCustom)
    BY <1>1, <2>1, <2>2, <2>4, NewestThere, HalfTakesEffect DEF BackRows
  <2> QED
    BY <2>3, <2>4
<1>2. IndInv /\ [Next]_vars =>
         [\A c \in Changers : Commits(c) =>
            LET ask == change[c].ask
                s   == change[c].shift
                t   == change[c].swap
            IN  /\ Newest(c, s) /\ t # s =>
                      TookEffect(s, ask.in, ask.out, ask.inCustom, ask.outCustom)
                /\ t \notin {None, s} /\ Newest(c, t) =>
                      TookEffect(t, ask.out, ask.in, ask.outCustom, ask.inCustom)]_vars
  BY <1>1
<1> QED
  BY <1>2, Inductive, PTL DEF Spec, LatestTakesEffect

\* A volunteer in the one seat of another: what a half of a swap does when who
\* goes out has one seat, and who comes in inherits its Role.
LEMMA HalfExchanges ==
    ASSUME NEW x \in Seats, NEW y \in Seats, NEW time \in 1 .. MaxClock,
           NEW in \in Volunteers, NEW out \in Volunteers, NEW inCustom, NEW outCustom,
           Entry(in, out, inCustom, outCustom),
           ~On(in, x), Times(out, x) = 1, RoleOn(out, x) # None,
           y = ApplyTime(x, Rows(time, in, out, inCustom, outCustom, RoleOn(out, x)), time)
    PROVE  Exchanged(in, out, x, y) /\ Exchanged(out, in, x, y)
<1> DEFINE role == RoleOn(out, x)
<1>1. role \in Roles \cup {None} /\ x[out] = <<role>>
  BY RoleOnType, RoleOfOneSeat
<1>2. x[in] \in Seq(Roles \cup {None}) /\ Len(x[in]) = 0
  BY LenProperties DEF Seats, People, On, Times
<1>3. x[in] = <<>> /\ in # out
  BY <1>2, EmptySeq DEF On, Times
<1> HIDE DEF role
<1>4. \A v \in Volunteers : y[v] = Half(x, v, in, out, role)
  BY <1>1, RowsApplied DEF role
<1>5. y[out] = <<>>
  BY <1>3, <1>4 DEF Half, Left
<1>6. y[in] = <<role>>
  <2>1. y[in] = Append(<<>>, role)
    BY <1>3, <1>4 DEF Half, Left
  <2>2. Append(<<>>, role) = <<role>>
    OBVIOUS
  <2> QED
    BY <2>1, <2>2
<1>7. \A v \in Volunteers \ {in, out} : y[v] = x[v]
  BY <1>4 DEF Half, Left
<1> QED
  BY <1>1, <1>3, <1>5, <1>6, <1>7 DEF Exchanged

\* A swap of two volunteers with one seat each hands over both seats with their
\* Roles and touches nobody else (roleForIncoming).
THEOREM SwapsKeepSeats == Spec => SwapKeepsSeats
<1>1. ASSUME IndInv, [Next]_vars, NEW c \in Changers, Commits(c),
             change[c].swap \notin {None, change[c].shift},
             change[c].ask.in # None, change[c].ask.out # None,
             Newest(c, change[c].shift), Newest(c, change[c].swap),
             Times(change[c].ask.out, Effective(change[c].shift)) = 1,
             Times(change[c].ask.in, Effective(change[c].swap)) = 1,
             RoleOn(change[c].ask.out, Effective(change[c].shift)) # None,
             RoleOn(change[c].ask.in, Effective(change[c].swap)) # None
      PROVE  /\ Exchanged(change[c].ask.in, change[c].ask.out,
                          Effective(change[c].shift), EffectiveAfter(change[c].shift))
             /\ Exchanged(change[c].ask.in, change[c].ask.out,
                          Effective(change[c].swap), EffectiveAfter(change[c].swap))
  <2> DEFINE ask == change[c].ask
             s   == change[c].shift
             t   == change[c].swap
             time == change[c].time
  <2>1. CommitChange(c)
    BY <1>1, CommitsIs
  <2>2. /\ time \in 1 .. MaxClock /\ s \in Shifts /\ t \in Shifts
        /\ Entry(ask.in, ask.out, ask.inCustom, ask.outCustom)
        /\ Entry(ask.out, ask.in, ask.outCustom, ask.inCustom)
        /\ Fits(Effective(s), ask.in, ask.out, ask.outCustom)
        /\ Fits(Effective(t), ask.out, ask.in, ask.inCustom)
        /\ Stated(ask) /\ ask.swap # None
    BY <1>1, <2>1, CommitFacts, CommitTypes
  <2>3. ask.in \in Volunteers /\ ask.out \in Volunteers /\ ask.role = None
    BY <1>1, <2>2 DEF Entry, Stated
  <2>4. ~On(ask.in, Effective(s)) /\ ~On(ask.out, Effective(t))
    BY <1>1, <2>2 DEF Fits
  <2>5. Effective(s) \in Seats /\ Effective(t) \in Seats
    BY <1>1, <2>2, EffectiveType DEF IndInv
  <2>6. HereRole(c) = RoleOn(ask.out, Effective(s))
        /\ BackRole(c) = RoleOn(ask.in, Effective(t))
    BY <1>1, <2>3 DEF HereRole, BackRole, There, RoleForIncoming
  <2>7. /\ EffectiveAfter(s) = ApplyTime(Effective(s), Rows(time, ask.in, ask.out,
               ask.inCustom, ask.outCustom, RoleOn(ask.out, Effective(s))), time)
        /\ EffectiveAfter(t) = ApplyTime(Effective(t), Rows(time, ask.out, ask.in,
               ask.outCustom, ask.inCustom, RoleOn(ask.in, Effective(t))), time)
    BY <1>1, <2>1, <2>6, NewestHere, NewestThere DEF HereRows, BackRows
  <2>8. EffectiveAfter(s) \in Seats /\ EffectiveAfter(t) \in Seats
    BY <2>2, <2>3, <2>5, <2>7, RoleOnType, RowsApplied
  <2> HIDE DEF ask, s, t, time
  <2>9. Exchanged(ask.in, ask.out, Effective(s), EffectiveAfter(s))
    BY <1>1, <2>2, <2>3, <2>4, <2>5, <2>7, <2>8, HalfExchanges DEF ask, s, t
  <2>10. Exchanged(ask.in, ask.out, Effective(t), EffectiveAfter(t))
    BY <1>1, <2>2, <2>3, <2>4, <2>5, <2>7, <2>8, HalfExchanges DEF ask, s, t
  <2> QED
    BY <2>9, <2>10 DEF ask, s, t
<1>2. IndInv /\ [Next]_vars =>
         [\A c \in Changers : Commits(c) =>
            LET ask == change[c].ask
                s   == change[c].shift
                t   == change[c].swap
            IN  /\ t \notin {None, s} /\ ask.in # None /\ ask.out # None
                /\ Newest(c, s) /\ Newest(c, t)
                /\ Times(ask.out, Effective(s)) = 1 /\ Times(ask.in, Effective(t)) = 1
                /\ RoleOn(ask.out, Effective(s)) # None
                /\ RoleOn(ask.in, Effective(t)) # None
                => /\ Exchanged(ask.in, ask.out, Effective(s), EffectiveAfter(s))
                   /\ Exchanged(ask.in, ask.out, Effective(t), EffectiveAfter(t))]_vars
  BY <1>1
<1> QED
  BY <1>2, Inductive, PTL DEF Spec, SwapKeepsSeats

-----------------------------------------------------------------------------
(* The order of commits. *)

\* The times of two changes are all the replay knows of their order: whichever
\* committed first, the effective rota is the same (set_time is the ledger's only
\* order, getAlterationsByShiftIDs and ApplyAlterations).
THEOREM CommitOrderForgotten ==
    ASSUME NEW seats \in Seats, NEW rows \in Seq(Row),
           NEW a \in Seq(Row), NEW b \in Seq(Row), NEW ta, NEW tb,
           AllAt(a, ta), AllAt(b, tb), ta # tb
    PROVE  Replay(seats, (rows \o a) \o b) = Replay(seats, (rows \o b) \o a)
<1> DEFINE ab == (rows \o a) \o b
           ba == (rows \o b) \o a
<1>1. rows \o a \in Seq(Row) /\ rows \o b \in Seq(Row) /\ ab \in Seq(Row) /\ ba \in Seq(Row)
  BY ConcatProperties
<1>2. \A x \in Seats : \A t : ApplyTime(x, ab, t) = ApplyTime(x, ba, t)
  <2>1. SUFFICES ASSUME NEW x \in Seats, NEW t
                 PROVE  ApplyTime(x, ab, t) = ApplyTime(x, ba, t)
    OBVIOUS
  <2>2. ApplyTime(x, rows \o a, t) =
           IF t = ta THEN ApplyTime(ApplyTime(x, rows, t), a, t) ELSE ApplyTime(x, rows, t)
    BY ConcatStep
  <2>3. ApplyTime(x, rows \o b, t) =
           IF t = tb THEN ApplyTime(ApplyTime(x, rows, t), b, t) ELSE ApplyTime(x, rows, t)
    BY ConcatStep
  <2> DEFINE ra == rows \o a
             rb == rows \o b
  <2>0. ra \in Seq(Row) /\ rb \in Seq(Row)
    BY <1>1
  <2> HIDE DEF ra, rb
  <2>4. ApplyTime(x, ra \o b, t) =
           IF t = tb THEN ApplyTime(ApplyTime(x, ra, t), b, t) ELSE ApplyTime(x, ra, t)
    BY <2>0, ConcatStep
  <2>5. ApplyTime(x, rb \o a, t) =
           IF t = ta THEN ApplyTime(ApplyTime(x, rb, t), a, t) ELSE ApplyTime(x, rb, t)
    BY <2>0, ConcatStep
  <2> QED
    BY <2>2, <2>3, <2>4, <2>5 DEF ra, rb, ab, ba
<1> HIDE DEF ab, ba
<1>3. PICK f : Replayed(f, seats, ab) /\ Replay(seats, ab) = f[MaxClock]
  BY <1>1, ReplaySteps
<1>4. PICK g : Replayed(g, seats, ba) /\ Replay(seats, ba) = g[MaxClock]
  BY <1>1, ReplaySteps
<1> DEFINE T == {t \in Nat : t <= MaxClock => f[t] = g[t]}
<1>5. 0 \in T
  BY <1>3, <1>4 DEF Replayed
<1>6. ASSUME NEW t \in Nat, t \in T
      PROVE  t + 1 \in T
  <2>1. CASE t + 1 <= MaxClock
    <3>1. t + 1 \in 1 .. MaxClock /\ (t + 1) - 1 = t /\ t \in 0 .. MaxClock /\ f[t] = g[t]
      BY <1>6, <2>1, AsksAssumption
    <3>2. /\ f[t + 1] = ApplyTime(f[t], ab, t + 1) /\ f[t] \in Seats
          /\ g[t + 1] = ApplyTime(g[t], ba, t + 1)
      BY <1>3, <1>4, <3>1 DEF Replayed
    <3> QED
      BY <1>2, <3>1, <3>2
  <2>2. CASE ~(t + 1 <= MaxClock)
    BY <2>2
  <2> QED
    BY <2>1, <2>2
<1> HIDE DEF T
<1>7. \A t \in Nat : t \in T
  BY <1>5, <1>6, Induction
<1> QED
  BY <1>3, <1>4, <1>7, AsksAssumption DEF T, ab, ba
==============================================================================
