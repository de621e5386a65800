------------------------------ MODULE NotesProofs ------------------------------
(***************************************************************************)
(* What AdjustmentNotes.tla promises, for any notes, requests, invoice     *)
(* lines and contents.  The first part is about finite sums: SumFunction   *)
(* adds in an order nobody knows (CHOOSE), and every fact about it goes by *)
(* induction over the proper subsets of a finite set.  The second part is  *)
(* the inductive invariant: who holds the invoice's lock has room for what *)
(* it is about to credit, and only the holder credits.                     *)
(***************************************************************************)
EXTENDS AdjustmentNotes, FiniteSetTheorems, WellFoundedInduction, TLAPS

-----------------------------------------------------------------------------
(* Finite sums. *)

(* What holds of a set once it holds of its proper subsets holds of every   *)
(* finite set.                                                               *)
LEMMA SubsetInduction ==
    ASSUME NEW S, IsFiniteSet(S), NEW Good,
           \A T \in SUBSET S : (\A U \in SUBSET T : U # T => U \in Good) => T \in Good
    PROVE  S \in Good
<1>1. SUFFICES ASSUME S \notin Good PROVE FALSE OBVIOUS
<1>2. PICK Bad : Bad = {T \in SUBSET S : T \notin Good} OBVIOUS
<1>3. PICK Less : Less = StrictSubsetOrdering(S) OBVIOUS
<1>4. Bad \subseteq SUBSET S BY <1>2
<1>n. Bad # {} BY <1>1, <1>2
<1>5. IsWellFoundedOn(Less, SUBSET S)
    BY <1>3, FS_StrictSubsetOrderingWellFounded, FS_FiniteSubsetsOfFinite
<1>6. PICK T \in Bad : \A U \in Bad : ~ (<<U, T>> \in Less)
    BY <1>4, <1>5, <1>n, WFMin
<1>7. ASSUME NEW U \in SUBSET T, U # T PROVE U \in Good
  <2>1. <<U, T>> \in Less BY <1>2, <1>3, <1>6, <1>7 DEF StrictSubsetOrdering
  <2> QED BY <1>2, <1>6, <1>7, <2>1
<1> QED BY <1>2, <1>6, <1>7

(* The element that is added first. *)
Some(S) == CHOOSE x \in S : TRUE

(* The function by which FoldFunctionOnSet is defined. *)
Adds(g, f, S) ==
    g = [s \in SUBSET S |-> IF s = {} THEN 0 ELSE f[Some(s)] + g[s \ {Some(s)}]]

(* A sum, one element apart: what the definition of SumFunctionOnSet says. *)
Apart(f, S) ==
    SumFunctionOnSet(f, S) =
        IF S = {} THEN 0 ELSE f[Some(S)] + SumFunctionOnSet(f, S \ {Some(S)})

(* There is one, unless the set is empty. *)
LEMMA SomeIn == ASSUME NEW S, S # {} PROVE Some(S) \in S
BY DEF Some

(* SumFunctionOnSet, as the community modules define it. *)
LEMMA SumIs ==
    ASSUME NEW f, NEW S PROVE SumFunctionOnSet(f, S) = (CHOOSE g : Adds(g, f, S))[S]
BY DEF SumFunctionOnSet, FoldFunctionOnSet, MapThenFoldSet, Adds, Some

(* Its recursion does come apart so, for a finite set. *)
LEMMA SumApart == ASSUME NEW f, NEW S, IsFiniteSet(S) PROVE Apart(f, S)
<1> DEFINE Good == {T \in SUBSET S : Apart(f, T)}
<1>1. ASSUME NEW T \in SUBSET S, \A U \in SUBSET T : U # T => U \in Good PROVE Apart(f, T)
  <2>0. IsFiniteSet(T) BY FS_Subset
  <2>1. \A U \in SUBSET T : U # T => Apart(f, U) BY <1>1
  <2> DEFINE h == [s \in SUBSET T |->
                     IF s = {} THEN 0 ELSE f[Some(s)] + SumFunctionOnSet(f, s \ {Some(s)})]
  <2>2. \A s \in SUBSET T : s # {} =>
            Some(s) \in s /\ s \ {Some(s)} \in SUBSET T /\ s \ {Some(s)} # T
      BY SomeIn
  <2>3. \A s \in SUBSET T : s # {} => h[s \ {Some(s)}] = SumFunctionOnSet(f, s \ {Some(s)})
    <3> TAKE s \in SUBSET T
    <3> HAVE s # {}
    <3>1. PICK u : u = s \ {Some(s)} OBVIOUS
    <3>2. u \in SUBSET T /\ Apart(f, u) BY <2>1, <2>2, <3>1
    <3> QED BY <3>1, <3>2 DEF Apart
  <2>4. Adds(h, f, T) BY <2>3 DEF Adds
  <2>5. PICK g : g = (CHOOSE k : Adds(k, f, T)) OBVIOUS
  <2>6. Adds(g, f, T) /\ SumFunctionOnSet(f, T) = g[T]
    <3> HIDE DEF h
    <3> QED BY <2>4, <2>5, SumIs
  <2> HIDE DEF h
  <2>7. \A s \in SUBSET T : g[s] = IF s = {} THEN 0 ELSE f[Some(s)] + g[s \ {Some(s)}]
      BY <2>6 DEF Adds
  <2> DEFINE Same == {s \in SUBSET T : s # T => g[s] = SumFunctionOnSet(f, s)}
  <2>8. ASSUME NEW U \in SUBSET T PROVE U \in Same
    <3>1. SUFFICES ASSUME NEW s \in SUBSET U, \A u \in SUBSET s : u # s => u \in Same
                   PROVE  s \in Same
      <4> HIDE DEF Same
      <4>1. IsFiniteSet(U) BY <2>0, FS_Subset
      <4> QED BY <3>1, <4>1, SubsetInduction
    <3>2. SUFFICES ASSUME s # T PROVE g[s] = SumFunctionOnSet(f, s) OBVIOUS
    <3>3. Apart(f, s) BY <2>1, <3>2
    <3>4. CASE s = {} BY <2>7, <3>3, <3>4 DEF Apart
    <3>5. CASE s # {}
      <4>1. PICK u : u = s \ {Some(s)} OBVIOUS
      <4>2. u \in SUBSET s /\ u # s /\ u # T BY <3>5, <4>1, SomeIn
      <4>3. g[u] = SumFunctionOnSet(f, u) BY <3>1, <4>2
      <4>4. g[s] = f[Some(s)] + g[u] BY <2>7, <3>5, <4>1
      <4>5. SumFunctionOnSet(f, s) = f[Some(s)] + SumFunctionOnSet(f, u)
          BY <3>3, <3>5, <4>1 DEF Apart
      <4> QED BY <4>3, <4>4, <4>5
    <3> QED BY <3>4, <3>5
  <2>9. CASE T = {} BY <2>6, <2>7, <2>9 DEF Apart
  <2>10. CASE T # {}
    <3>1. PICK u : u = T \ {Some(T)} OBVIOUS
    <3>2. u \in SUBSET T /\ u # T BY <2>10, <3>1, SomeIn
    <3>3. g[u] = SumFunctionOnSet(f, u) BY <2>8, <3>2
    <3>4. SumFunctionOnSet(f, T) = f[Some(T)] + g[u] BY <2>6, <2>7, <2>10, <3>1
    <3> QED BY <2>10, <3>1, <3>3, <3>4 DEF Apart
  <2> QED BY <2>9, <2>10
<1>2. S \in Good
  <2>1. \A T \in SUBSET S : (\A U \in SUBSET T : U # T => U \in Good) => T \in Good
      BY <1>1
  <2> HIDE DEF Good
  <2> QED BY <2>1, SubsetInduction
<1> QED BY <1>2

(* The sum of a function over a set, from here on. *)
Total(f, S) == SumFunctionOnSet(f, S)

(* The sum of nothing. *)
LEMMA TotalEmpty == ASSUME NEW f PROVE Total(f, {}) = 0
BY SumApart, FS_EmptySet DEF Apart, Total

(* The sum of integers is one. *)
LEMMA TotalInt ==
    ASSUME NEW S, IsFiniteSet(S), NEW f, \A x \in S : f[x] \in Int
    PROVE  Total(f, S) \in Int
<1> DEFINE Good == {T \in SUBSET S : Total(f, T) \in Int}
<1>1. ASSUME NEW T \in SUBSET S, \A U \in SUBSET T : U # T => U \in Good PROVE T \in Good
  <2>1. Apart(f, T) BY FS_Subset, SumApart
  <2>2. CASE T = {} BY <2>1, <2>2 DEF Apart, Total
  <2>3. CASE T # {}
    <3>1. Some(T) \in T BY <2>3, SomeIn
    <3>2. Total(f, T \ {Some(T)}) \in Int BY <1>1, <3>1
    <3> QED BY <2>1, <2>3, <3>1, <3>2 DEF Apart, Total
  <2> QED BY <2>2, <2>3
<1>2. S \in Good
  <2> HIDE DEF Good
  <2> QED BY <1>1, SubsetInduction
<1> QED BY <1>2

(* Any element can be taken apart from the others. *)
LEMMA TotalApart ==
    ASSUME NEW S, IsFiniteSet(S), NEW f, \A x \in S : f[x] \in Int, NEW x \in S
    PROVE  Total(f, S) = f[x] + Total(f, S \ {x})
<1> DEFINE Good == {T \in SUBSET S : \A y \in T : Total(f, T) = f[y] + Total(f, T \ {y})}
<1>1. ASSUME NEW T \in SUBSET S, \A U \in SUBSET T : U # T => U \in Good PROVE T \in Good
  <2>1. SUFFICES ASSUME NEW y \in T PROVE Total(f, T) = f[y] + Total(f, T \ {y}) OBVIOUS
  <2>2. PICK z : z = Some(T) OBVIOUS
  <2>3. z \in T BY <2>1, <2>2, SomeIn
  <2>4. Total(f, T) = f[z] + Total(f, T \ {z})
      BY <2>1, <2>2, FS_Subset, SumApart DEF Apart, Total
  <2>5. CASE y = z BY <2>4, <2>5
  <2>6. CASE y # z
    <3>1. PICK V : V = T \ {y, z} OBVIOUS
    <3>2. Total(f, T \ {z}) = f[y] + Total(f, V)
      <4>1. T \ {z} \in Good /\ y \in T \ {z} BY <1>1, <2>3, <2>6
      <4>2. (T \ {z}) \ {y} = V BY <3>1
      <4> QED BY <4>1, <4>2
    <3>3. Total(f, T \ {y}) = f[z] + Total(f, V)
      <4>1. T \ {y} \in Good /\ z \in T \ {y} BY <1>1, <2>1, <2>3, <2>6
      <4>2. (T \ {y}) \ {z} = V BY <3>1
      <4> QED BY <4>1, <4>2
    <3>4. f[y] \in Int /\ f[z] \in Int BY <2>1, <2>3
    <3>5. Total(f, V) \in Int
      <4>1. V \subseteq S /\ IsFiniteSet(V) BY <3>1, FS_Subset
      <4> QED BY <4>1, TotalInt
    <3> QED BY <2>4, <3>2, <3>3, <3>4, <3>5
  <2> QED BY <2>5, <2>6
<1>2. S \in Good
  <2> HIDE DEF Good
  <2> QED BY <1>1, SubsetInduction
<1> QED BY <1>2

(* Values at other places do not count. *)
LEMMA TotalSame ==
    ASSUME NEW S, IsFiniteSet(S), NEW f, NEW g, \A x \in S : f[x] = g[x]
    PROVE  Total(f, S) = Total(g, S)
<1> DEFINE Good == {T \in SUBSET S : Total(f, T) = Total(g, T)}
<1>1. ASSUME NEW T \in SUBSET S, \A U \in SUBSET T : U # T => U \in Good PROVE T \in Good
  <2>1. Apart(f, T) /\ Apart(g, T) BY FS_Subset, SumApart
  <2>2. CASE T = {} BY <2>1, <2>2 DEF Apart, Total
  <2>3. CASE T # {}
    <3>1. Some(T) \in T BY <2>3, SomeIn
    <3>2. Total(f, T \ {Some(T)}) = Total(g, T \ {Some(T)}) BY <1>1, <3>1
    <3> QED BY <2>1, <2>3, <3>1, <3>2 DEF Apart, Total
  <2> QED BY <2>2, <2>3
<1>2. S \in Good
  <2> HIDE DEF Good
  <2> QED BY <1>1, SubsetInduction
<1> QED BY <1>2

(* Of natural numbers, more of them come to no less. *)
LEMMA TotalNat ==
    ASSUME NEW S, IsFiniteSet(S), NEW f, \A x \in S : f[x] \in Nat, NEW R \in SUBSET S
    PROVE  Total(f, R) \in Nat /\ Total(f, R) <= Total(f, S)
<1> DEFINE Good == {T \in SUBSET S : \A U \in SUBSET T :
                        Total(f, U) \in Nat /\ Total(f, U) <= Total(f, T)}
<1>1. ASSUME NEW T \in SUBSET S, \A U \in SUBSET T : U # T => U \in Good PROVE T \in Good
  <2>0. IsFiniteSet(T) BY FS_Subset
  <2>1. CASE T = {} BY <2>1, TotalEmpty
  <2>2. CASE T # {}
    <3>1. ASSUME NEW y \in T
          PROVE  /\ Total(f, T \ {y}) \in Nat
                 /\ Total(f, T) = f[y] + Total(f, T \ {y})
      <4>1. T \ {y} \in Good /\ T \ {y} \in SUBSET (T \ {y}) BY <1>1, <3>1
      <4>2. Total(f, T \ {y}) \in Nat BY <4>1
      <4>3. \A x \in T : f[x] \in Int OBVIOUS
      <4> QED BY <2>0, <4>2, <4>3, TotalApart
    <3>2. Total(f, T) \in Nat
      <4>1. PICK y \in T : TRUE BY <2>2
      <4>2. f[y] \in Nat OBVIOUS
      <4>3. /\ Total(f, T \ {y}) \in Nat
            /\ Total(f, T) = f[y] + Total(f, T \ {y})
          BY <3>1
      <4> QED BY <4>2, <4>3
    <3>3. ASSUME NEW U \in SUBSET T
          PROVE  Total(f, U) \in Nat /\ Total(f, U) <= Total(f, T)
      <4>1. CASE U = T BY <3>2, <4>1
      <4>2. CASE U # T
        <5>1. PICK y \in T : y \notin U BY <4>2
        <5>2. T \ {y} \in Good /\ U \in SUBSET (T \ {y}) BY <1>1, <5>1
        <5>3. Total(f, U) <= Total(f, T \ {y}) BY <5>2
        <5>4. Total(f, U) \in Nat BY <5>2
        <5>5. f[y] \in Nat BY <5>1
        <5> QED BY <3>1, <5>3, <5>4, <5>5
      <4> QED BY <4>1, <4>2
    <3> QED BY <3>2, <3>3
  <2> QED BY <2>1, <2>2
<1>2. S \in Good
  <2> HIDE DEF Good
  <2> QED BY <1>1, SubsetInduction
<1> QED BY <1>2

(* A set in two parts, one of them counted negatively. *)
LEMMA TotalSigned ==
    ASSUME NEW S, IsFiniteSet(S), NEW f, NEW g, NEW C,
           \A x \in S : g[x] \in Int /\ f[x] = (IF x \in C THEN -g[x] ELSE g[x])
    PROVE  Total(f, S) = Total(g, S \ C) - Total(g, S \cap C)
<1> DEFINE Good == {T \in SUBSET S : Total(f, T) = Total(g, T \ C) - Total(g, T \cap C)}
<1>1. ASSUME NEW T \in SUBSET S, \A U \in SUBSET T : U # T => U \in Good PROVE T \in Good
  <2>0. /\ IsFiniteSet(T) /\ IsFiniteSet(T \ C) /\ IsFiniteSet(T \cap C)
        /\ \A x \in T : f[x] \in Int
      BY FS_Subset
  <2>1. CASE T = {}
    <3>1. T \ C = {} /\ T \cap C = {} BY <2>1
    <3>2. Total(f, {}) = 0 /\ Total(g, {}) = 0 BY TotalEmpty
    <3>3. Total(f, T) = Total(g, T \ C) - Total(g, T \cap C) BY <2>1, <3>1, <3>2
    <3> QED BY <3>3
  <2>2. CASE T # {}
    <3>1. PICK x \in T : TRUE BY <2>2
    <3>2. PICK V : V = T \ {x} OBVIOUS
    <3>3. Total(f, T) = f[x] + Total(f, V) BY <2>0, <3>1, <3>2, TotalApart
    <3>4. Total(f, V) = Total(g, V \ C) - Total(g, V \cap C) BY <1>1, <3>1, <3>2
    <3>5. Total(g, V \ C) \in Int /\ Total(g, V \cap C) \in Int /\ g[x] \in Int
      <4>1. IsFiniteSet(V \ C) /\ IsFiniteSet(V \cap C) BY <2>0, <3>2, FS_Subset
      <4> QED BY <3>2, <4>1, TotalInt
    <3>6. CASE x \in C
      <4>1. V \ C = T \ C /\ V \cap C = (T \cap C) \ {x} /\ x \in T \cap C
          BY <3>1, <3>2, <3>6
      <4>2. Total(g, T \cap C) = g[x] + Total(g, V \cap C) BY <2>0, <4>1, TotalApart
      <4> QED BY <3>3, <3>4, <3>5, <3>6, <4>1, <4>2
    <3>7. CASE x \notin C
      <4>1. V \cap C = T \cap C /\ V \ C = (T \ C) \ {x} /\ x \in T \ C
          BY <3>1, <3>2, <3>7
      <4>2. Total(g, T \ C) = g[x] + Total(g, V \ C) BY <2>0, <4>1, TotalApart
      <4>3. f[x] = g[x] /\ Total(g, T \cap C) = Total(g, V \cap C) BY <3>7, <4>1
      <4>4. Total(f, T) = Total(g, T \ C) - Total(g, T \cap C)
          BY <3>3, <3>4, <3>5, <4>2, <4>3
      <4> QED BY <4>4
    <3> QED BY <3>6, <3>7
  <2> QED BY <2>1, <2>2
<1>2. S \in Good
  <2> HIDE DEF Good
  <2> QED BY <1>1, SubsetInduction
<1> QED BY <1>2
-----------------------------------------------------------------------------
(* A sum over part of the set, and over one element more. *)

(* SumFunction is the sum over the function's domain. *)
LEMMA SumIsTotal == ASSUME NEW f PROVE SumFunction(f) = Total(f, DOMAIN f)
BY DEF SumFunction, Total

(* What leaves the set, leaves the sum. *)
LEMMA TotalShrinks ==
    ASSUME NEW S, IsFiniteSet(S), NEW f, \A x \in S : f[x] \in Nat,
           NEW R \in SUBSET S, NEW g, \A x \in R : g[x] = f[x]
    PROVE  Total(g, R) \in Nat /\ Total(g, R) <= Total(f, S)
<1>1. Total(g, R) = Total(f, R) BY FS_Subset, TotalSame
<1> QED BY <1>1, TotalNat

(* One element more adds its own value at most. *)
LEMMA TotalGrows ==
    ASSUME NEW S, IsFiniteSet(S), NEW f, \A x \in S : f[x] \in Nat,
           NEW y, NEW R \in SUBSET (S \cup {y}), NEW g, \A x \in S : g[x] = f[x], g[y] \in Nat
    PROVE  Total(g, R) \in Nat /\ Total(g, R) <= Total(f, S) + g[y]
<1>1. IsFiniteSet(S \cup {y}) BY FS_AddElement
<1>2. IsFiniteSet(R) /\ IsFiniteSet(R \ {y}) BY <1>1, FS_Subset
<1>3. \A x \in R : g[x] \in Nat /\ g[x] \in Int OBVIOUS
<1>4. Total(g, R \ {y}) \in Nat /\ Total(g, R \ {y}) <= Total(f, S) BY TotalShrinks
<1>5. Total(f, S) \in Nat
  <2>1. S \in SUBSET S OBVIOUS
  <2> QED BY <2>1, TotalNat
<1>6. CASE y \in R
  <2>1. Total(g, R) = g[y] + Total(g, R \ {y}) BY <1>2, <1>3, <1>6, TotalApart
  <2> QED BY <1>4, <1>5, <2>1
<1>7. CASE y \notin R
  <2>1. R \ {y} = R BY <1>7
  <2> QED BY <1>4, <1>5, <2>1
<1> QED BY <1>6, <1>7

(* The notes are finitely many. *)
LEMMA NotesFinite == ASSUME NEW S \in SUBSET Notes PROVE IsFiniteSet(S)
BY NotesConstants, FS_Subset

(* What a content credits, or debits, is a natural number. *)
LEMMA TotalOfNat ==
    ASSUME NEW c \in Contents
    PROVE  /\ TotalOf(c) \in Nat /\ c.type \in {"credit", "debit"}
           /\ \A l \in Lines : c.lines[l] \in Nat
<1>1. c.lines \in [Lines -> Nat] /\ c.free \in Nat /\ c.type \in {"credit", "debit"}
    BY NotesConstants
<1>2. IsFiniteSet(Lines) /\ Lines \in SUBSET Lines BY NotesConstants
<1>3. Total(c.lines, Lines) \in Nat BY <1>1, <1>2, TotalNat
<1>4. SumFunction(c.lines) \in Nat BY <1>1, <1>3, SumIsTotal
<1> QED BY <1>1, <1>4 DEF TotalOf

(* So is the invoice's total. *)
LEMMA InvoiceTotalNat == InvoiceTotal \in Nat
<1>1. LineTotal \in [Lines -> Nat] /\ IsFiniteSet(Lines) /\ Lines \in SUBSET Lines
    BY NotesConstants
<1>2. Total(LineTotal, Lines) \in Nat BY <1>1, TotalNat
<1> QED BY <1>1, <1>2, SumIsTotal DEF InvoiceTotal
-----------------------------------------------------------------------------
(* The derived figures, as sums of one function over sets of notes. *)

TotalIn(ct) == [n \in Notes |-> TotalOf(ct[n])]
LineIn(ct, l) == [n \in Notes |-> ct[n].lines[l]]

(* The notes of a type that are issued, for any statuses and contents. *)
IssuedIn(st, ct, t) == {n \in Notes : st[n] = "issued" /\ ct[n].type = t}

(* The queries read one column of the issued notes. *)
LEMMA Queries ==
    ASSUME NEW S \in SUBSET Notes, NEW ct
    PROVE  /\ SumFunction([n \in S |-> TotalOf(ct[n])]) = Total(TotalIn(ct), S)
           /\ \A l : SumFunction([n \in S |-> ct[n].lines[l]]) = Total(LineIn(ct, l), S)
<1>0. IsFiniteSet(S) BY NotesFinite
<1>1. SumFunction([n \in S |-> TotalOf(ct[n])]) = Total(TotalIn(ct), S)
  <2>1. PICK f : f = [n \in S |-> TotalOf(ct[n])] OBVIOUS
  <2>2. DOMAIN f = S /\ \A n \in S : f[n] = TotalIn(ct)[n] BY <2>1 DEF TotalIn
  <2> QED BY <1>0, <2>1, <2>2, SumIsTotal, TotalSame
<1>2. ASSUME NEW l
      PROVE  SumFunction([n \in S |-> ct[n].lines[l]]) = Total(LineIn(ct, l), S)
  <2>1. PICK f : f = [n \in S |-> ct[n].lines[l]] OBVIOUS
  <2>2. DOMAIN f = S /\ \A n \in S : f[n] = LineIn(ct, l)[n] BY <2>1 DEF LineIn
  <2> QED BY <1>0, <2>1, <2>2, SumIsTotal, TotalSame
<1> QED BY <1>1, <1>2

(* In this state and in the next. *)
LEMMA Figures ==
    /\ Credited = Total(TotalIn(content), IssuedIn(status, content, "credit"))
    /\ Credited' = Total(TotalIn(content'), IssuedIn(status', content', "credit"))
    /\ Debited = Total(TotalIn(content), IssuedIn(status, content, "debit"))
    /\ \A l : LineUsed(l, IssuedOf("credit"))
                = Total(LineIn(content, l), IssuedIn(status, content, "credit"))
    /\ \A l : LineUsed(l, IssuedOf("credit"))'
                = Total(LineIn(content', l), IssuedIn(status', content', "credit"))
    /\ \A l : LineUsed(l, IssuedOf("credit") \cap immediate)
                = Total(LineIn(content, l), IssuedIn(status, content, "credit") \cap immediate)
    /\ \A l : LineUsed(l, IssuedOf("credit") \cap immediate)'
                = Total(LineIn(content', l), IssuedIn(status', content', "credit") \cap immediate')
<1>1. /\ \A t : IssuedOf(t) = IssuedIn(status, content, t)
      /\ \A t : IssuedOf(t)' = IssuedIn(status', content', t)
      /\ \A t, st, ct : IssuedIn(st, ct, t) \in SUBSET Notes
    BY DEF IssuedOf, Issued, IssuedIn
<1>2. /\ Credited = Total(TotalIn(content), IssuedIn(status, content, "credit"))
      /\ Debited = Total(TotalIn(content), IssuedIn(status, content, "debit"))
    BY <1>1, Queries DEF Credited, Debited
<1>3. Credited' = Total(TotalIn(content'), IssuedIn(status', content', "credit"))
    BY <1>1, Queries DEF Credited
<1>4. ASSUME NEW l
      PROVE  /\ LineUsed(l, IssuedOf("credit"))
                = Total(LineIn(content, l), IssuedIn(status, content, "credit"))
             /\ LineUsed(l, IssuedOf("credit") \cap immediate)
                = Total(LineIn(content, l), IssuedIn(status, content, "credit") \cap immediate)
    BY <1>1, Queries DEF LineUsed
<1>5. ASSUME NEW l
      PROVE  /\ LineUsed(l, IssuedOf("credit"))'
                = Total(LineIn(content', l), IssuedIn(status', content', "credit"))
             /\ LineUsed(l, IssuedOf("credit") \cap immediate)'
                = Total(LineIn(content', l), IssuedIn(status', content', "credit") \cap immediate')
    BY <1>1, Queries DEF LineUsed
<1> QED BY <1>2, <1>3, <1>4, <1>5
-----------------------------------------------------------------------------
(* The inductive invariant. *)

(* What each request is doing, and to which note. *)
Working(r) ==
    LET k == req[r]
    IN  \/ k = NoReq
        \/ /\ k.op \in {"create", "create_issued"} /\ k.at = "locked"
           /\ k.note \in Notes /\ k.body \in Contents
           /\ status[k.note] = "absent"
        \/ /\ k.op \in {"issue", "void", "delete"}
           /\ k.at = "checked" \/ (k.op = "issue" /\ k.at = "locked")
           /\ k.note \in Notes /\ k.body = content[k.note]
           /\ status[k.note] # "absent"

(* A note that exists has a content. *)
Written(n) == status[n] # "absent" => content[n] \in Contents

TypeInv == TypeOK /\ (\A r \in Requests : Working(r)) /\ (\A n \in Notes : Written(n))

(* Those at their commit hold the lock, and one at most holds it. *)
Locking(r) == req[r].at = "locked" <=> invLock = r

(* The holder has room for what it is about to credit: the issue of a draft    *)
(* in the document, a creation in each line.                                   *)
Room(r) ==
    LET k == req[r]
    IN  k.at = "locked" =>
            /\ k.op = "issue" /\ k.body.type = "credit"
                 => TotalOf(k.body) + Credited <= InvoiceTotal
            /\ k.op = "create_issued" => WithinLineCeilings(k.body)

(* Notes issued at creation were never drafts, so nobody issues them again. *)
Settled ==
    /\ \A n \in immediate : status[n] \in {"issued", "void"}
    /\ \A r \in Requests : req[r].op \in {"issue", "delete"} => req[r].note \notin immediate

Ceilings == Credited <= InvoiceTotal /\ ImmediateWithinLines

IInv ==
    /\ TypeInv
    /\ \A r \in Requests : Locking(r) /\ Room(r)
    /\ Settled
    /\ Ceilings
-----------------------------------------------------------------------------
(* Sums over notes, from one state to the next. *)

Credits == IssuedIn(status, content, "credit")

(* What is issued has a content. *)
LEMMA CreditsWritten ==
    ASSUME TypeInv
    PROVE  /\ Credits \in SUBSET Notes /\ IsFiniteSet(Credits)
           /\ \A n \in Credits : content[n] \in Contents
           /\ \A n \in Credits : TotalIn(content)[n] \in Nat
           /\ \A n \in Credits, l \in Lines : LineIn(content, l)[n] \in Nat
<1>1. Credits \in SUBSET Notes BY DEF Credits, IssuedIn
<1>2. IsFiniteSet(Credits) BY <1>1, NotesFinite
<1>3. \A n \in Credits : content[n] \in Contents
    BY DEF Credits, IssuedIn, TypeInv, Written
<1>4. ASSUME NEW n \in Credits
      PROVE  TotalIn(content)[n] \in Nat /\ \A l \in Lines : LineIn(content, l)[n] \in Nat
  <2>1. content[n] \in Contents /\ n \in Notes BY <1>1, <1>3
  <2>2. TotalOf(content[n]) \in Nat /\ \A l \in Lines : content[n].lines[l] \in Nat
      BY <2>1, TotalOfNat
  <2> QED BY <2>1, <2>2 DEF TotalIn, LineIn
<1> QED BY <1>1, <1>2, <1>3, <1>4

(* The figures are natural numbers. *)
LEMMA FiguresNat ==
    ASSUME TypeInv
    PROVE  /\ Credited \in Nat
           /\ \A l \in Lines : LineUsed(l, IssuedOf("credit")) \in Nat
           /\ \A l \in Lines : LineUsed(l, IssuedOf("credit") \cap immediate) \in Nat
<1>1. Credits \in SUBSET Credits /\ Credits \cap immediate \in SUBSET Credits OBVIOUS
<1>2. Total(TotalIn(content), Credits) \in Nat BY <1>1, CreditsWritten, TotalNat
<1>3. ASSUME NEW l \in Lines
      PROVE  /\ Total(LineIn(content, l), Credits) \in Nat
             /\ Total(LineIn(content, l), Credits \cap immediate) \in Nat
  <2>1. \A n \in Credits : LineIn(content, l)[n] \in Nat BY CreditsWritten
  <2> QED BY <1>1, <2>1, CreditsWritten, TotalNat
<1> QED BY <1>2, <1>3, Figures DEF Credits

(* A step that issues no credit note leaves no less room. *)
LEMMA CreditShrinks ==
    ASSUME TypeInv, \A n \in Credits' : n \in Credits /\ content'[n] = content[n]
    PROVE  /\ Credited' \in Nat /\ Credited' <= Credited
           /\ \A l \in Lines :
                /\ LineUsed(l, IssuedOf("credit"))' \in Nat
                /\ LineUsed(l, IssuedOf("credit"))' <= LineUsed(l, IssuedOf("credit"))
<1>1. Credits' \in SUBSET Credits /\ Credits' \in SUBSET Notes BY DEF Credits, IssuedIn
<1>2. \A n \in Credits' : /\ TotalIn(content')[n] = TotalIn(content)[n]
                          /\ \A l \in Lines : LineIn(content', l)[n] = LineIn(content, l)[n]
    BY <1>1 DEF TotalIn, LineIn
<1>3. /\ Total(TotalIn(content'), Credits') \in Nat
      /\ Total(TotalIn(content'), Credits') <= Total(TotalIn(content), Credits)
    BY <1>1, <1>2, CreditsWritten, TotalShrinks
<1>4. ASSUME NEW l \in Lines
      PROVE  /\ Total(LineIn(content', l), Credits') \in Nat
             /\ Total(LineIn(content', l), Credits') <= Total(LineIn(content, l), Credits)
  <2>1. \A n \in Credits : LineIn(content, l)[n] \in Nat BY CreditsWritten
  <2>2. \A n \in Credits' : LineIn(content', l)[n] = LineIn(content, l)[n] BY <1>2
  <2> QED BY <1>1, <2>1, <2>2, CreditsWritten, TotalShrinks
<1> QED BY <1>3, <1>4, Figures DEF Credits

(* One that issues one credit note takes its value of it. *)
LEMMA CreditGrows ==
    ASSUME TypeInv, NEW y \in Notes, content'[y] \in Contents,
           \A n \in Credits : content'[n] = content[n],
           Credits' \subseteq Credits \cup {y}
    PROVE  Credited' \in Nat /\ Credited' <= Credited + TotalOf(content'[y])
<1>1. Credits' \in SUBSET (Credits \cup {y}) /\ Credits \in SUBSET Notes
    BY DEF Credits, IssuedIn
<1>2. TotalIn(content')[y] = TotalOf(content'[y]) /\ TotalIn(content')[y] \in Nat
    BY TotalOfNat DEF TotalIn
<1>3. \A n \in Credits : TotalIn(content')[n] = TotalIn(content)[n] BY <1>1 DEF TotalIn
<1>4. /\ Total(TotalIn(content'), Credits') \in Nat
      /\ Total(TotalIn(content'), Credits')
           <= Total(TotalIn(content), Credits) + TotalIn(content')[y]
    BY <1>1, <1>2, <1>3, CreditsWritten, TotalGrows
<1> QED BY <1>2, <1>4, Figures DEF Credits

(* The lines credited at creation, when nothing is added to them ... *)
LEMMA ImmediateShrinks ==
    ASSUME TypeInv, ImmediateWithinLines,
           \A n \in Credits' \cap immediate' :
               n \in Credits \cap immediate /\ content'[n] = content[n]
    PROVE  ImmediateWithinLines'
<1>1. SUFFICES ASSUME NEW l \in Lines
               PROVE  Total(LineIn(content', l), Credits' \cap immediate') <= LineTotal[l]
    BY Figures DEF Credits, ImmediateWithinLines
<1>2. PICK R : R = Credits' \cap immediate' OBVIOUS
<1>3. PICK S : S = Credits \cap immediate OBVIOUS
<1>4. S \subseteq Credits /\ R \in SUBSET S /\ S \in SUBSET Notes
    BY <1>2, <1>3 DEF Credits, IssuedIn
<1>5. IsFiniteSet(S) /\ \A n \in S : LineIn(content, l)[n] \in Nat
    BY <1>4, CreditsWritten, NotesFinite
<1>6. \A n \in R : LineIn(content', l)[n] = LineIn(content, l)[n]
    BY <1>2, <1>4 DEF LineIn
<1>7. /\ Total(LineIn(content', l), R) \in Nat
      /\ Total(LineIn(content', l), R) <= Total(LineIn(content, l), S)
    BY <1>4, <1>5, <1>6, TotalShrinks
<1>8. Total(LineIn(content, l), S) <= LineTotal[l]
    BY <1>3, Figures DEF Credits, ImmediateWithinLines
<1>9. S \in SUBSET S /\ LineTotal[l] \in Nat BY NotesConstants
<1>10. Total(LineIn(content, l), S) \in Nat BY <1>5, <1>9, TotalNat
<1> QED BY <1>2, <1>7, <1>8, <1>9, <1>10

(* ... and when a note is, which is within the ceilings of its lines. *)
LEMMA ImmediateGrows ==
    ASSUME TypeInv, ImmediateWithinLines, NEW y \in Notes, content'[y] \in Contents,
           content'[y].type = "credit", WithinLineCeilings(content'[y]),
           \A n \in Credits : content'[n] = content[n],
           Credits' \subseteq Credits \cup {y}, immediate' \subseteq immediate \cup {y}
    PROVE  ImmediateWithinLines'
<1>1. SUFFICES ASSUME NEW l \in Lines
               PROVE  Total(LineIn(content', l), Credits' \cap immediate') <= LineTotal[l]
    BY Figures DEF Credits, ImmediateWithinLines
<1>2. PICK R : R = Credits' \cap immediate' OBVIOUS
<1>3. PICK more : more = content'[y].lines[l] OBVIOUS
<1>4. more \in Nat /\ LineIn(content', l)[y] = more BY <1>3, TotalOfNat DEF LineIn
<1>5. LineTotal[l] \in Nat BY NotesConstants
<1>6. ASSUME NEW S \in SUBSET Credits, R \in SUBSET (S \cup {y})
      PROVE  /\ Total(LineIn(content', l), R) \in Nat
             /\ Total(LineIn(content', l), R) <= Total(LineIn(content, l), S) + more
  <2>1. S \in SUBSET Notes BY <1>6 DEF Credits, IssuedIn
  <2>2. IsFiniteSet(S) BY <2>1, NotesFinite
  <2>3. \A n \in S : LineIn(content, l)[n] \in Nat BY CreditsWritten
  <2>4. \A n \in S : LineIn(content', l)[n] = LineIn(content, l)[n] BY <2>1 DEF LineIn
  <2> QED BY <1>4, <1>6, <2>2, <2>3, <2>4, TotalGrows
<1>7. CASE more > 0
  <2>1. more + Total(LineIn(content, l), Credits) <= LineTotal[l]
      BY <1>3, <1>7, Figures DEF WithinLineCeilings, Credits
  <2>2. Total(LineIn(content, l), Credits) \in Nat BY FiguresNat, Figures DEF Credits
  <2>3. R \in SUBSET (Credits \cup {y}) /\ Credits \in SUBSET Credits BY <1>2
  <2>4. /\ Total(LineIn(content', l), R) \in Nat
        /\ Total(LineIn(content', l), R) <= Total(LineIn(content, l), Credits) + more
      BY <1>6, <2>3
  <2> QED BY <1>2, <1>4, <1>5, <2>1, <2>2, <2>4
<1>8. CASE more = 0
  <2>1. PICK S : S = Credits \cap immediate OBVIOUS
  <2>2. S \in SUBSET Credits /\ R \in SUBSET (S \cup {y}) BY <1>2, <2>1
  <2>3. /\ Total(LineIn(content', l), R) \in Nat
        /\ Total(LineIn(content', l), R) <= Total(LineIn(content, l), S) + more
      BY <1>6, <2>2
  <2>4. Total(LineIn(content, l), S) <= LineTotal[l] /\ Total(LineIn(content, l), S) \in Nat
      BY <2>1, FiguresNat, Figures DEF Credits, ImmediateWithinLines
  <2> QED BY <1>2, <1>5, <1>8, <2>3, <2>4
<1> QED BY <1>4, <1>7, <1>8
-----------------------------------------------------------------------------
(* Steps. *)

Tasks == [op : {"none", "create", "create_issued", "issue", "void", "delete"},
          at : {"idle", "checked", "locked"},
          note : Notes \cup {None}, body : Contents \cup {None}]
Statuses == {"absent", "draft", "issued", "void", "deleted"}

(* An idle request is a task like any other. *)
LEMMA NoReqTask ==
    NoReq \in Tasks /\ NoReq.op = "none" /\ NoReq.at = "idle"
BY DEF NoReq, Tasks

(* What the types say of one request. *)
LEMMA Request ==
    ASSUME TypeInv, NEW r \in Requests
    PROVE  /\ req[r] \in Tasks
           /\ req[r].op \in {"create", "create_issued"}
                => req[r].note \in Notes /\ req[r].body \in Contents
                   /\ status[req[r].note] = "absent"
           /\ req[r].op \in {"issue", "void", "delete"}
                => req[r].note \in Notes /\ req[r].body = content[req[r].note]
                   /\ status[req[r].note] # "absent" /\ req[r].body \in Contents
<1>1. req[r] \in Tasks BY DEF TypeInv, TypeOK, Tasks
<1>2. Working(r) BY DEF TypeInv
<1>3. \A n \in Notes : Written(n) BY DEF TypeInv
<1> QED BY <1>1, <1>2, <1>3, NoReqTask DEF Working, Written

(* One request goes on, the others stay where they are. *)
LEMMA OneMoves ==
    ASSUME TypeInv, NEW r \in Requests, NEW k, req' = [req EXCEPT ![r] = k]
    PROVE  /\ req'[r] = k
           /\ \A s \in Requests : s # r => req'[s] = req[s]
           /\ k \in Tasks => req' \in [Requests -> Tasks]
BY DEF TypeInv, TypeOK, Tasks

(* While one holds the lock no other does. *)
LEMMA OneLocked ==
    ASSUME NEW r \in Requests, NEW s \in Requests, Locking(r), Locking(s),
           req[r].at = "locked", req[s].at = "locked"
    PROVE  r = s
BY DEF Locking

(* A step that writes no note but moves one request keeps the types.  *)
LEMMA TypeMoved ==
    ASSUME TypeInv, NEW r \in Requests, NEW k \in Tasks, req' = [req EXCEPT ![r] = k],
           UNCHANGED <<status, content, immediate>>, invLock' \in Requests \cup {None},
           Working(r)'
    PROVE  TypeInv'
<1>1. /\ \A s \in Requests : s # r => req'[s] = req[s]
      /\ req' \in [Requests -> Tasks]
    BY OneMoves
<1>2. \A s \in Requests : Working(s)' BY <1>1 DEF TypeInv, Working
<1>3. \A n \in Notes : Written(n)' BY DEF TypeInv, Written
<1> QED BY <1>1, <1>2, <1>3 DEF TypeInv, TypeOK, Tasks

(* A request that ends, having written at most the status of its note, which   *)
(* exists.                                                                     *)
LEMMA TypeEnded ==
    ASSUME TypeInv, NEW r \in Requests, req' = [req EXCEPT ![r] = NoReq],
           UNCHANGED <<content, immediate>>, invLock' \in Requests \cup {None},
           NEW n \in Notes, NEW v \in Statuses \ {"absent"},
           status[n] # "absent", status' = [status EXCEPT ![n] = v]
    PROVE  TypeInv'
<1>0. status \in [Notes -> Statuses] BY DEF TypeInv, TypeOK, Statuses
<1>1. /\ req'[r] = NoReq /\ \A s \in Requests : s # r => req'[s] = req[s]
      /\ req' \in [Requests -> Tasks]
    BY OneMoves, NoReqTask
<1>2. /\ status' \in [Notes -> Statuses]
      /\ \A m \in Notes : status'[m] = "absent" <=> status[m] = "absent"
    BY <1>0 DEF Statuses
<1>3. \A s \in Requests : Working(s)' BY <1>1, <1>2 DEF TypeInv, Working
<1>4. \A m \in Notes : Written(m)' BY <1>2 DEF TypeInv, Written
<1> QED BY <1>1, <1>2, <1>3, <1>4 DEF TypeInv, TypeOK, Tasks, Statuses

(* Types. *)
LEMMA TypeKept ==
    ASSUME TypeInv, \A r \in Requests : Locking(r), Next PROVE TypeInv'
<1> USE NoReqTask
<1>0. /\ status \in [Notes -> Statuses] /\ content \in [Notes -> Contents \cup {None}]
      /\ immediate \subseteq Notes /\ invLock \in Requests \cup {None}
    BY DEF TypeInv, TypeOK, Statuses
<1>u. \A r \in Requests : Unlocked(r) \in Requests \cup {None} BY <1>0 DEF Unlocked
<1>1. ASSUME NEW r \in Requests, NEW n \in Notes, NEW c \in Contents, NEW now \in BOOLEAN,
             CreateBegin(r, n, c, now)
      PROVE  TypeInv'
  <2>1. PICK k : k = [op |-> IF now THEN "create_issued" ELSE "create",
                      at |-> "locked", note |-> n, body |-> c] OBVIOUS
  <2>2. k \in Tasks BY <2>1 DEF Tasks
  <2>3. /\ req' = [req EXCEPT ![r] = k] /\ status[n] = "absent" /\ invLock' = r
        /\ UNCHANGED <<status, content, immediate>>
      BY <1>1, <2>1 DEF CreateBegin
  <2>4. req'[r] = k BY <2>3, OneMoves
  <2>5. Working(r)' BY <2>1, <2>3, <2>4 DEF Working
  <2> QED BY <2>2, <2>3, <2>5, TypeMoved
<1>2. ASSUME NEW r \in Requests, NEW n \in Notes, NEW op \in {"issue", "void", "delete"},
             Load(r, n, op)
      PROVE  TypeInv'
  <2>1. PICK k : k = [op |-> op, at |-> "checked", note |-> n, body |-> content[n]] OBVIOUS
  <2>2. k \in Tasks BY <1>0, <2>1 DEF Tasks
  <2>3. /\ req' = [req EXCEPT ![r] = k] /\ status[n] # "absent"
        /\ UNCHANGED <<status, content, immediate, invLock>>
      BY <1>2, <2>1 DEF Load, Required
  <2>4. req'[r] = k BY <2>3, OneMoves
  <2>5. Working(r)' BY <2>1, <2>3, <2>4 DEF Working
  <2> QED BY <1>0, <2>2, <2>3, <2>5, TypeMoved
<1>a. ASSUME NEW r \in Requests, req' = [req EXCEPT ![r] = NoReq], invLock' \in Requests \cup {None},
             UNCHANGED <<status, content, immediate>>
      PROVE  TypeInv'
  <2>1. Working(r)' BY <1>a, OneMoves DEF Working
  <2> QED BY <1>a, <2>1, TypeMoved
<1>3. ASSUME NEW r \in Requests, CreateCommit(r) PROVE TypeInv'
  <2>1. PICK k : k = req[r] OBVIOUS
  <2>2. /\ k.op \in {"create", "create_issued"} /\ k.at = "locked" /\ k.note \in Notes
        /\ k.body \in Contents /\ status[k.note] = "absent"
      BY <1>3, <2>1, Request DEF CreateCommit
  <2>3. req' = [req EXCEPT ![r] = NoReq] /\ invLock' = Unlocked(r) BY <1>3 DEF CreateCommit
  <2>4. CASE UNCHANGED <<status, content, immediate>> BY <1>a, <1>u, <2>3, <2>4
  <2>5. CASE ~ UNCHANGED <<status, content, immediate>>
    <3>1. PICK v \in {"issued", "draft"} : status' = [status EXCEPT ![k.note] = v]
        BY <1>3, <2>1, <2>5 DEF CreateCommit, StatusAtCreation
    <3>2. content' = [content EXCEPT ![k.note] = k.body] /\ immediate' \subseteq Notes
        BY <1>0, <1>3, <2>1, <2>2, <2>5 DEF CreateCommit
    <3>3. /\ req'[r] = NoReq /\ \A s \in Requests : s # r => req'[s] = req[s]
          /\ req' \in [Requests -> Tasks]
        BY <2>3, OneMoves
    <3>4. ASSUME NEW s \in Requests, s # r PROVE Working(s)'
      <4>1. Working(s) /\ req'[s] = req[s] BY <3>3, <3>4 DEF TypeInv
      <4>2. ~ req[s].at = "locked"
          BY <2>1, <2>2, <3>4 DEF Locking
      <4>3. CASE req[s] = NoReq BY <4>1, <4>3 DEF Working
      <4>4. CASE req[s] # NoReq
        <5>1. /\ req[s].op \in {"issue", "void", "delete"} /\ req[s].at = "checked"
              /\ req[s].note \in Notes /\ req[s].body = content[req[s].note]
              /\ status[req[s].note] # "absent"
            BY <4>1, <4>2, <4>4 DEF Working
        <5>2. req[s].note # k.note BY <2>2, <5>1
        <5>3. status'[req[s].note] = status[req[s].note]
              /\ content'[req[s].note] = content[req[s].note]
            BY <1>0, <3>1, <3>2, <5>1, <5>2
        <5> QED BY <4>1, <5>1, <5>3 DEF Working
      <4> QED BY <4>3, <4>4
    <3>5. Working(r)' BY <3>3 DEF Working
    <3>6. \A m \in Notes : Written(m)'
        BY <1>0, <2>2, <3>1, <3>2 DEF TypeInv, Written
    <3>7. status' \in [Notes -> Statuses] /\ content' \in [Notes -> Contents \cup {None}]
        BY <1>0, <2>2, <3>1, <3>2 DEF Statuses
    <3> QED BY <1>u, <2>3, <3>2, <3>3, <3>4, <3>5, <3>6, <3>7
        DEF TypeInv, TypeOK, Tasks, Statuses
  <2> QED BY <2>4, <2>5
<1>4. ASSUME NEW r \in Requests, IssueLock(r) PROVE TypeInv'
  <2>1. /\ req[r] \in Tasks /\ req[r].op = "issue" /\ req[r].note \in Notes
        /\ req[r].body = content[req[r].note] /\ status[req[r].note] # "absent"
      BY <1>4, Request DEF IssueLock
  <2>2. UNCHANGED <<status, content, immediate>> BY <1>4 DEF IssueLock
  <2>3. CASE req' = [req EXCEPT ![r] = NoReq] /\ UNCHANGED invLock
      BY <1>0, <1>a, <2>2, <2>3
  <2>4. CASE invLock' = r /\ req' = [req EXCEPT ![r].at = "locked"]
    <3>1. PICK k : k = [req[r] EXCEPT !.at = "locked"] OBVIOUS
    <3>2. k \in Tasks /\ k.op = "issue" /\ k.at = "locked" /\ k.note = req[r].note
          /\ k.body = req[r].body
        BY <2>1, <3>1 DEF Tasks
    <3>3. req' = [req EXCEPT ![r] = k] BY <2>4, <3>1 DEF TypeInv, TypeOK
    <3>4. req'[r] = k BY <3>3, OneMoves
    <3>5. Working(r)' BY <2>1, <2>2, <3>2, <3>4 DEF Working
    <3> QED BY <2>2, <2>4, <3>2, <3>3, <3>5, TypeMoved
  <2> QED BY <1>4, <2>3, <2>4 DEF IssueLock
<1>5. ASSUME NEW r \in Requests, IssueCommit(r) \/ VoidCommit(r) \/ DeleteCommit(r)
      PROVE  TypeInv'
  <2>1. PICK n : n = req[r].note OBVIOUS
  <2>2. n \in Notes /\ status[n] # "absent"
      BY <1>5, <2>1, Request DEF IssueCommit, VoidCommit, DeleteCommit
  <2>3. PICK v \in Statuses \ {"absent"} : status' = [status EXCEPT ![n] = v]
    <3>1. status[n] \in Statuses BY <1>0, <2>2
    <3> QED BY <1>5, <2>1, <2>2, <3>1 DEF IssueCommit, VoidCommit, DeleteCommit, Statuses
  <2>4. /\ req' = [req EXCEPT ![r] = NoReq] /\ UNCHANGED <<content, immediate>>
        /\ invLock' \in Requests \cup {None}
      BY <1>0, <1>5, <1>u DEF IssueCommit, VoidCommit, DeleteCommit
  <2> QED BY <2>2, <2>3, <2>4, TypeEnded
<1>6. ASSUME NEW r \in Requests, Abort(r) PROVE TypeInv'
    BY <1>6, <1>a, <1>u DEF Abort
<1> QED BY <1>1, <1>2, <1>3, <1>4, <1>5, <1>6 DEF Next

(* A step issues no credit note. *)
Quiet == \A n \in Credits' : n \in Credits /\ content'[n] = content[n]

(* The lock is taken when free, and given back by who has it. *)
LEMMA LockKept ==
    ASSUME TypeInv, \A r \in Requests : Locking(r), Next PROVE \A r \in Requests : Locking(r)'
<1> USE NoReqTask
<1>n. None \notin Requests BY NotesConstants
<1>1. ASSUME NEW r \in Requests, NEW k, req' = [req EXCEPT ![r] = k], k.at = "locked",
             invLock = None, invLock' = r
      PROVE  \A s \in Requests : Locking(s)'
    BY <1>1, <1>n, OneMoves DEF Locking
<1>2. ASSUME NEW r \in Requests, NEW k, req' = [req EXCEPT ![r] = k], k.at # "locked",
             invLock' = Unlocked(r)
      PROVE  \A s \in Requests : Locking(s)'
  <2>1. req'[r] = k /\ \A s \in Requests : s # r => req'[s] = req[s] BY <1>2, OneMoves
  <2>2. invLock' # r /\ \A s \in Requests : s # r => (invLock' = s <=> invLock = s)
      BY <1>2, <1>n DEF Unlocked
  <2> QED BY <1>2, <2>1, <2>2 DEF Locking
<1>3. ASSUME NEW r \in Requests, req[r].at # "locked", invLock' = invLock
      PROVE  invLock' = Unlocked(r)
    BY <1>3 DEF Locking, Unlocked
<1>4. ASSUME NEW r \in Requests, NEW n \in Notes, NEW c \in Contents, NEW now \in BOOLEAN,
             CreateBegin(r, n, c, now)
      PROVE  \A s \in Requests : Locking(s)'
  <2>1. PICK k : k = [op |-> IF now THEN "create_issued" ELSE "create",
                      at |-> "locked", note |-> n, body |-> c] OBVIOUS
  <2>2. k.at = "locked" /\ req' = [req EXCEPT ![r] = k] BY <1>4, <2>1 DEF CreateBegin
  <2> QED BY <1>1, <1>4, <2>2 DEF CreateBegin, CanLock
<1>5. ASSUME NEW r \in Requests, NEW n \in Notes, NEW op \in {"issue", "void", "delete"},
             Load(r, n, op)
      PROVE  \A s \in Requests : Locking(s)'
  <2>1. invLock' = Unlocked(r) BY <1>3, <1>5 DEF Load
  <2>2. PICK k : k = [op |-> op, at |-> "checked", note |-> n, body |-> content[n]] OBVIOUS
  <2>3. k.at # "locked" /\ req' = [req EXCEPT ![r] = k] BY <1>5, <2>2 DEF Load
  <2> QED BY <1>2, <2>1, <2>3
<1>6. ASSUME NEW r \in Requests, CreateCommit(r) \/ IssueCommit(r) \/ Abort(r)
      PROVE  \A s \in Requests : Locking(s)'
    BY <1>2, <1>6 DEF CreateCommit, IssueCommit, Abort
<1>7. ASSUME NEW r \in Requests, VoidCommit(r) \/ DeleteCommit(r)
      PROVE  \A s \in Requests : Locking(s)'
  <2>1. invLock' = Unlocked(r) BY <1>3, <1>7 DEF VoidCommit, DeleteCommit
  <2> QED BY <1>2, <1>7, <2>1 DEF VoidCommit, DeleteCommit
<1>8. ASSUME NEW r \in Requests, IssueLock(r) PROVE \A s \in Requests : Locking(s)'
  <2>1. CASE invLock' = r /\ req' = [req EXCEPT ![r].at = "locked"]
    <3>1. PICK k : k = [req[r] EXCEPT !.at = "locked"] OBVIOUS
    <3>2. k.at = "locked" BY <3>1, Request DEF Tasks
    <3>3. req' = [req EXCEPT ![r] = k] BY <2>1, <3>1 DEF TypeInv, TypeOK
    <3> QED BY <1>1, <1>8, <2>1, <3>2, <3>3 DEF IssueLock, CanLock
  <2>2. CASE req' = [req EXCEPT ![r] = NoReq] /\ UNCHANGED invLock
    <3>1. invLock' = Unlocked(r) BY <1>3, <1>8, <2>2 DEF IssueLock
    <3> QED BY <1>2, <2>2, <3>1
  <2> QED BY <1>8, <2>1, <2>2 DEF IssueLock
<1> QED BY <1>4, <1>5, <1>6, <1>7, <1>8 DEF Next

(* The holder keeps its room while others issue nothing. *)
LEMMA RoomAside ==
    ASSUME TypeInv, Quiet, NEW s \in Requests, Room(s), req'[s] = req[s]
    PROVE  Room(s)'
<1>1. PICK k : k = req[s] OBVIOUS
<1>2. SUFFICES ASSUME k.at = "locked"
               PROVE  /\ k.op = "issue" /\ k.body.type = "credit"
                           => TotalOf(k.body) + Credited' <= InvoiceTotal
                      /\ k.op = "create_issued" => WithinLineCeilings(k.body)'
    BY <1>1 DEF Room
<1>3. k.op \in {"issue", "create_issued"} => k.body \in Contents BY <1>1, Request
<1>4. Credited \in Nat /\ Credited' \in Nat /\ Credited' <= Credited
    BY FiguresNat, CreditShrinks DEF Quiet
<1>5. ASSUME k.op = "issue", k.body.type = "credit"
      PROVE  TotalOf(k.body) + Credited' <= InvoiceTotal
  <2>1. TotalOf(k.body) \in Nat BY <1>3, <1>5, TotalOfNat
  <2>2. TotalOf(k.body) + Credited <= InvoiceTotal BY <1>1, <1>2, <1>5 DEF Room
  <2> QED BY <1>4, <2>1, <2>2, InvoiceTotalNat
<1>6. ASSUME k.op = "create_issued" PROVE WithinLineCeilings(k.body)'
  <2>1. WithinLineCeilings(k.body) BY <1>1, <1>2, <1>6 DEF Room
  <2>2. SUFFICES ASSUME k.body.type = "credit", NEW l \in Lines, k.body.lines[l] > 0
                 PROVE  k.body.lines[l] + LineUsed(l, IssuedOf("credit"))' <= LineTotal[l]
      BY DEF WithinLineCeilings
  <2>3. k.body.lines[l] + LineUsed(l, IssuedOf("credit")) <= LineTotal[l]
      BY <2>1, <2>2 DEF WithinLineCeilings
  <2>4. /\ LineUsed(l, IssuedOf("credit")) \in Nat /\ LineUsed(l, IssuedOf("credit"))' \in Nat
        /\ LineUsed(l, IssuedOf("credit"))' <= LineUsed(l, IssuedOf("credit"))
      BY FiguresNat, CreditShrinks DEF Quiet
  <2>5. k.body.lines[l] \in Nat /\ LineTotal[l] \in Nat
      BY <1>3, <1>6, TotalOfNat, NotesConstants
  <2> QED BY <2>3, <2>4, <2>5
<1> QED BY <1>5, <1>6

(* A ceiling that was checked under the lock is room. *)
LEMMA CheckedRoom ==
    ASSUME TypeInv, Ceilings, NEW c \in Contents, WithinCreditCeiling(c), c.type = "credit"
    PROVE  TotalOf(c) + Credited <= InvoiceTotal
<1>1. TotalOf(c) <= InvoiceTotal - Credited
    BY FiguresNat, InvoiceTotalNat DEF WithinCreditCeiling, RemainingCreditable, Ceilings
<1> QED BY <1>1, TotalOfNat, FiguresNat, InvoiceTotalNat

(* Steps that write no note, or no status "issued", are quiet. *)
LEMMA QuietSteps ==
    ASSUME TypeInv, content' = content,
           \A n \in Notes : status'[n] = "issued" => status[n] = "issued"
    PROVE  Quiet
BY DEF Quiet, Credits, IssuedIn

(* The commits of a creation and of an issue, apart. *)
LEMMA Commits ==
    ASSUME TypeInv, NEW r \in Requests, NEW n, n = req[r].note, NEW c, c = req[r].body,
           CreateCommit(r) \/ IssueCommit(r)
    PROVE  \/ Quiet /\ Credits \cap immediate' \subseteq immediate
           \/ /\ n \in Notes /\ c \in Contents /\ c.type = "credit" /\ content'[n] = c
              /\ Credits' \subseteq Credits \cup {n}
              /\ \A m \in Credits : content'[m] = content[m]
              /\ \/ /\ req[r].op = "issue" /\ req[r].at = "locked"
                    /\ UNCHANGED <<content, immediate>>
                 \/ /\ req[r].op = "create_issued" /\ req[r].at = "locked"
                    /\ immediate' = immediate \cup {n} /\ WithinCreditCeiling(c)
<1>0. /\ status \in [Notes -> Statuses] /\ content \in [Notes -> Contents \cup {None}]
    BY DEF TypeInv, TypeOK, Statuses
<1>1. CASE IssueCommit(r)
  <2>1. /\ req[r].op = "issue" /\ req[r].at = "locked" /\ n \in Notes /\ c = content[n]
        /\ c \in Contents /\ content' = content /\ immediate' = immediate
        /\ status' = [status EXCEPT ![n] = IF @ = "deleted" THEN @ ELSE "issued"]
      BY <1>1, Request DEF IssueCommit
  <2>2. Credits' \subseteq Credits \cup {n} BY <1>0, <2>1 DEF Credits, IssuedIn
  <2>3. CASE c.type = "credit" BY <2>1, <2>2, <2>3
  <2>4. CASE c.type # "credit"
    <3>1. Quiet BY <1>0, <2>1, <2>4 DEF Quiet, Credits, IssuedIn
    <3> QED BY <2>1, <3>1
  <2> QED BY <2>3, <2>4
<1>2. CASE CreateCommit(r)
  <2>1. /\ req[r].at = "locked" /\ n \in Notes /\ c \in Contents /\ status[n] = "absent"
        /\ req[r].op \in {"create", "create_issued"}
      BY <1>2, Request DEF CreateCommit
  <2>2. n \notin Credits BY <2>1 DEF Credits, IssuedIn
  <2>3. CASE UNCHANGED <<status, content, immediate>>
    <3>1. Quiet BY <2>3, QuietSteps
    <3> QED BY <2>3, <3>1
  <2>4. CASE ~ UNCHANGED <<status, content, immediate>>
    <3>1. /\ content' = [content EXCEPT ![n] = c]
          /\ req[r].op = "create" => immediate' = immediate
                                  /\ status' = [status EXCEPT ![n] = "draft"]
          /\ req[r].op = "create_issued" => immediate' = immediate \cup {n}
                                  /\ status' = [status EXCEPT ![n] = "issued"]
                                  /\ WithinCreditCeiling(c)
        BY <1>2, <2>1, <2>4 DEF CreateCommit, StatusAtCreation
    <3>2. content'[n] = c /\ \A m \in Notes : m # n => content'[m] = content[m]
        BY <1>0, <2>1, <3>1
    <3>3. \A m \in Credits : m \in Notes /\ m # n BY <2>2 DEF Credits, IssuedIn
    <3>4. CASE req[r].op = "create"
      <4>1. \A m \in Credits' : m # n /\ m \in Credits
          BY <1>0, <2>1, <3>1, <3>2, <3>4 DEF Credits, IssuedIn
      <4>2. Quiet BY <3>2, <3>3, <4>1 DEF Quiet
      <4> QED BY <3>1, <3>4, <4>2
    <3>5. CASE req[r].op = "create_issued" /\ c.type # "credit"
      <4>1. \A m \in Credits' : m # n /\ m \in Credits
          BY <1>0, <2>1, <3>1, <3>2, <3>5 DEF Credits, IssuedIn
      <4>2. Quiet BY <3>2, <3>3, <4>1 DEF Quiet
      <4> QED BY <2>1, <2>2, <3>1, <3>5, <4>2
    <3>6. CASE req[r].op = "create_issued" /\ c.type = "credit"
      <4>1. Credits' \subseteq Credits \cup {n}
          BY <1>0, <2>1, <3>1, <3>2 , <3>6 DEF Credits, IssuedIn
      <4> QED BY <2>1, <3>1, <3>2, <3>3, <3>6, <4>1
    <3> QED BY <2>1, <3>4, <3>5, <3>6
  <2> QED BY <2>3, <2>4
<1> QED BY <1>1, <1>2

(* All other steps are quiet. *)
LEMMA OtherSteps ==
    ASSUME TypeInv, NEW r \in Requests,
           \/ \E n \in Notes, c \in Contents, now \in BOOLEAN : CreateBegin(r, n, c, now)
           \/ \E n \in Notes, op \in {"issue", "void", "delete"} : Load(r, n, op)
           \/ IssueLock(r) \/ VoidCommit(r) \/ DeleteCommit(r) \/ Abort(r)
    PROVE  Quiet /\ immediate' = immediate
<1>0. status \in [Notes -> Statuses] BY DEF TypeInv, TypeOK, Statuses
<1>1. content' = content /\ immediate' = immediate
    BY DEF CreateBegin, Load, IssueLock, VoidCommit, DeleteCommit, Abort
<1>2. CASE VoidCommit(r) \/ DeleteCommit(r)
  <2>1. PICK n : n = req[r].note OBVIOUS
  <2>2. n \in Notes /\ (status' = [status EXCEPT ![n] = "deleted"]
                        \/ status' = [status EXCEPT ![n] = IF @ = "deleted" THEN @ ELSE "void"])
      BY <1>2, <2>1, Request DEF VoidCommit, DeleteCommit
  <2>3. \A m \in Notes : status'[m] = "issued" => status[m] = "issued" BY <1>0, <2>2
  <2> QED BY <1>1, <2>3, QuietSteps
<1>3. CASE ~ (VoidCommit(r) \/ DeleteCommit(r))
  <2>1. status' = status BY <1>3 DEF CreateBegin, Load, IssueLock, Abort
  <2> QED BY <1>1, <2>1, QuietSteps
<1> QED BY <1>2, <1>3

(* Who holds the lock has room for its note. *)
LEMMA RoomKept ==
    ASSUME TypeInv, Ceilings, \A r \in Requests : Locking(r) /\ Room(r), Next
    PROVE  \A s \in Requests : Room(s)'
<1> USE NoReqTask
<1>1. ASSUME NEW r \in Requests, CreateCommit(r) \/ IssueCommit(r)
      PROVE  \A s \in Requests : Room(s)'
  <2>1. req[r].at = "locked" /\ req' = [req EXCEPT ![r] = NoReq]
      BY <1>1 DEF CreateCommit, IssueCommit
  <2>2. req'[r] = NoReq /\ \A s \in Requests : s # r => req'[s] = req[s] BY <2>1, OneMoves
  <2>3. \A s \in Requests : req'[s].at # "locked" BY <2>1, <2>2, OneLocked
  <2> QED BY <2>3 DEF Room
<1>2. ASSUME NEW r \in Requests, NEW k, req' = [req EXCEPT ![r] = k], Quiet,
             k.at = "locked" => Room(r)'
      PROVE  \A s \in Requests : Room(s)'
  <2>1. req'[r] = k /\ \A s \in Requests : s # r => req'[s] = req[s] BY <1>2, OneMoves
  <2>2. Room(r)' BY <1>2, <2>1 DEF Room
  <2>3. ASSUME NEW s \in Requests, s # r PROVE Room(s)' BY <1>2, <2>1, <2>3, RoomAside
  <2> QED BY <2>2, <2>3
<1>3. ASSUME NEW r \in Requests, NEW n \in Notes, NEW c \in Contents, NEW now \in BOOLEAN,
             CreateBegin(r, n, c, now)
      PROVE  \A s \in Requests : Room(s)'
  <2>0. Quiet BY <1>3, OtherSteps
  <2>1. PICK k : k = [op |-> IF now THEN "create_issued" ELSE "create",
                      at |-> "locked", note |-> n, body |-> c] OBVIOUS
  <2>2. /\ req' = [req EXCEPT ![r] = k] /\ k.op # "issue" /\ k.body = c
        /\ WithinLineCeilings(c) /\ UNCHANGED <<status, content, immediate>>
      BY <1>3, <2>1 DEF CreateBegin
  <2>3. req'[r] = k BY <2>2, OneMoves
  <2>4. \A l : LineUsed(l, IssuedOf("credit"))' = LineUsed(l, IssuedOf("credit"))
      BY <2>2 DEF LineUsed, IssuedOf, Issued
  <2>5. WithinLineCeilings(c)' BY <2>2, <2>4 DEF WithinLineCeilings
  <2>6. Room(r)' BY <2>2, <2>3, <2>5 DEF Room
  <2> QED BY <1>2, <2>0, <2>2, <2>6
<1>4. ASSUME NEW r \in Requests, NEW n \in Notes, NEW op \in {"issue", "void", "delete"},
             Load(r, n, op)
      PROVE  \A s \in Requests : Room(s)'
  <2>0. Quiet BY <1>4, OtherSteps
  <2>1. PICK k : k = [op |-> op, at |-> "checked", note |-> n, body |-> content[n]] OBVIOUS
  <2>2. req' = [req EXCEPT ![r] = k] /\ k.at # "locked" BY <1>4, <2>1 DEF Load
  <2> QED BY <1>2, <2>0, <2>2
<1>5. ASSUME NEW r \in Requests, IssueLock(r) PROVE \A s \in Requests : Room(s)'
  <2>0. Quiet /\ UNCHANGED <<status, content>> BY <1>5, OtherSteps DEF IssueLock
  <2>1. CASE req' = [req EXCEPT ![r] = NoReq] BY <1>2, <2>0, <2>1
  <2>2. CASE req' = [req EXCEPT ![r].at = "locked"] /\ WithinCreditCeiling(req[r].body)
    <3>1. PICK k : k = [req[r] EXCEPT !.at = "locked"] OBVIOUS
    <3>2. /\ req[r].body \in Contents /\ k.op = "issue" /\ k.body = req[r].body
        BY <1>5, <3>1, Request DEF IssueLock, Tasks
    <3>3. req' = [req EXCEPT ![r] = k] BY <2>2, <3>1 DEF TypeInv, TypeOK
    <3>4. req'[r] = k BY <3>3, OneMoves
    <3>5. Credited' = Credited BY <2>0 DEF Credited, IssuedOf, Issued
    <3>6. k.body.type = "credit" => TotalOf(k.body) + Credited <= InvoiceTotal
        BY <2>2, <3>2, CheckedRoom
    <3>7. Room(r)' BY <3>2, <3>4, <3>5, <3>6 DEF Room
    <3> QED BY <1>2, <2>0, <3>3, <3>7
  <2> QED BY <1>5, <2>1, <2>2 DEF IssueLock
<1>6. ASSUME NEW r \in Requests, VoidCommit(r) \/ DeleteCommit(r) \/ Abort(r)
      PROVE  \A s \in Requests : Room(s)'
  <2>1. Quiet BY <1>6, OtherSteps
  <2>2. req' = [req EXCEPT ![r] = NoReq] BY <1>6 DEF VoidCommit, DeleteCommit, Abort
  <2> QED BY <1>2, <2>1, <2>2
<1> QED BY <1>1, <1>3, <1>4, <1>5, <1>6 DEF Next

(* Only what was a draft is issued by a second request. *)
LEMMA SettledKept ==
    ASSUME TypeInv, \A r \in Requests : Locking(r), Settled, Next PROVE Settled'
<1> USE NoReqTask
<1>0. status \in [Notes -> Statuses] BY DEF TypeInv, TypeOK, Statuses
<1>1. ASSUME NEW r \in Requests, NEW k, req' = [req EXCEPT ![r] = k], immediate' = immediate,
             k.op \in {"issue", "delete"} => k.note \notin immediate,
             \A n \in immediate : status'[n] \in {"issued", "void"}
      PROVE  Settled'
    BY <1>1, OneMoves DEF Settled
<1>2. ASSUME NEW r \in Requests, NEW n \in Notes, NEW c \in Contents, NEW now \in BOOLEAN,
             CreateBegin(r, n, c, now)
      PROVE  Settled'
  <2>1. PICK k : k = [op |-> IF now THEN "create_issued" ELSE "create",
                      at |-> "locked", note |-> n, body |-> c] OBVIOUS
  <2>2. /\ req' = [req EXCEPT ![r] = k] /\ k.op \notin {"issue", "delete"}
        /\ UNCHANGED <<status, immediate>>
      BY <1>2, <2>1 DEF CreateBegin
  <2>3. \A m \in immediate : status'[m] \in {"issued", "void"} BY <2>2 DEF Settled
  <2> QED BY <1>1, <2>2, <2>3
<1>3. ASSUME NEW r \in Requests, NEW n \in Notes, NEW op \in {"issue", "void", "delete"},
             Load(r, n, op)
      PROVE  Settled'
  <2>1. PICK k : k = [op |-> op, at |-> "checked", note |-> n, body |-> content[n]] OBVIOUS
  <2>2. /\ req' = [req EXCEPT ![r] = k] /\ k.op = op /\ k.note = n
        /\ UNCHANGED <<status, immediate>>
        /\ op # "void" => status[n] = "draft"
      BY <1>3, <2>1 DEF Load, Required
  <2>3. k.op \in {"issue", "delete"} => k.note \notin immediate BY <2>2 DEF Settled
  <2>4. \A m \in immediate : status'[m] \in {"issued", "void"} BY <2>2 DEF Settled
  <2> QED BY <1>1, <2>2, <2>3, <2>4
<1>4. ASSUME NEW r \in Requests, IssueLock(r) PROVE Settled'
  <2>1. UNCHANGED <<status, immediate>> BY <1>4 DEF IssueLock
  <2>2. PICK k : req' = [req EXCEPT ![r] = k] /\ (k.op = "none" \/ k.note = req[r].note)
    <3>1. PICK k : k = [req[r] EXCEPT !.at = "locked"] OBVIOUS
    <3>2. k.note = req[r].note BY <3>1, Request DEF Tasks
    <3>3. CASE req' = [req EXCEPT ![r] = NoReq] BY <3>3
    <3>4. CASE req' = [req EXCEPT ![r].at = "locked"]
      <4>1. req' = [req EXCEPT ![r] = k] BY <3>1, <3>4 DEF TypeInv, TypeOK
      <4> QED BY <3>2, <4>1
    <3> QED BY <1>4, <3>3, <3>4 DEF IssueLock
  <2>3. k.op \in {"issue", "delete"} => k.note \notin immediate
      BY <1>4, <2>2 DEF IssueLock, Settled
  <2>4. \A m \in immediate : status'[m] \in {"issued", "void"} BY <2>1 DEF Settled
  <2> QED BY <1>1, <2>1, <2>2, <2>3, <2>4
<1>5. ASSUME NEW r \in Requests, req' = [req EXCEPT ![r] = NoReq], immediate' = immediate,
             \A n \in immediate : status'[n] \in {"issued", "void"}
      PROVE  Settled'
    BY <1>1, <1>5
<1>6. ASSUME NEW r \in Requests, IssueCommit(r) \/ VoidCommit(r) \/ DeleteCommit(r) \/ Abort(r)
      PROVE  Settled'
  <2>1. /\ req' = [req EXCEPT ![r] = NoReq] /\ immediate' = immediate
      BY <1>6 DEF IssueCommit, VoidCommit, DeleteCommit, Abort
  <2>2. ASSUME NEW n \in immediate PROVE status'[n] \in {"issued", "void"}
    <3>1. status[n] \in {"issued", "void"} /\ n \in Notes
        BY DEF Settled, TypeInv, TypeOK
    <3>2. CASE IssueCommit(r) BY <1>0, <3>1, <3>2 DEF IssueCommit
    <3>3. CASE VoidCommit(r) BY <1>0, <3>1, <3>3 DEF VoidCommit
    <3>4. CASE DeleteCommit(r)
      <4>1. req[r].note # n BY <3>4 DEF DeleteCommit, Settled
      <4> QED BY <1>0, <3>1, <3>4, <4>1 DEF DeleteCommit
    <3>5. CASE Abort(r) BY <3>1, <3>5 DEF Abort
    <3> QED BY <1>6, <3>2, <3>3, <3>4, <3>5
  <2> QED BY <1>5, <2>1, <2>2
<1>7. ASSUME NEW r \in Requests, CreateCommit(r) PROVE Settled'
  <2>1. PICK n : n = req[r].note OBVIOUS
  <2>2. /\ req' = [req EXCEPT ![r] = NoReq] /\ n \in Notes /\ status[n] = "absent"
        /\ req[r].at = "locked"
      BY <1>7, <2>1, Request DEF CreateCommit
  <2>3. n \notin immediate BY <2>2 DEF Settled
  <2>4. CASE UNCHANGED <<status, content, immediate>>
    <3>1. \A m \in immediate : status'[m] \in {"issued", "void"} BY <2>4 DEF Settled
    <3> QED BY <1>5, <2>2, <2>4, <3>1
  <2>5. CASE ~ UNCHANGED <<status, content, immediate>>
    <3>1. PICK now \in BOOLEAN : now = (req[r].op = "create_issued") OBVIOUS
    <3>2. /\ status' = [status EXCEPT ![n] = IF now THEN "issued" ELSE "draft"]
          /\ immediate' = IF now THEN immediate \cup {n} ELSE immediate
        BY <1>7, <2>1, <2>5, <3>1 DEF CreateCommit, StatusAtCreation
    <3>3. immediate \subseteq Notes BY DEF TypeInv, TypeOK
    <3>4. \A m \in immediate' : status'[m] \in {"issued", "void"}
        BY <1>0, <2>2, <2>3, <3>2, <3>3 DEF Settled
    <3>5. req'[r] = NoReq /\ \A s \in Requests : s # r => req'[s] = req[s]
        BY <2>2, OneMoves
    <3>6. ASSUME NEW s \in Requests, req'[s].op \in {"issue", "delete"}
          PROVE  req'[s].note \notin immediate'
      <4>1. s # r /\ req'[s] = req[s] BY <3>5, <3>6
      <4>2. status[req[s].note] # "absent" BY <3>6, <4>1, Request
      <4> QED BY <2>2, <3>2, <3>6, <4>1, <4>2 DEF Settled
    <3> QED BY <3>4, <3>6 DEF Settled
  <2> QED BY <2>4, <2>5
<1> QED BY <1>2, <1>3, <1>4, <1>6, <1>7 DEF Next

(* No commit passes the ceilings. *)
LEMMA CeilingsKept ==
    ASSUME TypeInv, Ceilings, Settled, \A r \in Requests : Room(r), Next PROVE Ceilings'
<1>0. Credited \in Nat /\ InvoiceTotal \in Nat /\ Credited <= InvoiceTotal
    BY FiguresNat, InvoiceTotalNat DEF Ceilings
<1>1. ASSUME Quiet, Credits \cap immediate' \subseteq immediate PROVE Ceilings'
  <2>1. Credited' \in Nat /\ Credited' <= Credited BY <1>1, CreditShrinks DEF Quiet
  <2>2. ImmediateWithinLines' BY <1>1, ImmediateShrinks DEF Quiet, Ceilings
  <2> QED BY <1>0, <2>1, <2>2 DEF Ceilings
<1>2. ASSUME NEW r \in Requests, CreateCommit(r) \/ IssueCommit(r) PROVE Ceilings'
  <2>1. PICK n : n = req[r].note OBVIOUS
  <2>2. PICK c : c = req[r].body OBVIOUS
  <2>3. CASE Quiet /\ Credits \cap immediate' \subseteq immediate BY <1>1, <2>3
  <2>4. CASE /\ n \in Notes /\ c \in Contents /\ c.type = "credit" /\ content'[n] = c
             /\ Credits' \subseteq Credits \cup {n}
             /\ \A m \in Credits : content'[m] = content[m]
             /\ \/ /\ req[r].op = "issue" /\ req[r].at = "locked"
                   /\ UNCHANGED <<content, immediate>>
                \/ /\ req[r].op = "create_issued" /\ req[r].at = "locked"
                   /\ immediate' = immediate \cup {n} /\ WithinCreditCeiling(c)
    <3>1. TotalOf(c) \in Nat BY <2>4, TotalOfNat
    <3>2. TotalOf(c) + Credited <= InvoiceTotal BY <2>2, <2>4, CheckedRoom DEF Room
    <3>3. Credited' \in Nat /\ Credited' <= Credited + TotalOf(c) BY <2>4, CreditGrows
    <3>4. Credited' <= InvoiceTotal BY <1>0, <3>1, <3>2, <3>3
    <3>5. ImmediateWithinLines'
      <4>1. CASE req[r].op = "create_issued" /\ immediate' = immediate \cup {n}
        <5>1. WithinLineCeilings(c) BY <2>2, <2>4, <4>1 DEF Room
        <5> QED BY <2>4, <4>1, <5>1, ImmediateGrows DEF Ceilings
      <4>2. CASE req[r].op = "issue" /\ UNCHANGED <<content, immediate>>
        <5>1. n \notin immediate BY <2>1, <4>2 DEF Settled
        <5>2. \A m \in Credits' \cap immediate' :
                  m \in Credits \cap immediate /\ content'[m] = content[m]
            BY <2>4, <4>2, <5>1
        <5> QED BY <5>2, ImmediateShrinks DEF Ceilings
      <4> QED BY <2>4, <4>1, <4>2
    <3> QED BY <3>4, <3>5 DEF Ceilings
  <2> QED BY <1>2, <2>1, <2>2, <2>3, <2>4, Commits
<1>3. ASSUME NEW r \in Requests,
             \/ \E n \in Notes, c \in Contents, now \in BOOLEAN : CreateBegin(r, n, c, now)
             \/ \E n \in Notes, op \in {"issue", "void", "delete"} : Load(r, n, op)
             \/ IssueLock(r) \/ VoidCommit(r) \/ DeleteCommit(r) \/ Abort(r)
      PROVE  Ceilings'
  <2>1. Quiet /\ immediate' = immediate BY <1>3, OtherSteps
  <2> QED BY <1>1, <2>1
<1> QED BY <1>2, <1>3 DEF Next
-----------------------------------------------------------------------------
(* The invariant holds of every behaviour. *)

(* No note, no request, nothing credited. *)
LEMMA InitIInv == Init => IInv
<1> SUFFICES ASSUME Init PROVE IInv OBVIOUS
<1> USE NoReqTask
<1>1. \A r \in Requests : req[r] = NoReq BY DEF Init
<1>2. TypeOK
  <2>1. req \in [Requests -> Tasks] BY DEF Init
  <2> QED BY <2>1 DEF Init, TypeOK, Tasks
<1>3. TypeInv BY <1>1, <1>2 DEF TypeInv, Working, Written, Init
<1>4. \A r \in Requests : Locking(r) /\ Room(r)
    BY <1>1, NotesConstants DEF Init, Locking, Room
<1>5. Settled BY <1>1 DEF Init, Settled
<1>6. Credits = {} BY DEF Init, Credits, IssuedIn
<1>7. Credited <= InvoiceTotal
  <2>1. Credited = 0 BY <1>6, Figures, TotalEmpty DEF Credits
  <2> QED BY <2>1, InvoiceTotalNat
<1>8. ImmediateWithinLines
  <2>1. SUFFICES ASSUME NEW l \in Lines
                 PROVE  LineUsed(l, IssuedOf("credit") \cap immediate) <= LineTotal[l]
      BY DEF ImmediateWithinLines
  <2>2. Credits \cap immediate = {} BY <1>6
  <2>3. LineUsed(l, IssuedOf("credit") \cap immediate) = 0
      BY <2>2, Figures, TotalEmpty DEF Credits
  <2> QED BY <2>3, NotesConstants
<1> QED BY <1>3, <1>4, <1>5, <1>7, <1>8 DEF IInv, Ceilings

(* Every step keeps it, and so does a stutter. *)
LEMMA NextIInv == IInv /\ [Next]_vars => IInv'
<1> SUFFICES ASSUME IInv, [Next]_vars PROVE IInv' OBVIOUS
<1>0. /\ TypeInv /\ Settled /\ Ceilings
      /\ \A r \in Requests : Locking(r) /\ Room(r)
    BY DEF IInv
<1>1. CASE Next
  <2>1. TypeInv' /\ \A r \in Requests : Locking(r)' BY <1>0, <1>1, TypeKept, LockKept
  <2>2. \A r \in Requests : Room(r)' BY <1>0, <1>1, RoomKept
  <2>3. Settled' /\ Ceilings' BY <1>0, <1>1, SettledKept, CeilingsKept
  <2> QED BY <2>1, <2>2, <2>3 DEF IInv
<1>2. CASE UNCHANGED vars
  <2>1. UNCHANGED <<status, content, immediate, req, invLock>> BY <1>2 DEF vars
  <2>2. Quiet BY <2>1, QuietSteps, <1>0
  <2>3. TypeInv' BY <1>0, <2>1 DEF TypeInv, TypeOK, Working, Written
  <2>4. \A r \in Requests : Locking(r)' BY <1>0, <2>1 DEF Locking
  <2>5. ASSUME NEW r \in Requests PROVE Room(r)' BY <1>0, <2>1, <2>2, RoomAside
  <2>6. Settled' BY <1>0, <2>1 DEF Settled
  <2>7. Ceilings'
    <3>1. Credited' <= Credited /\ Credited' \in Nat BY <1>0, <2>2, CreditShrinks DEF Quiet
    <3>2. ImmediateWithinLines' BY <1>0, <2>1, <2>2, ImmediateShrinks DEF Quiet, Ceilings
    <3> QED BY <1>0, <3>1, <3>2, FiguresNat, InvoiceTotalNat DEF Ceilings
  <2> QED BY <2>3, <2>4, <2>5, <2>6, <2>7 DEF IInv
<1> QED BY <1>1, <1>2

(* So it is an invariant. *)
THEOREM Invariant == Spec => []IInv
<1>1. Init => IInv BY InitIInv
<1>2. IInv /\ [Next]_vars => IInv' BY NextIInv
<1> QED BY <1>1, <1>2, PTL DEF Spec

(* Debits are natural numbers too. *)
LEMMA DebitedNat == ASSUME TypeInv PROVE Debited \in Nat
<1>1. PICK S : S = IssuedIn(status, content, "debit") OBVIOUS
<1>2. S \in SUBSET Notes /\ S \in SUBSET S BY <1>1 DEF IssuedIn
<1>3. ASSUME NEW n \in S PROVE TotalIn(content)[n] \in Nat
  <2>1. n \in Notes /\ content[n] \in Contents
      BY <1>1, <1>3 DEF IssuedIn, TypeInv, Written
  <2> QED BY <2>1, TotalOfNat DEF TotalIn
<1>4. Total(TotalIn(content), S) \in Nat BY <1>2, <1>3, NotesFinite, TotalNat
<1> QED BY <1>1, <1>4, Figures
-----------------------------------------------------------------------------
(* What is promised. *)

(* Every variable keeps its type. *)
THEOREM TypeCorrect == Spec => []TypeOK
<1>1. IInv => TypeOK BY DEF IInv, TypeInv
<1> QED BY <1>1, Invariant, PTL

(* _get_source_invoice_locked and the two checks of the document ceiling: what *)
(* is credited never exceeds the invoice and the adjusted total is never       *)
(* negative, for any number of concurrent requests, notes and failures.        *)
THEOREM CreditBounded == Spec => []CreditWithinInvoice
<1>1. IInv => CreditWithinInvoice
  <2> SUFFICES ASSUME IInv PROVE CreditWithinInvoice OBVIOUS
  <2>1. TypeInv /\ Credited <= InvoiceTotal BY DEF IInv, Ceilings
  <2>2. Credited \in Nat /\ Debited \in Nat /\ InvoiceTotal \in Nat
      BY <2>1, FiguresNat, DebitedNat, InvoiceTotalNat
  <2> QED BY <2>1, <2>2 DEF CreditWithinInvoice, AdjustedTotal
<1> QED BY <1>1, Invariant, PTL

(* _assert_within_line_ceilings, for the notes it is enough for: those created *)
(* and issued in one transaction.                                              *)
THEOREM ImmediateBounded == Spec => []ImmediateWithinLines
<1>1. IInv => ImmediateWithinLines BY DEF IInv, Ceilings
<1> QED BY <1>1, Invariant, PTL

(* get_invoice_adjustments and get_adjusted_totals_by_invoice, two queries     *)
(* that sum the same notes in different ways, agree in every state.            *)
THEOREM DerivationsEqual == Spec => []DerivationsAgree
<1>1. IInv => DerivationsAgree
  <2> SUFFICES ASSUME IInv PROVE DerivationsAgree OBVIOUS
  <2>0. TypeInv BY DEF IInv
  <2>1. PICK S : S = Issued OBVIOUS
  <2>2. PICK C : C = IssuedIn(status, content, "credit") OBVIOUS
  <2>3. PICK D : D = IssuedIn(status, content, "debit") OBVIOUS
  <2>4. PICK f : f = [n \in S |-> SignedTotal(content[n])] OBVIOUS
  <2>5. PICK g : g = TotalIn(content) OBVIOUS
  <2>6. S \in SUBSET Notes /\ IsFiniteSet(S) BY <2>1, NotesFinite DEF Issued
  <2>7. \A n \in S : content[n] \in Contents
      BY <2>0, <2>1 DEF Issued, TypeInv, Written
  <2>8. S \cap C = C /\ S \ C = D
    <3>1. \A n \in S : content[n].type \in {"credit", "debit"} BY <2>7, TotalOfNat
    <3> QED BY <2>1, <2>2, <2>3, <3>1 DEF Issued, IssuedIn
  <2>9. ASSUME NEW n \in S
        PROVE  g[n] \in Int /\ f[n] = IF n \in C THEN -g[n] ELSE g[n]
    <3>1. content[n] \in Contents /\ n \in Notes BY <2>6, <2>7
    <3>2. TotalOf(content[n]) \in Nat /\ g[n] = TotalOf(content[n])
        BY <2>5, <3>1, TotalOfNat DEF TotalIn
    <3>3. n \in C <=> content[n].type = "credit"
        BY <2>1, <2>2, <3>1 DEF Issued, IssuedIn
    <3>4. f[n] = SignedTotal(content[n]) BY <2>4
    <3> QED BY <3>2, <3>3, <3>4 DEF SignedTotal
  <2>10. Total(f, S) = Total(g, S \ C) - Total(g, S \cap C)
    <3>1. \A n \in S : g[n] \in Int /\ f[n] = (IF n \in C THEN -g[n] ELSE g[n]) BY <2>9
    <3>2. IsFiniteSet(S) BY <2>6
    <3> QED BY <3>1, <3>2, TotalSigned
  <2>11. NetAdjustment = Total(f, S)
    <3>1. DOMAIN f = S BY <2>4
    <3> QED BY <2>1, <2>4, <3>1, SumIsTotal DEF NetAdjustment
  <2>12. Credited = Total(g, C) /\ Debited = Total(g, D) BY <2>2, <2>3, <2>5, Figures
  <2>13. Credited \in Nat /\ Debited \in Nat /\ InvoiceTotal \in Nat
      BY <2>0, FiguresNat, DebitedNat, InvoiceTotalNat
  <2>14. NetAdjustment = Debited - Credited BY <2>8, <2>10, <2>11, <2>12
  <2> QED BY <2>13, <2>14 DEF DerivationsAgree, AdjustedTotal
<1> QED BY <1>1, Invariant, PTL
=============================================================================
