------------------------ MODULE PluginHarnessProofs ------------------------
(***************************************************************************)
(* Theorems about PluginHarness, for any plugins, whatever they register   *)
(* and inject in apply(), and for any trees.                               *)
(***************************************************************************)
EXTENDS PluginHarness, SequenceTheorems, TLAPS

-----------------------------------------------------------------------------
(* Sequences as sets.                                                      *)

LEMMA AppendSet ==
  ASSUME NEW S, NEW q \in Seq(S), NEW x \in S
  PROVE  ToSet(Append(q, x)) = ToSet(q) \cup {x}
  <1>1. /\ DOMAIN q = 1 .. Len(q) /\ Len(q) \in Nat
        /\ DOMAIN Append(q, x) = 1 .. Len(q) + 1
        /\ \A i \in 1 .. Len(q) : Append(q, x)[i] = q[i]
        /\ Append(q, x)[Len(q) + 1] = x
    BY AppendProperties, LenProperties
  <1>2. ASSUME NEW i \in DOMAIN q
        PROVE  i \in DOMAIN Append(q, x) /\ Append(q, x)[i] = q[i]
    BY <1>1
  <1>3. Len(q) + 1 \in DOMAIN Append(q, x)  BY <1>1
  <1>4. ASSUME NEW i \in DOMAIN Append(q, x)
        PROVE  \/ i \in DOMAIN q /\ Append(q, x)[i] = q[i]
               \/ Append(q, x)[i] = x
    BY <1>1
  <1> QED BY <1>1, <1>2, <1>3, <1>4, Zenon DEF ToSet

LEMMA TailSet ==
  ASSUME NEW S, NEW q \in Seq(S), q # <<>>
  PROVE  /\ Head(q) = q[1] /\ Head(q) \in ToSet(q)
         /\ ToSet(q) = ToSet(Tail(q)) \cup {Head(q)}
         /\ \A x \in ToSet(Tail(q)) : \E i \in 2 .. Len(q) : x = q[i]
  <1>1. /\ DOMAIN q = 1 .. Len(q) /\ Len(q) \in Nat
        /\ Tail(q) \in Seq(S) /\ DOMAIN Tail(q) = 1 .. Len(q) - 1
        /\ \A i \in DOMAIN Tail(q) : Tail(q)[i] = q[i + 1]
        /\ 1 \in DOMAIN q /\ Head(q) = q[1]
    BY HeadTailProperties, LenProperties, EmptySeq
  <1>2. ASSUME NEW x \in ToSet(q), x # Head(q) PROVE x \in ToSet(Tail(q))
    <2>1. PICK i \in DOMAIN q : q[i] = x  BY DEF ToSet
    <2>2. i - 1 \in DOMAIN Tail(q) /\ (i - 1) + 1 = i  BY <1>1, <1>2, <2>1
    <2> QED BY <1>1, <2>1, <2>2 DEF ToSet
  <1>3. Head(q) \in ToSet(q)  BY <1>1 DEF ToSet
  <1>4. ASSUME NEW x \in ToSet(Tail(q))
        PROVE  x \in ToSet(q) /\ \E i \in 2 .. Len(q) : x = q[i]
    <2>1. PICK i \in DOMAIN Tail(q) : Tail(q)[i] = x  BY DEF ToSet
    <2>2. i + 1 \in 2 .. Len(q) /\ i + 1 \in DOMAIN q  BY <1>1
    <2> QED BY <1>1, <2>1, <2>2 DEF ToSet
  <1> QED BY <1>1, <1>2, <1>3, <1>4

LEMMA EmptySet == ToSet(<<>>) = {}
  BY EmptySeq DEF ToSet

LEMMA PrefixElements ==
  ASSUME NEW S, NEW q, NEW n \in Nat, \A i \in 1 .. n : q[i] \in S
  PROVE  /\ SubSeq(q, 1, n) \in Seq(S) /\ Len(SubSeq(q, 1, n)) = n
         /\ \A i \in 1 .. n : SubSeq(q, 1, n)[i] = q[i]
  <1>1. 1 \in Int /\ n \in Int  OBVIOUS
  <1>2. /\ SubSeq(q, 1, n) \in Seq(S)
        /\ Len(SubSeq(q, 1, n)) = IF 1 <= n THEN n - 1 + 1 ELSE 0
        /\ \A i \in 1 .. n - 1 + 1 : SubSeq(q, 1, n)[i] = q[1 + i - 1]
    BY <1>1, SubSeqProperties
  <1>3. n - 1 + 1 = n /\ \A i \in 1 .. n : 1 + i - 1 = i
        /\ (IF 1 <= n THEN n ELSE 0) = n
    OBVIOUS
  <1> QED BY <1>2, <1>3

LEMMA FrontElements ==
  ASSUME NEW S, NEW q \in Seq(S), q # <<>>
  PROVE  /\ Front(q) \in Seq(S) /\ Len(Front(q)) = Len(q) - 1
         /\ \A i \in 1 .. Len(q) - 1 : Front(q)[i] = q[i]
         /\ Len(q) \in Nat \ {0}
  <1>1. PICK n \in Nat : n + 1 = Len(q)
    <2>1. Len(q) \in Nat \ {0}  BY EmptySeq
    <2>2. Len(q) - 1 \in Nat /\ (Len(q) - 1) + 1 = Len(q)  BY <2>1
    <2> QED BY <2>2
  <1>2. \A i \in 1 .. n : q[i] \in S
    BY <1>1, ElementOfSeq
  <1>3. Len(q) - 1 = n  BY <1>1
  <1> QED BY <1>1, <1>2, <1>3, PrefixElements DEF Front

\* list.remove of what is last takes the last element away, if each is once.
LEMMA RemoveLast ==
  ASSUME NEW S, NEW q \in Seq(S), q # <<>>, IsInjective(q)
  PROVE  RemoveFirst(q, Last(q)) = Front(q)
  <1> DEFINE n == Len(q)
             I == {i \in 1 .. n : q[i] = q[n]}
  <1>1. n \in Nat \ {0} /\ DOMAIN q = 1 .. n  BY EmptySeq, LenProperties
  <1>2. I = {n}  BY <1>1 DEF IsInjective
  <1>3. Min({n}) = n
    <2>1. n \in {n} /\ \A y \in {n} : n =< y  BY <1>1
    <2> QED BY <2>1 DEF Min
  <1>4. n \in 1 .. n /\ q[n] = Last(q)
    BY <1>1 DEF Last
  <1>5. RemoveFirst(q, Last(q)) = RemoveAt(q, n)
    <2>1. SelectInSeq(q, LAMBDA v : v = Last(q)) = n
      BY <1>2, <1>3, <1>4 DEF SelectInSeq
    <2>2. \E i \in 1 .. Len(q) : q[i] = Last(q)
      BY <1>4
    <2> QED BY <2>1, <2>2, Zenon DEF RemoveFirst
  <1>6. SubSeq(q, n + 1, n) = <<>>
    BY <1>1, SubSeqEmpty
  <1>7. SubSeq(q, 1, n - 1) \in Seq(S)
    BY FrontElements DEF Front
  <1>8. SubSeq(q, 1, n - 1) \o <<>> = SubSeq(q, 1, n - 1)
    BY <1>7, ConcatEmptySeq
  <1> QED BY <1>5, <1>6, <1>8 DEF RemoveAt, Front

LEMMA ReverseElements ==
  ASSUME NEW S, NEW q \in Seq(S)
  PROVE  /\ Reverse(q) \in Seq(S) /\ Len(Reverse(q)) = Len(q)
         /\ ToSet(Reverse(q)) = ToSet(q)
         /\ \A i \in 1 .. Len(q) :
              /\ Len(q) - i + 1 \in 1 .. Len(q)
              /\ Reverse(q)[i] = q[Len(q) - i + 1]
  <1>1. Len(q) \in Nat /\ DOMAIN q = 1 .. Len(q)  BY LenProperties
  <1>2. \A i \in 1 .. Len(q) : (Len(q) - i) + 1 \in 1 .. Len(q)
    BY <1>1
  <1>3. Reverse(q) = [i \in 1 .. Len(q) |-> q[(Len(q) - i) + 1]]
    BY DEF Reverse
  <1>4. \A i \in 1 .. Len(q) : q[(Len(q) - i) + 1] \in S
    BY <1>2, ElementOfSeq
  <1>5. Reverse(q) \in Seq(S) /\ Len(Reverse(q)) = Len(q)
    BY <1>1, <1>3, <1>4
  <1>6. \A i \in 1 .. Len(q) : Reverse(q)[i] = q[Len(q) - i + 1]
    BY <1>1, <1>3
  <1>7. ASSUME NEW x \in ToSet(q) PROVE x \in ToSet(Reverse(q))
    <2>1. PICK i \in 1 .. Len(q) : q[i] = x  BY <1>1 DEF ToSet
    <2>2. (Len(q) - i) + 1 \in 1 .. Len(q)
          /\ Len(q) - ((Len(q) - i) + 1) + 1 = i
      BY <1>1
    <2> QED BY <1>3, <1>6, <2>1, <2>2 DEF ToSet
  <1>8. ASSUME NEW x \in ToSet(Reverse(q)) PROVE x \in ToSet(q)
    <2>1. PICK i \in 1 .. Len(q) : Reverse(q)[i] = x  BY <1>3 DEF ToSet
    <2> QED BY <1>1, <1>2, <1>3, <2>1 DEF ToSet
  <1> QED BY <1>2, <1>5, <1>6, <1>7, <1>8

-----------------------------------------------------------------------------
(* Types, and the order of mounting.                                       *)

\* The plugins mounted are the first rows of the tree, at each stage as many
\* as the stage says.
OrderInv ==
  /\ Len(order) <= Len(tree)
  /\ \A i \in 1 .. Len(order) : order[i] = tree[i]
  /\ phase \in {"load", "rollback"} => Len(order) = row - 1
  /\ phase = "apply" => Len(order) = row
  /\ phase = "rollback" => row <= Len(tree) /\ tree[row] \notin ToSet(order)
  /\ phase = "serve" => Len(order) = Len(tree)
  /\ phase = "unload" => order # <<>>
  /\ phase = "end" <=> result # "none"
  /\ result = "refused" => Len(order) = row - 1
  /\ result = "disposed" => order = <<>>
  /\ result \in {"cancelled", "aborted"} => order # <<>>
  /\ awaited # {} => phase \in {"rollback", "unload"}

LEMMA LastElement ==
  ASSUME TypeOK, order # <<>>
  PROVE  /\ Len(order) \in Nat \ {0} /\ Last(order) = order[Len(order)]
         /\ Last(order) \in Plugins /\ Last(order) \in ToSet(order)
         /\ Front(order) \in Seq(Plugins) /\ Len(Front(order)) = Len(order) - 1
         /\ \A i \in 1 .. Len(order) - 1 :
              Front(order)[i] = order[i] /\ order[i] # Last(order)
         /\ IsInjective(Front(order))
         /\ ToSet(Front(order)) = ToSet(order) \ {Last(order)}
  <1>1. order \in Seq(Plugins) /\ IsInjective(order)  BY DEF TypeOK
  <1>2. PICK n \in Nat \ {0} : n = Len(order)  BY <1>1, EmptySeq
  <1>3. DOMAIN order = 1 .. n /\ n \in 1 .. n /\ order[n] \in Plugins
    BY <1>1, <1>2, LenProperties
  <1>4. /\ Front(order) \in Seq(Plugins) /\ Len(Front(order)) = n - 1
        /\ \A i \in 1 .. n - 1 : Front(order)[i] = order[i]
    BY <1>1, <1>2, FrontElements
  <1>5. DOMAIN Front(order) = 1 .. n - 1  BY <1>4, LenProperties
  <1>6. \A i \in 1 .. n - 1 : i \in 1 .. n /\ i # n  OBVIOUS
  <1>7. \A i \in 1 .. n - 1 : order[i] # order[n]
    BY <1>1, <1>3, <1>6 DEF IsInjective
  <1>8. IsInjective(Front(order))
    BY <1>1, <1>3, <1>4, <1>5, <1>6 DEF IsInjective
  <1>9. \A x \in ToSet(Front(order)) : x \in ToSet(order) /\ x # order[n]
    BY <1>3, <1>4, <1>5, <1>6, <1>7 DEF ToSet
  <1>10. ASSUME NEW x \in ToSet(order), x # order[n]
         PROVE  x \in ToSet(Front(order))
    <2>1. PICK i \in 1 .. n : order[i] = x  BY <1>3 DEF ToSet
    <2>2. i \in 1 .. n - 1  BY <1>10, <2>1
    <2> QED BY <1>4, <1>5, <2>1, <2>2 DEF ToSet
  <1>11. Last(order) = order[n] /\ order[n] \in ToSet(order)
    BY <1>2, <1>3 DEF Last, ToSet
  <1>12. ToSet(Front(order)) = ToSet(order) \ {order[n]}
    BY <1>9, <1>10, <1>11
  <1> QED BY <1>2, <1>3, <1>4, <1>7, <1>8, <1>11, <1>12

\* The plugin being mounted, and what removing it leaves.
LEMMA ApplyingIsLast ==
  ASSUME TypeOK, OrderInv, phase = "apply"
  PROVE  /\ order # <<>> /\ tree[row] = Last(order) /\ row <= Len(tree)
         /\ tree[row] \in Plugins /\ tree[row] \in ToSet(order)
         /\ RemoveFirst(order, tree[row]) = Front(order)
  <1>1. order \in Seq(Plugins) /\ IsInjective(order) /\ row \in Nat \ {0}
        /\ tree \in Seq(Plugins)
    BY HarnessAssumption DEF TypeOK
  <1>2. Len(order) = row /\ order[row] = tree[row] /\ row <= Len(tree)
    BY <1>1 DEF OrderInv
  <1>3. order # <<>>  BY <1>1, <1>2, EmptySeq
  <1>4. tree[row] = Last(order)  BY <1>2 DEF Last
  <1> QED BY <1>1, <1>2, <1>3, <1>4, RemoveLast, LastElement

LEMMA StepRef ==
  ASSUME TypeOK, OrderInv, Applying
  PROVE  <<tree[row], at>> \in Refs
  <1>1. tree[row] \in Plugins /\ at \in Nat
    BY ApplyingIsLast DEF Applying, TypeOK
  <1>2. Steps[tree[row]] \in Seq([kind : Kinds, key : STRING])
    BY <1>1, HarnessAssumption
  <1>3. at \in DOMAIN Steps[tree[row]]
    BY <1>1, <1>2, LenProperties DEF Applying, TypeOK
  <1> QED BY <1>1, <1>3 DEF Refs

LEMMA OrderHolds == Spec => [](TypeOK /\ OrderInv)
<1> USE HarnessAssumption
<1>1. Init => TypeOK /\ OrderInv
  <2> SUFFICES ASSUME Init PROVE TypeOK /\ OrderInv
    OBVIOUS
  <2>1. <<>> \in Seq(Plugins) /\ <<>> \in Seq(Refs) /\ Len(<<>>) = 0
    BY EmptySeq
  <2>2. IsInjective(<<>>)  BY <2>1 DEF IsInjective
  <2>3. tree \in Seq(Plugins) /\ Len(tree) \in Nat
    BY LenProperties DEF Init
  <2> QED BY <2>1, <2>2, <2>3 DEF Init, TypeOK, OrderInv
<1>2. TypeOK /\ OrderInv /\ [Next]_vars => (TypeOK /\ OrderInv)'
  <2> SUFFICES ASSUME TypeOK, OrderInv, [Next]_vars
               PROVE  TypeOK' /\ OrderInv'
    OBVIOUS
  <2>0. /\ tree \in Seq(Plugins) /\ Len(tree) \in Nat
        /\ order \in Seq(Plugins) /\ Len(order) \in Nat
        /\ row \in Nat \ {0} /\ at \in Nat \ {0}
    BY LenProperties DEF TypeOK
  \* Steps that mount or unload nothing.
  <2>1. CASE UNCHANGED vars
    BY <2>1 DEF vars, TypeOK, OrderInv
  <2>2. CASE RowRefused
    BY <2>0, <2>2 DEF RowRefused, Finish, TypeOK, OrderInv
  <2>3. CASE ApplyCancelled
    <3>1. order # <<>>  BY <2>3, ApplyingIsLast DEF ApplyCancelled, Applying
    <3> QED BY <2>3, <3>1 DEF ApplyCancelled, Applying, Finish, TypeOK, OrderInv
  <2>4. CASE RolledBack
    BY <2>4 DEF RolledBack, Finish, TypeOK, OrderInv
  <2>5. CASE Loaded
    BY <2>0, <2>5 DEF Loaded, TypeOK, OrderInv
  <2>6. CASE ShutDown
    BY <2>6 DEF ShutDown, TypeOK, OrderInv
  <2>7. CASE Disposed
    BY <2>7 DEF Disposed, Finish, TypeOK, OrderInv
  <2>8. CASE LoopWakes
    BY <2>8 DEF LoopWakes, TypeOK, OrderInv
  <2>9. CASE LoopPrunes
    BY <2>9 DEF LoopPrunes, TypeOK, OrderInv
  <2>10. CASE ApplyStep
    <3> DEFINE r == <<tree[row], at>>
    <3>1. Applying /\ r \in Refs /\ r[1] \in Plugins
      BY <2>10, StepRef, ApplyingIsLast DEF ApplyStep, Applying
    <3>2. refs' = refs \/ refs' = [refs EXCEPT ![r[1]] = Append(@, r)]
      BY <2>10, Zenon DEF ApplyStep
    <3>3. refs[r[1]] \in Seq(Refs)  BY <3>1 DEF TypeOK
    <3>4. Append(refs[r[1]], r) \in Seq(Refs)
      BY <3>1, <3>3, AppendProperties
    <3>5. live' = live \/ live' = live \cup {r}
      BY <2>10, Zenon DEF ApplyStep
    <3>6. loop' \in {"sleep", loop} /\ at' = at + 1
          /\ UNCHANGED <<phase, tree, row, order, todo, awaited, cleaned, result>>
      BY <2>10 DEF ApplyStep
    <3> HIDE DEF r
    <3>7. refs' \in [Plugins -> Seq(Refs)]
      BY <3>1, <3>2, <3>4 DEF TypeOK
    <3>8. live' \subseteq Refs
      BY <3>1, <3>5 DEF TypeOK
    <3>9. TypeOK'
      BY <2>0, <3>6, <3>7, <3>8 DEF TypeOK
    <3> QED BY <3>6, <3>9 DEF OrderInv
  <2>11. CASE ApplyReturns
    <3>1. row <= Len(tree)
      BY <2>11, ApplyingIsLast DEF ApplyReturns
    <3> QED BY <2>0, <2>11, <3>1 DEF ApplyReturns, TypeOK, OrderInv
  <2>12. CASE Mount
    <3>1. CASE tree[row] \in ToSet(order)
      BY <2>0, <2>12, <3>1 DEF Mount, Finish, TypeOK, OrderInv
    <3>2. CASE tree[row] \notin ToSet(order)
      <4> DEFINE p == tree[row]
      <4>1. /\ phase = "load" /\ row <= Len(tree) /\ phase' = "apply" /\ at' = 1
            /\ order' = Append(order, p)
            /\ refs' = [refs EXCEPT ![p] = <<>>]
            /\ UNCHANGED <<tree, row, live, todo, awaited, cleaned, result, loop>>
        BY <2>12, <3>2 DEF Mount
      <4>2. p \in Plugins
        BY <2>0, <4>1, ElementOfSeq
      <4>3. /\ order' \in Seq(Plugins) /\ Len(order') = Len(order) + 1
            /\ DOMAIN order' = 1 .. Len(order) + 1
            /\ \A i \in 1 .. Len(order) : order'[i] = order[i]
            /\ order'[Len(order) + 1] = p
        <5>1. /\ Append(order, p) \in Seq(Plugins)
              /\ Len(Append(order, p)) = Len(order) + 1
              /\ \A i \in 1 .. Len(order) : Append(order, p)[i] = order[i]
              /\ Append(order, p)[Len(order) + 1] = p
          BY <2>0, <4>2, AppendProperties
        <5>2. DOMAIN Append(order, p) = 1 .. Len(order) + 1
          BY <5>1, LenProperties
        <5> QED BY <4>1, <5>1, <5>2
      <4>4. \A i \in 1 .. Len(order) : order[i] # p
        BY <2>0, <3>2, LenProperties DEF ToSet
      <4>5. IsInjective(order')
        <5>1. \A i, k \in 1 .. Len(order) : order[i] = order[k] => i = k
          BY <2>0, LenProperties DEF TypeOK, IsInjective
        <5>2. \A i \in 1 .. Len(order) + 1 :
                i \in 1 .. Len(order) \/ i = Len(order) + 1
          BY <2>0
        <5> HIDE DEF p
        <5> QED BY <4>3, <4>4, <5>1, <5>2 DEF IsInjective
      <4>6. refs' \in [Plugins -> Seq(Refs)]
        BY <4>1, <4>2, EmptySeq DEF TypeOK
      <4>7. Len(order) = row - 1 /\ result = "none"
        BY <4>1 DEF OrderInv
      <4>8. TypeOK'
        BY SMTT(30), <4>1, <4>3, <4>5, <4>6 DEF TypeOK
      <4>9. ASSUME NEW i \in 1 .. Len(order') PROVE order'[i] = tree'[i]
        <5>1. CASE i \in 1 .. Len(order)
          BY <4>1, <4>3, <5>1 DEF OrderInv
        <5>2. CASE i = Len(order) + 1
          BY <2>0, <4>1, <4>3, <4>7, <5>2
        <5> QED BY <2>0, <4>3, <5>1, <5>2
      <4>10. Len(order') = row /\ Len(order') <= Len(tree')
        BY <2>0, <4>1, <4>3, <4>7
      <4> QED BY <4>1, <4>7, <4>8, <4>9, <4>10 DEF OrderInv
    <3> QED BY <3>1, <3>2
  <2>13. CASE ApplyRaises
    <3> DEFINE p == tree[row]
    <3>1. /\ phase = "apply" /\ phase' = "rollback"
          /\ order' = RemoveFirst(order, p)
          /\ todo' = Reverse(refs[p])
          /\ refs' = [refs EXCEPT ![p] = <<>>]
          /\ UNCHANGED <<tree, row, at, live, awaited, cleaned, result, loop>>
      BY <2>13 DEF ApplyRaises, Applying
    <3>2. /\ order # <<>> /\ p = Last(order) /\ row <= Len(tree)
          /\ p \in Plugins /\ order' = Front(order)
      BY <3>1, ApplyingIsLast
    <3>3. /\ order' \in Seq(Plugins) /\ Len(order') = Len(order) - 1
          /\ \A i \in 1 .. Len(order) - 1 : order'[i] = order[i]
          /\ IsInjective(order') /\ p \notin ToSet(order')
      BY <3>2, LastElement
    <3>4. refs' \in [Plugins -> Seq(Refs)] /\ todo' \in Seq(Refs)
      BY <3>1, <3>2, EmptySeq, ReverseElements DEF TypeOK
    <3>5. TypeOK'
      BY <3>1, <3>3, <3>4 DEF TypeOK
    <3>6. Len(order) = row /\ result = "none"
      BY <3>1 DEF OrderInv
    <3>7. Len(order') = row - 1 /\ Len(order') <= Len(tree')
      BY <2>0, <3>1, <3>2, <3>3, <3>6
    <3>8. ASSUME NEW i \in 1 .. Len(order') PROVE order'[i] = tree'[i]
      <4>1. i \in 1 .. Len(order) - 1 /\ i \in 1 .. Len(order)
        BY <2>0, <3>3
      <4> QED BY <3>1, <3>3, <4>1 DEF OrderInv
    <3> QED BY <3>1, <3>2, <3>3, <3>5, <3>6, <3>7, <3>8 DEF OrderInv
  <2>14. CASE ReverseNext
    <3>1. Head(todo) \in Refs /\ Tail(todo) \in Seq(Refs)
      BY <2>14, HeadTailProperties DEF ReverseNext, TypeOK
    <3> QED BY <2>14, <3>1 DEF ReverseNext, TypeOK, OrderInv
  <2>15. CASE CleanupEnds
    BY <2>15 DEF CleanupEnds, TypeOK, OrderInv
  <2>16. CASE CleanupRaises
    <3>1. PICK r \in awaited :
            /\ awaited' = {} /\ cleaned' = cleaned \cup {r}
            /\ IF phase = "rollback" THEN UNCHANGED <<phase, result>>
                                     ELSE Finish("aborted")
            /\ UNCHANGED <<tree, row, at, order, refs, live, todo, loop>>
      BY <2>16, Zenon DEF CleanupRaises
    <3>2. CASE phase = "rollback"
      BY <3>1, <3>2 DEF TypeOK, OrderInv
    <3>3. CASE phase # "rollback"
      <4>1. phase = "unload" /\ order # <<>>
        BY <3>1, <3>3 DEF OrderInv
      <4> QED BY <3>1, <4>1 DEF Finish, TypeOK, OrderInv
    <3> QED BY <3>2, <3>3
  <2>17. CASE Unload
    <3>1. Last(order) \in Plugins
      BY <2>17, LastElement DEF Unload
    <3>2. refs' \in [Plugins -> Seq(Refs)] /\ todo' \in Seq(Refs)
      BY <2>17, <3>1, EmptySeq, ReverseElements DEF Unload, TypeOK
    <3> QED BY <2>17, <3>2 DEF Unload, TypeOK, OrderInv
  <2>18. CASE Unloaded
    <3>1. order # <<>>
      BY <2>18 DEF Unloaded, OrderInv
    <3>2. /\ order' \in Seq(Plugins) /\ Len(order') = Len(order) - 1
          /\ \A i \in 1 .. Len(order) - 1 : order'[i] = order[i]
          /\ IsInjective(order')
      BY <2>18, <3>1, LastElement DEF Unloaded
    <3>3. TypeOK'
      BY <2>18, <3>2 DEF Unloaded, TypeOK
    <3>4. Len(order') <= Len(tree')
      BY <2>0, <2>18, <3>2 DEF Unloaded, OrderInv
    <3>5. ASSUME NEW i \in 1 .. Len(order') PROVE order'[i] = tree'[i]
      <4>1. i \in 1 .. Len(order) - 1 /\ i \in 1 .. Len(order)
        BY <2>0, <3>2
      <4> QED BY <2>18, <3>2, <4>1 DEF Unloaded, OrderInv
    <3> QED BY <2>18, <3>3, <3>4, <3>5 DEF Unloaded, OrderInv
  <2> QED BY <2>1, <2>2, <2>3, <2>4, <2>5, <2>6, <2>7, <2>8, <2>9, <2>10, <2>11,
             <2>12, <2>13, <2>14, <2>15, <2>16, <2>17, <2>18
          DEF Next, Load, Reversal, Dispose
<1> QED BY <1>1, <1>2, PTL DEF Spec

\* Types; in particular no plugin is mounted twice, whatever the tree says.
THEOREM HarnessType == Spec => []TypeOK
  BY OrderHolds, PTL

-----------------------------------------------------------------------------
(* What is registered, at each stage of each plugin.                       *)

Registers(p) == {r \in Refs : r[1] = p /\ Kind(r) # "inject"}

Below(p, n) == {r \in Registers(p) : r[2] < n}

\* The plugin whose registrations are being reversed.
Current == IF phase = "unload" THEN Last(order) ELSE tree[row]

\* The plugin in the order that is not whole, if there is one.
InFlux ==
  IF phase = "apply" \/ phase = "unload" \/ result \in {"cancelled", "aborted"}
    THEN {Last(order)} ELSE {}

Ascending(q) == \A i, k \in DOMAIN q : i < k => q[i][2] < q[k][2]
Descending(q) == \A i, k \in DOMAIN q : i < k => q[k][2] < q[i][2]

LiveInv ==
  /\ \A r \in live : /\ Kind(r) # "inject"
                     /\ \/ r[1] \in ToSet(order)
                        \/ phase = "rollback" /\ r[1] = tree[row]
  /\ \A p \in ToSet(order) \ InFlux : Registers(p) \subseteq live
  /\ phase = "apply" => \A r \in Registers(tree[row]) : r \in live <=> r[2] < at
  /\ phase \in {"rollback", "unload"} =>
       \A r \in Registers(Current) : r \in live <=> r \in ToSet(todo)

\* What the harness remembers of a plugin, in the order of registration.
RefsInv ==
  phase # "end" =>
    \A p \in ToSet(order) :
      \/ phase = "unload" /\ p = Last(order)
      \/ /\ Ascending(refs[p])
         /\ ToSet(refs[p]) = IF phase = "apply" /\ p = tree[row]
                               THEN Below(p, at) ELSE Registers(p)

\* A reversal has come down to some step of apply(): what was registered
\* below is still to be reversed, and a cleanup being awaited is that step's.
TodoInv ==
  phase \in {"rollback", "unload"} =>
    /\ Descending(todo)
    /\ \E n \in Nat : /\ ToSet(todo) = Below(Current, n)
                      /\ \A c \in awaited : /\ c \in Registers(Current)
                                            /\ Kind(c) = "effect" /\ c[2] = n
                      /\ phase = "rollback" => n <= at

RegInv == LiveInv /\ RefsInv /\ TodoInv

LEMMA RefPair ==
  ASSUME NEW r \in Refs
  PROVE  /\ r = <<r[1], r[2]>> /\ r[1] \in Plugins
         /\ r[2] \in Nat \ {0} /\ r[2] <= Len(Steps[r[1]])
         /\ Len(Steps[r[1]]) \in Nat
  <1>1. PICK p \in Plugins : r \in {p} \X DOMAIN Steps[p]  BY DEF Refs
  <1>2. Steps[p] \in Seq([kind : Kinds, key : STRING])
    BY HarnessAssumption
  <1>3. DOMAIN Steps[p] = 1 .. Len(Steps[p]) /\ Len(Steps[p]) \in Nat
    BY <1>2, LenProperties
  <1> QED BY <1>1, <1>3

LEMMA BelowAll ==
  ASSUME NEW p \in Plugins, NEW n \in Nat, n > Len(Steps[p])
  PROVE  Below(p, n) = Registers(p)
  <1>1. ASSUME NEW r \in Registers(p) PROVE r[2] < n
    BY <1>1, RefPair DEF Registers
  <1> QED BY <1>1 DEF Below

LEMMA BelowNext ==
  ASSUME NEW p \in Plugins, NEW n \in Nat, <<p, n>> \in Refs
  PROVE  Below(p, n + 1) = IF Kind(<<p, n>>) = "inject" THEN Below(p, n)
                           ELSE Below(p, n) \cup {<<p, n>>}
  <1>1. ASSUME NEW r \in Registers(p), r[2] < n + 1
        PROVE  r[2] < n \/ r = <<p, n>>
    <2>1. r = <<p, r[2]>> /\ r[2] \in Nat  BY RefPair DEF Registers
    <2>2. CASE r[2] < n  BY <2>2
    <2>3. CASE r[2] = n  BY <2>1, <2>3
    <2> QED BY <1>1, <2>1, <2>2, <2>3
  <1>2. ASSUME NEW r \in Registers(p), r[2] < n PROVE r[2] < n + 1
    BY <1>2, RefPair DEF Registers
  <1>3. CASE Kind(<<p, n>>) = "inject"
    <2>1. \A r \in Registers(p) : r # <<p, n>>  BY <1>3 DEF Registers
    <2> QED BY <1>1, <1>2, <1>3, <2>1 DEF Below
  <1>4. CASE Kind(<<p, n>>) # "inject"
    <2>1. <<p, n>> \in Registers(p) /\ <<p, n>>[2] < n + 1
      BY <1>4 DEF Registers
    <2> QED BY <1>1, <1>2, <1>4, <2>1, Zenon DEF Below
  <1> QED BY <1>3, <1>4

LEMMA ReverseDescends ==
  ASSUME NEW q \in Seq(Refs), Ascending(q)
  PROVE  Descending(Reverse(q))
  <1>1. PICK n \in Nat : n = Len(q)  BY LenProperties
  <1>2. /\ DOMAIN q = 1 .. n /\ DOMAIN Reverse(q) = 1 .. n
        /\ \A i \in 1 .. n : Reverse(q)[i] = q[n - i + 1]
    BY <1>1, ReverseElements, LenProperties
  <1>3. ASSUME NEW i \in 1 .. n, NEW k \in 1 .. n, i < k
        PROVE  q[n - k + 1][2] < q[n - i + 1][2]
    <2>1. /\ n - k + 1 \in 1 .. n /\ n - i + 1 \in 1 .. n
          /\ n - k + 1 < n - i + 1
      BY <1>3
    <2> QED BY <1>2, <2>1 DEF Ascending
  <1> QED BY <1>2, <1>3 DEF Descending

\* The head of what is to be reversed lies above the rest.
LEMMA HeadOnTop ==
  ASSUME NEW q \in Seq(Refs), q # <<>>, Descending(q),
         NEW p, NEW n \in Nat, ToSet(q) = Below(p, n)
  PROVE  /\ Head(q) \in Registers(p) /\ Head(q)[2] \in Nat /\ Head(q)[2] < n
         /\ Descending(Tail(q)) /\ ToSet(Tail(q)) = Below(p, Head(q)[2])
         /\ Head(q) \notin ToSet(Tail(q))
  <1>1. /\ Head(q) = q[1] /\ Head(q) \in ToSet(q)
        /\ ToSet(q) = ToSet(Tail(q)) \cup {Head(q)}
        /\ \A x \in ToSet(Tail(q)) : \E i \in 2 .. Len(q) : x = q[i]
    BY TailSet
  <1>2. Head(q) \in Registers(p) /\ Head(q)[2] < n
    BY <1>1 DEF Below
  <1>3. Head(q)[2] \in Nat  BY <1>2, RefPair DEF Registers
  <1>4. DOMAIN q = 1 .. Len(q) /\ Len(q) \in Nat /\ 1 \in DOMAIN q
    BY LenProperties, EmptySeq
  <1>5. \A x \in ToSet(Tail(q)) : x[2] < Head(q)[2]
    BY <1>1, <1>4 DEF Descending
  <1>6. \A x \in Registers(p) : x[2] \in Nat  BY RefPair DEF Registers
  <1>7. Head(q) \notin ToSet(Tail(q))  BY <1>3, <1>5
  <1>8. ASSUME NEW x \in Below(p, Head(q)[2]) PROVE x \in ToSet(Tail(q))
    <2>1. x \in Registers(p) /\ x[2] < Head(q)[2]  BY DEF Below
    <2>2. x[2] < n /\ x # Head(q)  BY <1>2, <1>3, <1>6, <2>1
    <2> QED BY <1>1, <2>1, <2>2 DEF Below
  <1>9. ASSUME NEW x \in ToSet(Tail(q)) PROVE x \in Below(p, Head(q)[2])
    BY <1>1, <1>5 DEF Below
  <1>10. Descending(Tail(q))
    <2>1. /\ DOMAIN Tail(q) = 1 .. Len(q) - 1
          /\ \A i \in DOMAIN Tail(q) : Tail(q)[i] = q[i + 1]
      BY HeadTailProperties, LenProperties
    <2>2. ASSUME NEW i \in DOMAIN Tail(q), NEW k \in DOMAIN Tail(q), i < k
          PROVE  Tail(q)[k][2] < Tail(q)[i][2]
      <3>1. i + 1 \in DOMAIN q /\ k + 1 \in DOMAIN q /\ i + 1 < k + 1
        BY <1>4, <2>1, <2>2
      <3> QED BY <2>1, <3>1 DEF Descending
    <2> QED BY <2>2 DEF Descending
  <1> QED BY <1>2, <1>3, <1>7, <1>8, <1>9, <1>10
LEMMA RegHolds == Spec => []RegInv
<1> USE HarnessAssumption
<1>1. Init => RegInv
  BY EmptySet DEF Init, RegInv, LiveInv, RefsInv, TodoInv
<1>2. TypeOK /\ OrderInv /\ RegInv /\ [Next]_vars => RegInv'
  <2> SUFFICES ASSUME TypeOK, OrderInv, RegInv, [Next]_vars PROVE RegInv'
    OBVIOUS
  <2>0. /\ LiveInv /\ RefsInv /\ TodoInv
        /\ tree \in Seq(Plugins) /\ order \in Seq(Plugins)
        /\ refs \in [Plugins -> Seq(Refs)] /\ todo \in Seq(Refs)
        /\ at \in Nat \ {0} /\ ToSet(order) \subseteq Plugins
    <3>1. ToSet(order) \subseteq Plugins
      BY LenProperties DEF TypeOK, ToSet
    <3> QED BY <3>1 DEF RegInv, TypeOK
  \* Steps that leave the registrations alone.
  <2>1. ASSUME UNCHANGED <<tree, row, at, order, refs, live, todo>>,
               UNCHANGED <<phase, result>>, awaited' \subseteq awaited
        PROVE  RegInv'
    <3>1. InFlux' = InFlux /\ Current' = Current
      BY <2>1 DEF InFlux, Current
    <3>2. LiveInv'
      BY <2>0, <2>1, <3>1 DEF LiveInv
    <3>3. RefsInv'
      BY <2>0, <2>1 DEF RefsInv
    <3>4. TodoInv'
      BY <2>0, <2>1, <3>1 DEF TodoInv
    <3> QED BY <3>2, <3>3, <3>4 DEF RegInv
  <2>2. CASE UNCHANGED vars \/ LoopWakes \/ LoopPrunes
    BY <2>1, <2>2 DEF vars, LoopWakes, LoopPrunes
  \* Steps that end a stage in which no plugin is in flux.
  <2>3. ASSUME UNCHANGED <<tree, row, at, order, refs, live, todo, awaited>>,
               phase \in {"load", "serve", "dispose"},
               phase' \in {"load", "serve", "dispose", "end"},
               result' \in {result, "refused", "disposed"}
        PROVE  RegInv'
    <3>1. result = "none"
      BY <2>3 DEF OrderInv
    <3>2. InFlux' = {} /\ InFlux = {}
      BY <2>3, <3>1 DEF InFlux
    <3>3. LiveInv'
      BY <2>0, <2>3, <3>2 DEF LiveInv
    <3>4. RefsInv'
      BY <2>0, <2>3 DEF RefsInv
    <3>5. TodoInv'
      BY <2>3 DEF TodoInv
    <3> QED BY <3>3, <3>4, <3>5 DEF RegInv
  <2>4. CASE RowRefused \/ Loaded \/ ShutDown \/ Disposed
    BY <2>3, <2>4 DEF RowRefused, Loaded, ShutDown, Disposed, Finish
  <2>5. CASE ApplyCancelled
    <3>1. phase = "apply" /\ phase' = "end" /\ result' = "cancelled"
          /\ UNCHANGED <<tree, row, at, order, refs, live, todo, awaited>>
      BY <2>5 DEF ApplyCancelled, Applying, Finish
    <3>2. InFlux' = InFlux
      BY <3>1 DEF InFlux
    <3> QED BY <2>0, <3>1, <3>2 DEF RegInv, LiveInv, RefsInv, TodoInv
  <2>6. CASE RolledBack
    <3>1. phase = "rollback" /\ phase' = "end" /\ result' = "refused"
          /\ todo = <<>>
          /\ UNCHANGED <<tree, row, at, order, refs, live, todo, awaited>>
      BY <2>6 DEF RolledBack, Finish
    <3>2. InFlux' = {}
      BY <3>1 DEF InFlux
    <3>3. InFlux = {}
      BY <3>1 DEF InFlux, OrderInv
    <3>4. ASSUME NEW r \in live PROVE r[1] # tree[row]
      <4>1. r \in Refs /\ Kind(r) # "inject" /\ r \notin ToSet(todo)
        BY <2>0, <3>1, EmptySet DEF LiveInv, TypeOK
      <4> QED BY <2>0, <3>1, <4>1 DEF LiveInv, Registers, Current
    <3> QED BY <2>0, <3>1, <3>2, <3>3, <3>4
            DEF RegInv, LiveInv, RefsInv, TodoInv
  <2>7. CASE Mount
    <3>1. CASE tree[row] \in ToSet(order)
      BY <2>3, <2>7, <3>1 DEF Mount, Finish
    <3>2. CASE tree[row] \notin ToSet(order)
      <4> DEFINE p == tree[row]
      <4>1. /\ phase = "load" /\ phase' = "apply" /\ at' = 1 /\ result = "none"
            /\ order' = Append(order, p) /\ row <= Len(tree)
            /\ refs' = [refs EXCEPT ![p] = <<>>]
            /\ UNCHANGED <<tree, row, live, todo, awaited, cleaned, result>>
        BY <2>7, <3>2 DEF Mount, OrderInv
      <4>2. p \in Plugins
        BY <2>0, <4>1, ElementOfSeq DEF TypeOK
      <4>3. ToSet(order') = ToSet(order) \cup {p}
        BY <2>0, <4>1, <4>2, AppendSet
      <4>4. Last(order') = p
        BY <2>0, <4>1, <4>2, AppendProperties DEF Last
      <4>5. InFlux = {} /\ InFlux' = {p}
        BY <4>1, <4>4 DEF InFlux
      <4>6. \A r \in Registers(p) : r \notin live /\ ~(r[2] < 1)
        <5>1. \A r \in Registers(p) : r[2] \in Nat \ {0} /\ r[1] = p
          BY RefPair DEF Registers
        <5>2. \A r \in live : r[1] \in ToSet(order)
          BY <2>0, <4>1 DEF LiveInv
        <5>3. p \notin ToSet(order)  BY <3>2
        <5> HIDE DEF p
        <5> QED BY <5>1, <5>2, <5>3
      <4>7. LiveInv'
        BY <2>0, <3>2, <4>1, <4>3, <4>5, <4>6 DEF LiveInv
      <4>8. RefsInv'
        <5>1. ASSUME NEW q \in ToSet(order)
              PROVE  Ascending(refs'[q]) /\ ToSet(refs'[q]) = Registers(q)
                     /\ q # p
          <6>1. q # p /\ refs'[q] = refs[q]
            BY <2>0, <3>2, <4>1, <5>1
          <6> QED BY <2>0, <4>1, <6>1 DEF RefsInv
        <5>2. refs'[p] = <<>>
          BY <2>0, <4>1, <4>2
        <5>3. Ascending(<<>>)
          BY EmptySeq DEF Ascending
        <5>4. Below(p, 1) = {}
          BY <4>6 DEF Below
        <5> QED BY <4>1, <4>3, <5>1, <5>2, <5>3, <5>4, EmptySet DEF RefsInv
      <4>9. TodoInv'
        BY <4>1 DEF TodoInv
      <4> QED BY <4>7, <4>8, <4>9 DEF RegInv
    <3> QED BY <3>1, <3>2
  <2>8. CASE ApplyStep
    <3> DEFINE p == tree[row]
               r == <<p, at>>
    <3>1. /\ phase = "apply" /\ Applying /\ at' = at + 1 /\ r \in Refs
          /\ UNCHANGED <<phase, tree, row, order, todo, awaited, result>>
      BY <2>8, StepRef DEF ApplyStep, Applying
    <3>2. p \in Plugins /\ p \in ToSet(order) /\ p = Last(order)
      BY <3>1, ApplyingIsLast
    <3>3. InFlux = {p} /\ InFlux' = {p}
      BY <3>1, <3>2 DEF InFlux
    <3>4. /\ Ascending(refs[p]) /\ ToSet(refs[p]) = Below(p, at)
          /\ refs[p] \in Seq(Refs)
      BY <2>0, <3>1, <3>2 DEF RefsInv
    <3>5. \A x \in Registers(p) : x[2] \in Nat
      BY RefPair DEF Registers
    <3>6. Below(p, at + 1) = IF Kind(r) = "inject" THEN Below(p, at)
                             ELSE Below(p, at) \cup {r}
      BY <2>0, <3>1, <3>2, BelowNext
    <3>7. /\ ToSet(refs'[p]) = Below(p, at + 1) /\ Ascending(refs'[p])
          /\ \A q \in Plugins \ {p} : refs'[q] = refs[q]
          /\ \A x \in live' : x \in live \/ (x = r /\ Kind(r) # "inject")
          /\ live \subseteq live' /\ (Kind(r) # "inject" => r \in live')
      <4>1. CASE Kind(r) = "inject"
        <5>1. UNCHANGED <<live, refs>>
          BY <2>8, <4>1 DEF ApplyStep
        <5>2. Below(p, at + 1) = Below(p, at)
          BY <3>6, <4>1
        <5>3. ToSet(refs'[p]) = Below(p, at + 1) /\ Ascending(refs'[p])
          BY <3>4, <5>1, <5>2, Zenon
        <5> HIDE DEF r, p
        <5> QED BY <4>1, <5>1, <5>3
      <4>2. CASE Kind(r) # "inject"
        <5> DEFINE q == Append(refs[p], r)
        <5>1. live' = live \cup {r} /\ refs' = [refs EXCEPT ![p] = q]
          BY <2>8, <4>2 DEF ApplyStep
        <5>2. refs'[p] = q /\ \A x \in Plugins \ {p} : refs'[x] = refs[x]
          BY <2>0, <3>2, <5>1
        <5>3. ToSet(q) = Below(p, at) \cup {r}
          BY <3>1, <3>4, AppendSet
        <5>4. Ascending(q)
          <6>1. /\ DOMAIN refs[p] = 1 .. Len(refs[p]) /\ Len(refs[p]) \in Nat
                /\ DOMAIN q = 1 .. Len(refs[p]) + 1
                /\ \A i \in 1 .. Len(refs[p]) : q[i] = refs[p][i]
                /\ q[Len(refs[p]) + 1] = r
            BY <3>1, <3>4, AppendProperties, LenProperties
          <6>2. \A i \in 1 .. Len(refs[p]) : refs[p][i][2] < at
            BY <3>4, <6>1 DEF ToSet, Below
          <6>3. r[2] = at
            OBVIOUS
          <6> HIDE DEF q, r, p
          <6>4. ASSUME NEW i \in DOMAIN q, NEW k \in DOMAIN q, i < k
                PROVE  q[i][2] < q[k][2]
            <7>1. i \in 1 .. Len(refs[p])
              BY <6>1, <6>4
            <7>2. CASE k \in 1 .. Len(refs[p])
              BY <3>4, <6>1, <6>4, <7>1, <7>2 DEF Ascending
            <7>3. CASE k = Len(refs[p]) + 1
              BY <6>1, <6>2, <6>3, <7>1, <7>3
            <7> QED BY <6>1, <6>4, <7>2, <7>3
          <6> QED BY <6>4 DEF Ascending
        <5> HIDE DEF q, r, p
        <5> QED BY <3>6, <4>2, <5>1, <5>2, <5>3, <5>4
      <4> QED BY <4>1, <4>2
    <3>8. LiveInv'
      <4>1. ASSUME NEW x \in live'
            PROVE  Kind(x) # "inject" /\ x[1] \in ToSet(order')
        <5>1. CASE x \in live
          BY <2>0, <3>1, <5>1 DEF LiveInv
        <5>2. CASE x = r /\ Kind(r) # "inject"
          BY <3>1, <3>2, <5>2
        <5> QED BY <3>7, <5>1, <5>2
      <4>2. ASSUME NEW q \in ToSet(order') \ InFlux' PROVE Registers(q) \subseteq live'
        <5>1. Registers(q) \subseteq live
          BY <2>0, <3>1, <3>3, <4>2, Zenon DEF LiveInv
        <5> QED BY <3>7, <5>1
      <4>3. ASSUME NEW x \in Registers(p)
            PROVE  x \in live' <=> x[2] < at + 1
        <5>1. x \in Below(p, at + 1) <=> x[2] < at + 1
          BY <4>3 DEF Below
        <5>2. x \in Below(p, at) <=> x \in live
          BY <2>0, <3>1, <4>3 DEF LiveInv, Below
        <5>3. Kind(x) # "inject"
          BY <4>3 DEF Registers
        <5> HIDE DEF r, p
        <5> QED BY <3>6, <3>7, <5>1, <5>2, <5>3
      <4> QED BY <3>1, <4>1, <4>2, <4>3 DEF LiveInv
    <3>9. RefsInv'
      <4>1. ASSUME NEW q \in ToSet(order), q # p
            PROVE  Ascending(refs'[q]) /\ ToSet(refs'[q]) = Registers(q)
        <5>1. refs'[q] = refs[q]
          BY <2>0, <3>7, <4>1
        <5> QED BY <2>0, <3>1, <4>1, <5>1 DEF RefsInv
      <4> QED BY <3>1, <3>7, <4>1 DEF RefsInv
    <3>10. TodoInv'
      BY <3>1 DEF TodoInv
    <3> QED BY <3>8, <3>9, <3>10 DEF RegInv
  <2>9. CASE ApplyReturns
    <3> DEFINE p == tree[row]
    <3>1. /\ phase = "apply" /\ ~Applying /\ phase' = "load" /\ result = "none"
          /\ UNCHANGED <<tree, at, order, refs, live, todo, awaited, result>>
      BY <2>9 DEF ApplyReturns, OrderInv
    <3>2. p \in Plugins /\ p \in ToSet(order) /\ p = Last(order)
      BY <3>1, ApplyingIsLast
    <3>3. Below(p, at) = Registers(p)
      <4>1. Steps[p] \in Seq([kind : Kinds, key : STRING])
        BY <3>2
      <4>2. at > Len(Steps[p])
        BY <2>0, <3>1, <4>1, LenProperties DEF Applying
      <4> QED BY <2>0, <3>2, <4>2, BelowAll
    <3>4. InFlux = {p} /\ InFlux' = {}
      BY <3>1, <3>2 DEF InFlux
    <3>5. Registers(p) \subseteq live
      BY <2>0, <3>1, <3>3 DEF LiveInv, Below
    <3>6. LiveInv'
      BY <2>0, <3>1, <3>4, <3>5 DEF LiveInv
    <3>7. RefsInv'
      BY <2>0, <3>1, <3>3 DEF RefsInv
    <3>8. TodoInv'
      BY <3>1 DEF TodoInv
    <3> QED BY <3>6, <3>7, <3>8 DEF RegInv
  <2>10. CASE ApplyRaises
    <3> DEFINE p == tree[row]
    <3>1. /\ phase = "apply" /\ phase' = "rollback" /\ result = "none"
          /\ order' = RemoveFirst(order, p) /\ todo' = Reverse(refs[p])
          /\ refs' = [refs EXCEPT ![p] = <<>>]
          /\ UNCHANGED <<tree, row, at, live, awaited, cleaned, result>>
      BY <2>10 DEF ApplyRaises, Applying, OrderInv
    <3>2. /\ order # <<>> /\ p = Last(order) /\ p \in Plugins
          /\ p \in ToSet(order) /\ order' = Front(order)
      BY <3>1, ApplyingIsLast
    <3>3. ToSet(order') = ToSet(order) \ {p}
      BY <3>2, LastElement
    <3>4. InFlux = {p} /\ InFlux' = {} /\ Current' = p
      BY <3>1, <3>2 DEF InFlux, Current
    <3>5. /\ Ascending(refs[p]) /\ ToSet(refs[p]) = Below(p, at)
          /\ refs[p] \in Seq(Refs)
      BY <2>0, <3>1, <3>2 DEF RefsInv
    <3>6. Descending(todo') /\ ToSet(todo') = Below(p, at)
      BY <3>1, <3>5, ReverseDescends, ReverseElements
    <3>7. LiveInv'
      BY <2>0, <3>1, <3>3, <3>4, <3>6 DEF LiveInv, Below
    <3>8. RefsInv'
      <4>1. ASSUME NEW q \in ToSet(order')
            PROVE  Ascending(refs'[q]) /\ ToSet(refs'[q]) = Registers(q)
        <5>1. q \in ToSet(order) /\ q # p /\ refs'[q] = refs[q]
          BY <2>0, <3>1, <3>3, <4>1
        <5> QED BY <2>0, <3>1, <5>1 DEF RefsInv
      <4> QED BY <3>1, <4>1 DEF RefsInv
    <3>9. TodoInv'
      <4>1. awaited' = {}
        BY <3>1 DEF OrderInv
      <4>2. at \in Nat /\ at <= at' /\ phase' = "rollback"
        BY <2>0, <3>1
      <4> QED BY <3>4, <3>6, <4>1, <4>2 DEF TodoInv
    <3> QED BY <3>7, <3>8, <3>9 DEF RegInv
  <2>11. CASE ReverseNext
    <3> DEFINE h == Head(todo)
    <3>1. /\ phase \in {"rollback", "unload"} /\ todo # <<>>
          /\ live' = live \ {h} /\ todo' = Tail(todo)
          /\ awaited' = IF Kind(h) = "effect" THEN {h} ELSE {}
          /\ UNCHANGED <<phase, tree, row, at, order, refs, result>>
      BY <2>11 DEF ReverseNext
    <3>2. Current' = Current /\ InFlux' = InFlux
      BY <3>1 DEF Current, InFlux
    <3>3. PICK n \in Nat : /\ ToSet(todo) = Below(Current, n)
                           /\ phase = "rollback" => n <= at
      BY <2>0, <3>1 DEF TodoInv
    <3>4. /\ h \in Registers(Current) /\ h[2] \in Nat /\ h[2] < n
          /\ Descending(todo') /\ ToSet(todo') = Below(Current, h[2])
          /\ h \notin ToSet(todo')
      <4>1. Descending(todo)
        BY <2>0, <3>1 DEF TodoInv
      <4> QED BY <2>0, <3>1, <3>3, <4>1, HeadOnTop
    <3>5. ToSet(todo) = ToSet(todo') \cup {h}
      BY <2>0, <3>1, TailSet
    <3> HIDE DEF h
    <3>6. h \in Refs /\ h[1] = Current
      BY <3>4 DEF Registers
    <3>7. phase = "rollback" => Current \notin ToSet(order)
      BY DEF Current, OrderInv
    <3>8. phase = "unload" => Current \in InFlux
      BY DEF Current, InFlux
    <3>9. LiveInv'
      <4>1. ASSUME NEW p \in ToSet(order') \ InFlux'
            PROVE  Registers(p) \subseteq live'
        <5>1. p # Current /\ Registers(p) \subseteq live
          BY <2>0, <3>1, <3>2, <3>7, <3>8, <4>1 DEF LiveInv
        <5> QED BY <3>1, <3>6, <5>1 DEF Registers
      <4>2. ASSUME NEW x \in Registers(Current)
            PROVE  x \in live' <=> x \in ToSet(todo')
        BY <2>0, <3>1, <3>4, <3>5, <4>2 DEF LiveInv
      <4> QED BY <2>0, <3>1, <3>2, <4>1, <4>2 DEF LiveInv
    <3>10. RefsInv'
      BY <2>0, <3>1 DEF RefsInv
    <3>11. TodoInv'
      <4>1. \A c \in awaited' : c = h /\ Kind(h) = "effect"
        BY <3>1
      <4>2. phase' = "rollback" => h[2] <= at'
        BY <2>0, <3>1, <3>3, <3>4
      <4> QED BY <3>2, <3>4, <4>1, <4>2 DEF TodoInv
    <3> QED BY <3>9, <3>10, <3>11 DEF RegInv
  <2>12. CASE CleanupEnds
    BY <2>1, <2>12 DEF CleanupEnds
  <2>13. CASE CleanupRaises
    <3>1. PICK r \in awaited :
            /\ awaited' = {}
            /\ IF phase = "rollback" THEN UNCHANGED <<phase, result>>
                                     ELSE Finish("aborted")
            /\ UNCHANGED <<tree, row, at, order, refs, live, todo, loop>>
      BY <2>13, Zenon DEF CleanupRaises
    <3>2. CASE phase = "rollback"
      BY <2>1, <3>1, <3>2
    <3>3. CASE phase # "rollback"
      <4>1. phase = "unload" /\ phase' = "end" /\ result' = "aborted"
        BY <3>1, <3>3 DEF Finish, OrderInv
      <4>2. InFlux' = InFlux
        BY <3>1, <4>1 DEF InFlux
      <4> QED BY <2>0, <3>1, <4>1, <4>2 DEF RegInv, LiveInv, RefsInv, TodoInv
    <3> QED BY <3>2, <3>3
  <2>14. CASE Unload
    <3> DEFINE p == Last(order)
    <3>1. /\ phase = "dispose" /\ phase' = "unload" /\ result = "none"
          /\ order # <<>> /\ todo' = Reverse(refs[p])
          /\ refs' = [refs EXCEPT ![p] = <<>>]
          /\ UNCHANGED <<tree, row, at, order, live, awaited, cleaned, result>>
      BY <2>14 DEF Unload, OrderInv
    <3>2. p \in Plugins /\ p \in ToSet(order)
      BY <3>1, LastElement
    <3>3. InFlux = {} /\ InFlux' = {p} /\ Current' = p
      BY <3>1 DEF InFlux, Current
    <3>4. /\ Ascending(refs[p]) /\ ToSet(refs[p]) = Registers(p)
          /\ refs[p] \in Seq(Refs)
      BY <2>0, <3>1, <3>2 DEF RefsInv
    <3>5. Descending(todo') /\ ToSet(todo') = Registers(p)
      BY <3>1, <3>4, ReverseDescends, ReverseElements
    <3>6. LiveInv'
      BY <2>0, <3>1, <3>2, <3>3, <3>5 DEF LiveInv
    <3>7. RefsInv'
      <4>1. ASSUME NEW q \in ToSet(order'), q # p
            PROVE  Ascending(refs'[q]) /\ ToSet(refs'[q]) = Registers(q)
        <5>1. q \in ToSet(order) /\ refs'[q] = refs[q]
          BY <2>0, <3>1, <4>1
        <5> QED BY <2>0, <3>1, <5>1 DEF RefsInv
      <4> QED BY <3>1, <4>1 DEF RefsInv
    <3>8. TodoInv'
      <4>1. awaited' = {}
        BY <3>1 DEF OrderInv
      <4>2. PICK n \in Nat : n > Len(Steps[p])
        <5>1. Steps[p] \in Seq([kind : Kinds, key : STRING])
          BY <3>2
        <5>2. Len(Steps[p]) + 1 \in Nat /\ Len(Steps[p]) + 1 > Len(Steps[p])
          BY <5>1, LenProperties
        <5> QED BY <5>2
      <4>3. ToSet(todo') = Below(p, n)
        BY <3>2, <3>5, <4>2, BelowAll
      <4> QED BY <3>1, <3>3, <3>5, <4>1, <4>3 DEF TodoInv
    <3> QED BY <3>6, <3>7, <3>8 DEF RegInv
  <2>15. CASE Unloaded
    <3> DEFINE p == Last(order)
    <3>1. /\ phase = "unload" /\ phase' = "dispose" /\ result = "none"
          /\ todo = <<>> /\ order' = Front(order) /\ order # <<>>
          /\ UNCHANGED <<tree, row, at, refs, live, todo, awaited, cleaned, result>>
      BY <2>15 DEF Unloaded, OrderInv
    <3>2. ToSet(order') = ToSet(order) \ {p}
      BY <3>1, LastElement
    <3>3. InFlux = {p} /\ InFlux' = {} /\ Current = p
      BY <3>1 DEF InFlux, Current
    <3>4. ASSUME NEW r \in live PROVE r[1] # p
      <4>1. r \in Refs /\ Kind(r) # "inject" /\ r \notin ToSet(todo)
        BY <2>0, <3>1, EmptySet DEF LiveInv, TypeOK
      <4> QED BY <2>0, <3>1, <3>3, <4>1 DEF LiveInv, Registers
    <3>5. LiveInv'
      BY <2>0, <3>1, <3>2, <3>3, <3>4 DEF LiveInv
    <3>6. RefsInv'
      BY <2>0, <3>1, <3>2 DEF RefsInv
    <3>7. TodoInv'
      BY <3>1 DEF TodoInv
    <3> QED BY <3>5, <3>6, <3>7 DEF RegInv
  <2> QED BY <2>2, <2>4, <2>5, <2>6, <2>7, <2>8, <2>9, <2>10, <2>11, <2>12,
             <2>13, <2>14, <2>15
          DEF Next, Load, Reversal, Dispose
<1> QED BY <1>1, <1>2, OrderHolds, PTL DEF Spec
-----------------------------------------------------------------------------
(* The cleanups.                                                           *)

\* Cleanups run for the plugin being reversed and for those that are gone;
\* once disposing has begun, they have run for all that are gone.
CleanInv ==
  /\ phase \in {"load", "apply", "serve"} => cleaned = {}
  /\ \A c \in awaited \cup cleaned :
       /\ Kind(c) = "effect" /\ c[1] \in ToSet(tree)
       /\ c[1] \in ToSet(order) =>
            c[1] = Last(order) /\ phase \in {"unload", "end"}
  /\ phase \in {"dispose", "unload"} \/ result \in {"disposed", "aborted"} =>
       \A r \in Refs :
         /\ Kind(r) = "effect"
         /\ r[1] \in ToSet(tree) /\ r[1] \notin ToSet(order)
         => r \in cleaned
  /\ phase = "unload" =>
       \A r \in Refs : Kind(r) = "effect" /\ r[1] = Last(order) =>
                         r \in ToSet(todo) \cup awaited \cup cleaned

LEMMA OrderInTree ==
  ASSUME TypeOK, OrderInv
  PROVE  /\ ToSet(order) \subseteq ToSet(tree)
         /\ Len(order) = Len(tree) => ToSet(order) = ToSet(tree)
         /\ row <= Len(tree) => tree[row] \in ToSet(tree)
  <1>1. /\ DOMAIN order = 1 .. Len(order) /\ DOMAIN tree = 1 .. Len(tree)
        /\ Len(order) \in Nat /\ Len(tree) \in Nat /\ row \in Nat \ {0}
    BY HarnessAssumption, LenProperties DEF TypeOK
  <1>2. \A i \in DOMAIN order : i \in DOMAIN tree /\ order[i] = tree[i]
    <2>1. Len(order) <= Len(tree) /\ \A i \in 1 .. Len(order) : order[i] = tree[i]
      BY DEF OrderInv
    <2> QED BY <1>1, <2>1
  <1>3. Len(order) = Len(tree) => DOMAIN order = DOMAIN tree
    BY <1>1
  <1>4. row <= Len(tree) => row \in DOMAIN tree
    BY <1>1
  <1> QED BY <1>2, <1>3, <1>4 DEF ToSet

LEMMA CleanHolds == Spec => []CleanInv
<1>1. Init => CleanInv
  BY DEF Init, CleanInv
<1>2. TypeOK /\ OrderInv /\ RegInv /\ CleanInv /\ [Next]_vars => CleanInv'
  <2> SUFFICES ASSUME TypeOK, OrderInv, RegInv, CleanInv, [Next]_vars
               PROVE  CleanInv'
    OBVIOUS
  <2>0. awaited \subseteq Refs /\ cleaned \subseteq Refs
        /\ ToSet(order) \subseteq ToSet(tree)
    BY OrderInTree DEF TypeOK
  <2>1. ASSUME UNCHANGED <<phase, tree, order, todo, awaited, cleaned, result>>
        PROVE  CleanInv'
    BY <2>1 DEF CleanInv
  <2>2. CASE UNCHANGED vars \/ LoopWakes \/ LoopPrunes \/ ApplyStep
    BY <2>1, <2>2 DEF vars, LoopWakes, LoopPrunes, ApplyStep
  <2>3. CASE RowRefused \/ ApplyCancelled \/ ApplyReturns
    BY <2>3 DEF RowRefused, ApplyCancelled, ApplyReturns, Applying, Finish,
                CleanInv, OrderInv
  <2>4. CASE RolledBack
    BY <2>4 DEF RolledBack, Finish, CleanInv, OrderInv
  <2>5. CASE Mount
    <3>1. phase = "load" /\ awaited = {} /\ cleaned = {} /\ result = "none"
          /\ UNCHANGED <<tree, todo, awaited, cleaned>>
          /\ phase' \in {"apply", "end"} /\ result' \in {"none", "refused"}
      BY <2>5 DEF Mount, Finish, CleanInv, OrderInv
    <3> QED BY <3>1 DEF CleanInv
  <2>6. CASE ApplyRaises
    <3>1. phase = "apply" /\ awaited = {} /\ cleaned = {} /\ result = "none"
          /\ UNCHANGED <<tree, awaited, cleaned, result>>
          /\ phase' = "rollback"
      BY <2>6 DEF ApplyRaises, Applying, CleanInv, OrderInv
    <3> QED BY <3>1 DEF CleanInv
  <2>7. CASE Loaded
    BY <2>7 DEF Loaded, CleanInv, OrderInv
  <2>8. CASE ShutDown
    <3>1. ToSet(order) = ToSet(tree) /\ phase = "serve"
      BY <2>8, OrderInTree DEF ShutDown, OrderInv
    <3> QED BY <2>8, <3>1 DEF ShutDown, CleanInv, OrderInv
  <2>9. CASE ReverseNext
    <3> DEFINE h == Head(todo)
    <3>1. /\ phase \in {"rollback", "unload"} /\ todo # <<>> /\ awaited = {}
          /\ todo' = Tail(todo) /\ todo \in Seq(Refs)
          /\ awaited' = IF Kind(h) = "effect" THEN {h} ELSE {}
          /\ UNCHANGED <<phase, tree, order, cleaned, result, row>>
      BY <2>9 DEF ReverseNext, TypeOK
    <3>2. h \in ToSet(todo) /\ ToSet(todo) = ToSet(todo') \cup {h}
      BY <3>1, TailSet
    <3>3. h \in Registers(Current)
      BY <3>1, <3>2 DEF RegInv, TodoInv, Below
    <3> HIDE DEF h
    <3>4. h \in Refs /\ h[1] = Current
      BY <3>3 DEF Registers
    <3>5. Current \in ToSet(tree)
      <4>1. CASE phase = "unload"
        <5>1. Last(order) \in ToSet(order)
          BY <4>1, LastElement DEF OrderInv
        <5> QED BY <2>0, <4>1, <5>1 DEF Current
      <4>2. CASE phase = "rollback"
        BY <4>2, OrderInTree DEF Current, OrderInv
      <4> QED BY <3>1, <4>1, <4>2
    <3>6. Current \in ToSet(order) => Current = Last(order) /\ phase = "unload"
      BY <3>1 DEF Current, OrderInv
    <3>7. ASSUME NEW c \in awaited'
          PROVE  /\ Kind(c) = "effect" /\ c[1] \in ToSet(tree)
                 /\ c[1] \in ToSet(order) =>
                      c[1] = Last(order) /\ phase = "unload"
      <4>1. c = h /\ Kind(h) = "effect"
        BY <3>1, <3>7
      <4> QED BY <3>4, <3>5, <3>6, <4>1
    <3>8. ASSUME phase = "unload", NEW r \in Refs, Kind(r) = "effect",
                 r[1] = Last(order)
          PROVE  r \in ToSet(todo') \cup awaited' \cup cleaned
      <4>1. r \in ToSet(todo') \cup {h} \cup cleaned
        BY <3>1, <3>2, <3>8 DEF CleanInv
      <4>2. r = h => r \in awaited'
        BY <3>1, <3>8
      <4> QED BY <4>1, <4>2
    <3> QED BY <3>1, <3>7, <3>8 DEF CleanInv
  <2>10. CASE CleanupEnds
    <3>1. PICK r \in awaited : /\ awaited' = {} /\ cleaned' = cleaned \cup {r}
                               /\ UNCHANGED <<phase, tree, order, todo, result>>
      BY <2>10 DEF CleanupEnds
    <3>2. awaited = {r} \/ \A c \in awaited : c = r
      <4>1. phase \in {"rollback", "unload"}
        BY <3>1 DEF OrderInv
      <4>2. \A c \in awaited : c \in Registers(Current) /\ c[2] = r[2]
        BY <3>1, <4>1 DEF RegInv, TodoInv
      <4>3. \A c \in awaited : c = <<c[1], c[2]>> /\ c[1] = Current
        BY <4>2, RefPair DEF Registers
      <4> QED BY <3>1, <4>2, <4>3
    <3>3. awaited \cup cleaned = awaited' \cup cleaned'
      BY <3>1, <3>2
    <3>4. phase \notin {"load", "apply", "serve"}
      BY <3>1 DEF OrderInv
    <3> QED BY <3>1, <3>3, <3>4 DEF CleanInv
  <2>11. CASE CleanupRaises
    <3>1. PICK r \in awaited :
            /\ awaited' = {} /\ cleaned' = cleaned \cup {r}
            /\ IF phase = "rollback" THEN UNCHANGED <<phase, result>>
                                     ELSE Finish("aborted")
            /\ UNCHANGED <<tree, row, at, order, refs, live, todo, loop>>
      BY <2>11, Zenon DEF CleanupRaises
    <3>2. phase \in {"rollback", "unload"} /\ awaited' \cup cleaned' \subseteq
            awaited \cup cleaned
      BY <3>1 DEF OrderInv
    <3>3. CASE phase = "rollback"
      <4>1. UNCHANGED <<phase, result>> /\ result = "none"
        BY <3>1, <3>3 DEF OrderInv
      <4> QED BY <3>1, <3>2, <3>3, <4>1 DEF CleanInv
    <3>4. CASE phase = "unload"
      <4>1. phase' = "end" /\ result' = "aborted"
        BY <3>1, <3>4 DEF Finish
      <4> QED BY <3>1, <3>2, <3>4, <4>1 DEF CleanInv
    <3> QED BY <3>2, <3>3, <3>4
  <2>12. CASE Unload
    <3> DEFINE p == Last(order)
    <3>1. /\ phase = "dispose" /\ phase' = "unload" /\ result = "none"
          /\ order # <<>> /\ todo' = Reverse(refs[p])
          /\ UNCHANGED <<tree, order, awaited, cleaned, result>>
      BY <2>12 DEF Unload, OrderInv
    <3>2. p \in Plugins /\ p \in ToSet(order) /\ refs[p] \in Seq(Refs)
      BY <3>1, LastElement DEF TypeOK
    <3>3. ToSet(todo') = Registers(p)
      <4>1. ToSet(refs[p]) = Registers(p)
        BY <3>1, <3>2 DEF RegInv, RefsInv
      <4> QED BY <3>1, <3>2, <4>1, ReverseElements
    <3>4. \A r \in Refs : Kind(r) = "effect" /\ r[1] = p => r \in Registers(p)
      BY DEF Registers
    <3> QED BY <3>1, <3>3, <3>4 DEF CleanInv
  <2>13. CASE Unloaded
    <3> DEFINE p == Last(order)
    <3>1. /\ phase = "unload" /\ phase' = "dispose" /\ result = "none"
          /\ todo = <<>> /\ awaited = {} /\ order' = Front(order)
          /\ order # <<>>
          /\ UNCHANGED <<tree, todo, awaited, cleaned, result>>
      BY <2>13 DEF Unloaded, OrderInv
    <3>2. ToSet(order') = ToSet(order) \ {p}
      BY <3>1, LastElement
    <3>3. \A r \in Refs : Kind(r) = "effect" /\ r[1] = p => r \in cleaned
      BY <3>1, EmptySet DEF CleanInv
    <3>4. \A c \in cleaned : c[1] \notin ToSet(order')
      BY <3>1, <3>2 DEF CleanInv
    <3> HIDE DEF p
    <3>5. ASSUME NEW r \in Refs, Kind(r) = "effect",
                 r[1] \in ToSet(tree), r[1] \notin ToSet(order')
          PROVE  r \in cleaned
      BY <3>1, <3>2, <3>3, <3>5 DEF CleanInv
    <3> QED BY <3>1, <3>4, <3>5 DEF CleanInv
  <2>14. CASE Disposed
    <3>1. /\ phase = "dispose" /\ order = <<>> /\ phase' = "end"
          /\ result' = "disposed" /\ awaited = {}
          /\ UNCHANGED <<tree, order, todo, awaited, cleaned>>
      BY <2>14 DEF Disposed, Finish, OrderInv
    <3> QED BY <3>1, EmptySet DEF CleanInv
  <2> QED BY <2>2, <2>3, <2>4, <2>5, <2>6, <2>7, <2>8, <2>9, <2>10, <2>11,
             <2>12, <2>13, <2>14
          DEF Next, Load, Reversal, Dispose
<1> QED BY <1>1, <1>2, OrderHolds, RegHolds, PTL DEF Spec

\* Nothing is half-mounted, for any plugins and trees: what is registered has
\* its plugin in the order, a refused start takes back all of the plugin that
\* failed and nothing else, disposing runs every cleanup, and a disposal given
\* up at a cleanup that raised has taken down all that was mounted after its
\* plugin, and nothing that was mounted before.
THEOREM NoHalfMounts == Spec => []NothingHalfMounted
<1>1. TypeOK /\ OrderInv /\ RegInv /\ CleanInv => NothingHalfMounted
  <2> SUFFICES ASSUME TypeOK, OrderInv, RegInv, CleanInv
               PROVE  NothingHalfMounted
    OBVIOUS
  <2>1. \A r \in live : r[1] \in ToSet(order) \cup
                          (IF phase = "rollback" THEN {tree[row]} ELSE {})
    BY DEF RegInv, LiveInv
  <2>2. ASSUME result = "refused"
        PROVE  /\ order = SubSeq(tree, 1, row - 1)
               /\ live = {r \in Refs : r[1] \in ToSet(order) /\ Kind(r) # "inject"}
    <3>0. /\ order \in Seq(Plugins) /\ tree \in Seq(Plugins) /\ row \in Nat \ {0}
          /\ Len(order) \in Nat /\ Len(tree) \in Nat
          /\ row - 1 \in Int /\ 1 \in Int
      BY HarnessAssumption, LenProperties DEF TypeOK
    <3>1. Len(order) = row - 1 /\ phase = "end"
          /\ \A i \in 1 .. row - 1 : order[i] = tree[i] /\ tree[i] \in Plugins
      <4>1. Len(order) = row - 1 /\ phase = "end"
        BY <2>2 DEF OrderInv
      <4>2. \A i \in 1 .. row - 1 : i \in 1 .. Len(order) /\ i \in 1 .. Len(tree)
        BY <3>0, <4>1 DEF OrderInv
      <4> QED BY <3>0, <4>1, <4>2, ElementOfSeq DEF OrderInv
    <3>2. order = SubSeq(tree, 1, row - 1)
      <4>1. row - 1 \in Nat
        BY <3>0
      <4>2. /\ SubSeq(tree, 1, row - 1) \in Seq(Plugins)
            /\ Len(SubSeq(tree, 1, row - 1)) = row - 1
            /\ \A i \in 1 .. row - 1 : SubSeq(tree, 1, row - 1)[i] = tree[i]
        BY <3>1, <4>1, PrefixElements
      <4> QED BY <3>0, <3>1, <4>2, SeqEqual
    <3>3. InFlux = {}
      BY <2>2, <3>1 DEF InFlux
    <3>4. ASSUME NEW r \in Refs, r[1] \in ToSet(order), Kind(r) # "inject"
          PROVE  r \in live
      <4>1. r \in Registers(r[1])
        BY <3>4 DEF Registers
      <4> QED BY <3>3, <3>4, <4>1 DEF RegInv, LiveInv
    <3>5. \A r \in live : r \in Refs /\ r[1] \in ToSet(order) /\ Kind(r) # "inject"
      BY <3>1 DEF RegInv, LiveInv, TypeOK
    <3> QED BY <3>2, <3>4, <3>5
  <2>3. ASSUME result = "disposed"
        PROVE  cleaned = {r \in Refs : r[1] \in ToSet(tree) /\ Kind(r) = "effect"}
    <3>1. ToSet(order) = {}
      BY <2>3, EmptySet DEF OrderInv
    <3> QED BY <2>3, <3>1 DEF CleanInv, TypeOK
  <2>4. ASSUME result = "aborted", NEW r \in Refs, Kind(r) # "inject"
        PROVE  /\ r[1] \in ToSet(Front(order)) => r \in live
               /\ r[1] \in ToSet(tree) \ ToSet(order) =>
                    r \notin live /\ (Kind(r) = "effect" => r \in cleaned)
    <3>1. order # <<>> /\ phase = "end" /\ InFlux = {Last(order)}
      BY <2>4 DEF OrderInv, InFlux
    <3>2. ToSet(Front(order)) = ToSet(order) \ InFlux
      BY <3>1, LastElement
    <3>3. r \in Registers(r[1])
      BY <2>4 DEF Registers
    <3>4. r[1] \in ToSet(Front(order)) => r \in live
      BY <3>2, <3>3 DEF RegInv, LiveInv
    <3>5. r[1] \notin ToSet(order) => r \notin live
      BY <3>1 DEF RegInv, LiveInv
    <3>6. r[1] \in ToSet(tree) \ ToSet(order) =>
            (Kind(r) = "effect" => r \in cleaned)
      BY <2>4 DEF CleanInv
    <3> QED BY <3>4, <3>5, <3>6
  <2> QED BY <2>1, <2>2, <2>3, <2>4 DEF NothingHalfMounted
<1> QED BY <1>1, OrderHolds, RegHolds, CleanHolds, PTL
-----------------------------------------------------------------------------
(* What a plugin injects, and who provides it.                             *)

\* Step r of the plugin in row j has been taken.  At the end the last plugin
\* may be there by half.
Reached(r, j) ==
  \/ j <= Len(order) /\ ~(phase \in {"apply", "end"} /\ j = Len(order))
  \/ phase \in {"apply", "rollback"} /\ j = row /\ r[2] < at

\* The plugin itself provides it in an earlier step, or one mounted before.
Provided(r, j) ==
  \E s \in Refs : /\ Kind(s) = "service" /\ Key(s) = Key(r)
                  /\ \/ s[1] = r[1] /\ s[2] < r[2]
                     \/ \E i \in 1 .. j - 1 : s[1] = tree[i]

ProvideInv ==
  \A r \in Refs : \A j \in 1 .. Len(tree) :
    Kind(r) = "inject" /\ tree[j] = r[1] /\ Reached(r, j) => Provided(r, j)

LEMMA ProvideHolds == Spec => []ProvideInv
<1>1. Init => ProvideInv
  <2> SUFFICES ASSUME Init PROVE ProvideInv
    OBVIOUS
  <2>1. Len(order) = 0 /\ phase = "load"
    BY EmptySeq DEF Init
  <2>2. \A r, j : j \in 1 .. Len(tree) => ~Reached(r, j)
    BY <2>1 DEF Reached
  <2> QED BY <2>2 DEF ProvideInv
<1>2. TypeOK /\ OrderInv /\ RegInv /\ ProvideInv /\ [Next]_vars => ProvideInv'
  <2> SUFFICES ASSUME TypeOK, OrderInv, RegInv, ProvideInv, [Next]_vars
               PROVE  ProvideInv'
    OBVIOUS
  <2>0. /\ order \in Seq(Plugins) /\ Len(order) \in Nat
        /\ tree \in Seq(Plugins) /\ Len(tree) \in Nat
        /\ row \in Nat \ {0} /\ at \in Nat \ {0}
    BY HarnessAssumption, LenProperties DEF TypeOK
  <2>1. tree' = tree
    BY DEF Next, Load, Reversal, Dispose, vars, RowRefused, Mount, ApplyStep,
           ApplyReturns, ApplyRaises, ApplyCancelled, RolledBack, Loaded,
           ReverseNext, CleanupEnds, CleanupRaises, ShutDown, Unload, Unloaded,
           Disposed, LoopWakes, LoopPrunes
  <2>2. \A r, j : Provided(r, j)' <=> Provided(r, j)
    BY <2>1 DEF Provided
  \* No step is reached that was not reached before.
  <2>3. ASSUME \A r \in Refs : \A j \in 1 .. Len(tree) :
                 tree[j] = r[1] /\ Reached(r, j)' => Reached(r, j)
        PROVE  ProvideInv'
    BY <2>1, <2>2, <2>3 DEF ProvideInv
  <2>4. ASSUME UNCHANGED <<row, at, order>>, phase' \in {phase, "end"}
        PROVE  ProvideInv'
    BY <2>3, <2>4 DEF Reached
  <2>5. CASE UNCHANGED vars \/ LoopWakes \/ LoopPrunes \/ RowRefused
             \/ ApplyCancelled \/ RolledBack \/ Reversal \/ Disposed
    BY <2>4, <2>5 DEF vars, LoopWakes, LoopPrunes, RowRefused, ApplyCancelled,
         RolledBack, Reversal, ReverseNext, CleanupEnds, CleanupRaises,
         Disposed, Finish
  <2>6. CASE Loaded \/ ShutDown \/ Unload
    <3>1. UNCHANGED <<row, at, order>> /\ phase \in {"load", "serve", "dispose"}
          /\ phase' \in {"serve", "dispose", "unload"}
      BY <2>6 DEF Loaded, ShutDown, Unload
    <3> QED BY <2>3, <3>1 DEF Reached
  <2>7. CASE Mount
    <3>1. CASE tree[row] \in ToSet(order)
      BY <2>4, <2>7, <3>1 DEF Mount, Finish
    <3>2. CASE tree[row] \notin ToSet(order)
      <4>1. /\ phase = "load" /\ phase' = "apply" /\ at' = 1 /\ row' = row
            /\ order' = Append(order, tree[row]) /\ row <= Len(tree)
        BY <2>7, <3>2 DEF Mount
      <4>2. Len(order') = Len(order) + 1
        BY <2>0, <4>1, ElementOfSeq, AppendProperties
      <4>3. ASSUME NEW r \in Refs, NEW j \in 1 .. Len(tree), Reached(r, j)'
            PROVE  Reached(r, j)
        <5>1. r[2] \in Nat \ {0}
          BY RefPair
        <5>2. ~(r[2] < at')
          BY <4>1, <5>1
        <5>3. j <= Len(order) + 1 /\ j # Len(order) + 1
          BY <4>1, <4>2, <4>3, <5>2 DEF Reached
        <5> QED BY <2>0, <4>1, <5>3 DEF Reached
      <4> QED BY <2>3, <4>3
    <3> QED BY <3>1, <3>2
  <2>8. CASE ApplyStep
    <3> DEFINE u == <<tree[row], at>>
    <3>1. /\ phase = "apply" /\ at' = at + 1 /\ u \in Refs
          /\ UNCHANGED <<phase, row, order>> /\ Len(order) = row
          /\ Kind(u) = "inject" => Registered(Key(u))
      BY <2>8, StepRef DEF ApplyStep, Applying, OrderInv
    <3>2. ASSUME Kind(u) = "inject" PROVE Provided(u, row)
      <4>1. PICK s \in live : Kind(s) = "service" /\ Key(s) = Key(u)
        BY <3>1, <3>2 DEF Registered
      <4>2. s \in Refs /\ s[1] \in ToSet(order)
        BY <3>1 DEF TypeOK, RegInv, LiveInv
      <4>3. PICK i \in 1 .. row : s[1] = order[i]
        BY <2>0, <3>1, <4>2, LenProperties DEF ToSet
      <4>4. s[1] = tree[i]
        BY <3>1, <4>3 DEF OrderInv
      <4>5. CASE i = row
        <5>1. s \in Registers(tree[row])
          BY <4>1, <4>2, <4>4, <4>5 DEF Registers
        <5>2. s[2] < at
          BY <3>1, <5>1 DEF RegInv, LiveInv
        <5> QED BY <4>1, <4>2, <4>4, <4>5, <5>2 DEF Provided
      <4>6. CASE i # row
        <5>1. i \in 1 .. row - 1
          BY <2>0, <4>6
        <5> QED BY <4>1, <4>2, <4>4, <5>1 DEF Provided
      <4> QED BY <4>5, <4>6
    <3>3. ASSUME NEW r \in Refs, NEW j \in 1 .. Len(tree), Kind(r) = "inject",
                 tree[j] = r[1], Reached(r, j)'
          PROVE  Provided(r, j)
      <4>1. r = <<r[1], r[2]>> /\ r[2] \in Nat
        BY RefPair
      <4>2. CASE Reached(r, j)
        BY <3>3, <4>2 DEF ProvideInv
      <4>3. CASE ~Reached(r, j)
        <5>1. j = row /\ r[2] < at + 1 /\ ~(r[2] < at)
          BY <3>1, <3>3, <4>3 DEF Reached
        <5>2. r[2] = at
          BY <2>0, <4>1, <5>1
        <5>3. r = u
          BY <3>3, <4>1, <5>1, <5>2
        <5> HIDE DEF u
        <5> QED BY <3>2, <3>3, <5>1, <5>3
      <4> QED BY <4>2, <4>3
    <3> QED BY <2>1, <2>2, <3>3 DEF ProvideInv
  <2>9. CASE ApplyReturns
    <3>1. /\ phase = "apply" /\ ~Applying /\ phase' = "load"
          /\ UNCHANGED <<at, order>> /\ Len(order) = row
      BY <2>9 DEF ApplyReturns, OrderInv
    <3>2. Len(Steps[tree[row]]) \in Nat
      <4>1. Steps[tree[row]] \in Seq([kind : Kinds, key : STRING])
        BY <3>1, ApplyingIsLast, HarnessAssumption
      <4> QED BY <4>1, LenProperties
    <3>3. at > Len(Steps[tree[row]])
      BY <2>0, <3>1, <3>2 DEF Applying
    <3>4. ASSUME NEW r \in Refs, NEW j \in 1 .. Len(tree), tree[j] = r[1],
                 Reached(r, j)'
          PROVE  Reached(r, j)
      <4>1. j <= Len(order)
        BY <3>1, <3>4 DEF Reached
      <4>2. CASE j = row
        <5>1. r[2] \in Nat /\ r[2] <= Len(Steps[tree[row]])
          BY <3>4, <4>2, RefPair
        <5>2. r[2] < at
          BY <2>0, <3>2, <3>3, <5>1
        <5> QED BY <3>1, <4>2, <5>2 DEF Reached
      <4>3. CASE j # row
        BY <3>1, <4>1, <4>3 DEF Reached
      <4> QED BY <4>2, <4>3
    <3> QED BY <2>3, <3>4
  <2>10. CASE ApplyRaises \/ Unloaded
    <3>1. /\ order # <<>> /\ order' = Front(order) /\ UNCHANGED <<row, at>>
          /\ \/ phase = "apply" /\ phase' = "rollback"
             \/ phase = "unload" /\ phase' = "dispose"
      BY <2>10, ApplyingIsLast
         DEF ApplyRaises, Unloaded, Applying, OrderInv
    <3>2. Len(order') = Len(order) - 1
      BY <3>1, LastElement
    <3>3. ASSUME NEW r \in Refs, NEW j \in 1 .. Len(tree), Reached(r, j)'
          PROVE  Reached(r, j)
      BY <2>0, <3>1, <3>2, <3>3 DEF Reached
    <3> QED BY <2>3, <3>3
  <2> QED BY <2>5, <2>6, <2>7, <2>8, <2>9, <2>10 DEF Next, Load, Dispose
<1> QED BY <1>1, <1>2, OrderHolds, RegHolds, PTL DEF Spec

\* A service outlives its users, for any plugins and trees: because a plugin
\* is mounted after those whose services it injects and unloaded before them.
THEOREM ServicesOutlive == Spec => []ServicesOutliveUsers
<1>1. TypeOK /\ OrderInv /\ RegInv /\ CleanInv /\ ProvideInv
        => ServicesOutliveUsers
  <2> SUFFICES ASSUME TypeOK, OrderInv, RegInv, CleanInv, ProvideInv,
                      NEW r \in Refs, Uses(r)
               PROVE  \E s \in live :
                        /\ Kind(s) = "service" /\ Key(s) = Key(r)
                        /\ \/ s[1] = r[1]
                           \/ \A c \in awaited \cup cleaned : c[1] # s[1]
    BY DEF ServicesOutliveUsers
  <2>0. /\ order \in Seq(Plugins) /\ Len(order) \in Nat
        /\ DOMAIN order = 1 .. Len(order)
        /\ tree \in Seq(Plugins) /\ Len(tree) \in Nat
        /\ row \in Nat \ {0} /\ at \in Nat \ {0}
        /\ \A i \in 1 .. Len(order) : order[i] = tree[i] /\ i \in 1 .. Len(tree)
    <3>1. /\ order \in Seq(Plugins) /\ Len(order) \in Nat
          /\ DOMAIN order = 1 .. Len(order)
          /\ tree \in Seq(Plugins) /\ Len(tree) \in Nat
          /\ row \in Nat \ {0} /\ at \in Nat \ {0}
      BY HarnessAssumption, LenProperties DEF TypeOK
    <3>2. Len(order) <= Len(tree)
          /\ \A i \in 1 .. Len(order) : order[i] = tree[i]
      BY DEF OrderInv
    <3> QED BY <3>1, <3>2
  <2>4. Len(order) \in Nat /\ Len(tree) \in Nat /\ row \in Nat \ {0}
        /\ at \in Nat \ {0} /\ order \in Seq(Plugins)
    BY <2>0
  \* A plugin in the order other than the last: its services are live, and no
  \* cleanup of it has begun.
  <2>1. ASSUME NEW i \in 1 .. Len(order), i # Len(order), NEW s \in Refs,
               s[1] = tree[i], Kind(s) = "service"
        PROVE  s \in live /\ \A c \in awaited \cup cleaned : c[1] # s[1]
    <3>1. order # <<>>
      BY <2>1, <2>4, EmptySeq
    <3>2. i \in 1 .. Len(order) - 1
      BY <2>1, <2>4
    <3>3. s[1] \in ToSet(order) /\ s[1] # Last(order)
      BY <2>0, <2>1, <3>1, <3>2, LastElement DEF ToSet
    <3>4. s \in Registers(s[1]) /\ s[1] \notin InFlux
      BY <2>1, <3>3 DEF Registers, InFlux
    <3>5. s \in live
      BY <3>3, <3>4 DEF RegInv, LiveInv
    <3> QED BY <3>3, <3>5 DEF CleanInv
  <2>2. CASE \E c \in awaited : c[1] = r[1] /\ r[2] < c[2]
    <3>1. PICK c \in awaited : c[1] = r[1] /\ r[2] < c[2]
      BY <2>2
    <3>2. phase \in {"rollback", "unload"}
      BY <3>1 DEF OrderInv
    <3>3. PICK n \in Nat : /\ ToSet(todo) = Below(Current, n)
                           /\ c \in Registers(Current) /\ c[2] = n
                           /\ phase = "rollback" => n <= at
      BY <3>1, <3>2 DEF RegInv, TodoInv
    <3>4. r[1] = Current /\ r[2] \in Nat /\ r[2] < n
      BY <3>1, <3>3, RefPair DEF Registers
    <3>5. PICK j \in 1 .. Len(tree) : /\ tree[j] = r[1] /\ Reached(r, j)
                                      /\ j - 1 <= Len(order)
                                      /\ phase = "unload" => j = Len(order)
      <4>1. CASE phase = "unload"
        <5>1. order # <<>>
          BY <4>1 DEF OrderInv
        <5>2. Len(order) \in 1 .. Len(order) /\ Last(order) = order[Len(order)]
          BY <2>0, <5>1, LastElement
        <5>3. tree[Len(order)] = r[1] /\ Len(order) \in 1 .. Len(tree)
          BY <2>0, <3>4, <4>1, <5>2 DEF Current
        <5>4. Reached(r, Len(order))
          BY <2>0, <4>1 DEF Reached
        <5>5. Len(order) - 1 <= Len(order)
          BY <2>4
        <5> QED BY <4>1, <5>3, <5>4, <5>5
      <4>2. CASE phase = "rollback"
        <5>1. row \in 1 .. Len(tree) /\ tree[row] = r[1]
              /\ Len(order) = row - 1
          BY <2>0, <3>4, <4>2 DEF Current, OrderInv
        <5>2. r[2] < at
          BY <2>0, <3>3, <3>4, <4>2
        <5>3. Reached(r, row)
          BY <4>2, <5>2 DEF Reached
        <5> QED BY <2>0, <4>2, <5>1, <5>3
      <4> QED BY <3>2, <4>1, <4>2
    <3>6. Kind(r) = "inject"
      BY DEF Uses
    <3>7. PICK s \in Refs : /\ Kind(s) = "service" /\ Key(s) = Key(r)
                            /\ \/ s[1] = r[1] /\ s[2] < r[2]
                               \/ \E i \in 1 .. j - 1 : s[1] = tree[i]
      BY <3>5, <3>6 DEF ProvideInv, Provided
    <3>8. CASE s[1] = r[1] /\ s[2] < r[2]
      <4>1. s \in Registers(Current) /\ s[2] \in Nat
        BY <3>4, <3>7, <3>8, RefPair DEF Registers
      <4>2. s \in ToSet(todo)
        BY <3>3, <3>4, <3>8, <4>1 DEF Below
      <4>3. s \in live
        BY <3>2, <4>1, <4>2 DEF RegInv, LiveInv
      <4> QED BY <3>7, <3>8, <4>3
    \* In a rollback every plugin in the order is whole, the last one too.
    <3>9. CASE \E i \in 1 .. j - 1 : s[1] = tree[i]
      <4>1. PICK i \in 1 .. j - 1 : s[1] = tree[i]
        BY <3>9
      <4>2. CASE phase = "unload"
        <5>1. i \in 1 .. Len(order) /\ i # Len(order)
          BY <2>0, <3>5, <4>1, <4>2
        <5> QED BY <2>1, <3>7, <4>1, <5>1
      <4>3. CASE phase = "rollback"
        <5>1. i \in 1 .. Len(order)
          BY <2>4, <3>5, <4>1
        <5>2. s[1] \in ToSet(order) /\ InFlux = {}
          BY <2>0, <4>1, <4>3, <5>1 DEF ToSet, InFlux, OrderInv
        <5>3. s \in Registers(s[1])
          BY <3>7 DEF Registers
        <5>4. s \in live
          BY <5>2, <5>3 DEF RegInv, LiveInv
        <5>5. \A d \in awaited \cup cleaned : d[1] # s[1]
          BY <4>3, <5>2 DEF CleanInv
        <5> QED BY <3>7, <5>4, <5>5
      <4> QED BY <3>2, <4>2, <4>3
    <3> QED BY <3>7, <3>8, <3>9
  <2>3. CASE ~\E c \in awaited : c[1] = r[1] /\ r[2] < c[2]
    <3>1. /\ Kind(r) = "inject" /\ r[1] \in ToSet(order)
          /\ ~(phase = "apply" /\ r[1] = tree[row] /\ at <= r[2])
          /\ ~(phase \in {"unload", "end"} /\ r[1] = Last(order))
      BY <2>3 DEF Uses
    <3>2. PICK j \in 1 .. Len(order) : order[j] = r[1]
      BY <2>0, <3>1 DEF ToSet
    <3>3. j \in 1 .. Len(tree) /\ tree[j] = r[1] /\ order # <<>>
      BY <2>0, <3>2, EmptySeq
    <3>4. j = Len(order) => r[1] = Last(order)
      BY <3>2 DEF Last
    <3>5. phase = "apply" => Len(order) = row
      BY DEF OrderInv
    <3>6. phase = "apply" /\ j = row => r[2] < at
      BY <2>0, <3>1, <3>3, RefPair
    <3>7. Reached(r, j)
      BY <2>4, <3>1, <3>2, <3>4, <3>5, <3>6 DEF Reached
    <3>8. PICK s \in Refs : /\ Kind(s) = "service" /\ Key(s) = Key(r)
                            /\ \/ s[1] = r[1] /\ s[2] < r[2]
                               \/ \E i \in 1 .. j - 1 : s[1] = tree[i]
      BY <3>1, <3>3, <3>7 DEF ProvideInv, Provided
    <3>9. CASE s[1] = r[1] /\ s[2] < r[2]
      <4>1. s \in Registers(r[1]) /\ s[2] \in Nat
        BY <3>8, <3>9, RefPair DEF Registers
      <4>2. CASE phase = "apply" /\ j = row
        <5>1. s[2] < at
          BY <2>0, <3>6, <3>9, <4>1, <4>2, RefPair
        <5>2. s \in live
          BY <3>3, <4>1, <4>2, <5>1 DEF RegInv, LiveInv
        <5> QED BY <3>8, <3>9, <5>2
      <4>3. CASE ~(phase = "apply" /\ j = row)
        <5>1. r[1] \notin InFlux
          <6>1. CASE phase = "apply"
            <7>1. j \in 1 .. Len(order) - 1
              BY <2>0, <3>2, <3>5, <4>3, <6>1
            <7> QED BY <3>2, <3>3, <7>1, LastElement DEF InFlux
          <6>2. CASE phase # "apply"
            BY <3>1, <6>2 DEF InFlux, OrderInv
          <6> QED BY <6>1, <6>2
        <5>2. s \in live
          BY <3>1, <4>1, <5>1 DEF RegInv, LiveInv
        <5> QED BY <3>8, <3>9, <5>2
      <4> QED BY <4>2, <4>3
    <3>10. CASE \E i \in 1 .. j - 1 : s[1] = tree[i]
      <4>1. PICK i \in 1 .. j - 1 : s[1] = tree[i]
        BY <3>10
      <4>2. i \in 1 .. Len(order) /\ i # Len(order)
        BY <2>4, <3>2, <4>1
      <4> QED BY <2>1, <3>8, <4>1, <4>2
    <3> QED BY <3>8, <3>9, <3>10
  <2> QED BY <2>2, <2>3
<1> QED BY <1>1, OrderHolds, RegHolds, CleanHolds, ProvideHolds, PTL
=============================================================================
