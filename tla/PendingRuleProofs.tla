------------------------- MODULE PendingRuleProofs -------------------------
(***************************************************************************)
(* Facts about the operators of PendingRule.  addPending saturates, so the *)
(* loops that sum quantities are reasoned about through Total, the size of *)
(* a finite set with one element for each share: SumPending is Total cut   *)
(* off at Top, whatever order the loop takes its terms in.                 *)
(***************************************************************************)
EXTENDS PendingRule, FiniteSetTheorems, TLAPS

----------------------------------------------------------------------------
(* Least and greatest elements *)

\* A non-empty set of subsets of a finite set has one that contains no other.
LEMMA LeastSubset ==
    ASSUME NEW S, IsFiniteSet(S), NEW T \in SUBSET (SUBSET S), T # {}
    PROVE  \E A \in T : \A B \in T : B \subseteq A => B = A
<1>1. IsWellFoundedOn(StrictSubsetOrdering(S), SUBSET S)
  BY FS_FiniteSubsetsOfFinite, FS_StrictSubsetOrderingWellFounded
<1>2. \E A \in T : \A B \in T : <<B, A>> \notin StrictSubsetOrdering(S)
  BY <1>1, WFMin
<1> QED BY <1>2 DEF StrictSubsetOrdering

\* A bounded non-empty set of integers has a greatest element, and Max is it.
LEMMA MaxFacts ==
    ASSUME NEW S \in SUBSET Int, S # {}, NEW n \in Int, \A x \in S : x <= n
    PROVE  Max(S) \in S /\ \A x \in S : x <= Max(S)
<1> DEFINE T == {k \in Nat : n - k \in S}
<1>1. T # {}
  <2>1. PICK x \in S : TRUE
    OBVIOUS
  <2>2. n - x \in Nat /\ n - (n - x) = x
    BY <2>1
  <2> QED BY <2>1, <2>2
<1>2. \E k \in T : \A j \in T : <<j, k>> \notin OpToRel(<, Nat)
  BY <1>1, WFMin, NatLessThanWellFounded
<1>3. PICK k \in T : \A j \in T : ~(j < k)
  BY <1>2 DEF OpToRel
<1>4. n - k \in S /\ \A x \in S : n - k >= x
  <2>1. ASSUME NEW x \in S PROVE n - k >= x
    <3>1. n - x \in Nat /\ n - (n - x) \in S
      BY <2>1
    <3>2. ~(n - x < k) /\ k \in Nat
      BY <1>3, <3>1
    <3> QED BY <3>1, <3>2
  <2> QED BY <1>3, <2>1
<1> QED BY <1>4 DEF Max

LEMMA MaxOfTwo ==
    ASSUME NEW a \in Int, NEW b \in Int
    PROVE  Max({a, b}) = IF a >= b THEN a ELSE b
  BY DEF Max

LEMMA MinOfTwo ==
    ASSUME NEW a \in Int, NEW b \in Int
    PROVE  Min({a, b}) = IF a <= b THEN a ELSE b
  BY DEF Min

----------------------------------------------------------------------------
(* Totals *)

\* One element for each share of w.
Units(w) == UNION {{x} \X (1..w[x]) : x \in DOMAIN w}

Total(w) == Cardinality(Units(w))

LEMMA UnitFacts ==
    ASSUME NEW D, NEW w \in [D -> Nat]
    PROVE  /\ \A u \in Units(w) : u = <<u[1], u[2]>> /\ u[1] \in D /\ u[2] \in 1..w[u[1]]
           /\ \A x \in D : \A k \in 1..w[x] : <<x, k>> \in Units(w)
<1>1. DOMAIN w = D /\ \A x \in D : w[x] \in Nat
  OBVIOUS
<1>2. ASSUME NEW u \in Units(w) PROVE u = <<u[1], u[2]>> /\ u[1] \in D /\ u[2] \in 1..w[u[1]]
  <2>1. PICK x \in D : u \in {x} \X (1..w[x])
    BY <1>1, <1>2 DEF Units
  <2> QED BY <2>1
<1>3. ASSUME NEW x \in D, NEW k \in 1..w[x] PROVE <<x, k>> \in Units(w)
  BY <1>1, <1>3 DEF Units
<1> QED BY <1>2, <1>3

LEMMA UnitsFinite ==
    ASSUME NEW D, IsFiniteSet(D), NEW w \in [D -> Nat]
    PROVE  IsFiniteSet(Units(w)) /\ Total(w) \in Nat
<1> DEFINE row == [x \in D |-> {x} \X (1..w[x])]
           rows == {row[x] : x \in D}
<1>1. row \in Surjection(D, rows)
  BY DEF Surjection
<1>2. IsFiniteSet(rows)
  BY <1>1, FS_Surjection
<1>3. ASSUME NEW r \in rows PROVE IsFiniteSet(r)
  <2>1. PICK x \in D : r = {x} \X (1..w[x])
    BY <1>3
  <2>2. IsFiniteSet({x}) /\ IsFiniteSet(1..w[x])
    <3>1. 1 \in Int /\ w[x] \in Int
      BY <2>1
    <3> QED BY <3>1, FS_Singleton, FS_Interval
  <2> QED BY <2>1, <2>2, FS_Product
<1>4. IsFiniteSet(UNION rows)
  BY <1>2, <1>3, FS_UNION
<1>5. Units(w) \subseteq UNION rows
  <2>1. ASSUME NEW u \in Units(w) PROVE u \in row[u[1]] /\ row[u[1]] \in rows
    <3>1. u = <<u[1], u[2]>> /\ u[1] \in D /\ u[2] \in 1..w[u[1]]
      BY UnitFacts
    <3> QED BY <3>1
  <2> QED BY <2>1
<1> QED BY <1>4, <1>5, FS_Subset, FS_CardinalityType DEF Total

LEMMA DisjointCardinality ==
    ASSUME NEW A, NEW B, NEW C, IsFiniteSet(A), IsFiniteSet(B), C = A \cup B, A \cap B = {}
    PROVE  Cardinality(C) = Cardinality(A) + Cardinality(B)
<1>1. Cardinality(A) \in Nat /\ Cardinality(B) \in Nat
  BY FS_CardinalityType
<1>2. Cardinality(A \cup B) = Cardinality(A) + Cardinality(B) - Cardinality(A \cap B)
  BY FS_Union
<1>3. Cardinality(A \cap B) = 0
  BY FS_EmptySet
<1> QED BY <1>1, <1>2, <1>3

\* One term apart from the others.
LEMMA TotalOfOneMore ==
    ASSUME NEW D, IsFiniteSet(D), NEW w \in [D -> Nat], NEW x \in D
    PROVE  Total(w) = w[x] + Total([y \in D \ {x} |-> w[y]])
<1> DEFINE rest == [y \in D \ {x} |-> w[y]]
           row == {x} \X (1..w[x])
<1>1. IsFiniteSet(Units(rest)) /\ Total(rest) \in Nat
  <2>1. IsFiniteSet(D \ {x}) /\ rest \in [D \ {x} -> Nat]
    BY FS_RemoveElement
  <2> QED BY <2>1, UnitsFinite
<1>2. IsFiniteSet(row) /\ Cardinality(row) = w[x]
  <2>1. IsFiniteSet({x}) /\ Cardinality({x}) = 1
    BY FS_Singleton
  <2>2. IsFiniteSet(1..w[x]) /\ Cardinality(1..w[x]) = w[x]
    BY FS_Interval
  <2>3. IsFiniteSet(row) /\ Cardinality(row) = Cardinality({x}) * Cardinality(1..w[x])
    BY <2>1, <2>2, FS_Product
  <2> QED BY <2>1, <2>2, <2>3
<1>3. Units(w) = Units(rest) \cup row /\ Units(rest) \cap row = {}
  <2>1. rest \in [D \ {x} -> Nat] /\ \A y \in D \ {x} : rest[y] = w[y]
    OBVIOUS
  <2>2. /\ \A u \in Units(w) : u = <<u[1], u[2]>> /\ u[1] \in D /\ u[2] \in 1..w[u[1]]
        /\ \A y \in D : \A k \in 1..w[y] : <<y, k>> \in Units(w)
    BY UnitFacts
  <2>3. /\ \A u \in Units(rest) : u = <<u[1], u[2]>> /\ u[1] \in D \ {x} /\ u[2] \in 1..rest[u[1]]
        /\ \A y \in D \ {x} : \A k \in 1..rest[y] : <<y, k>> \in Units(rest)
    BY <2>1, UnitFacts
  <2> HIDE DEF rest
  <2>4. ASSUME NEW u \in Units(w) PROVE u \in Units(rest) \cup row
    BY <2>1, <2>2, <2>3
  <2>5. ASSUME NEW u \in Units(rest) PROVE u \in Units(w) /\ u \notin row
    BY <2>1, <2>2, <2>3
  <2>6. row \subseteq Units(w)
    BY <2>2
  <2> QED BY <2>4, <2>5, <2>6
<1> HIDE DEF rest, row
<1>4. Cardinality(Units(w)) = Cardinality(Units(rest)) + Cardinality(row)
  BY <1>1, <1>2, <1>3, DisjointCardinality
<1>5. Total(w) = w[x] + Total(rest)
  BY <1>1, <1>2, <1>4 DEF Total
<1> QED BY <1>5 DEF rest

LEMMA TotalOfNone ==
    ASSUME NEW D, NEW w \in [D -> Nat], \A x \in D : w[x] = 0
    PROVE  Total(w) = 0
<1>1. Units(w) = {}
  BY UnitFacts
<1> QED BY <1>1, FS_EmptySet DEF Total

\* Terms that are nought or no larger than another's.
LEMMA TotalDominated ==
    ASSUME NEW D, NEW E, IsFiniteSet(E), NEW w \in [D -> Nat], NEW u \in [E -> Nat],
           \A x \in D : w[x] = 0 \/ (x \in E /\ w[x] <= u[x])
    PROVE  Total(w) <= Total(u)
<1>1. Units(w) \subseteq Units(u)
  <2>1. ASSUME NEW y \in Units(w) PROVE y \in Units(u)
    <3>1. y = <<y[1], y[2]>> /\ y[1] \in D /\ y[2] \in 1..w[y[1]]
      BY UnitFacts
    <3>2. y[1] \in E /\ y[2] \in 1..u[y[1]]
      BY <3>1
    <3> QED BY <3>1, <3>2, UnitFacts
  <2> QED BY <2>1
<1> QED BY <1>1, UnitsFinite, FS_Subset DEF Total

\* Two disjoint groups of terms.
LEMMA TotalOfBoth ==
    ASSUME NEW D, NEW E, IsFiniteSet(D), IsFiniteSet(E), D \cap E = {},
           NEW w \in [D -> Nat], NEW u \in [E -> Nat],
           NEW both \in [D \cup E -> Nat],
           \A x \in D : both[x] = w[x], \A x \in E : both[x] = u[x]
    PROVE  Total(both) = Total(w) + Total(u)
<1>1. Units(both) = Units(w) \cup Units(u) /\ Units(w) \cap Units(u) = {}
  <2>1. /\ \A t \in Units(w) : t = <<t[1], t[2]>> /\ t[1] \in D /\ t[2] \in 1..w[t[1]]
        /\ \A x \in D : \A k \in 1..w[x] : <<x, k>> \in Units(w)
    BY UnitFacts
  <2>2. /\ \A t \in Units(u) : t = <<t[1], t[2]>> /\ t[1] \in E /\ t[2] \in 1..u[t[1]]
        /\ \A x \in E : \A k \in 1..u[x] : <<x, k>> \in Units(u)
    BY UnitFacts
  <2>3. /\ \A t \in Units(both) : t = <<t[1], t[2]>> /\ t[1] \in D \cup E /\ t[2] \in 1..both[t[1]]
        /\ \A x \in D \cup E : \A k \in 1..both[x] : <<x, k>> \in Units(both)
    BY UnitFacts
  <2> QED BY <2>1, <2>2, <2>3
<1>2. IsFiniteSet(Units(w)) /\ Total(w) \in Nat /\ IsFiniteSet(Units(u)) /\ Total(u) \in Nat
  BY UnitsFinite
<1> QED BY <1>1, <1>2, DisjointCardinality DEF Total

\* The terms of a part and of the rest.
LEMMA TotalOfParts ==
    ASSUME NEW O, IsFiniteSet(O), NEW w \in [O -> Nat], NEW D \in SUBSET O
    PROVE  Total(w) = Total([x \in D |-> w[x]]) + Total([x \in O \ D |-> w[x]])
<1> DEFINE E == O \ D
           u == [x \in D |-> w[x]]
           v == [x \in E |-> w[x]]
<1>1. u \in [D -> Nat] /\ v \in [E -> Nat] /\ (\A x \in D : w[x] = u[x]) /\ (\A x \in E : w[x] = v[x])
  OBVIOUS
<1>2. IsFiniteSet(D) /\ IsFiniteSet(E)
  BY FS_Subset
<1>3. D \cap E = {} /\ w \in [D \cup E -> Nat]
  OBVIOUS
<1> HIDE DEF E, u, v
<1>4. Total(w) = Total(u) + Total(v)
  BY <1>1, <1>2, <1>3, TotalOfBoth
<1> QED BY <1>4 DEF E, u, v

----------------------------------------------------------------------------
(* Saturating sums *)

\* What int64 holds of a count of shares.
Capped(n) == IF n > Top THEN Top ELSE n

\* addPending over the terms of w, taken in any order: their total, cut off at Top.
LEMMA SumIsTotal ==
    ASSUME NEW D, IsFiniteSet(D), NEW w \in [D -> 0..Top]
    PROVE  SumPending(w) = Capped(Total(w))
<1> DEFINE c(s) == CHOOSE x \in s : TRUE
           part(s) == [x \in s |-> w[x]]
           body(g) == [s \in SUBSET D |-> IF s = {} THEN 0 ELSE addPending(w[c(s)], g[s \ {c(s)}])]
           fold == CHOOSE g : g = body(g)
           capped == [s \in SUBSET D |-> Capped(Total(part(s)))]
<1>t. Top \in Nat /\ w \in [D -> Nat] /\ DOMAIN w = D
  BY RuleAssumption
<1>1. SumPending(w) = fold[D]
  BY <1>t DEF SumPending, MapThenFoldSet
<1>2. ASSUME NEW s \in SUBSET D
      PROVE  /\ IsFiniteSet(s) /\ part(s) \in [s -> Nat] /\ Total(part(s)) \in Nat
             /\ s # {} => c(s) \in s /\ s \ {c(s)} \in SUBSET D
  BY <1>t, FS_Subset, UnitsFinite
<1>3. ASSUME NEW s \in SUBSET D, s # {}
      PROVE  capped[s] = addPending(w[c(s)], capped[s \ {c(s)}])
  <2> DEFINE x == c(s)
             r == s \ {x}
  <2>1. x \in s /\ r \in SUBSET D
    BY <1>2, <1>3
  <2> HIDE DEF x
  <2>2. Total(part(s)) = part(s)[x] + Total([y \in s \ {x} |-> part(s)[y]])
    <3>1. IsFiniteSet(s) /\ part(s) \in [s -> Nat]
      BY <1>2
    <3> HIDE DEF part
    <3> QED BY <2>1, <3>1, TotalOfOneMore, ZenonT(60)
  <2>3. part(s)[x] = w[x] /\ [y \in s \ {x} |-> part(s)[y]] = part(r)
    BY <2>1
  <2>4. Total(part(r)) \in Nat /\ Total(part(s)) \in Nat /\ w[x] \in 0..Top
    BY <1>2, <2>1
  <2>5. capped[s] = Capped(Total(part(s))) /\ capped[r] = Capped(Total(part(r)))
    BY <2>1
  <2> HIDE DEF part, capped, r
  <2>6. capped[s] = addPending(w[x], capped[r])
    BY <1>t, <2>2, <2>3, <2>4, <2>5 DEF Capped, addPending
  <2> QED BY <2>6 DEF x, r
<1>4. capped[{}] = 0
  <2>1. part({}) \in [{} -> Nat]
    OBVIOUS
  <2>2. Total(part({})) = 0
    <3> HIDE DEF part
    <3> QED BY <2>1, TotalOfNone
  <2> QED BY <1>t, <2>2 DEF Capped
<1>5. capped = body(capped)
  <2>1. capped = [s \in SUBSET D |-> capped[s]]
    OBVIOUS
  <2> HIDE DEF capped, c
  <2> QED BY <1>3, <1>4, <2>1
<1>6. fold = body(fold)
  <2> HIDE DEF body
  <2>1. \E g : g = body(g)
    BY <1>5
  <2> QED BY <2>1
<1>7. \A s \in SUBSET D : fold[s] = capped[s]
  <2> DEFINE T == {s \in SUBSET D : fold[s] # capped[s]}
  <2>1. SUFFICES ASSUME T # {} PROVE FALSE
    BY <2>1
  <2>2. PICK s \in T : \A r \in T : r \subseteq s => r = s
    <3>1. T \in SUBSET (SUBSET D)
      OBVIOUS
    <3> HIDE DEF T
    <3> QED BY <2>1, <3>1, LeastSubset
  <2>3. s \in SUBSET D /\ fold[s] = IF s = {} THEN 0 ELSE addPending(w[c(s)], fold[s \ {c(s)}])
    BY <1>6, <2>2
  <2>4. s # {}
    BY <1>4, <2>2, <2>3
  <2>5. c(s) \in s /\ s \ {c(s)} \in SUBSET D
    BY <1>2, <2>3, <2>4
  <2> HIDE DEF fold, capped, c, T
  <2>6. fold[s \ {c(s)}] = capped[s \ {c(s)}]
    BY <2>2, <2>5 DEF T
  <2>7. fold[s] = capped[s]
    BY <1>3, <2>3, <2>4, <2>6
  <2> QED BY <2>2, <2>7 DEF T
<1>8. part(D) = w
  BY <1>t
<1> QED BY <1>1, <1>7, <1>8

----------------------------------------------------------------------------
(* Fills *)

\* The shares of a set of fills, uncut.
Qty(F) == Total([f \in F |-> f.quantity])

FillSet(F) == IsFiniteSet(F) /\ \A f \in F : f.quantity \in 1..Top

LEMMA FillsPart ==
    ASSUME NEW F, FillSet(F), NEW G \in SUBSET F
    PROVE  FillSet(G)
  BY FS_Subset DEF FillSet

LEMMA QtyFacts ==
    ASSUME NEW F, FillSet(F)
    PROVE  Qty(F) \in Nat /\ Shares(F) = Capped(Qty(F)) /\ (F = {} => Qty(F) = 0)
<1> DEFINE w == [f \in F |-> f.quantity]
<1>1. w \in [F -> 0..Top] /\ w \in [F -> Nat] /\ IsFiniteSet(F)
  BY RuleAssumption DEF FillSet
<1>2. Total(w) \in Nat /\ SumPending(w) = Capped(Total(w)) /\ (F = {} => Total(w) = 0)
  <2> HIDE DEF w
  <2> QED BY <1>1, UnitsFinite, SumIsTotal, TotalOfNone
<1> QED BY <1>2 DEF Qty, Shares

LEMMA QtyOneMore ==
    ASSUME NEW F, FillSet(F), NEW f, f \notin F, f.quantity \in 1..Top
    PROVE  FillSet(F \cup {f}) /\ Qty(F \cup {f}) = Qty(F) + f.quantity
<1> DEFINE G == F \cup {f}
           w == [g \in G |-> g.quantity]
           rest == [g \in G \ {f} |-> w[g]]
<1>1. IsFiniteSet(G) /\ (\A g \in G : g.quantity \in 1..Top) /\ f \in G /\ G \ {f} = F
  BY FS_AddElement DEF FillSet
<1>2. w \in [G -> Nat] /\ w[f] = f.quantity /\ rest = [g \in F |-> g.quantity]
  BY <1>1, RuleAssumption
<1>3. Total(w) = w[f] + Total(rest)
  <2> HIDE DEF w, G
  <2> QED BY <1>1, <1>2, TotalOfOneMore, SMTT(60)
<1>4. FillSet(G)
  BY <1>1 DEF FillSet
<1>5. Qty(F) \in Nat /\ f.quantity \in Nat
  BY QtyFacts, RuleAssumption
<1>6. Qty(G) = Total(w) /\ Qty(F) = Total(rest)
  BY <1>2 DEF Qty
<1> HIDE DEF w, rest
<1> QED BY <1>2, <1>3, <1>4, <1>5, <1>6

LEMMA QtySplit ==
    ASSUME NEW F, FillSet(F), NEW G \in SUBSET F
    PROVE  /\ FillSet(G) /\ FillSet(F \ G)
           /\ Qty(G) \in Nat /\ Qty(F \ G) \in Nat
           /\ Qty(F) = Qty(G) + Qty(F \ G)
<1> DEFINE all == [f \in F |-> f.quantity]
           w == [f \in G |-> f.quantity]
           u == [f \in F \ G |-> f.quantity]
<1>1. FillSet(G) /\ FillSet(F \ G)
  BY FillsPart
<1>2. Qty(G) \in Nat /\ Qty(F \ G) \in Nat
  BY <1>1, QtyFacts
<1>3. IsFiniteSet(G) /\ IsFiniteSet(F \ G) /\ G \cap (F \ G) = {} /\ G \cup (F \ G) = F
  BY <1>1 DEF FillSet
<1>4. all \in [F -> Nat] /\ w \in [G -> Nat] /\ u \in [F \ G -> Nat]
  BY RuleAssumption DEF FillSet
<1>5. (\A x \in G : all[x] = w[x]) /\ (\A x \in F \ G : all[x] = u[x])
  OBVIOUS
<1>6. Total(all) = Total(w) + Total(u)
  <2> DEFINE H == F \ G
  <2>1. IsFiniteSet(H) /\ G \cap H = {} /\ G \cup H = F /\ u \in [H -> Nat] /\ \A x \in H : all[x] = u[x]
    BY <1>3, <1>4, <1>5
  <2> HIDE DEF all, w, u, H
  <2> QED BY <1>3, <1>4, <1>5, <2>1, TotalOfBoth
<1> QED BY <1>1, <1>2, <1>6 DEF Qty

LEMMA QtyMonotone ==
    ASSUME NEW F, FillSet(F), NEW G \in SUBSET F
    PROVE  Qty(G) <= Qty(F)
<1>1. Qty(G) \in Nat /\ Qty(F \ G) \in Nat /\ Qty(F) = Qty(G) + Qty(F \ G)
  BY QtySplit
<1> QED BY <1>1

\* Two sets of fills without a fill in common, inside a third.
LEMMA QtyApart ==
    ASSUME NEW F, FillSet(F), NEW G \in SUBSET F, NEW H \in SUBSET F, G \cap H = {}
    PROVE  Qty(G) + Qty(H) <= Qty(F)
<1>1. H \in SUBSET (F \ G)
  OBVIOUS
<1>2. Qty(H) <= Qty(F \ G) /\ Qty(H) \in Nat
  BY <1>1, QtySplit, QtyMonotone, QtyFacts
<1> QED BY <1>2, QtySplit

OfOrder(F, o) == {f \in F : f.order = o}

\* Raising one term raises the total by as much.
LEMMA TotalRaised ==
    ASSUME NEW D, IsFiniteSet(D), NEW w \in [D -> Nat], NEW x \in D, NEW q \in Nat
    PROVE  Total([w EXCEPT ![x] = @ + q]) = Total(w) + q
<1> DEFINE u == [w EXCEPT ![x] = @ + q]
           rest == [y \in D \ {x} |-> w[y]]
<1>1. u \in [D -> Nat] /\ u[x] = w[x] + q /\ [y \in D \ {x} |-> u[y]] = rest
  OBVIOUS
<1>2. Total(w) = w[x] + Total(rest)
  BY TotalOfOneMore
<1>3. Total(u) = u[x] + Total([y \in D \ {x} |-> u[y]])
  <2> HIDE DEF u
  <2> QED BY <1>1, TotalOfOneMore
<1>4. Total(rest) \in Nat
  <2>1. IsFiniteSet(D \ {x}) /\ rest \in [D \ {x} -> Nat]
    BY FS_RemoveElement
  <2> HIDE DEF rest
  <2> QED BY <2>1, UnitsFinite
<1> HIDE DEF u, rest
<1>5. Total(u) = Total(w) + q
  BY <1>1, <1>2, <1>3, <1>4
<1> QED BY <1>5 DEF u

\* Fills counted order by order, on top of b.
LEMMA QtyByOrder ==
    ASSUME NEW O, IsFiniteSet(O), NEW b \in [O -> Nat],
           NEW F, FillSet(F), \A f \in F : f.order \in O
    PROVE  Total([o \in O |-> b[o] + Qty(OfOrder(F, o))]) = Total(b) + Qty(F)
<1> DEFINE w(G) == [o \in O |-> b[o] + Qty(OfOrder(G, o))]
           T == {G \in SUBSET F : Total(w(G)) # Total(b) + Qty(G)}
<1>1. SUFFICES ASSUME T # {} PROVE FALSE
  BY <1>1
<1>2. PICK G \in T : \A H \in T : H \subseteq G => H = G
  <2>1. T \in SUBSET (SUBSET F) /\ IsFiniteSet(F)
    BY DEF FillSet
  <2> HIDE DEF T
  <2> QED BY <1>1, <2>1, LeastSubset
<1>3. G \in SUBSET F /\ FillSet(G) /\ Total(w(G)) # Total(b) + Qty(G)
  BY <1>2, FillsPart
<1>4. Total(b) \in Nat
  BY UnitsFinite
<1>5. CASE G = {}
  <2>1. Qty({}) = 0
    BY <1>3, <1>5, QtyFacts
  <2>2. \A o \in O : OfOrder(G, o) = {}
    BY <1>5 DEF OfOrder
  <2>3. w(G) = b
    BY <2>1, <2>2
  <2> QED BY <1>3, <1>4, <1>5, <2>1, <2>3
<1>6. CASE G # {}
  <2>1. PICK f \in G : TRUE
    BY <1>6
  <2> DEFINE H == G \ {f}
  <2>2. H \in SUBSET F /\ H \notin T /\ f \notin H /\ G = H \cup {f} /\ f.order \in O
    <3>1. H \in SUBSET F /\ H \subseteq G /\ H # G
      BY <1>3, <2>1
    <3> QED BY <1>2, <1>3, <2>1, <3>1
  <2>3. FillSet(H) /\ f.quantity \in 1..Top /\ f.quantity \in Nat
    BY <1>3, <2>1, <2>2, FillsPart, RuleAssumption DEF FillSet
  <2>4. Total(w(H)) = Total(b) + Qty(H)
    BY <2>2
  <2>5. Qty(G) = Qty(H) + f.quantity /\ Qty(H) \in Nat
    BY <2>2, <2>3, QtyOneMore, QtyFacts
  <2>6. ASSUME NEW o \in O
        PROVE  /\ Qty(OfOrder(H, o)) \in Nat
               /\ Qty(OfOrder(G, o)) = Qty(OfOrder(H, o)) + (IF o = f.order THEN f.quantity ELSE 0)
    <3>1. FillSet(OfOrder(H, o)) /\ f \notin OfOrder(H, o)
      BY <2>2, <2>3, FillsPart DEF OfOrder
    <3>2. OfOrder(G, o) = IF o = f.order THEN OfOrder(H, o) \cup {f} ELSE OfOrder(H, o)
      BY <2>2 DEF OfOrder
    <3>3. Qty(OfOrder(H, o)) \in Nat
      BY <3>1, QtyFacts
    <3>4. CASE o = f.order
      BY <2>3, <3>1, <3>2, <3>3, <3>4, QtyOneMore
    <3> QED BY <3>2, <3>3, <3>4
  <2> DEFINE u == w(H)
             q == f.quantity
  <2> HIDE DEF H
  <2>7. u \in [O -> Nat]
    <3>1. \A o \in O : b[o] + Qty(OfOrder(H, o)) \in Nat
      BY <2>6
    <3> QED BY <3>1
  <2>8. w(G) = [u EXCEPT ![f.order] = @ + q]
    <3>1. ASSUME NEW o \in O PROVE w(G)[o] = [u EXCEPT ![f.order] = @ + q][o]
      <4>1. w(G)[o] = b[o] + Qty(OfOrder(G, o)) /\ u[o] = b[o] + Qty(OfOrder(H, o)) /\ b[o] \in Nat
        OBVIOUS
      <4>2. [u EXCEPT ![f.order] = @ + q][o] = IF o = f.order THEN u[o] + q ELSE u[o]
        BY <2>7
      <4> HIDE DEF w, u
      <4> QED BY <2>3, <2>6, <4>1, <4>2
    <3> QED BY <2>7, <3>1
  <2>9. Total(w(G)) = Total(u) + q
    <3> DEFINE x == f.order
    <3>1. q \in Nat /\ x \in O
      BY <2>2, <2>3
    <3>2. Total([u EXCEPT ![x] = @ + q]) = Total(u) + q
      <4> HIDE DEF u, q, x
      <4> QED BY <2>7, <3>1, TotalRaised, ZenonT(60)
    <3> QED BY <2>8, <3>2, Zenon
  <2> HIDE DEF w, H
  <2> QED BY <1>3, <1>4, <2>3, <2>4, <2>5, <2>9
<1> QED BY <1>5, <1>6

----------------------------------------------------------------------------
(* What a view is credited with *)

\* The shares of a sell reported in the seconds after one and before v's; what a
\* listing and the reports after it say was filled; and all that v is credited with.
Reported(s, v, after) == Shares({f \in s.fills : after < f.at /\ f.at < v.at})
ShownBy(s, v, x) == addPending(s.released - Min({x.quantity, s.released}), Reported(s, v, x.at))
Best(s, v) == {Reported(s, v, 0)} \cup {ShownBy(s, v, x) : x \in {y \in s.listings : credits(v, y)}}

LEMMA AddFacts ==
    ASSUME NEW a \in Nat, NEW b \in Nat
    PROVE  addPending(Capped(a), Capped(b)) = Capped(a + b) /\ Capped(a) \in 0..Top /\ Capped(a) <= a
  BY RuleAssumption DEF addPending, Capped

LEMMA ReportedFacts ==
    ASSUME NEW s, FillSet(s.fills), NEW v, NEW after
    PROVE  /\ Reported(s, v, after) \in 0..Top
           /\ Reported(s, v, after) <= Qty({f \in s.fills : after < f.at /\ f.at < v.at})
<1> DEFINE F == {f \in s.fills : after < f.at /\ f.at < v.at}
<1>1. FillSet(F)
  BY FillsPart
<1>2. Qty(F) \in Nat /\ Shares(F) = Capped(Qty(F))
  BY <1>1, QtyFacts
<1> HIDE DEF F
<1> QED BY <1>2, AddFacts DEF Reported, F

LEMMA FilledByFacts ==
    ASSUME NEW s, NEW v, s.released \in 0..Top, FillSet(s.fills), \A x \in s.listings : x.quantity \in 0..Top
    PROVE  /\ Best(s, v) \subseteq 0..Top
           /\ filledBy(s, v) \in 0..s.released
           /\ \E b \in Best(s, v) : filledBy(s, v) <= b
           /\ filledBy(s, v) = s.released \/ \A b \in Best(s, v) : b <= filledBy(s, v)
<1>1. ASSUME NEW x \in s.listings PROVE ShownBy(s, v, x) \in 0..Top
  <2>1. Min({x.quantity, s.released}) \in 0..s.released
    <3>1. x.quantity \in Int /\ s.released \in Int
      BY RuleAssumption
    <3> QED BY <3>1, MinOfTwo
  <2>2. Reported(s, v, x.at) \in 0..Top
    BY ReportedFacts
  <2> QED BY <2>1, <2>2, RuleAssumption DEF ShownBy, addPending
<1>2. Best(s, v) \subseteq 0..Top
  BY <1>1, ReportedFacts DEF Best
<1>3. Best(s, v) \in SUBSET Int /\ Best(s, v) # {} /\ Top \in Int /\ \A b \in Best(s, v) : b <= Top
  BY <1>2, RuleAssumption DEF Best
<1>4. Max(Best(s, v)) \in Best(s, v) /\ \A b \in Best(s, v) : b <= Max(Best(s, v))
  BY <1>3, MaxFacts
<1>5. filledBy(s, v) = Min({s.released, Max(Best(s, v))})
  BY DEF filledBy, Best, ShownBy, Reported
<1>6. Max(Best(s, v)) \in 0..Top /\ s.released \in Int
  BY <1>2, <1>4, RuleAssumption
<1>7. filledBy(s, v) = IF s.released <= Max(Best(s, v)) THEN s.released ELSE Max(Best(s, v))
  BY <1>5, <1>6, MinOfTwo
<1>8. \A b \in Best(s, v) : b \in Int
  BY <1>2
<1>9. filledBy(s, v) \in 0..s.released
  BY <1>6, <1>7
<1>10. filledBy(s, v) <= Max(Best(s, v))
  BY <1>6, <1>7
<1>11. filledBy(s, v) = s.released \/ filledBy(s, v) = Max(Best(s, v))
  BY <1>7
<1> QED BY <1>2, <1>4, <1>9, <1>10, <1>11

\* What can still sell after v is the total of its two parts, cut off at Top.
LEMMA ToGoShares ==
    ASSUME NEW l, NEW v, toGo(l, v).ok,
           NEW D, IsFiniteSet(D), ownLeft(l, v) \in [D -> 0..Top],
           NEW E, IsFiniteSet(E), unknownLeft(l, v) \in [E -> 0..Top]
    PROVE  /\ Total(ownLeft(l, v)) \in Nat /\ Total(unknownLeft(l, v)) \in Nat
           /\ toGo(l, v).shares = Capped(Total(ownLeft(l, v)) + Total(unknownLeft(l, v)))
<1> DEFINE own == ownLeft(l, v)
           other == unknownLeft(l, v)
<1>1. toGo(l, v).shares = addPending(SumPending(own), SumPending(other))
  BY DEF toGo
<1> HIDE DEF own, other
<1>2. SumPending(own) = Capped(Total(own)) /\ SumPending(other) = Capped(Total(other))
  BY SumIsTotal DEF own, other
<1>3. own \in [D -> Nat] /\ other \in [E -> Nat]
  BY RuleAssumption DEF own, other
<1>4. Total(own) \in Nat /\ Total(other) \in Nat
  BY <1>3, UnitsFinite
<1> QED BY <1>1, <1>2, <1>4, AddFacts DEF own, other
=============================================================================
