----------------------------- MODULE MeshProofs -----------------------------
(***************************************************************************)
(* What is exported of the polygons of a detail (MeshExport, as a system   *)
(* of Tools), for any details, contexts and number of exports: a mesh has  *)
(* the polygons, edges, normals and attributes of its detail, and a face   *)
(* shows the material and the overrides of its primitive.  A mesh is made  *)
(* of flattened sequences; they are taken apart by how many elements come  *)
(* before each sequence in them.                                           *)
(***************************************************************************)
EXTENDS Tools, Sequences, NaturalsInduction, WellFoundedInduction, FiniteSetTheorems, TLAPS

-----------------------------------------------------------------------------
(* Natural numbers. *)

LEMMA LeastNumber ==
  ASSUME NEW S, S \subseteq Nat, S # {}
  PROVE  \E x \in S : \A y \in S : x <= y
<1> DEFINE R == {pair \in Nat \X Nat : pair[1] < pair[2]}
<1>1. IsWellFoundedOn(R, Nat)
  BY NatLessThanWellFounded DEF OpToRel
<1>2. PICK x \in S : \A y \in S : <<y, x>> \notin R
  BY <1>1, WFMin
<1>3. \A y \in S : ~(y < x)
  BY <1>2
<1> QED BY <1>3

\* Induction, on the set of numbers that a statement is true of.
LEMMA Induction ==
  ASSUME NEW S, 0 \in S, \A n \in Nat : n \in S => n + 1 \in S
  PROVE  Nat \subseteq S
<1> SUFFICES ASSUME Nat \ S # {} PROVE FALSE
  OBVIOUS
<1>1. PICK x \in Nat \ S : \A y \in Nat \ S : x <= y
  <2>1. Nat \ S \subseteq Nat
    OBVIOUS
  <2> QED BY <2>1, LeastNumber
<1>2. x # 0 /\ x - 1 \in Nat
  BY <1>1
<1>3. x - 1 \in S
  BY <1>1, <1>2
<1> QED BY <1>1, <1>2, <1>3

-----------------------------------------------------------------------------
(* Meshes (MeshExport): a flattening, by the number of elements before each of the *)
(* sequences in it.                                                                *)

IsList(s) == \E S : s \in Seq(S)
ListOfLists(s) == IsList(s) /\ \A i \in 1 .. Len(s) : IsList(s[i])

IsOffsets(off, s) ==
  /\ off[1] = 0 /\ \A i \in 1 .. Len(s) + 1 : off[i] \in Nat
  /\ \A i \in 1 .. Len(s) : off[i + 1] = off[i] + Len(s[i])

IsFlat(t, off, s) ==
  /\ IsList(t) /\ Len(t) = off[Len(s) + 1]
  /\ \A i \in 1 .. Len(s) : \A j \in 1 .. Len(s[i]) :
       off[i] + j \in 1 .. Len(t) /\ t[off[i] + j] = s[i][j]

IsFlatten(f, s, n) ==
  f = [i \in 1 .. n |-> IF i = 1 THEN s[i] ELSE f[i - 1] \o s[i]]

LEMMA ListFacts ==
  ASSUME NEW s, IsList(s)
  PROVE  Len(s) \in Nat /\ DOMAIN s = 1 .. Len(s) /\ s = [i \in 1 .. Len(s) |-> s[i]]
BY DEF IsList

LEMMA ListFromFcn ==
  ASSUME NEW n \in Nat, NEW s, s = [i \in 1 .. n |-> s[i]]
  PROVE  IsList(s) /\ Len(s) = n
<1>1. PICK S : S = {s[i] : i \in 1 .. n}
  OBVIOUS
<1>2. s \in [1 .. n -> S]
  BY <1>1
<1>3. s \in Seq(S) /\ Len(s) = n
  BY <1>2
<1> QED BY <1>3 DEF IsList

LEMMA EqualLists ==
  ASSUME NEW s, NEW t, IsList(s), IsList(t), Len(s) = Len(t), \A k \in 1 .. Len(s) : s[k] = t[k]
  PROVE  s = t
<1>1. s = [k \in 1 .. Len(s) |-> s[k]] /\ t = [k \in 1 .. Len(s) |-> t[k]]
  BY ListFacts
<1> QED BY <1>1

LEMMA JoinedLists ==
  ASSUME NEW a, NEW b, IsList(a), IsList(b)
  PROVE  /\ IsList(a \o b) /\ Len(a \o b) = Len(a) + Len(b)
         /\ \A k \in 1 .. Len(a) : (a \o b)[k] = a[k]
         /\ \A k \in 1 .. Len(b) : (a \o b)[Len(a) + k] = b[k]
<1>1. PICK S, T : a \in Seq(S) /\ b \in Seq(T)
  BY DEF IsList
<1>2. PICK U : U = S \cup T
  OBVIOUS
<1>3. a \in Seq(U) /\ b \in Seq(U)
  BY <1>1, <1>2
<1> QED BY <1>3 DEF IsList

LEMMA OffsetsExist ==
  ASSUME NEW s, ListOfLists(s)
  PROVE  \E off : IsOffsets(off, s)
<1>1. Len(s) \in Nat /\ \A i \in 1 .. Len(s) : Len(s[i]) \in Nat
  BY ListFacts DEF ListOfLists
<1> DEFINE Upto(off, m) == /\ off[1] = 0 /\ \A i \in 1 .. m + 1 : off[i] \in Nat
                           /\ \A i \in 1 .. m : off[i + 1] = off[i] + Len(s[i])
<1> DEFINE S == {m \in Nat : m <= Len(s) => \E off : Upto(off, m)}
<1>2. 0 \in S
  <2> DEFINE off == [i \in 1 .. 1 |-> 0]
  <2>1. Upto(off, 0)
    OBVIOUS
  <2> QED BY <2>1
<1>3. ASSUME NEW m \in Nat, m \in S PROVE m + 1 \in S
  <2> SUFFICES ASSUME m + 1 <= Len(s) PROVE \E off : Upto(off, m + 1)
    OBVIOUS
  <2>1. PICK off : Upto(off, m)
    BY <1>1, <1>3
  <2> DEFINE more == [i \in 1 .. m + 2 |-> IF i = m + 2 THEN off[m + 1] + Len(s[m + 1]) ELSE off[i]]
  <2>2. \A i \in 1 .. m + 1 : more[i] = off[i]
    OBVIOUS
  <2>3. more[m + 2] = off[m + 1] + Len(s[m + 1])
    OBVIOUS
  <2>4. off[m + 1] \in Nat /\ Len(s[m + 1]) \in Nat
    BY <1>1, <2>1
  <2> HIDE DEF more
  <2>5. Upto(more, m + 1)
    <3>1. more[1] = 0
      BY <2>1, <2>2
    <3>2. ASSUME NEW i \in 1 .. (m + 1) + 1 PROVE more[i] \in Nat
      <4>1. CASE i = m + 2
        BY <4>1, <2>3, <2>4
      <4>2. CASE i \in 1 .. m + 1
        BY <4>2, <2>1, <2>2
      <4> QED BY <4>1, <4>2
    <3>3. ASSUME NEW i \in 1 .. m + 1 PROVE more[i + 1] = more[i] + Len(s[i])
      <4>1. CASE i = m + 1
        BY <4>1, <2>2, <2>3
      <4>2. CASE i \in 1 .. m
        <5>1. i + 1 \in 1 .. m + 1
          BY <4>2
        <5> QED BY <4>2, <5>1, <2>1, <2>2
      <4> QED BY <4>1, <4>2
    <3> QED BY <3>1, <3>2, <3>3
  <2> QED BY <2>5
<1> HIDE DEF S
<1>4. Nat \subseteq S
  BY <1>2, <1>3, Induction
<1>5. Len(s) \in S
  BY <1>1, <1>4
<1>6. \E off : Upto(off, Len(s))
  BY <1>1, <1>5 DEF S
<1> QED BY <1>6 DEF IsOffsets

LEMMA OffsetsGrow ==
  ASSUME NEW off, NEW s, ListOfLists(s), IsOffsets(off, s), NEW i \in 1 .. Len(s) + 1
  PROVE  off[i] <= off[Len(s) + 1]
<1>1. Len(s) \in Nat /\ \A k \in 1 .. Len(s) : Len(s[k]) \in Nat
  BY ListFacts DEF ListOfLists
<1> DEFINE S == {m \in Nat : \A k \in 1 .. Len(s) + 1 : k + m = Len(s) + 1 => off[k] <= off[Len(s) + 1]}
<1>2. 0 \in S
  BY <1>1 DEF IsOffsets
<1>3. ASSUME NEW m \in Nat, m \in S PROVE m + 1 \in S
  <2> SUFFICES ASSUME NEW k \in 1 .. Len(s) + 1, k + (m + 1) = Len(s) + 1
               PROVE  off[k] <= off[Len(s) + 1]
    OBVIOUS
  <2>1. k \in 1 .. Len(s) /\ k + 1 \in 1 .. Len(s) + 1 /\ (k + 1) + m = Len(s) + 1
    BY <1>1
  <2>2. off[k + 1] <= off[Len(s) + 1]
    BY <1>3, <2>1
  <2>3. off[k] \in Nat /\ off[k + 1] \in Nat /\ off[Len(s) + 1] \in Nat /\ off[k + 1] = off[k] + Len(s[k])
        /\ Len(s[k]) \in Nat
    BY <1>1, <2>1 DEF IsOffsets
  <2> QED BY <2>2, <2>3
<1> HIDE DEF S
<1>4. Nat \subseteq S
  BY <1>2, <1>3, Induction
<1>5. Len(s) + 1 - i \in S /\ i + (Len(s) + 1 - i) = Len(s) + 1
  BY <1>1, <1>4
<1> QED BY <1>5 DEF S

\* Every element of a flattening is one of an element.
LEMMA Covered ==
  ASSUME NEW off, NEW s, ListOfLists(s), IsOffsets(off, s), NEW k \in 1 .. off[Len(s) + 1]
  PROVE  \E i \in 1 .. Len(s) : \E j \in 1 .. Len(s[i]) : k = off[i] + j
<1>1. Len(s) \in Nat /\ \A i \in 1 .. Len(s) : Len(s[i]) \in Nat
  BY ListFacts DEF ListOfLists
<1>2. Len(s) + 1 \in 1 .. Len(s) + 1 /\ 1 \in 1 .. Len(s) + 1
  BY <1>1
<1>3. off[Len(s) + 1] \in Nat /\ off[1] = 0
  BY <1>2 DEF IsOffsets
<1> DEFINE S == {i \in Nat : i \in 1 .. Len(s) + 1 /\ k <= off[i]}
<1>4. Len(s) + 1 \in S
  BY <1>1, <1>2, <1>3
<1>5. PICK x \in S : \A y \in S : x <= y
  BY <1>4, LeastNumber
<1>6. x # 1
  BY <1>3, <1>5
<1>7. x - 1 \in 1 .. Len(s) /\ x - 1 \in 1 .. Len(s) + 1
  BY <1>1, <1>5, <1>6
<1>8. x - 1 \notin S
  BY <1>5, <1>7
<1>9. off[x - 1] < k /\ off[x - 1] \in Nat
  BY <1>1, <1>3, <1>7, <1>8 DEF IsOffsets
<1>10. off[x] = off[x - 1] + Len(s[x - 1])
  <2>1. (x - 1) + 1 = x
    BY <1>5
  <2>2. off[(x - 1) + 1] = off[x - 1] + Len(s[x - 1])
    BY <1>7 DEF IsOffsets
  <2> QED BY <2>1, <2>2
<1>11. k <= off[x]
  BY <1>5
<1>12. PICK j : j = k - off[x - 1]
  OBVIOUS
<1>13. j \in 1 .. Len(s[x - 1]) /\ k = off[x - 1] + j
  <2>1. Len(s[x - 1]) \in Nat /\ k \in Nat
    BY <1>1, <1>3, <1>7
  <2> HIDE DEF S
  <2> QED BY <2>1, <1>9, <1>10, <1>11, <1>12
<1> QED BY <1>7, <1>13

LEMMA FlattenExists ==
  ASSUME NEW s, NEW n \in Nat \ {0}
  PROVE  \E f : IsFlatten(f, s, n)
<1> DEFINE Grown(f, i) == IF i = 1 THEN s[i] ELSE f[i - 1] \o s[i]
<1> DEFINE S == {m \in Nat : m # 0 => \E f : IsFlatten(f, s, m)}
<1>1. 0 \in S
  OBVIOUS
<1>2. ASSUME NEW m \in Nat, m \in S PROVE m + 1 \in S
  <2>1. PICK f : m # 0 => IsFlatten(f, s, m)
    BY <1>2
  <2> DEFINE g == [i \in 1 .. m + 1 |-> IF i = m + 1 THEN Grown(f, m + 1) ELSE f[i]]
  <2>2. \A i \in 1 .. m : f[i] = Grown(f, i)
    <3>1. CASE m = 0
      BY <3>1
    <3>2. CASE m # 0
      <4>1. f = [i \in 1 .. m |-> Grown(f, i)]
        BY <2>1, <3>2 DEF IsFlatten
      <4> HIDE DEF Grown
      <4> QED BY <4>1
    <3> QED BY <3>1, <3>2
  <2>3. \A i \in 1 .. m : g[i] = f[i]
    OBVIOUS
  <2>4. g[m + 1] = Grown(g, m + 1)
    <3>1. m # 0 => m \in 1 .. m /\ (m + 1) - 1 = m
      OBVIOUS
    <3> QED BY <3>1, <2>3
  <2>5. g = [i \in 1 .. m + 1 |-> g[i]]
    OBVIOUS
  <2> HIDE DEF g
  <2>6. ASSUME NEW i \in 1 .. m + 1 PROVE g[i] = Grown(g, i)
    <3>1. CASE i = m + 1
      BY <3>1, <2>4
    <3>2. CASE i \in 1 .. m
      <4>1. i # 1 => i - 1 \in 1 .. m
        BY <3>2
      <4>2. g[i] = f[i] /\ (i # 1 => g[i - 1] = f[i - 1])
        BY <3>2, <4>1, <2>3
      <4> QED BY <3>2, <4>2, <2>2
    <3> QED BY <3>1, <3>2
  <2> DEFINE h == [i \in 1 .. m + 1 |-> Grown(g, i)]
  <2>7. \A i \in 1 .. m + 1 : g[i] = h[i]
    BY <2>6
  <2>8. h = [i \in 1 .. m + 1 |-> h[i]]
    OBVIOUS
  <2> HIDE DEF h
  <2>9. g = h
    BY <2>5, <2>7, <2>8
  <2>10. IsFlatten(g, s, m + 1)
    BY <2>9 DEF h, IsFlatten
  <2> QED BY <2>10
<1> HIDE DEF S
<1>3. n \in S
  BY <1>1, <1>2, Induction
<1> QED BY <1>3 DEF S

LEMMA Flattened ==
  ASSUME NEW off, NEW s, ListOfLists(s), IsOffsets(off, s)
  PROVE  IsFlat(Mesh!FlattenSeq(s), off, s)
<1>1. Len(s) \in Nat /\ IsList(s) /\ \A i \in 1 .. Len(s) : IsList(s[i]) /\ Len(s[i]) \in Nat
  BY ListFacts DEF ListOfLists
<1>2. CASE Len(s) = 0
  <2>1. Mesh!FlattenSeq(s) = s
    BY <1>2 DEF Mesh!FlattenSeq
  <2> QED BY <1>1, <1>2, <2>1 DEF IsFlat, IsOffsets
<1>3. CASE Len(s) # 0
  <2>1. PICK f : f = CHOOSE g : IsFlatten(g, s, Len(s))
    OBVIOUS
  <2>2. IsFlatten(f, s, Len(s))
    BY <1>1, <1>3, <2>1, FlattenExists
  <2>3. Mesh!FlattenSeq(s) = f[Len(s)]
    BY <1>3, <2>1 DEF Mesh!FlattenSeq, IsFlatten
  <2> DEFINE Good(m) ==
        /\ IsList(f[m]) /\ Len(f[m]) = off[m + 1]
        /\ \A i \in 1 .. m : \A j \in 1 .. Len(s[i]) :
             off[i] + j \in 1 .. Len(f[m]) /\ f[m][off[i] + j] = s[i][j]
  <2> DEFINE S == {m \in Nat : m \in 1 .. Len(s) => Good(m)}
  <2>4. 0 \in S
    OBVIOUS
  <2>5. ASSUME NEW m \in Nat, m \in S PROVE m + 1 \in S
    <3> SUFFICES ASSUME m + 1 \in 1 .. Len(s) PROVE Good(m + 1)
      OBVIOUS
    <3>1. IsList(s[m + 1]) /\ Len(s[m + 1]) \in Nat
      BY <1>1
    <3>2. off[m + 1] \in Nat /\ off[(m + 1) + 1] = off[m + 1] + Len(s[m + 1])
      BY <1>1 DEF IsOffsets
    <3>3. CASE m = 0
      <4>1. f[m + 1] = s[m + 1] /\ off[m + 1] = 0
        BY <2>2, <3>3 DEF IsFlatten, IsOffsets
      <4>2. ASSUME NEW i \in 1 .. m + 1, NEW j \in 1 .. Len(s[i])
            PROVE  off[i] + j \in 1 .. Len(f[m + 1]) /\ f[m + 1][off[i] + j] = s[i][j]
        <5>1. i = 1 /\ off[i] = 0 /\ off[i] + j = j
          BY <1>1, <3>3, <4>1
        <5> QED BY <3>3, <4>1, <5>1
      <4> QED BY <3>1, <3>2, <4>1, <4>2
    <3>4. CASE m # 0
      <4>1. m \in 1 .. Len(s) /\ Good(m)
        BY <1>1, <2>5, <3>4
      <4>2. f[m + 1] = f[m] \o s[m + 1]
        <5>1. m + 1 # 1 /\ (m + 1) - 1 = m
          BY <3>4
        <5> QED BY <5>1, <2>2 DEF IsFlatten
      <4>3. /\ IsList(f[m + 1]) /\ Len(f[m + 1]) = off[m + 1] + Len(s[m + 1])
            /\ \A k \in 1 .. off[m + 1] : f[m + 1][k] = f[m][k]
            /\ \A k \in 1 .. Len(s[m + 1]) : f[m + 1][off[m + 1] + k] = s[m + 1][k]
        <5>1. IsList(f[m]) /\ Len(f[m]) = off[m + 1]
          BY <4>1
        <5> HIDE DEF Good
        <5>2. PICK a, b : a = f[m] /\ b = s[m + 1]
          OBVIOUS
        <5>3. IsList(a) /\ IsList(b) /\ f[m + 1] = a \o b
          BY <3>1, <4>2, <5>1, <5>2
        <5>4. /\ IsList(a \o b) /\ Len(a \o b) = Len(a) + Len(b)
              /\ \A k \in 1 .. Len(a) : (a \o b)[k] = a[k]
              /\ \A k \in 1 .. Len(b) : (a \o b)[Len(a) + k] = b[k]
          BY <5>3, JoinedLists
        <5> QED BY <5>1, <5>2, <5>3, <5>4
      <4>4. ASSUME NEW i \in 1 .. m + 1, NEW j \in 1 .. Len(s[i])
            PROVE  off[i] + j \in 1 .. Len(f[m + 1]) /\ f[m + 1][off[i] + j] = s[i][j]
        <5>1. CASE i = m + 1
          <6>1. j \in 1 .. Len(s[m + 1]) /\ j \in Nat
            BY <5>1
          <6>2. off[m + 1] + j \in 1 .. Len(f[m + 1])
            BY <6>1, <3>1, <3>2, <4>3
          <6> QED BY <5>1, <6>1, <6>2, <4>3
        <5>2. CASE i \in 1 .. m
          <6>1. off[i] + j \in 1 .. off[m + 1] /\ f[m][off[i] + j] = s[i][j]
            BY <4>1, <5>2
          <6>2. off[i] + j \in 1 .. Len(f[m + 1])
            BY <6>1, <3>1, <3>2, <4>3
          <6> QED BY <6>1, <6>2, <4>3
        <5> QED BY <5>1, <5>2
      <4> QED BY <3>2, <4>3, <4>4
    <3> QED BY <3>3, <3>4
  <2> HIDE DEF S
  <2>6. Len(s) \in S
    BY <1>1, <2>4, <2>5, Induction
  <2>7. Good(Len(s))
    BY <1>1, <1>3, <2>6 DEF S
  <2> QED BY <2>3, <2>7 DEF IsFlat
<1> QED BY <1>2, <1>3

-----------------------------------------------------------------------------
(* Corners, faces and edges. *)

MeshPrims(prims) ==
  /\ IsList(prims)
  /\ \A i \in 1 .. Len(prims) : ListOfLists(prims[i].polys)

\* The number of faces before each polygon.
IsFaceOffsets(off, polys) ==
  /\ off[1] = 0 /\ \A p \in 1 .. Len(polys) + 1 : off[p] \in Nat
  /\ \A p \in 1 .. Len(polys) : off[p + 1] = off[p] + Mesh!NumFaces(polys[p])

LEMMA NumFacesIs ==
  ASSUME NEW poly, IsList(poly)
  PROVE  /\ Mesh!NumFaces(poly) \in Nat /\ Len(poly) \in Nat
         /\ \A i \in 1 .. Mesh!NumFaces(poly) :
              /\ Len(poly) > 2 /\ Mesh!NumFaces(poly) = Len(poly) - 2
              /\ i \in 1 .. Len(poly) /\ i + 1 \in 1 .. Len(poly) /\ i + 2 \in 1 .. Len(poly)
<1>1. Len(poly) \in Nat
  BY ListFacts
<1> QED BY <1>1 DEF Mesh!NumFaces

LEMMA TripleIs ==
  ASSUME NEW x, NEW y, NEW z
  PROVE  IsList(<<x, y, z>>) /\ Len(<<x, y, z>>) = 3
<1>1. <<x, y, z>> \in Seq({x, y, z})
  OBVIOUS
<1>2. Len(<<x, y, z>>) = 3
  OBVIOUS
<1> QED BY <1>1, <1>2 DEF IsList

LEMMA FanIs ==
  ASSUME NEW poly, IsList(poly)
  PROVE  /\ IsList(Mesh!Fan(poly)) /\ Len(Mesh!Fan(poly)) = 3 * Mesh!NumFaces(poly)
         /\ \A i \in 1 .. Mesh!NumFaces(poly) :
              /\ Mesh!Fan(poly)[3 * (i - 1) + 1] = poly[i + 2]
              /\ Mesh!Fan(poly)[3 * (i - 1) + 2] = poly[i + 1]
              /\ Mesh!Fan(poly)[3 * (i - 1) + 3] = poly[1]
<1>1. PICK n : n = Mesh!NumFaces(poly)
  OBVIOUS
<1>2. n \in Nat
  BY <1>1, NumFacesIs
<1>3. PICK s : s = [i \in 1 .. n |-> <<poly[i + 2], poly[i + 1], poly[1]>>]
  OBVIOUS
<1>4. PICK off : off = [i \in 1 .. n + 1 |-> 3 * (i - 1)]
  OBVIOUS
<1>5. s = [i \in 1 .. n |-> s[i]] /\ \A i \in 1 .. n : s[i] = <<poly[i + 2], poly[i + 1], poly[1]>>
  BY <1>3
<1>6. IsList(s) /\ Len(s) = n
  BY <1>2, <1>5, ListFromFcn
<1>7. ASSUME NEW i \in 1 .. n PROVE IsList(s[i]) /\ Len(s[i]) = 3
  <2>1. PICK x, y, z : s[i] = <<x, y, z>>
    BY <1>5
  <2>2. IsList(<<x, y, z>>) /\ Len(<<x, y, z>>) = 3
    BY TripleIs
  <2> QED BY <2>1, <2>2
<1>8. ListOfLists(s) /\ IsOffsets(off, s)
  <2>1. ListOfLists(s)
    BY <1>6, <1>7 DEF ListOfLists
  <2>2. off[1] = 0 /\ \A i \in 1 .. n + 1 : off[i] \in Nat
    BY <1>2, <1>4
  <2>3. \A i \in 1 .. n : off[i + 1] = off[i] + 3
    BY <1>2, <1>4
  <2> QED BY <1>6, <1>7, <2>1, <2>2, <2>3 DEF IsOffsets
<1>9. Mesh!Fan(poly) = Mesh!FlattenSeq(s)
  BY <1>1, <1>3 DEF Mesh!Fan
<1>10. IsFlat(Mesh!Fan(poly), off, s)
  BY <1>8, <1>9, Flattened
<1>11. Len(Mesh!Fan(poly)) = 3 * n
  BY <1>2, <1>4, <1>6, <1>10 DEF IsFlat
<1>12. ASSUME NEW i \in 1 .. n, NEW c \in 1 .. 3
       PROVE  Mesh!Fan(poly)[3 * (i - 1) + c] = s[i][c]
  <2>1. off[i] = 3 * (i - 1)
    BY <1>2, <1>4
  <2> QED BY <1>6, <1>7, <1>10, <2>1 DEF IsFlat
<1>13. ASSUME NEW i \in 1 .. n
       PROVE  /\ Mesh!Fan(poly)[3 * (i - 1) + 1] = poly[i + 2]
              /\ Mesh!Fan(poly)[3 * (i - 1) + 2] = poly[i + 1]
              /\ Mesh!Fan(poly)[3 * (i - 1) + 3] = poly[1]
  <2>1. s[i][1] = poly[i + 2] /\ s[i][2] = poly[i + 1] /\ s[i][3] = poly[1]
    BY <1>5
  <2> QED BY <1>12, <2>1
<1> QED BY <1>1, <1>10, <1>11, <1>13 DEF IsFlat

LEMMA PolygonsAre ==
  ASSUME NEW prims, MeshPrims(prims)
  PROVE  LET s == [i \in 1 .. Len(prims) |-> prims[i].polys]
         IN /\ ListOfLists(s) /\ Len(s) = Len(prims) /\ Mesh!Polygons(prims) = Mesh!FlattenSeq(s)
            /\ ListOfLists(Mesh!Polygons(prims))
            /\ \A p \in 1 .. Len(Mesh!Polygons(prims)) :
                 \E i \in 1 .. Len(prims) : \E j \in 1 .. Len(prims[i].polys) :
                   Mesh!Polygons(prims)[p] = prims[i].polys[j]
<1>1. PICK s : s = [i \in 1 .. Len(prims) |-> prims[i].polys]
  OBVIOUS
<1>2. Len(prims) \in Nat /\ DOMAIN prims = 1 .. Len(prims)
  BY ListFacts DEF MeshPrims
<1>3. s = [i \in 1 .. Len(prims) |-> s[i]] /\ \A i \in 1 .. Len(prims) : s[i] = prims[i].polys
  BY <1>1
<1>4. IsList(s) /\ Len(s) = Len(prims)
  BY <1>2, <1>3, ListFromFcn
<1>5. ListOfLists(s) /\ \A i \in 1 .. Len(s) : ListOfLists(s[i])
  BY <1>3, <1>4 DEF MeshPrims, ListOfLists
<1>6. PICK off : IsOffsets(off, s)
  BY <1>5, OffsetsExist
<1>7. Mesh!Polygons(prims) = Mesh!FlattenSeq(s)
  BY <1>1, <1>2 DEF Mesh!Polygons
<1>8. IsFlat(Mesh!Polygons(prims), off, s)
  BY <1>5, <1>6, <1>7, Flattened
<1>9. ASSUME NEW p \in 1 .. Len(Mesh!Polygons(prims))
      PROVE  \E i \in 1 .. Len(prims) : \E j \in 1 .. Len(prims[i].polys) :
               Mesh!Polygons(prims)[p] = prims[i].polys[j]
  <2>1. p \in 1 .. off[Len(s) + 1]
    BY <1>8 DEF IsFlat
  <2>2. PICK i \in 1 .. Len(s) : \E j \in 1 .. Len(s[i]) : p = off[i] + j
    BY <1>5, <1>6, <2>1, Covered
  <2>3. PICK j \in 1 .. Len(s[i]) : p = off[i] + j
    BY <2>2
  <2>4. Mesh!Polygons(prims)[p] = s[i][j]
    BY <1>8, <2>3 DEF IsFlat
  <2> QED BY <1>3, <1>4, <2>3, <2>4
<1>10. \A p \in 1 .. Len(Mesh!Polygons(prims)) : IsList(Mesh!Polygons(prims)[p])
  BY <1>9 DEF MeshPrims, ListOfLists
<1> QED BY <1>1, <1>4, <1>5, <1>7, <1>8, <1>9, <1>10 DEF ListOfLists, IsFlat

\* What has as many elements for a polygon as that has faces.
LEMMA FaceLists ==
  ASSUME NEW polys, ListOfLists(polys), NEW s, s = [p \in 1 .. Len(polys) |-> s[p]],
         \A p \in 1 .. Len(polys) : s[p] = [i \in 1 .. Mesh!NumFaces(polys[p]) |-> s[p][i]]
  PROVE  /\ ListOfLists(s) /\ Len(s) = Len(polys)
         /\ \A p \in 1 .. Len(polys) : Len(s[p]) = Mesh!NumFaces(polys[p])
<1>1. Len(polys) \in Nat
  BY ListFacts DEF ListOfLists
<1>2. IsList(s) /\ Len(s) = Len(polys)
  BY <1>1, ListFromFcn
<1>3. ASSUME NEW p \in 1 .. Len(polys) PROVE IsList(s[p]) /\ Len(s[p]) = Mesh!NumFaces(polys[p])
  <2>1. Mesh!NumFaces(polys[p]) \in Nat
    BY NumFacesIs DEF ListOfLists
  <2>2. PICK t, n : t = s[p] /\ n = Mesh!NumFaces(polys[p])
    OBVIOUS
  <2>3. n \in Nat /\ t = [i \in 1 .. n |-> t[i]]
    BY <2>1, <2>2
  <2>4. IsList(t) /\ Len(t) = n
    BY <2>3, ListFromFcn
  <2> QED BY <2>2, <2>4
<1> QED BY <1>2, <1>3 DEF ListOfLists

LEMMA FaceOffsetsAre ==
  ASSUME NEW polys, ListOfLists(polys), NEW s, Len(s) = Len(polys),
         \A p \in 1 .. Len(polys) : Len(s[p]) = Mesh!NumFaces(polys[p]), NEW off
  PROVE  IsOffsets(off, s) <=> IsFaceOffsets(off, polys)
BY DEF IsOffsets, IsFaceOffsets

LEMMA FaceOffsetsExist ==
  ASSUME NEW polys, ListOfLists(polys)
  PROVE  \E off : IsFaceOffsets(off, polys)
<1>1. PICK s : s = [p \in 1 .. Len(polys) |-> [i \in 1 .. Mesh!NumFaces(polys[p]) |-> p]]
  OBVIOUS
<1>2. /\ s = [p \in 1 .. Len(polys) |-> s[p]]
      /\ \A p \in 1 .. Len(polys) : s[p] = [i \in 1 .. Mesh!NumFaces(polys[p]) |-> s[p][i]]
  BY <1>1
<1>3. /\ ListOfLists(s) /\ Len(s) = Len(polys)
      /\ \A p \in 1 .. Len(polys) : Len(s[p]) = Mesh!NumFaces(polys[p])
  BY <1>2, FaceLists
<1> QED BY <1>3, OffsetsExist, FaceOffsetsAre

LEMMA CornersAre ==
  ASSUME NEW prims, MeshPrims(prims), NEW off, IsFaceOffsets(off, Mesh!Polygons(prims))
  PROVE  LET polys == Mesh!Polygons(prims)
             corners == Mesh!Corners(prims)
         IN /\ IsList(corners) /\ Len(corners) = 3 * off[Len(polys) + 1]
            /\ \A p \in 1 .. Len(polys) : \A k \in 1 .. 3 * Mesh!NumFaces(polys[p]) :
                 corners[3 * off[p] + k] = Mesh!Fan(polys[p])[k]
<1>1. PICK polys : polys = Mesh!Polygons(prims)
  OBVIOUS
<1>2. ListOfLists(polys) /\ Len(polys) \in Nat /\ DOMAIN polys = 1 .. Len(polys)
  BY <1>1, PolygonsAre, ListFacts DEF ListOfLists
<1>3. PICK s : s = [p \in 1 .. Len(polys) |-> Mesh!Fan(polys[p])]
  OBVIOUS
<1>4. s = [p \in 1 .. Len(polys) |-> s[p]] /\ \A p \in 1 .. Len(polys) : s[p] = Mesh!Fan(polys[p])
  BY <1>3
<1>5. IsList(s) /\ Len(s) = Len(polys)
  BY <1>2, <1>4, ListFromFcn
<1>6. \A p \in 1 .. Len(polys) : /\ IsList(s[p]) /\ Len(s[p]) = 3 * Mesh!NumFaces(polys[p])
                                 /\ Mesh!NumFaces(polys[p]) \in Nat
  BY <1>2, <1>4, FanIs, NumFacesIs DEF ListOfLists
<1>7. PICK by3 : by3 = [p \in 1 .. Len(polys) + 1 |-> 3 * off[p]]
  OBVIOUS
<1>8. ListOfLists(s)
  BY <1>5, <1>6 DEF ListOfLists
<1>9. IsOffsets(by3, s)
  <2>1. by3[1] = 0 /\ \A p \in 1 .. Len(polys) + 1 : by3[p] \in Nat
    BY <1>1, <1>2, <1>7 DEF IsFaceOffsets
  <2>2. ASSUME NEW p \in 1 .. Len(polys) PROVE by3[p + 1] = by3[p] + Len(s[p])
    <3>1. off[p + 1] = off[p] + Mesh!NumFaces(polys[p]) /\ off[p] \in Nat
      BY <1>1, <1>2, <2>2 DEF IsFaceOffsets
    <3>2. by3[p + 1] = 3 * off[p + 1] /\ by3[p] = 3 * off[p]
      BY <1>2, <1>7
    <3> QED BY <1>6, <3>1, <3>2
  <2> QED BY <1>5, <2>1, <2>2 DEF IsOffsets
<1>10. Mesh!Corners(prims) = Mesh!FlattenSeq(s)
  BY <1>1, <1>2, <1>3 DEF Mesh!Corners
<1>11. IsFlat(Mesh!Corners(prims), by3, s)
  BY <1>8, <1>9, <1>10, Flattened
<1>12. Len(Mesh!Corners(prims)) = 3 * off[Len(polys) + 1]
  BY <1>2, <1>5, <1>7, <1>11 DEF IsFlat
<1>13. ASSUME NEW p \in 1 .. Len(polys), NEW k \in 1 .. 3 * Mesh!NumFaces(polys[p])
       PROVE  Mesh!Corners(prims)[3 * off[p] + k] = Mesh!Fan(polys[p])[k]
  <2>1. by3[p] = 3 * off[p]
    BY <1>2, <1>7
  <2>2. k \in 1 .. Len(s[p]) /\ p \in 1 .. Len(s)
    BY <1>5, <1>6
  <2> QED BY <1>4, <1>11, <2>1, <2>2 DEF IsFlat
<1> QED BY <1>1, <1>11, <1>12, <1>13 DEF IsFlat

\* What is left of a turn by less than a full one.
LEMMA Turned ==
  ASSUME NEW n \in Nat, NEW d \in Int, -n < d, d < n
  PROVE  d % n = IF d >= 0 THEN d ELSE d + n
<1>1. PICK q, r : q = d \div n /\ r = d % n
  OBVIOUS
<1>2. n > 0
  OBVIOUS
<1>3. q \in Int /\ r \in Int /\ d = q * n + r /\ 0 <= r /\ r < n
  BY <1>1, <1>2
<1>4. CASE d >= 0
  <2>1. q = 0
    <3>1. ~(q >= 1)
      <4> SUFFICES ASSUME q >= 1 PROVE FALSE
        OBVIOUS
      <4>1. q * n >= n
        BY <1>2, <1>3
      <4> QED BY <4>1, <1>3
    <3>2. ~(q <= -1)
      <4> SUFFICES ASSUME q <= -1 PROVE FALSE
        OBVIOUS
      <4>1. q * n <= -n
        BY <1>2, <1>3
      <4> QED BY <4>1, <1>3, <1>4
    <3> QED BY <3>1, <3>2, <1>3
  <2> QED BY <2>1, <1>1, <1>3, <1>4
<1>5. CASE ~(d >= 0)
  <2>1. q = -1
    <3>1. ~(q >= 0)
      <4> SUFFICES ASSUME q >= 0 PROVE FALSE
        OBVIOUS
      <4>1. q * n >= 0
        BY <1>2, <1>3
      <4> QED BY <4>1, <1>3, <1>5
    <3>2. ~(q <= -2)
      <4> SUFFICES ASSUME q <= -2 PROVE FALSE
        OBVIOUS
      <4>1. q * n <= -2 * n
        BY <1>2, <1>3
      <4> QED BY <4>1, <1>3
    <3> QED BY <3>1, <3>2, <1>3
  <2> QED BY <2>1, <1>1, <1>3, <1>5
<1> QED BY <1>4, <1>5

\* A bit of the words that hold ten faces each.
LEMMA EdgeBit ==
  ASSUME NEW n \in Nat, NEW masks, \A g \in 1 .. n : masks[g] \subseteq 0 .. 2,
         NEW f \in 1 .. n, NEW b \in 0 .. 2
  PROVE  /\ (f - 1) \div 10 \in 0 .. ((n + 9) \div 10 - 1)
         /\ ((f - 1) % 10) * 3 + b \in
              UNION {{(g % 10) * 3 + c : c \in masks[g + 1]} :
                       g \in {h \in 0 .. (n - 1) : h \div 10 = (f - 1) \div 10}}
            <=> b \in masks[f]
<1>1. (f - 1) \div 10 \in 0 .. ((n + 9) \div 10 - 1)
  OBVIOUS
<1>2. ASSUME NEW g \in 0 .. n - 1, g \div 10 = (f - 1) \div 10, NEW c \in 0 .. 2,
             ((f - 1) % 10) * 3 + b = (g % 10) * 3 + c
      PROVE  g = f - 1 /\ c = b
  <2>1. g % 10 = (f - 1) % 10 /\ c = b
    BY <1>2
  <2>2. g = 10 * (g \div 10) + (g % 10) /\ f - 1 = 10 * ((f - 1) \div 10) + ((f - 1) % 10)
    OBVIOUS
  <2> QED BY <1>2, <2>1, <2>2
<1>3. ASSUME ((f - 1) % 10) * 3 + b \in
               UNION {{(g % 10) * 3 + c : c \in masks[g + 1]} :
                        g \in {h \in 0 .. (n - 1) : h \div 10 = (f - 1) \div 10}}
      PROVE  b \in masks[f]
  <2>1. PICK g \in 0 .. n - 1 : /\ g \div 10 = (f - 1) \div 10
                                /\ \E c \in masks[g + 1] : ((f - 1) % 10) * 3 + b = (g % 10) * 3 + c
    BY <1>3
  <2>2. PICK c \in masks[g + 1] : ((f - 1) % 10) * 3 + b = (g % 10) * 3 + c
    BY <2>1
  <2>3. g + 1 \in 1 .. n
    OBVIOUS
  <2>4. c \in 0 .. 2
    BY <2>2, <2>3
  <2>5. g = f - 1 /\ c = b
    BY <1>2, <2>1, <2>2, <2>4
  <2>6. g + 1 = f
    BY <2>5
  <2> QED BY <2>2, <2>5, <2>6
<1>4. ASSUME b \in masks[f]
      PROVE  ((f - 1) % 10) * 3 + b \in
               UNION {{(g % 10) * 3 + c : c \in masks[g + 1]} :
                        g \in {h \in 0 .. (n - 1) : h \div 10 = (f - 1) \div 10}}
  <2>1. PICK g : g = f - 1
    OBVIOUS
  <2>2. g \in 0 .. n - 1 /\ g + 1 = f /\ g \div 10 = (f - 1) \div 10
    BY <2>1
  <2>3. ((f - 1) % 10) * 3 + b \in {(g % 10) * 3 + c : c \in masks[g + 1]}
    BY <1>4, <2>1, <2>2
  <2> QED BY <2>2, <2>3
<1> QED BY <1>1, <1>3, <1>4

Neighbours(poly, v, w) ==
  ((CHOOSE i \in DOMAIN poly : poly[i] = v) - (CHOOSE i \in DOMAIN poly : poly[i] = w)) % Len(poly)
    \in {1, Len(poly) - 1}

Distinct(poly) == \A i, j \in 1 .. Len(poly) : poly[i] = poly[j] => i = j

LEMMA NeighboursAt ==
  ASSUME NEW poly, IsList(poly), Distinct(poly), NEW i \in 1 .. Len(poly), NEW j \in 1 .. Len(poly)
  PROVE  Neighbours(poly, poly[i], poly[j])
           <=> (IF i >= j THEN i - j ELSE i - j + Len(poly)) \in {1, Len(poly) - 1}
<1>1. Len(poly) \in Nat /\ DOMAIN poly = 1 .. Len(poly)
  BY ListFacts
<1>2. ASSUME NEW k \in 1 .. Len(poly) PROVE (CHOOSE x \in DOMAIN poly : poly[x] = poly[k]) = k
  BY <1>1 DEF Distinct
<1>3. (i - j) % Len(poly) = IF i - j >= 0 THEN i - j ELSE i - j + Len(poly)
  <2>1. PICK d, n : d = i - j /\ n = Len(poly)
    OBVIOUS
  <2>2. n \in Nat /\ d \in Int /\ -n < d /\ d < n
    BY <1>1, <2>1
  <2>3. d % n = IF d >= 0 THEN d ELSE d + n
    BY <2>2, Turned
  <2> QED BY <2>1, <2>3
<1>4. i - j >= 0 <=> i >= j
  BY <1>1
<1> QED BY <1>2, <1>3, <1>4 DEF Neighbours

\* The edges of a triangle of the fan that are edges of the polygon.
LEMMA EdgeIsOfPolygon ==
  ASSUME NEW poly, IsList(poly), Distinct(poly), NEW i \in 1 .. Mesh!NumFaces(poly), NEW b \in 0 .. 2
  PROVE  b \in Mesh!EdgeMask(i, Len(poly))
           <=> Neighbours(poly, Mesh!Fan(poly)[3 * (i - 1) + b + 1],
                          Mesh!Fan(poly)[3 * (i - 1) + ((b + 1) % 3) + 1])
<1>1. PICK n : n = Len(poly)
  OBVIOUS
<1>2. /\ n \in Nat /\ n > 2 /\ i \in 1 .. n - 2
      /\ i + 2 \in 1 .. n /\ i + 1 \in 1 .. n /\ 1 \in 1 .. n
  BY <1>1, NumFacesIs
<1>3. PICK fan : fan = Mesh!Fan(poly)
  OBVIOUS
<1>4. fan[3 * (i - 1) + 1] = poly[i + 2] /\ fan[3 * (i - 1) + 2] = poly[i + 1]
      /\ fan[3 * (i - 1) + 3] = poly[1]
  BY <1>3, FanIs
<1>5. b \in Mesh!EdgeMask(i, n) <=> (b = 0 \/ (b = 1 /\ i = 1) \/ (b = 2 /\ i = n - 2))
  BY DEF Mesh!EdgeMask
<1>6. CASE b = 0
  <2>1. Neighbours(poly, poly[i + 2], poly[i + 1])
          <=> (IF i + 2 >= i + 1 THEN (i + 2) - (i + 1) ELSE (i + 2) - (i + 1) + n) \in {1, n - 1}
    BY <1>1, <1>2, NeighboursAt
  <2>2. Neighbours(poly, poly[i + 2], poly[i + 1])
    BY <1>2, <2>1
  <2>3. 3 * (i - 1) + b + 1 = 3 * (i - 1) + 1 /\ 3 * (i - 1) + ((b + 1) % 3) + 1 = 3 * (i - 1) + 2
    BY <1>2, <1>6
  <2> QED BY <1>1, <1>3, <1>4, <1>5, <1>6, <2>2, <2>3
<1>7. CASE b = 1
  <2>1. Neighbours(poly, poly[i + 1], poly[1])
          <=> (IF i + 1 >= 1 THEN (i + 1) - 1 ELSE (i + 1) - 1 + n) \in {1, n - 1}
    BY <1>1, <1>2, NeighboursAt
  <2>2. Neighbours(poly, poly[i + 1], poly[1]) <=> i = 1
    BY <1>2, <2>1
  <2>3. 3 * (i - 1) + b + 1 = 3 * (i - 1) + 2 /\ 3 * (i - 1) + ((b + 1) % 3) + 1 = 3 * (i - 1) + 3
    BY <1>2, <1>7
  <2> QED BY <1>1, <1>3, <1>4, <1>5, <1>7, <2>2, <2>3
<1>8. CASE b = 2
  <2>1. Neighbours(poly, poly[1], poly[i + 2])
          <=> (IF 1 >= i + 2 THEN 1 - (i + 2) ELSE 1 - (i + 2) + n) \in {1, n - 1}
    BY <1>1, <1>2, NeighboursAt
  <2>2. Neighbours(poly, poly[1], poly[i + 2]) <=> i = n - 2
    BY <1>2, <2>1
  <2>3. 3 * (i - 1) + b + 1 = 3 * (i - 1) + 3 /\ 3 * (i - 1) + ((b + 1) % 3) + 1 = 3 * (i - 1) + 1
    BY <1>2, <1>8
  <2> QED BY <1>1, <1>3, <1>4, <1>5, <1>8, <2>2, <2>3
<1> QED BY <1>6, <1>7, <1>8

LEMMA EdgesAre ==
  ASSUME NEW prims, MeshPrims(prims),
         \A p \in 1 .. Len(Mesh!Polygons(prims)) : Distinct(Mesh!Polygons(prims)[p])
  PROVE  Mesh!EdgesAreOfPolygons(prims, Mesh!GetEdgeVisibility(prims))
<1> DEFINE polys == Mesh!Polygons(prims)
<1> DEFINE s == [p \in DOMAIN polys |-> [i \in 1 .. Mesh!NumFaces(polys[p]) |-> p]]
<1> DEFINE t == [p \in DOMAIN polys |->
                  [i \in 1 .. Mesh!NumFaces(polys[p]) |-> Mesh!EdgeMask(i, Len(polys[p]))]]
<1> DEFINE facePoly == Mesh!FlattenSeq(s)
<1> DEFINE masks == Mesh!FlattenSeq(t)
<1> DEFINE corners == Mesh!Corners(prims)
<1> DEFINE edges == Mesh!GetEdgeVisibility(prims)
<1>1. edges = [w \in 0 .. ((Len(masks) + 9) \div 10 - 1) |->
                 UNION {{(f % 10) * 3 + b : b \in masks[f + 1]} :
                          f \in {g \in 0 .. (Len(masks) - 1) : g \div 10 = w}}]
  BY DEF Mesh!GetEdgeVisibility
<1>2. ListOfLists(polys) /\ Len(polys) \in Nat /\ DOMAIN polys = 1 .. Len(polys)
  BY PolygonsAre, ListFacts DEF ListOfLists
<1>3. PICK off : IsFaceOffsets(off, polys)
  BY <1>2, FaceOffsetsExist
<1>4. /\ s = [p \in 1 .. Len(polys) |-> s[p]]
      /\ \A p \in 1 .. Len(polys) : s[p] = [i \in 1 .. Mesh!NumFaces(polys[p]) |-> p]
      /\ t = [p \in 1 .. Len(polys) |-> t[p]]
      /\ \A p \in 1 .. Len(polys) :
           t[p] = [i \in 1 .. Mesh!NumFaces(polys[p]) |-> Mesh!EdgeMask(i, Len(polys[p]))]
  <2> HIDE DEF polys
  <2> QED BY <1>2
<1> HIDE DEF polys, s, t, facePoly, masks, corners, edges
<1>5. ListOfLists(s) /\ Len(s) = Len(polys) /\ \A p \in 1 .. Len(polys) : Len(s[p]) = Mesh!NumFaces(polys[p])
  <2>1. \A p \in 1 .. Len(polys) : s[p] = [i \in 1 .. Mesh!NumFaces(polys[p]) |-> s[p][i]]
    BY <1>4
  <2> QED BY <1>2, <1>4, <2>1, FaceLists
<1>6. ListOfLists(t) /\ Len(t) = Len(polys) /\ \A p \in 1 .. Len(polys) : Len(t[p]) = Mesh!NumFaces(polys[p])
  <2>1. \A p \in 1 .. Len(polys) : t[p] = [i \in 1 .. Mesh!NumFaces(polys[p]) |-> t[p][i]]
    BY <1>4
  <2> QED BY <1>2, <1>4, <2>1, FaceLists
<1>7. IsOffsets(off, s) /\ IsOffsets(off, t)
  BY <1>2, <1>3, <1>5, <1>6, FaceOffsetsAre
<1>8. IsFlat(facePoly, off, s) /\ IsFlat(masks, off, t)
  BY <1>5, <1>6, <1>7, Flattened DEF facePoly, masks
<1>9. /\ Len(masks) \in Nat /\ Len(masks) = off[Len(polys) + 1] /\ DOMAIN facePoly = 1 .. Len(masks)
      /\ \A p \in 1 .. Len(polys) : \A i \in 1 .. Mesh!NumFaces(polys[p]) :
           /\ off[p] + i \in 1 .. Len(masks) /\ facePoly[off[p] + i] = p
           /\ masks[off[p] + i] = Mesh!EdgeMask(i, Len(polys[p]))
  <2>1. Len(masks) \in Nat /\ Len(masks) = off[Len(polys) + 1] /\ Len(facePoly) = Len(masks) /\ DOMAIN facePoly = 1 .. Len(masks)
    BY <1>5, <1>6, <1>8, ListFacts DEF IsFlat
  <2>2. ASSUME NEW p \in 1 .. Len(polys), NEW i \in 1 .. Mesh!NumFaces(polys[p])
        PROVE  /\ off[p] + i \in 1 .. Len(masks) /\ facePoly[off[p] + i] = p
               /\ masks[off[p] + i] = Mesh!EdgeMask(i, Len(polys[p]))
    <3>1. /\ off[p] + i \in 1 .. Len(facePoly) /\ facePoly[off[p] + i] = s[p][i]
          /\ masks[off[p] + i] = t[p][i]
      BY <1>5, <1>6, <1>8 DEF IsFlat
    <3>2. s[p][i] = p /\ t[p][i] = Mesh!EdgeMask(i, Len(polys[p]))
      <4>1. s[p] = [k \in 1 .. Mesh!NumFaces(polys[p]) |-> p]
        BY <1>4
      <4>2. t[p] = [k \in 1 .. Mesh!NumFaces(polys[p]) |-> Mesh!EdgeMask(k, Len(polys[p]))]
        BY <1>4
      <4> QED BY <4>1, <4>2, Zenon
    <3> QED BY <2>1, <3>1, <3>2
  <2> QED BY <2>1, <2>2
<1>10. ASSUME NEW f \in 1 .. Len(masks)
       PROVE  \E p \in 1 .. Len(polys) : \E i \in 1 .. Mesh!NumFaces(polys[p]) : f = off[p] + i
  <2>1. f \in 1 .. off[Len(s) + 1]
    BY <1>5, <1>9
  <2>2. PICK p \in 1 .. Len(s) : \E i \in 1 .. Len(s[p]) : f = off[p] + i
    <3>1. \A k \in 1 .. off[Len(s) + 1] : \E p \in 1 .. Len(s) : \E i \in 1 .. Len(s[p]) : k = off[p] + i
      BY <1>5, <1>7, Covered
    <3> QED BY <2>1, <3>1
  <2> QED BY <1>5, <2>2
<1>11. ASSUME NEW f \in 1 .. Len(masks) PROVE masks[f] \subseteq 0 .. 2
  <2>1. PICK p \in 1 .. Len(polys) : \E i \in 1 .. Mesh!NumFaces(polys[p]) : f = off[p] + i
    BY <1>10
  <2>2. PICK i \in 1 .. Mesh!NumFaces(polys[p]) : f = off[p] + i
    BY <2>1
  <2>3. masks[f] = Mesh!EdgeMask(i, Len(polys[p]))
    BY <1>9, <2>2
  <2> QED BY <2>3 DEF Mesh!EdgeMask
<1>12. ASSUME NEW f \in 1 .. Len(masks), NEW b \in 0 .. 2
       PROVE  ((f - 1) % 10) * 3 + b \in edges[(f - 1) \div 10] <=> b \in masks[f]
  <2>1. (f - 1) \div 10 \in 0 .. ((Len(masks) + 9) \div 10 - 1)
    BY <1>9, <1>11, EdgeBit
  <2>2. edges[(f - 1) \div 10] =
          UNION {{(g % 10) * 3 + c : c \in masks[g + 1]} :
                   g \in {h \in 0 .. (Len(masks) - 1) : h \div 10 = (f - 1) \div 10}}
    BY <1>1, <2>1
  <2>3. ((f - 1) % 10) * 3 + b \in
              UNION {{(g % 10) * 3 + c : c \in masks[g + 1]} :
                       g \in {h \in 0 .. (Len(masks) - 1) : h \div 10 = (f - 1) \div 10}}
            <=> b \in masks[f]
    BY <1>9, <1>11, EdgeBit
  <2> QED BY <2>2, <2>3
<1>13. ASSUME NEW f \in 1 .. Len(masks), NEW b \in 0 .. 2
       PROVE  ((f - 1) % 10) * 3 + b \in edges[(f - 1) \div 10]
                <=> Neighbours(polys[facePoly[f]], corners[3 * (f - 1) + b + 1],
                               corners[3 * (f - 1) + ((b + 1) % 3) + 1])
  <2>1. PICK p \in 1 .. Len(polys) : \E i \in 1 .. Mesh!NumFaces(polys[p]) : f = off[p] + i
    BY <1>10
  <2>2. PICK i \in 1 .. Mesh!NumFaces(polys[p]) : f = off[p] + i
    BY <2>1
  <2>3. facePoly[f] = p /\ masks[f] = Mesh!EdgeMask(i, Len(polys[p]))
    BY <1>9, <2>2
  <2>4. IsList(polys[p]) /\ Distinct(polys[p]) /\ Mesh!NumFaces(polys[p]) \in Nat /\ off[p] \in Nat
    BY <1>2, <1>3, NumFacesIs DEF polys, ListOfLists, IsFaceOffsets
  <2>5. ASSUME NEW c \in 0 .. 2
        PROVE  corners[3 * (f - 1) + c + 1] = Mesh!Fan(polys[p])[3 * (i - 1) + c + 1]
    <3>1. 3 * (i - 1) + c + 1 \in 1 .. 3 * Mesh!NumFaces(polys[p])
      BY <2>4
    <3>2. corners[3 * off[p] + (3 * (i - 1) + c + 1)] = Mesh!Fan(polys[p])[3 * (i - 1) + c + 1]
      BY <1>3, <3>1, CornersAre DEF polys, corners
    <3>3. 3 * off[p] + (3 * (i - 1) + c + 1) = 3 * (f - 1) + c + 1
      <4>1. PICK o, j : o = off[p] /\ j = i
        OBVIOUS
      <4>2. o \in Nat /\ j \in Int /\ f = o + j
        BY <2>2, <2>4, <4>1
      <4>3. 3 * o + (3 * (j - 1) + c + 1) = 3 * (f - 1) + c + 1
        BY <4>2
      <4> QED BY <4>1, <4>3
    <3> QED BY <3>2, <3>3
  <2>6. (b + 1) % 3 \in 0 .. 2
    OBVIOUS
  <2>7. /\ corners[3 * (f - 1) + b + 1] = Mesh!Fan(polys[p])[3 * (i - 1) + b + 1]
        /\ corners[3 * (f - 1) + ((b + 1) % 3) + 1] = Mesh!Fan(polys[p])[3 * (i - 1) + ((b + 1) % 3) + 1]
    BY <2>5, <2>6
  <2>8. b \in masks[f] <=> b \in Mesh!EdgeMask(i, Len(polys[p]))
    BY <2>3
  <2>9. b \in Mesh!EdgeMask(i, Len(polys[p]))
          <=> Neighbours(polys[p], Mesh!Fan(polys[p])[3 * (i - 1) + b + 1],
                         Mesh!Fan(polys[p])[3 * (i - 1) + ((b + 1) % 3) + 1])
    BY <2>4, EdgeIsOfPolygon
  <2>10. ((f - 1) % 10) * 3 + b \in edges[(f - 1) \div 10] <=> b \in masks[f]
    BY <1>12
  <2> QED BY <2>3, <2>7, <2>8, <2>9, <2>10
<1>14. ASSUME NEW f \in DOMAIN facePoly, NEW b \in 0 .. 2
       PROVE  (((f - 1) % 10) * 3 + b \in edges[(f - 1) \div 10])
                = Neighbours(polys[facePoly[f]], corners[3 * (f - 1) + b + 1],
                             corners[3 * (f - 1) + ((b + 1) % 3) + 1])
  <2>1. f \in 1 .. Len(masks)
    BY <1>9
  <2>2. \A poly, v, w : Neighbours(poly, v, w) \in BOOLEAN
    BY DEF Neighbours
  <2>3. PICK x, e, z : /\ x = ((f - 1) % 10) * 3 + b /\ e = edges[(f - 1) \div 10]
                       /\ z = Neighbours(polys[facePoly[f]], corners[3 * (f - 1) + b + 1],
                                         corners[3 * (f - 1) + ((b + 1) % 3) + 1])
    OBVIOUS
  <2>4. z \in BOOLEAN /\ (x \in e <=> z)
    <3>1. ((f - 1) % 10) * 3 + b \in edges[(f - 1) \div 10]
            <=> Neighbours(polys[facePoly[f]], corners[3 * (f - 1) + b + 1],
                           corners[3 * (f - 1) + ((b + 1) % 3) + 1])
      BY <1>13, <2>1
    <3> QED BY <2>2, <2>3, <3>1, Zenon
  <2>5. (x \in e) = z
    BY <2>4
  <2> QED BY <2>3, <2>5, Zenon
<1> QED BY <1>14 DEF Mesh!EdgesAreOfPolygons, Neighbours, polys, s, facePoly, corners, edges

-----------------------------------------------------------------------------
(* The primitives and polygons of a detail. *)

\* Primitives that are all of a detail.
OfDetail(prims, d) ==
  MeshPrims(prims) /\ \A i \in 1 .. Len(prims) : \E j \in 1 .. Len(d.prims) : prims[i] = d.prims[j]

LEMMA OnlyOf ==
  ASSUME NEW prims, IsList(prims), NEW indices
  PROVE  /\ IsList(Mesh!Only(prims, indices))
         /\ \A k \in 1 .. Len(Mesh!Only(prims, indices)) : \E i \in 1 .. Len(prims) :
              i \in indices /\ Mesh!Only(prims, indices)[k] = prims[i]
<1> DEFINE s == [i \in DOMAIN prims |-> IF i \in indices THEN <<prims[i]>> ELSE <<>>]
<1>1. Mesh!Only(prims, indices) = Mesh!FlattenSeq(s)
  BY DEF Mesh!Only
<1>2. Len(prims) \in Nat /\ DOMAIN prims = 1 .. Len(prims)
  BY ListFacts
<1>3. /\ s = [i \in 1 .. Len(prims) |-> s[i]]
      /\ \A i \in 1 .. Len(prims) : s[i] = IF i \in indices THEN <<prims[i]>> ELSE <<>>
  BY <1>2
<1> HIDE DEF s
<1>4. IsList(s) /\ Len(s) = Len(prims)
  BY <1>2, <1>3, ListFromFcn
<1>5. ASSUME NEW i \in 1 .. Len(s)
      PROVE  IsList(s[i]) /\ \A j \in 1 .. Len(s[i]) : i \in indices /\ s[i][j] = prims[i]
  <2>1. CASE i \in indices
    <3>1. PICK x : x = prims[i]
      OBVIOUS
    <3>2. <<x>> \in Seq({x}) /\ Len(<<x>>) = 1 /\ <<x>>[1] = x
      OBVIOUS
    <3>3. s[i] = <<x>>
      BY <1>3, <1>4, <2>1, <3>1
    <3>4. IsList(s[i])
      BY <3>2, <3>3 DEF IsList
    <3>5. \A j \in 1 .. Len(s[i]) : s[i][j] = x
      BY <3>2, <3>3
    <3> QED BY <2>1, <3>1, <3>4, <3>5
  <2>2. CASE i \notin indices
    <3>1. s[i] = <<>>
      BY <1>3, <1>4, <2>2
    <3>2. <<>> \in Seq({}) /\ Len(<<>>) = 0
      OBVIOUS
    <3> QED BY <3>1, <3>2 DEF IsList
  <2> QED BY <2>1, <2>2
<1>6. ListOfLists(s)
  BY <1>4, <1>5 DEF ListOfLists
<1>7. PICK off : IsOffsets(off, s)
  BY <1>6, OffsetsExist
<1>8. IsFlat(Mesh!FlattenSeq(s), off, s)
  BY <1>6, <1>7, Flattened
<1>9. ASSUME NEW k \in 1 .. Len(Mesh!FlattenSeq(s))
      PROVE  \E i \in 1 .. Len(prims) : i \in indices /\ Mesh!FlattenSeq(s)[k] = prims[i]
  <2>1. k \in 1 .. off[Len(s) + 1]
    BY <1>8 DEF IsFlat
  <2>2. PICK i \in 1 .. Len(s) : \E j \in 1 .. Len(s[i]) : k = off[i] + j
    BY <1>6, <1>7, <2>1, Covered
  <2>3. PICK j \in 1 .. Len(s[i]) : k = off[i] + j
    BY <2>2
  <2>4. Mesh!FlattenSeq(s)[k] = s[i][j]
    BY <1>8, <2>3 DEF IsFlat
  <2> QED BY <1>4, <1>5, <2>3, <2>4
<1> QED BY <1>1, <1>8, <1>9 DEF IsFlat

LEMMA DetailPrims ==
  ASSUME NEW d \in MeshDetails
  PROVE  /\ OfDetail(d.prims, d) /\ IsList(d.points) /\ \A v \in DOMAIN d.points : d.points[v] \in Nat
         /\ \A i \in 1 .. Len(d.prims) : d.prims[i].kind # "soup" => Len(d.prims[i].polys) = 1
<1>1. /\ d.prims \in Seq(Mesh!Range(d.prims)) /\ d.points \in Seq(Nat)
      /\ \A prim \in Mesh!Range(d.prims) :
           prim.polys \in Seq(Seq(Nat)) /\ (prim.kind # "soup" => Len(prim.polys) = 1)
  BY Assumptions DEF Mesh!DetailsAssumption
<1>2. IsList(d.prims) /\ IsList(d.points) /\ \A v \in DOMAIN d.points : d.points[v] \in Nat
  BY <1>1 DEF IsList
<1>3. ASSUME NEW i \in 1 .. Len(d.prims)
      PROVE  /\ ListOfLists(d.prims[i].polys)
             /\ d.prims[i].kind # "soup" => Len(d.prims[i].polys) = 1
  <2>1. d.prims[i] \in Mesh!Range(d.prims)
    BY <1>2, ListFacts DEF Mesh!Range
  <2>2. d.prims[i].polys \in Seq(Seq(Nat))
    BY <1>1, <2>1
  <2>3. IsList(d.prims[i].polys)
    BY <2>2 DEF IsList
  <2>4. \A j \in 1 .. Len(d.prims[i].polys) : d.prims[i].polys[j] \in Seq(Nat)
    BY <2>2
  <2> QED BY <1>1, <2>1, <2>3, <2>4 DEF ListOfLists, IsList
<1> QED BY <1>2, <1>3 DEF OfDetail, MeshPrims

LEMMA OnlyOfDetail ==
  ASSUME NEW d \in MeshDetails, NEW prims, OfDetail(prims, d), NEW indices
  PROVE  OfDetail(Mesh!Only(prims, indices), d)
<1>1. PICK only : only = Mesh!Only(prims, indices)
  OBVIOUS
<1>2. IsList(only) /\ \A k \in 1 .. Len(only) : \E i \in 1 .. Len(prims) : only[k] = prims[i]
  BY <1>1, OnlyOf DEF OfDetail, MeshPrims
<1>3. \A k \in 1 .. Len(only) :
        ListOfLists(only[k].polys) /\ \E j \in 1 .. Len(d.prims) : only[k] = d.prims[j]
  BY <1>2 DEF OfDetail, MeshPrims
<1> QED BY <1>1, <1>2, <1>3 DEF OfDetail, MeshPrims

LEMMA PrimListOf ==
  ASSUME NEW d \in MeshDetails
  PROVE  OfDetail(Mesh!PrimList(d), d)
BY DetailPrims, OnlyOfDetail DEF Mesh!PrimList

LEMMA OneOf ==
  ASSUME NEW d \in MeshDetails, NEW prims, OfDetail(prims, d), NEW i \in 1 .. Len(prims)
  PROVE  OfDetail(<<prims[i]>>, d)
<1>1. PICK x : x = prims[i]
  OBVIOUS
<1>2. <<x>> \in Seq({x}) /\ Len(<<x>>) = 1 /\ <<x>>[1] = x
  OBVIOUS
<1>3. ListOfLists(x.polys) /\ \E j \in 1 .. Len(d.prims) : x = d.prims[j]
  BY <1>1 DEF OfDetail, MeshPrims
<1>4. \A k \in 1 .. Len(<<x>>) : <<x>>[k] = x
  BY <1>2
<1>5. IsList(<<x>>)
  BY <1>2 DEF IsList
<1>6. OfDetail(<<x>>, d)
  BY <1>3, <1>4, <1>5 DEF OfDetail, MeshPrims
<1> QED BY <1>1, <1>6

\* A polygon meets a vertex of its detail once.
LEMMA DetailPolygons ==
  ASSUME NEW d \in MeshDetails, NEW i \in 1 .. Len(d.prims), NEW j \in 1 .. Len(d.prims[i].polys)
  PROVE  /\ Distinct(d.prims[i].polys[j])
         /\ \A k \in 1 .. Len(d.prims[i].polys[j]) : d.prims[i].polys[j][k] \in DOMAIN d.points
<1>1. MeshPrims(d.prims)
  BY DetailPrims DEF OfDetail
<1> DEFINE s == [m \in 1 .. Len(d.prims) |-> d.prims[m].polys]
<1> DEFINE polys == Mesh!Polygons(d.prims)
<1>2. ListOfLists(s) /\ Len(s) = Len(d.prims) /\ polys = Mesh!FlattenSeq(s) /\ ListOfLists(polys)
  BY <1>1, PolygonsAre
<1>3. s[i] = d.prims[i].polys
  OBVIOUS
<1>4. Mesh!FlattenSeq(polys) = [v \in DOMAIN d.points |-> v]
  BY Assumptions DEF Mesh!DetailsAssumption, Mesh!Polygons
<1> HIDE DEF s, polys
<1>5. PICK o1, o2 : IsOffsets(o1, s) /\ IsOffsets(o2, polys)
  BY <1>2, OffsetsExist
<1>6. IsFlat(polys, o1, s) /\ IsFlat(Mesh!FlattenSeq(polys), o2, polys)
  BY <1>2, <1>5, Flattened
<1>7. PICK p : p = o1[i] + j
  OBVIOUS
<1>8. p \in 1 .. Len(polys) /\ polys[p] = d.prims[i].polys[j]
  BY <1>2, <1>3, <1>6, <1>7 DEF IsFlat
<1>9. PICK poly, all : poly = d.prims[i].polys[j] /\ all = Mesh!FlattenSeq(polys)
  OBVIOUS
<1>10. IsList(poly) /\ IsList(all)
  BY <1>2, <1>6, <1>8, <1>9 DEF ListOfLists, IsFlat
<1>11. \A k \in 1 .. Len(poly) : o2[p] + k \in 1 .. Len(all) /\ all[o2[p] + k] = poly[k]
  BY <1>6, <1>8, <1>9 DEF IsFlat
<1>12. DOMAIN all = DOMAIN d.points /\ DOMAIN all = 1 .. Len(all) /\ \A v \in DOMAIN all : all[v] = v
  BY <1>4, <1>9, <1>10, ListFacts
<1>13. \A k \in 1 .. Len(poly) : poly[k] = o2[p] + k /\ poly[k] \in DOMAIN d.points
  BY <1>11, <1>12
<1>14. o2[p] \in Nat /\ Len(poly) \in Nat
  <2>1. Len(polys) \in Nat
    BY <1>2, ListFacts DEF ListOfLists
  <2>2. p \in 1 .. Len(polys) + 1
    BY <1>8, <2>1
  <2> QED BY <1>5, <1>10, <2>2, ListFacts DEF IsOffsets
<1>15. Distinct(poly)
  <2> SUFFICES ASSUME NEW x \in 1 .. Len(poly), NEW y \in 1 .. Len(poly), poly[x] = poly[y]
               PROVE  x = y
    BY DEF Distinct
  <2>1. o2[p] + x = o2[p] + y
    BY <1>13
  <2> QED BY <1>14, <2>1
<1> QED BY <1>9, <1>13, <1>15

LEMMA PolygonsOfDetail ==
  ASSUME NEW d \in MeshDetails, NEW prims, OfDetail(prims, d),
         NEW p \in 1 .. Len(Mesh!Polygons(prims))
  PROVE  /\ Distinct(Mesh!Polygons(prims)[p]) /\ IsList(Mesh!Polygons(prims)[p])
         /\ \A k \in 1 .. Len(Mesh!Polygons(prims)[p]) :
              Mesh!Polygons(prims)[p][k] \in DOMAIN d.points
<1>1. PICK i \in 1 .. Len(prims) : \E j \in 1 .. Len(prims[i].polys) :
        Mesh!Polygons(prims)[p] = prims[i].polys[j]
  BY PolygonsAre DEF OfDetail
<1>2. PICK j \in 1 .. Len(prims[i].polys) : Mesh!Polygons(prims)[p] = prims[i].polys[j]
  BY <1>1
<1>3. PICK m \in 1 .. Len(d.prims) : prims[i] = d.prims[m]
  BY DEF OfDetail
<1>4. IsList(Mesh!Polygons(prims)[p])
  BY PolygonsAre DEF OfDetail, ListOfLists
<1> QED BY <1>2, <1>3, <1>4, DetailPolygons

LEMMA EdgesOfDetail ==
  ASSUME NEW d \in MeshDetails, NEW prims, OfDetail(prims, d)
  PROVE  Mesh!EdgesAreOfPolygons(prims, Mesh!GetEdgeVisibility(prims))
BY PolygonsOfDetail, EdgesAre DEF OfDetail

PolygonsIn(prims, X) ==
  \A p \in 1 .. Len(Mesh!Polygons(prims)) :
    \A v \in 1 .. Len(Mesh!Polygons(prims)[p]) : Mesh!Polygons(prims)[p][v] \in X

\* A corner is a vertex of a polygon.
LEMMA CornersIn ==
  ASSUME NEW prims, MeshPrims(prims), NEW X, PolygonsIn(prims, X)
  PROVE  /\ IsList(Mesh!Corners(prims))
         /\ \A k \in 1 .. Len(Mesh!Corners(prims)) : Mesh!Corners(prims)[k] \in X
<1>1. ListOfLists(Mesh!Polygons(prims))
  BY PolygonsAre
<1> DEFINE polys == Mesh!Polygons(prims)
<1> DEFINE corners == Mesh!Corners(prims)
<1> DEFINE s == [p \in DOMAIN polys |-> Mesh!Fan(polys[p])]
<1>2. corners = Mesh!FlattenSeq(s)
  BY DEF Mesh!Corners
<1> HIDE DEF polys, corners
<1>3. Len(polys) \in Nat /\ DOMAIN polys = 1 .. Len(polys) /\ ListOfLists(polys)
  BY <1>1, ListFacts DEF ListOfLists, polys
<1>4. s = [p \in 1 .. Len(polys) |-> s[p]] /\ \A p \in 1 .. Len(polys) : s[p] = Mesh!Fan(polys[p])
  BY <1>3
<1> HIDE DEF s
<1>5. IsList(s) /\ Len(s) = Len(polys)
  BY <1>3, <1>4, ListFromFcn
<1>6. \A p \in 1 .. Len(polys) : IsList(s[p]) /\ Len(s[p]) = 3 * Mesh!NumFaces(polys[p])
  BY <1>3, <1>4, FanIs DEF ListOfLists
<1>7. ListOfLists(s)
  BY <1>5, <1>6 DEF ListOfLists
<1>8. PICK off : IsOffsets(off, s)
  BY <1>7, OffsetsExist
<1>9. IsFlat(corners, off, s)
  BY <1>2, <1>7, <1>8, Flattened
<1>10. ASSUME NEW k \in 1 .. Len(corners) PROVE corners[k] \in X
  <2>1. \A m \in 1 .. off[Len(s) + 1] : \E p \in 1 .. Len(s) : \E j \in 1 .. Len(s[p]) : m = off[p] + j
    BY <1>7, <1>8, Covered
  <2>2. PICK p \in 1 .. Len(s) : \E j \in 1 .. Len(s[p]) : k = off[p] + j
    BY <1>9, <2>1 DEF IsFlat
  <2>3. PICK j \in 1 .. Len(s[p]) : k = off[p] + j
    BY <2>2
  <2>4. corners[k] = s[p][j]
    BY <1>9, <2>3 DEF IsFlat
  <2>5. PICK poly, n : poly = polys[p] /\ n = Mesh!NumFaces(poly)
    OBVIOUS
  <2>6. n \in Nat /\ IsList(poly) /\ j \in 1 .. 3 * n /\ s[p] = Mesh!Fan(poly)
    BY <1>3, <1>4, <1>5, <1>6, <2>5, NumFacesIs DEF ListOfLists
  <2>7. \A v \in 1 .. Len(poly) : poly[v] \in X
    BY <1>5, <2>5 DEF polys, PolygonsIn
  <2>8. PICK i \in 1 .. n : j = 3 * (i - 1) + 1 \/ j = 3 * (i - 1) + 2 \/ j = 3 * (i - 1) + 3
    <3>1. (j + 2) \div 3 \in 1 .. n
      BY <2>6
    <3>2. \/ j = 3 * ((j + 2) \div 3 - 1) + 1 \/ j = 3 * ((j + 2) \div 3 - 1) + 2
          \/ j = 3 * ((j + 2) \div 3 - 1) + 3
      BY <2>6
    <3> QED BY <3>1, <3>2
  <2>9. /\ i + 2 \in 1 .. Len(poly) /\ i + 1 \in 1 .. Len(poly) /\ 1 \in 1 .. Len(poly)
        /\ Mesh!Fan(poly)[3 * (i - 1) + 1] = poly[i + 2]
        /\ Mesh!Fan(poly)[3 * (i - 1) + 2] = poly[i + 1]
        /\ Mesh!Fan(poly)[3 * (i - 1) + 3] = poly[1]
    <3>1. i \in 1 .. Mesh!NumFaces(poly) /\ IsList(poly)
      BY <2>5, <2>6
    <3>2. Len(poly) \in Nat /\ Len(poly) > 2 /\ i + 2 \in 1 .. Len(poly) /\ i + 1 \in 1 .. Len(poly)
      BY <3>1, NumFacesIs
    <3>3. 1 \in 1 .. Len(poly)
      BY <3>2
    <3> QED BY <3>1, <3>2, <3>3, FanIs
  <2> QED BY <2>4, <2>6, <2>7, <2>8, <2>9
<1> QED BY <1>9, <1>10 DEF IsFlat, corners

LEMMA CornersOfDetail ==
  ASSUME NEW d \in MeshDetails, NEW prims, OfDetail(prims, d)
  PROVE  /\ IsList(Mesh!Corners(prims))
         /\ \A k \in 1 .. Len(Mesh!Corners(prims)) : Mesh!Corners(prims)[k] \in DOMAIN d.points
<1>1. MeshPrims(prims)
  BY DEF OfDetail
<1>2. PolygonsIn(prims, DOMAIN d.points)
  BY PolygonsOfDetail DEF PolygonsIn
<1> QED BY <1>1, <1>2, CornersIn

-----------------------------------------------------------------------------
(* Channels of a detail. *)

LEMMA FlattenFew ==
  ASSUME NEW s, ListOfLists(s), Len(s) <= 1
  PROVE  Mesh!FlattenSeq(s) = IF Len(s) = 0 THEN s ELSE s[1]
<1>1. Len(s) \in Nat
  BY ListFacts DEF ListOfLists
<1>2. CASE Len(s) = 0
  BY <1>2 DEF Mesh!FlattenSeq
<1>3. CASE Len(s) # 0
  <2>1. Len(s) = 1
    <3>1. PICK n : n = Len(s)
      OBVIOUS
    <3>2. n \in Nat /\ n <= 1 /\ n # 0
      BY <1>1, <1>3, <3>1
    <3>3. n = 1
      BY <3>2
    <3> QED BY <3>1, <3>3
  <2>2. PICK off : IsOffsets(off, s)
    BY OffsetsExist
  <2>3. PICK t : t = Mesh!FlattenSeq(s)
    OBVIOUS
  <2>4. IsFlat(t, off, s)
    BY <2>2, <2>3, Flattened
  <2>5. off[1] = 0 /\ off[1 + 1] = off[1] + Len(s[1]) /\ IsList(s[1]) /\ Len(s[1]) \in Nat
    BY <2>1, <2>2, ListFacts DEF IsOffsets, ListOfLists
  <2>6. Len(t) = Len(s[1]) /\ IsList(t)
    BY <2>1, <2>4, <2>5 DEF IsFlat
  <2>7. ASSUME NEW j \in 1 .. Len(s[1]) PROVE t[j] = s[1][j]
    <3>1. t[off[1] + j] = s[1][j]
      BY <2>1, <2>4 DEF IsFlat
    <3>2. off[1] + j = j
      BY <2>5
    <3> QED BY <3>1, <3>2
  <2>8. t = s[1]
    BY <2>5, <2>6, <2>7, EqualLists
  <2> QED BY <1>3, <2>3, <2>8
<1> QED BY <1>2, <1>3

\* The corners of a primitive of one polygon, or none, as the welded channel takes them.
WeldedOf(polys) ==
  LET all == Mesh!FlattenSeq(polys)
  IN Mesh!FlattenSeq([j \in DOMAIN polys |-> Mesh!Fan(SubSeq(all, 1, Len(polys[j])))])

LEMMA WeldedOfFew ==
  ASSUME NEW polys, ListOfLists(polys), Len(polys) <= 1
  PROVE  /\ IsList(WeldedOf(polys))
         /\ Len(polys) = 0 => Len(WeldedOf(polys)) = 0
         /\ Len(polys) = 1 => WeldedOf(polys) = Mesh!Fan(polys[1])
<1>1. Len(polys) \in Nat /\ DOMAIN polys = 1 .. Len(polys)
  BY ListFacts DEF ListOfLists
<1>2. CASE Len(polys) = 0
  <2>1. DOMAIN polys = {}
    BY <1>1, <1>2
  <2>2. PICK s : s = [j \in DOMAIN polys |-> Mesh!Fan(SubSeq(Mesh!FlattenSeq(polys), 1, Len(polys[j])))]
    OBVIOUS
  <2>3. s \in Seq({}) /\ Len(s) = 0
    BY <2>1, <2>2
  <2>4. Mesh!FlattenSeq(s) = s
    BY <2>3 DEF Mesh!FlattenSeq
  <2>5. WeldedOf(polys) = s
    BY <2>2, <2>4 DEF WeldedOf
  <2> QED BY <1>2, <2>3, <2>5 DEF IsList
<1>3. CASE Len(polys) # 0
  <2>1. Len(polys) = 1 /\ IsList(polys[1])
    <3>1. PICK n : n = Len(polys)
      OBVIOUS
    <3>2. n \in Nat /\ n <= 1 /\ n # 0
      BY <1>1, <1>3, <3>1
    <3>3. n = 1
      BY <3>2
    <3> QED BY <3>1, <3>3 DEF ListOfLists
  <2>2. PICK poly : poly = polys[1]
    OBVIOUS
  <2>3. Mesh!FlattenSeq(polys) = poly
    <3>1. Mesh!FlattenSeq(polys) = IF Len(polys) = 0 THEN polys ELSE polys[1]
      BY FlattenFew
    <3> QED BY <1>3, <2>2, <3>1
  <2>4. SubSeq(poly, 1, Len(poly)) = poly
    <3>1. PICK S : poly \in Seq(S)
      BY <2>1, <2>2 DEF IsList
    <3> QED BY <3>1
  <2> DEFINE s == [j \in DOMAIN polys |-> Mesh!Fan(SubSeq(Mesh!FlattenSeq(polys), 1, Len(polys[j])))]
  <2>5. WeldedOf(polys) = Mesh!FlattenSeq(s)
    BY DEF WeldedOf
  <2>6. s = [j \in 1 .. 1 |-> s[j]]
    BY <1>1, <2>1
  <2>7. s[1] = Mesh!Fan(poly)
    <3>1. 1 \in DOMAIN polys
      BY <1>1, <2>1
    <3>2. s[1] = Mesh!Fan(SubSeq(Mesh!FlattenSeq(polys), 1, Len(polys[1])))
      BY <3>1
    <3> QED BY <3>2, <2>2, <2>3, <2>4
  <2> HIDE DEF s
  <2>8. IsList(s) /\ Len(s) = 1
    BY <2>6, ListFromFcn
  <2>9. IsList(Mesh!Fan(poly))
    BY <2>1, <2>2, FanIs
  <2>10. ListOfLists(s)
    BY <2>7, <2>8, <2>9 DEF ListOfLists
  <2>11. Mesh!FlattenSeq(s) = s[1]
    <3>1. Len(s) <= 1 /\ Len(s) # 0
      BY <2>8
    <3>2. Mesh!FlattenSeq(s) = IF Len(s) = 0 THEN s ELSE s[1]
      BY <2>10, <3>1, FlattenFew
    <3> QED BY <3>1, <3>2
  <2> QED BY <1>3, <2>2, <2>5, <2>7, <2>9, <2>11
<1> QED BY <1>2, <1>3

LEMMA WeldedAre ==
  ASSUME NEW prims, MeshPrims(prims), \A i \in 1 .. Len(prims) : Len(prims[i].polys) <= 1
  PROVE  Mesh!WeldedCorners(prims) = Mesh!Corners(prims)
<1> DEFINE s == [i \in 1 .. Len(prims) |-> prims[i].polys]
<1> DEFINE polys == Mesh!Polygons(prims)
<1> DEFINE corners == Mesh!Corners(prims)
<1> DEFINE w == [i \in DOMAIN prims |-> WeldedOf(prims[i].polys)]
<1>1. ListOfLists(s) /\ Len(s) = Len(prims) /\ polys = Mesh!FlattenSeq(s) /\ ListOfLists(polys)
  BY PolygonsAre
<1>2. Mesh!WeldedCorners(prims) = Mesh!FlattenSeq(w)
  BY DEF Mesh!WeldedCorners, WeldedOf
<1>3. Len(prims) \in Nat /\ DOMAIN prims = 1 .. Len(prims)
  BY ListFacts DEF MeshPrims
<1>4. /\ \A i \in 1 .. Len(prims) : s[i] = prims[i].polys
      /\ w = [i \in 1 .. Len(prims) |-> w[i]]
      /\ \A i \in 1 .. Len(prims) : w[i] = WeldedOf(prims[i].polys)
  BY <1>3
<1> HIDE DEF s, polys, corners, w
<1>5. ListOfLists(polys) /\ Len(polys) \in Nat
  BY <1>1, ListFacts DEF ListOfLists
<1>6. PICK o1, off : IsOffsets(o1, s) /\ IsFaceOffsets(off, polys)
  BY <1>1, <1>5, OffsetsExist, FaceOffsetsExist
<1>7. IsFlat(polys, o1, s)
  BY <1>1, <1>6, Flattened
<1>8. /\ IsList(corners) /\ Len(corners) = 3 * off[Len(polys) + 1]
      /\ \A p \in 1 .. Len(polys) : \A k \in 1 .. 3 * Mesh!NumFaces(polys[p]) :
           corners[3 * off[p] + k] = Mesh!Fan(polys[p])[k]
  BY <1>6, CornersAre DEF polys, corners
<1>9. IsList(w) /\ Len(w) = Len(prims)
  BY <1>3, <1>4, ListFromFcn
<1>10. ASSUME NEW i \in 1 .. Len(prims)
       PROVE  /\ Len(s[i]) \in Nat /\ Len(s[i]) <= 1 /\ IsList(w[i])
              /\ Len(s[i]) = 0 => Len(w[i]) = 0
              /\ Len(s[i]) = 1 => w[i] = Mesh!Fan(s[i][1])
  <2>1. ListOfLists(s[i]) /\ Len(s[i]) <= 1 /\ w[i] = WeldedOf(s[i])
    BY <1>4 DEF MeshPrims
  <2>2. Len(s[i]) \in Nat
    BY <2>1, ListFacts DEF ListOfLists
  <2> QED BY <2>1, <2>2, WeldedOfFew
<1>11. ListOfLists(w)
  BY <1>9, <1>10 DEF ListOfLists
\* Where the polygon of a primitive is, if it has one.
<1>12. ASSUME NEW i \in 1 .. Len(prims) + 1
       PROVE  o1[i] \in Nat /\ o1[i] + 1 \in 1 .. Len(polys) + 1
  <2>1. o1[i] \in Nat /\ o1[i] <= o1[Len(s) + 1]
    BY <1>1, <1>6, OffsetsGrow DEF IsOffsets
  <2>2. o1[Len(s) + 1] = Len(polys)
    BY <1>7 DEF IsFlat
  <2> QED BY <1>5, <2>1, <2>2
<1>13. ASSUME NEW i \in 1 .. Len(prims), Len(s[i]) = 1
       PROVE  /\ o1[i] + 1 \in 1 .. Len(polys) /\ polys[o1[i] + 1] = s[i][1]
              /\ IsList(w[i]) /\ Len(w[i]) = 3 * Mesh!NumFaces(polys[o1[i] + 1])
              /\ w[i] = Mesh!Fan(polys[o1[i] + 1])
              /\ off[(o1[i] + 1) + 1] = off[o1[i] + 1] + Mesh!NumFaces(polys[o1[i] + 1])
  <2>1. o1[i] + 1 \in 1 .. Len(polys) /\ polys[o1[i] + 1] = s[i][1]
    BY <1>1, <1>7, <1>13 DEF IsFlat
  <2>2. IsList(polys[o1[i] + 1])
    BY <1>1, <2>1 DEF ListOfLists
  <2> QED BY <1>6, <1>10, <1>13, <2>1, <2>2, FanIs DEF IsFaceOffsets
<1>14. PICK o3 : o3 = [i \in 1 .. Len(prims) + 1 |-> 3 * off[o1[i] + 1]]
  OBVIOUS
<1>15. \A i \in 1 .. Len(prims) + 1 : o3[i] = 3 * off[o1[i] + 1] /\ off[o1[i] + 1] \in Nat
  BY <1>6, <1>12, <1>14 DEF IsFaceOffsets
<1>16. IsOffsets(o3, w)
  <2>1. 1 \in 1 .. Len(prims) + 1 /\ o1[1] = 0 /\ off[0 + 1] = 0
    BY <1>3, <1>6 DEF IsOffsets, IsFaceOffsets
  <2>2. o3[1] = 0
    <3>1. o1[1] + 1 = 1 /\ off[1] = 0
      BY <1>6, <2>1 DEF IsFaceOffsets
    <3>2. o3[1] = 3 * off[o1[1] + 1]
      BY <1>15, <2>1
    <3>3. off[o1[1] + 1] = 0
      BY <3>1
    <3> QED BY <3>2, <3>3
  <2>3. \A i \in 1 .. Len(prims) + 1 : o3[i] \in Nat
    BY <1>15
  <2>4. ASSUME NEW i \in 1 .. Len(prims) PROVE o3[i + 1] = o3[i] + Len(w[i])
    <3>1. /\ i \in 1 .. Len(prims) + 1 /\ i + 1 \in 1 .. Len(prims) + 1
          /\ o1[i + 1] = o1[i] + Len(s[i]) /\ o1[i] \in Nat
      BY <1>1, <1>3, <1>6, <1>12 DEF IsOffsets
    <3>2. o3[i] = 3 * off[o1[i] + 1] /\ o3[i + 1] = 3 * off[o1[i + 1] + 1] /\ off[o1[i] + 1] \in Nat
      BY <1>15, <3>1
    <3>3. CASE Len(s[i]) = 0
      <4>1. o1[i + 1] = o1[i] /\ Len(w[i]) = 0
        BY <1>10, <3>1, <3>3
      <4>2. o3[i + 1] = o3[i] /\ o3[i] \in Nat
        BY <3>2, <4>1
      <4> QED BY <4>1, <4>2
    <3>4. CASE Len(s[i]) = 1
      <4>1. o1[i + 1] = o1[i] + 1
        BY <3>1, <3>4
      <4>2. PICK m, a, b : /\ m = Mesh!NumFaces(polys[o1[i] + 1]) /\ a = off[o1[i] + 1]
                           /\ b = off[(o1[i] + 1) + 1]
        OBVIOUS
      <4>3. Len(w[i]) = 3 * m /\ b = a + m /\ m \in Nat /\ a \in Nat
        <5>1. IsList(polys[o1[i] + 1])
          BY <1>5, <1>13, <3>4 DEF ListOfLists
        <5> QED BY <1>13, <3>2, <3>4, <4>2, <5>1, NumFacesIs
      <4>4. o3[i] = 3 * a /\ o3[i + 1] = 3 * b
        BY <3>2, <4>1, <4>2
      <4> QED BY <4>3, <4>4
    <3>5. Len(s[i]) = 0 \/ Len(s[i]) = 1
      <4>1. PICK m : m = Len(s[i])
        OBVIOUS
      <4>2. m \in Nat /\ m <= 1
        BY <1>10, <4>1
      <4>3. m = 0 \/ m = 1
        BY <4>2
      <4> QED BY <4>1, <4>3
    <3> QED BY <3>3, <3>4, <3>5
  <2> QED BY <1>9, <2>2, <2>3, <2>4 DEF IsOffsets
<1>17. PICK welded : welded = Mesh!FlattenSeq(w)
  OBVIOUS
<1>18. IsFlat(welded, o3, w)
  BY <1>11, <1>16, <1>17, Flattened
<1>19. Len(welded) = Len(corners)
  <2>1. Len(prims) + 1 \in 1 .. Len(prims) + 1
    BY <1>3
  <2>2. Len(welded) = 3 * off[o1[Len(prims) + 1] + 1]
    BY <1>9, <1>15, <1>18, <2>1 DEF IsFlat
  <2>3. o1[Len(prims) + 1] = Len(polys)
    BY <1>1, <1>7 DEF IsFlat
  <2> QED BY <1>8, <2>2, <2>3
<1>20. ASSUME NEW k \in 1 .. Len(welded) PROVE welded[k] = corners[k]
  <2>1. \A m \in 1 .. o3[Len(w) + 1] : \E i \in 1 .. Len(w) : \E j \in 1 .. Len(w[i]) : m = o3[i] + j
    BY <1>11, <1>16, Covered
  <2>2. PICK i \in 1 .. Len(w) : \E j \in 1 .. Len(w[i]) : k = o3[i] + j
    BY <1>18, <2>1 DEF IsFlat
  <2>3. PICK j \in 1 .. Len(w[i]) : k = o3[i] + j
    BY <2>2
  <2>4. i \in 1 .. Len(prims) /\ i \in 1 .. Len(prims) + 1
    BY <1>3, <1>9
  <2>5. Len(s[i]) = 1
    <3>1. Len(w[i]) # 0
      BY <2>3
    <3>2. PICK m : m = Len(s[i])
      OBVIOUS
    <3>3. m \in Nat /\ m <= 1 /\ m # 0
      BY <1>10, <2>4, <3>1, <3>2
    <3>4. m = 1
      BY <3>3
    <3> QED BY <3>2, <3>4
  <2>6. welded[k] = w[i][j]
    BY <1>18, <2>3 DEF IsFlat
  <2>7. j \in 1 .. 3 * Mesh!NumFaces(polys[o1[i] + 1]) /\ w[i] = Mesh!Fan(polys[o1[i] + 1])
        /\ o1[i] + 1 \in 1 .. Len(polys)
    BY <1>13, <2>4, <2>5
  <2>8. corners[3 * off[o1[i] + 1] + j] = Mesh!Fan(polys[o1[i] + 1])[j]
    BY <1>8, <2>7
  <2> QED BY <1>15, <2>3, <2>4, <2>6, <2>7, <2>8
<1>21. welded = corners
  BY <1>8, <1>18, <1>19, <1>20, EqualLists DEF IsFlat
<1> QED BY <1>2, <1>17, <1>21 DEF corners

LEMMA MeshCardinality ==
  ASSUME NEW S
  PROVE  Mesh!Cardinality(S) = Cardinality(S)
BY DEF Mesh!Cardinality, Cardinality

LEMMA SetToSeqReaches ==
  ASSUME NEW S, IsFiniteSet(S), NEW x \in S
  PROVE  \E i \in DOMAIN Mesh!SetToSeq(S) : Mesh!SetToSeq(S)[i] = x
<1> DEFINE n == Cardinality(S)
<1>1. n \in Nat /\ ExistsBijection(1 .. n, S)
  BY FS_CardinalityType
<1>2. \E f \in [1 .. n -> S] : \A a, b \in DOMAIN f : f[a] = f[b] => a = b
  BY <1>1 DEF ExistsBijection, Bijection, Injection, IsInjective
<1>3. PICK f : f = Mesh!SetToSeq(S)
  OBVIOUS
<1>4. f \in [1 .. n -> S] /\ \A a, b \in DOMAIN f : f[a] = f[b] => a = b
  <2>1. f = CHOOSE g \in [1 .. n -> S] : \A a, b \in DOMAIN g : g[a] = g[b] => a = b
    BY <1>3, MeshCardinality DEF Mesh!SetToSeq, Mesh!IsInjective
  <2> QED BY <1>2, <2>1
<1>5. f \in Injection(1 .. n, S)
  BY <1>4 DEF Injection, IsInjective
<1>6. IsFiniteSet(1 .. n) /\ Cardinality(1 .. n) = n
  <2> HIDE DEF n
  <2>1. IsFiniteSet(1 .. n) /\ Cardinality(1 .. n) = IF 1 > n THEN 0 ELSE n - 1 + 1
    BY <1>1, FS_Interval
  <2> QED BY <1>1, <2>1
<1>7. f \in Surjection(1 .. n, S)
  BY <1>5, <1>6, FS_Injection
<1> QED BY <1>3, <1>4, <1>7 DEF Surjection

\* Attributes as their details have them.
AttrOf(d, attr) == attr.owner # "point" => DOMAIN attr.values = DOMAIN d.points

\* A primitive has one polygon, if any.
Few(d) == \A i \in 1 .. Len(d.prims) : Len(d.prims[i].polys) <= 1

LEMMA FewOf ==
  ASSUME NEW d \in MeshDetails, Few(d)
  PROVE  Mesh!WeldedCorners(Mesh!PrimList(d)) = Mesh!Corners(Mesh!PrimList(d))
<1>1. PICK prims : prims = Mesh!PrimList(d)
  OBVIOUS
<1>2. OfDetail(prims, d)
  BY <1>1, PrimListOf
<1>3. MeshPrims(prims) /\ \A i \in 1 .. Len(prims) : Len(prims[i].polys) <= 1
  BY <1>2 DEF OfDetail, Few
<1> QED BY <1>1, <1>3, WeldedAre

\* The faces of a channel take the values of the vertices, or points, at its corners.
LEMMA PointChannelIs ==
  ASSUME NEW d \in MeshDetails, NEW attr, attr.owner = "point"
  PROVE  Mesh!ChannelIsOfAttr(d, Mesh!PointChannel(d, attr.values), attr)
<1>1. PICK corners : corners = Mesh!Corners(Mesh!PrimList(d))
  OBVIOUS
<1>2. IsList(corners)
  BY <1>1, PrimListOf, CornersOfDetail
<1>3. Len(corners) \in Nat /\ DOMAIN corners = 1 .. Len(corners)
  BY <1>2, ListFacts
<1>4. PICK faces : faces = [k \in DOMAIN corners |-> d.points[corners[k]]]
  OBVIOUS
<1>5. \A k \in DOMAIN corners : faces[k] = d.points[corners[k]]
  BY <1>4
<1>6. faces = [k \in 1 .. Len(corners) |-> faces[k]]
  BY <1>3, <1>4
<1>7. Len(faces) = Len(corners)
  BY <1>3, <1>6, ListFromFcn
<1>8. PICK channel : channel = Mesh!PointChannel(d, attr.values)
  OBVIOUS
<1>9. channel.values = attr.values /\ channel.faces = faces
  BY <1>1, <1>4, <1>8 DEF Mesh!PointChannel, Mesh!GetFaces, Mesh!PointsOf
<1>10. Mesh!ChannelIsOfAttr(d, channel, attr)
  BY <1>1, <1>5, <1>7, <1>9 DEF Mesh!ChannelIsOfAttr
<1> QED BY <1>8, <1>10

LEMMA VertexChannelIs ==
  ASSUME NEW d \in MeshDetails, NEW attr, attr.owner # "point"
  PROVE  Mesh!ChannelIsOfAttr(d, Mesh!VertexChannel(Mesh!PrimList(d), attr.values), attr)
<1>1. PICK channel : channel = Mesh!VertexChannel(Mesh!PrimList(d), attr.values)
  OBVIOUS
<1>2. channel.values = attr.values /\ channel.faces = Mesh!Corners(Mesh!PrimList(d))
  BY <1>1 DEF Mesh!VertexChannel
<1>3. Mesh!ChannelIsOfAttr(d, channel, attr)
  BY <1>2 DEF Mesh!ChannelIsOfAttr
<1> QED BY <1>1, <1>3

LEMMA WeldedChannelIs ==
  ASSUME NEW d \in MeshDetails, NEW attr, attr.owner # "point", AttrOf(d, attr), Few(d)
  PROVE  Mesh!ChannelIsOfAttr(d, Mesh!WeldedChannel(Mesh!PrimList(d), attr.values), attr)
<1>1. PICK corners : corners = Mesh!Corners(Mesh!PrimList(d))
  OBVIOUS
<1>2. IsList(corners) /\ \A k \in 1 .. Len(corners) : corners[k] \in DOMAIN d.points
  BY <1>1, PrimListOf, CornersOfDetail
<1>3. Len(corners) \in Nat /\ DOMAIN corners = 1 .. Len(corners)
  BY <1>2, ListFacts
<1>4. PICK values : values = attr.values
  OBVIOUS
<1>5. DOMAIN values = 1 .. Len(d.points) /\ Len(d.points) \in Nat /\ DOMAIN d.points = DOMAIN values
  BY <1>4, DetailPrims, ListFacts DEF AttrOf
<1>6. PICK S : S = {values[v] : v \in DOMAIN values}
  OBVIOUS
<1>7. IsFiniteSet(S)
  <2> DEFINE all == [v \in 1 .. Len(d.points) |-> values[v]]
  <2>1. all \in Surjection(1 .. Len(d.points), S)
    <3>1. all \in [1 .. Len(d.points) -> S] /\ \A v \in 1 .. Len(d.points) : all[v] = values[v]
      BY <1>5, <1>6
    <3> HIDE DEF all
    <3>2. \A x \in S : \E v \in 1 .. Len(d.points) : all[v] = x
      BY <1>5, <1>6, <3>1
    <3> QED BY <3>1, <3>2 DEF Surjection
  <2> HIDE DEF all
  <2>2. IsFiniteSet(1 .. Len(d.points))
    BY <1>5, FS_Interval
  <2> QED BY <2>1, <2>2, FS_Surjection
<1>8. PICK welded : welded = Mesh!SetToSeq(S)
  OBVIOUS
<1>9. PICK faces : faces = [k \in DOMAIN corners |->
        CHOOSE i \in DOMAIN welded : welded[i] = values[corners[k]]]
  OBVIOUS
<1>10. ASSUME NEW k \in DOMAIN corners PROVE welded[faces[k]] = values[corners[k]]
  <2>1. values[corners[k]] \in S
    BY <1>2, <1>3, <1>5, <1>6
  <2>2. \E i \in DOMAIN welded : welded[i] = values[corners[k]]
    BY <1>7, <1>8, <2>1, SetToSeqReaches
  <2>3. faces[k] = CHOOSE i \in DOMAIN welded : welded[i] = values[corners[k]]
    BY <1>9
  <2> QED BY <2>2, <2>3
<1>11. faces = [k \in 1 .. Len(corners) |-> faces[k]]
  BY <1>3, <1>9
<1>12. Len(faces) = Len(corners)
  BY <1>3, <1>11, ListFromFcn
<1>13. PICK channel : channel = Mesh!WeldedChannel(Mesh!PrimList(d), attr.values)
  OBVIOUS
<1>14. channel.values = welded /\ channel.faces = faces
  <2>1. Mesh!WeldedCorners(Mesh!PrimList(d)) = corners
    BY <1>1, FewOf
  <2>2. Mesh!SetToSeq({attr.values[v] : v \in DOMAIN attr.values}) = welded
    BY <1>4, <1>6, <1>8
  <2> DEFINE Welded(w, c) ==
        [values |-> w,
         faces |-> [k \in DOMAIN c |-> CHOOSE i \in DOMAIN w : w[i] = attr.values[c[k]]]]
  <2>3. channel = Welded(Mesh!SetToSeq({attr.values[v] : v \in DOMAIN attr.values}),
                         Mesh!WeldedCorners(Mesh!PrimList(d)))
    BY <1>13 DEF Mesh!WeldedChannel
  <2>4. Welded(welded, corners) = [values |-> welded, faces |-> faces]
    BY <1>4, <1>9
  <2> HIDE DEF Welded
  <2>5. channel = [values |-> welded, faces |-> faces]
    BY <2>1, <2>2, <2>3, <2>4
  <2> QED BY <2>5
<1>15. Mesh!ChannelIsOfAttr(d, channel, attr)
  BY <1>1, <1>4, <1>10, <1>12, <1>14 DEF Mesh!ChannelIsOfAttr
<1> QED BY <1>13, <1>15

LEMMA AttrChannelIs ==
  ASSUME NEW d \in MeshDetails, NEW attr, AttrOf(d, attr), NEW subdiv, subdiv => Few(d)
  PROVE  Mesh!ChannelIsOfAttr(d, Mesh!AttrChannel(d, attr, subdiv), attr)
<1>1. CASE attr.owner = "point"
  <2>1. Mesh!AttrChannel(d, attr, subdiv) = Mesh!PointChannel(d, attr.values)
    BY <1>1 DEF Mesh!AttrChannel
  <2> QED BY <1>1, <2>1, PointChannelIs
<1>2. CASE attr.owner # "point" /\ subdiv
  <2>1. Mesh!AttrChannel(d, attr, subdiv) = Mesh!WeldedChannel(Mesh!PrimList(d), attr.values)
    BY <1>2 DEF Mesh!AttrChannel
  <2> QED BY <1>2, <2>1, WeldedChannelIs
<1>3. CASE attr.owner # "point" /\ ~subdiv
  <2>1. Mesh!AttrChannel(d, attr, subdiv) = Mesh!VertexChannel(Mesh!PrimList(d), attr.values)
    BY <1>3 DEF Mesh!AttrChannel
  <2> QED BY <1>3, <2>1, VertexChannelIs
<1> QED BY <1>1, <1>2, <1>3

LEMMA DetailAttrs ==
  ASSUME NEW d \in MeshDetails, NEW name \in DOMAIN d.attrs
  PROVE  AttrOf(d, d.attrs[name])
BY Assumptions DEF Mesh!DetailsAssumption, AttrOf

LEMMA SeveralOrFew ==
  ASSUME NEW d \in MeshDetails,
         ~ \E i \in DOMAIN d.prims : d.prims[i].kind = "soup" /\ Len(d.prims[i].polys) > 1
  PROVE  Few(d)
<1>1. /\ MeshPrims(d.prims) /\ DOMAIN d.prims = 1 .. Len(d.prims)
      /\ \A i \in 1 .. Len(d.prims) : d.prims[i].kind # "soup" => Len(d.prims[i].polys) = 1
  BY DetailPrims, ListFacts DEF OfDetail, MeshPrims
<1> SUFFICES ASSUME NEW i \in 1 .. Len(d.prims) PROVE Len(d.prims[i].polys) <= 1
  BY DEF Few
<1>2. PICK n : n = Len(d.prims[i].polys)
  OBVIOUS
<1>3. n \in Nat
  BY <1>1, <1>2, ListFacts DEF MeshPrims, ListOfLists
<1>4. n = 1 \/ ~(n > 1)
  BY <1>1, <1>2
<1>5. n <= 1
  BY <1>3, <1>4
<1> QED BY <1>2, <1>5

LEMMA NormalsAre ==
  ASSUME NEW d \in MeshDetails
  PROVE  Mesh!ChannelIsOfAttr(d, Mesh!GetNormals(d),
           [owner |-> IF d.normals = "point" THEN "point" ELSE "vertex",
            values |-> [k \in DOMAIN d.points |-> k]])
<1>1. PICK values : values = [k \in DOMAIN d.points |-> k]
  OBVIOUS
<1>2. CASE d.normals = "point"
  <2>1. PICK attr : attr = [owner |-> "point", values |-> values]
    OBVIOUS
  <2>2. attr.owner = "point" /\ attr.values = values
    BY <2>1
  <2>3. Mesh!ChannelIsOfAttr(d, Mesh!PointChannel(d, values), attr)
    BY <2>2, PointChannelIs
  <2> QED BY <1>1, <1>2, <2>1, <2>3 DEF Mesh!GetNormals
<1>3. CASE d.normals # "point"
  <2>1. PICK attr : attr = [owner |-> "vertex", values |-> values]
    OBVIOUS
  <2>2. attr.owner # "point" /\ attr.values = values
    BY <2>1
  <2>3. Mesh!ChannelIsOfAttr(d, Mesh!VertexChannel(Mesh!PrimList(d), values), attr)
    BY <2>2, VertexChannelIs
  <2> QED BY <1>1, <1>3, <2>1, <2>3 DEF Mesh!GetNormals
<1> QED BY <1>2, <1>3

-----------------------------------------------------------------------------
(* A soup on its own. *)

LEMMA LargestOf ==
  ASSUME NEW f, NEW n \in Nat, n # 0, \A k \in 1 .. n : f[k] \in Nat
  PROVE  \E m \in 1 .. n : \A k \in 1 .. n : f[k] <= f[m]
<1> DEFINE S == {i \in Nat : i \in 1 .. n => \E m \in 1 .. i : \A k \in 1 .. i : f[k] <= f[m]}
<1>1. 0 \in S
  OBVIOUS
<1>2. ASSUME NEW i \in Nat, i \in S PROVE i + 1 \in S
  <2> SUFFICES ASSUME i + 1 \in 1 .. n
               PROVE  \E m \in 1 .. i + 1 : \A k \in 1 .. i + 1 : f[k] <= f[m]
    OBVIOUS
  <2>1. CASE i = 0
    <3>1. 1 \in 1 .. i + 1 /\ \A k \in 1 .. i + 1 : k = 1 /\ f[k] \in Nat
      BY <2>1
    <3>2. \A k \in 1 .. i + 1 : f[k] <= f[1]
      BY <3>1
    <3> QED BY <3>1, <3>2
  <2>2. CASE i # 0
    <3>1. PICK m \in 1 .. i : \A k \in 1 .. i : f[k] <= f[m]
      BY <1>2, <2>2
    <3>2. m \in 1 .. i + 1 /\ i + 1 \in 1 .. i + 1 /\ f[m] \in Nat /\ f[i + 1] \in Nat
      BY <2>2
    <3>3. \A k \in 1 .. i + 1 : f[k] \in Nat /\ (k = i + 1 \/ k \in 1 .. i)
      BY <2>2
    <3>4. CASE f[i + 1] <= f[m]
      <4>1. \A k \in 1 .. i + 1 : f[k] <= f[m]
        BY <3>1, <3>3, <3>4
      <4> QED BY <3>2, <4>1
    <3>5. CASE ~(f[i + 1] <= f[m])
      <4>1. \A k \in 1 .. i + 1 : f[k] <= f[i + 1]
        BY <3>1, <3>2, <3>3, <3>5
      <4> QED BY <3>2, <4>1
    <3> QED BY <3>4, <3>5
  <2> QED BY <2>1, <2>2
<1> HIDE DEF S
<1>3. n \in S
  BY <1>1, <1>2, Induction
<1> QED BY <1>3 DEF S

Numbers(faces, n) ==
  n \in Nat /\ faces = [k \in 1 .. n |-> faces[k]] /\ \A k \in 1 .. n : faces[k] \in Nat

IsSpan(span, faces, lowest) ==
  /\ lowest = Mesh!Min(Mesh!Range(faces))
  /\ span = [p \in 0 .. (Mesh!Max(Mesh!Range(faces)) - lowest) |-> lowest + p]

\* Numbers taken from their lowest are found in the interval they span.
LEMMA SpanIs ==
  ASSUME NEW faces, NEW n, Numbers(faces, n), NEW lowest, NEW span, IsSpan(span, faces, lowest),
         NEW k \in 1 .. n
  PROVE  span[faces[k] - lowest] = faces[k]
<1>0. /\ n \in Nat /\ faces = [j \in 1 .. n |-> faces[j]] /\ \A j \in 1 .. n : faces[j] \in Nat
      /\ lowest = Mesh!Min(Mesh!Range(faces))
      /\ span = [p \in 0 .. (Mesh!Max(Mesh!Range(faces)) - lowest) |-> lowest + p]
  BY DEF Numbers, IsSpan
<1>1. PICK S : S = Mesh!Range(faces)
  OBVIOUS
<1>2. S = {faces[j] : j \in 1 .. n}
  BY <1>0, <1>1 DEF Mesh!Range
<1>3. S \subseteq Nat /\ faces[k] \in S
  BY <1>0, <1>2
<1>4. \E x \in S : \A y \in S : x <= y
  BY <1>3, LeastNumber
<1>5. lowest \in S /\ \A y \in S : lowest <= y
  <2>1. lowest = CHOOSE x \in S : \A y \in S : x =< y
    BY <1>0, <1>1 DEF Mesh!Min
  <2> QED BY <1>4, <2>1
<1>6. PICK highest : highest = Mesh!Max(S)
  OBVIOUS
<1>7. highest \in S /\ \A y \in S : highest >= y
  <2>1. PICK m \in 1 .. n : \A j \in 1 .. n : faces[j] <= faces[m]
    <3>1. n # 0
      BY <1>0
    <3> QED BY <1>0, <3>1, LargestOf
  <2>2. \E x \in S : \A y \in S : x >= y
    <3>1. faces[m] \in S /\ \A y \in S : \E j \in 1 .. n : y = faces[j]
      BY <1>2
    <3>2. \A y \in S : faces[m] >= y
      BY <1>3, <2>1, <3>1
    <3> QED BY <3>1, <3>2
  <2>3. highest = CHOOSE x \in S : \A y \in S : x >= y
    BY <1>6 DEF Mesh!Max
  <2> QED BY <2>2, <2>3
<1>8. PICK x : x = faces[k]
  OBVIOUS
<1>9. x \in Nat /\ lowest \in Nat /\ highest \in Nat /\ lowest <= x /\ x <= highest
  BY <1>3, <1>5, <1>7, <1>8
<1>10. x - lowest \in 0 .. (highest - lowest) /\ lowest + (x - lowest) = x
  BY <1>9
<1>11. [p \in 0 .. (highest - lowest) |-> lowest + p][x - lowest] = x
  BY <1>10
<1> QED BY <1>0, <1>1, <1>6, <1>8, <1>11

\* Primitives that all stay keep their places.
LEMMA OnlyStart ==
  ASSUME NEW prims, IsList(prims), NEW n \in 0 .. Len(prims), NEW indices, 1 .. n \subseteq indices
  PROVE  \A i \in 1 .. n : Mesh!Only(prims, indices)[i] = prims[i]
<1> DEFINE s == [i \in DOMAIN prims |-> IF i \in indices THEN <<prims[i]>> ELSE <<>>]
<1>1. Mesh!Only(prims, indices) = Mesh!FlattenSeq(s)
  BY DEF Mesh!Only
<1>2. Len(prims) \in Nat /\ DOMAIN prims = 1 .. Len(prims)
  BY ListFacts
<1>3. /\ s = [i \in 1 .. Len(prims) |-> s[i]]
      /\ \A i \in 1 .. Len(prims) : s[i] = IF i \in indices THEN <<prims[i]>> ELSE <<>>
  BY <1>2
<1> HIDE DEF s
<1>4. IsList(s) /\ Len(s) = Len(prims)
  BY <1>2, <1>3, ListFromFcn
<1>5. ASSUME NEW i \in 1 .. Len(s)
      PROVE  IsList(s[i]) /\ (i \in indices => Len(s[i]) = 1 /\ s[i][1] = prims[i])
  <2>1. PICK x : x = prims[i]
    OBVIOUS
  <2>2. <<x>> \in Seq({x}) /\ Len(<<x>>) = 1 /\ <<x>>[1] = x /\ <<>> \in Seq({})
    OBVIOUS
  <2>3. IsList(<<x>>) /\ IsList(<<>>)
    BY <2>2 DEF IsList
  <2>4. s[i] = IF i \in indices THEN <<x>> ELSE <<>>
    BY <1>3, <1>4, <2>1
  <2> QED BY <2>1, <2>2, <2>3, <2>4
<1>6. ListOfLists(s)
  BY <1>4, <1>5 DEF ListOfLists
<1>7. PICK off : IsOffsets(off, s)
  BY <1>6, OffsetsExist
<1>8. IsFlat(Mesh!FlattenSeq(s), off, s)
  BY <1>6, <1>7, Flattened
<1> DEFINE S == {m \in Nat : m <= n => off[m + 1] = m}
<1>9. 0 \in S
  BY <1>7 DEF IsOffsets
<1>10. ASSUME NEW m \in Nat, m \in S PROVE m + 1 \in S
  <2> SUFFICES ASSUME m + 1 <= n PROVE off[(m + 1) + 1] = m + 1
    OBVIOUS
  <2>1. m + 1 \in 1 .. n /\ m + 1 \in 1 .. Len(s) /\ off[m + 1] = m
    BY <1>2, <1>4, <1>10
  <2>2. Len(s[m + 1]) = 1
    BY <1>5, <2>1
  <2> QED BY <1>7, <2>1, <2>2 DEF IsOffsets
<1> HIDE DEF S
<1>11. Nat \subseteq S
  BY <1>9, <1>10, Induction
<1>12. ASSUME NEW i \in 1 .. n PROVE Mesh!FlattenSeq(s)[i] = prims[i]
  <2>1. i \in 1 .. Len(s) /\ i - 1 \in Nat /\ i - 1 <= n /\ (i - 1) + 1 = i
    BY <1>2, <1>4
  <2>2. off[i] = i - 1
    <3>1. i - 1 \in S
      BY <1>11, <2>1
    <3> QED BY <2>1, <3>1 DEF S
  <2>3. Len(s[i]) = 1 /\ s[i][1] = prims[i] /\ 1 \in 1 .. Len(s[i])
    BY <1>5, <2>1
  <2>4. Mesh!FlattenSeq(s)[off[i] + 1] = s[i][1]
    BY <1>8, <2>1, <2>3 DEF IsFlat
  <2> QED BY <2>1, <2>2, <2>3, <2>4
<1> QED BY <1>1, <1>12

\* The vertices of a primitive come after those of the primitives before it.
LEMMA VerticesFollow ==
  ASSUME NEW d \in MeshDetails, NEW i \in 1 .. Len(d.prims),
         NEW n, n = Len(Mesh!FlattenSeq([m \in 1 .. (i - 1) |-> Mesh!FlattenSeq(d.prims[m].polys)])),
         NEW c, c = Len(Mesh!FlattenSeq(d.prims[i].polys))
  PROVE  /\ n \in Nat /\ c \in Nat /\ IsList(Mesh!FlattenSeq(d.prims[i].polys))
         /\ \A j \in 1 .. Len(d.prims[i].polys) : \A k \in 1 .. Len(d.prims[i].polys[j]) :
              d.prims[i].polys[j][k] \in (n + 1) .. (n + c)
<1>1. MeshPrims(d.prims) /\ Len(d.prims) \in Nat
  BY DetailPrims, ListFacts DEF OfDetail, MeshPrims
<1> DEFINE s == [m \in 1 .. Len(d.prims) |-> d.prims[m].polys]
<1> DEFINE polys == Mesh!Polygons(d.prims)
<1>2. ListOfLists(s) /\ Len(s) = Len(d.prims) /\ polys = Mesh!FlattenSeq(s) /\ ListOfLists(polys)
  BY <1>1, PolygonsAre
<1>3. \A m \in 1 .. Len(d.prims) : s[m] = d.prims[m].polys
  OBVIOUS
<1>4. Mesh!FlattenSeq(polys) = [v \in DOMAIN d.points |-> v]
  BY Assumptions DEF Mesh!DetailsAssumption, Mesh!Polygons
<1> HIDE DEF s, polys
<1>5. PICK o1, o2 : IsOffsets(o1, s) /\ IsOffsets(o2, polys)
  BY <1>2, OffsetsExist
<1>6. IsFlat(polys, o1, s) /\ IsFlat(Mesh!FlattenSeq(polys), o2, polys)
  BY <1>2, <1>5, Flattened
<1>7. Len(polys) \in Nat /\ Len(polys) = o1[Len(s) + 1]
  BY <1>2, <1>6, ListFacts DEF ListOfLists, IsFlat
<1>8. \A m \in 1 .. Len(s) + 1 : o1[m] \in Nat /\ o1[m] <= Len(polys)
  BY <1>2, <1>5, <1>7, OffsetsGrow DEF IsOffsets
\* The vertices of one primitive.
<1>9. ASSUME NEW m \in 1 .. Len(s)
      PROVE  /\ IsList(Mesh!FlattenSeq(s[m])) /\ o2[o1[m] + 1] \in Nat
             /\ o2[o1[m + 1] + 1] = o2[o1[m] + 1] + Len(Mesh!FlattenSeq(s[m]))
             /\ \A j \in 1 .. Len(s[m]) : \A k \in 1 .. Len(s[m][j]) :
                  s[m][j][k] \in (o2[o1[m] + 1] + 1) .. o2[o1[m + 1] + 1]
  <2>1. PICK a, t, l : a = o1[m] /\ t = s[m] /\ l = Len(t)
    OBVIOUS
  <2>2. /\ ListOfLists(t) /\ l \in Nat /\ a \in Nat /\ o1[m + 1] = a + l
        /\ a + l <= Len(polys)
    <3>1. m + 1 \in 1 .. Len(s) + 1 /\ m \in 1 .. Len(s) + 1
      BY <1>1, <1>2
    <3>2. ListOfLists(t)
      BY <1>1, <1>2, <1>3, <2>1 DEF MeshPrims
    <3>3. l \in Nat
      BY <2>1, <3>2, ListFacts DEF ListOfLists
    <3> QED BY <1>5, <1>8, <2>1, <3>1, <3>2, <3>3 DEF IsOffsets
  <2>3. \A j \in 1 .. l : a + j \in 1 .. Len(polys) /\ polys[a + j] = t[j]
    BY <1>6, <2>1 DEF IsFlat
  <2>4. \A j \in 1 .. l + 1 : a + j \in 1 .. Len(polys) + 1 /\ o2[a + j] \in Nat
    BY <1>5, <1>7, <2>2 DEF IsOffsets
  <2>5. \A j \in 1 .. l : o2[(a + j) + 1] = o2[a + j] + Len(t[j]) /\ Len(t[j]) \in Nat
    <3>1. \A j \in 1 .. l : o2[(a + j) + 1] = o2[a + j] + Len(polys[a + j])
      BY <1>5, <2>3 DEF IsOffsets
    <3>2. \A j \in 1 .. l : Len(t[j]) \in Nat
      BY <2>1, <2>2, ListFacts DEF ListOfLists
    <3> QED BY <2>3, <3>1, <3>2
  <2> DEFINE S == {x \in Nat : x <= l => o2[a + 1] <= o2[(a + x) + 1]}
  <2>6. Nat \subseteq S
    <3>1. 0 \in S
      BY <2>2, <2>4
    <3>2. ASSUME NEW x \in Nat, x \in S PROVE x + 1 \in S
      <4> SUFFICES ASSUME x + 1 <= l PROVE o2[a + 1] <= o2[(a + (x + 1)) + 1]
        OBVIOUS
      <4>1. x + 1 \in 1 .. l /\ (a + x) + 1 = a + (x + 1) /\ 1 \in 1 .. l + 1 /\ x + 1 \in 1 .. l + 1
        BY <2>2
      <4>2. o2[a + 1] <= o2[a + (x + 1)]
        BY <2>2, <3>2, <4>1
      <4>3. o2[(a + (x + 1)) + 1] = o2[a + (x + 1)] + Len(t[x + 1]) /\ Len(t[x + 1]) \in Nat
        BY <2>5, <4>1
      <4>4. o2[a + 1] \in Nat /\ o2[a + (x + 1)] \in Nat
        BY <2>4, <4>1
      <4>5. PICK z1, z2, z3, z4 :
              z1 = o2[a + 1] /\ z2 = o2[a + (x + 1)] /\ z3 = o2[(a + (x + 1)) + 1] /\ z4 = Len(t[x + 1])
        OBVIOUS
      <4>6. z1 <= z3
        BY <4>2, <4>3, <4>4, <4>5
      <4> QED BY <4>5, <4>6
    <3> HIDE DEF S
    <3> QED BY <3>1, <3>2, Induction
  <2> HIDE DEF S
  <2>7. \A j \in 1 .. l + 1 : o2[a + 1] <= o2[a + j]
    <3> TAKE j \in 1 .. l + 1
    <3>1. j - 1 \in Nat /\ j - 1 <= l /\ (a + (j - 1)) + 1 = a + j
      BY <2>2
    <3>2. j - 1 \in S
      BY <2>6, <3>1
    <3> QED BY <3>1, <3>2 DEF S
  <2>8. PICK off : off = [j \in 1 .. l + 1 |-> o2[a + j] - o2[a + 1]]
    OBVIOUS
  <2>9. IsOffsets(off, t)
    <3>1. \A j \in 1 .. l + 1 : off[j] = o2[a + j] - o2[a + 1] /\ off[j] \in Nat
      <4>1. 1 \in 1 .. l + 1
        BY <2>2
      <4> QED BY <2>4, <2>7, <2>8, <4>1
    <3>2. off[1] = 0
      BY <2>2, <2>4, <3>1
    <3>3. ASSUME NEW j \in 1 .. l PROVE off[j + 1] = off[j] + Len(t[j])
      <4>1. j \in 1 .. l + 1 /\ j + 1 \in 1 .. l + 1 /\ 1 \in 1 .. l + 1 /\ a + (j + 1) = (a + j) + 1
        BY <2>2
      <4>2. off[j + 1] = o2[(a + j) + 1] - o2[a + 1] /\ off[j] = o2[a + j] - o2[a + 1]
        BY <3>1, <4>1
      <4>3. PICK z1, z2, z3, z4 :
              z1 = o2[a + 1] /\ z2 = o2[a + j] /\ z3 = o2[(a + j) + 1] /\ z4 = Len(t[j])
        OBVIOUS
      <4>4. z1 \in Nat /\ z2 \in Nat /\ z4 \in Nat /\ z3 = z2 + z4
        BY <2>4, <2>5, <4>1, <4>3
      <4>5. z3 - z1 = (z2 - z1) + z4
        BY <4>4
      <4> QED BY <4>2, <4>3, <4>5
    <3> QED BY <2>1, <3>1, <3>2, <3>3 DEF IsOffsets
  <2>10. IsFlat(Mesh!FlattenSeq(t), off, t)
    BY <2>2, <2>9, Flattened
  <2>11. IsList(Mesh!FlattenSeq(t)) /\ Len(Mesh!FlattenSeq(t)) = o2[a + (l + 1)] - o2[a + 1]
    <3>1. l + 1 \in 1 .. l + 1
      BY <2>2
    <3> QED BY <2>1, <2>8, <2>10, <3>1 DEF IsFlat
  <2>12. /\ o2[a + 1] \in Nat /\ o2[a + (l + 1)] \in Nat /\ a + (l + 1) = o1[m + 1] + 1
    <3>1. 1 \in 1 .. l + 1 /\ l + 1 \in 1 .. l + 1
      BY <2>2
    <3>2. a + (l + 1) = (a + l) + 1
      BY <2>2
    <3> QED BY <2>2, <2>4, <3>1, <3>2
  <2>13. ASSUME NEW j \in 1 .. l, NEW k \in 1 .. Len(t[j])
         PROVE  t[j][k] \in (o2[a + 1] + 1) .. o2[a + (l + 1)]
    <3>1. PICK all : all = Mesh!FlattenSeq(polys)
      OBVIOUS
    <3>2. IsList(all) /\ DOMAIN all = 1 .. Len(all) /\ \A v \in DOMAIN all : all[v] = v
      BY <1>4, <1>6, <3>1, ListFacts DEF IsFlat
    <3>3. o2[a + j] + k \in 1 .. Len(all) /\ all[o2[a + j] + k] = t[j][k]
      <4>1. PICK p, poly : p = a + j /\ poly = t[j]
        OBVIOUS
      <4>2. p \in 1 .. Len(polys) /\ polys[p] = poly /\ k \in 1 .. Len(polys[p])
        BY <2>3, <4>1
      <4>3. o2[p] + k \in 1 .. Len(all) /\ all[o2[p] + k] = polys[p][k]
        BY <1>6, <3>1, <4>2 DEF IsFlat
      <4> QED BY <4>1, <4>2, <4>3
    <3>4. t[j][k] = o2[a + j] + k
      BY <3>2, <3>3
    <3>5. off[j] + k \in 1 .. Len(Mesh!FlattenSeq(t))
      BY <2>1, <2>10 DEF IsFlat
    <3>6. off[j] = o2[a + j] - o2[a + 1] /\ o2[a + j] \in Nat /\ o2[a + 1] <= o2[a + j]
      <4>1. j \in 1 .. l + 1
        BY <2>2
      <4> QED BY <2>4, <2>7, <2>8, <4>1
    <3>7. k \in Nat /\ k >= 1
      BY <2>5
    <3>8. PICK z1, z2, z3, z4, z5 :
            /\ z1 = o2[a + 1] /\ z2 = o2[a + j] /\ z3 = o2[a + (l + 1)] /\ z4 = t[j][k]
            /\ z5 = Len(Mesh!FlattenSeq(t))
      OBVIOUS
    <3>9. /\ z1 \in Nat /\ z2 \in Nat /\ z3 \in Nat /\ z4 = z2 + k /\ z5 = z3 - z1
          /\ (z2 - z1) + k \in 1 .. z5
      BY <2>11, <2>12, <3>4, <3>5, <3>6, <3>8
    <3>10. z4 \in (z1 + 1) .. z3
      <4>1. z1 <= z2
        BY <3>6, <3>8
      <4>2. z1 + 1 <= z2 + k
        BY <3>7, <3>9, <4>1
      <4>3. (z2 - z1) + k <= z3 - z1
        BY <3>9
      <4>4. z2 + k <= z3
        BY <3>7, <3>9, <4>3
      <4> QED BY <3>7, <3>9, <4>2, <4>4
    <3> QED BY <3>8, <3>10
  <2>14. /\ IsList(Mesh!FlattenSeq(t)) /\ o2[a + 1] \in Nat
         /\ o2[a + (l + 1)] = o2[a + 1] + Len(Mesh!FlattenSeq(t))
    <3>1. PICK z1, z2, z3 : z1 = o2[a + 1] /\ z2 = o2[a + (l + 1)] /\ z3 = Len(Mesh!FlattenSeq(t))
      OBVIOUS
    <3>2. z2 = z1 + z3
      BY <2>11, <2>12, <3>1
    <3> QED BY <2>11, <2>12, <3>1, <3>2
  <2>15. a + (l + 1) = o1[m + 1] + 1
    BY <2>12
  <2> HIDE DEF S
  <2> QED BY <2>1, <2>13, <2>14, <2>15
\* The vertices of the primitives before it.
<1>10. PICK u : u = [m \in 1 .. (i - 1) |-> Mesh!FlattenSeq(d.prims[m].polys)]
  OBVIOUS
<1>11. \A m \in 1 .. i - 1 : m \in 1 .. Len(s) /\ u[m] = Mesh!FlattenSeq(s[m])
  BY <1>1, <1>2, <1>3, <1>10
<1>12. i - 1 \in Nat /\ i \in 1 .. Len(s)
  BY <1>1, <1>2
<1>13. IsList(u) /\ Len(u) = i - 1
  <2>1. u = [m \in 1 .. (i - 1) |-> u[m]]
    BY <1>10
  <2> QED BY <1>12, <2>1, ListFromFcn
<1>14. ListOfLists(u)
  BY <1>9, <1>11, <1>13 DEF ListOfLists
<1>15. PICK off : off = [m \in 1 .. i |-> o2[o1[m] + 1]]
  OBVIOUS
<1>16. IsOffsets(off, u)
  <2>1. \A m \in 1 .. i : m \in 1 .. Len(s) /\ off[m] = o2[o1[m] + 1] /\ off[m] \in Nat
    BY <1>1, <1>2, <1>9, <1>15
  <2>2. off[1] = 0
    <3>1. o1[1] = 0 /\ o2[1] = 0 /\ 1 \in 1 .. i
      BY <1>5, <1>12 DEF IsOffsets
    <3>2. off[1] = o2[0 + 1]
      BY <2>1, <3>1
    <3> QED BY <3>1, <3>2
  <2>3. ASSUME NEW m \in 1 .. i - 1 PROVE off[m + 1] = off[m] + Len(u[m])
    <3>1. m \in 1 .. i /\ m + 1 \in 1 .. i
      BY <1>12
    <3> QED BY <1>9, <1>11, <2>1, <3>1
  <2>4. (i - 1) + 1 = i
    BY <1>12
  <2> QED BY <1>13, <2>1, <2>2, <2>3, <2>4 DEF IsOffsets
<1>17. n = o2[o1[i] + 1]
  <2>1. IsFlat(Mesh!FlattenSeq(u), off, u)
    BY <1>14, <1>16, Flattened
  <2>2. n = off[(i - 1) + 1] /\ (i - 1) + 1 = i /\ i \in 1 .. i
    BY <1>10, <1>12, <1>13, <2>1 DEF IsFlat
  <2> QED BY <1>15, <2>2
<1>18. s[i] = d.prims[i].polys
  BY <1>3
<1>19. c \in Nat
  BY <1>9, <1>12, <1>18, ListFacts
<1>20. n \in Nat /\ IsList(Mesh!FlattenSeq(s[i])) /\ o2[o1[i + 1] + 1] = n + c
       /\ \A j \in 1 .. Len(s[i]) : \A k \in 1 .. Len(s[i][j]) :
            s[i][j][k] \in (n + 1) .. o2[o1[i + 1] + 1]
  BY <1>9, <1>12, <1>17, <1>18
<1> QED BY <1>18, <1>19, <1>20

\* The normals of a soup are those of its corners, if they are of vertices and only
\* soups come before it.
LEMMA SoupNormalsAre ==
  ASSUME NEW d \in MeshDetails, NEW i \in 1 .. Len(Mesh!PrimList(d)), Mesh!SoupsFirst(d, i),
         NEW prim, prim = Mesh!PrimList(d)[i], OfDetail(<<prim>>, d),
         NEW normals, normals = Mesh!SoupNormals(d, i)
  PROVE  [k \in DOMAIN normals.faces |-> normals.values[normals.faces[k]]] = Mesh!Corners(<<prim>>)
<1>1. IsList(d.prims) /\ Len(d.prims) \in Nat /\ DOMAIN d.prims = 1 .. Len(d.prims)
  BY DetailPrims, ListFacts DEF OfDetail, MeshPrims
<1>2. i \in Nat /\ i \in 1 .. Len(d.prims) /\ \A m \in 1 .. i : d.prims[m].kind = "soup"
  <2>1. i \in Nat /\ i >= 1
    BY PrimListOf, ListFacts DEF OfDetail, MeshPrims
  <2>2. i \in 1 .. i
    BY <2>1
  <2> QED BY <1>1, <2>1, <2>2 DEF Mesh!SoupsFirst
<1>3. \A m \in 1 .. i : Mesh!PrimList(d)[m] = d.prims[m]
  <2>1. PICK indices : indices = {m \in DOMAIN d.prims : d.prims[m].kind # "open"}
    OBVIOUS
  <2>2. \A m \in 1 .. i : m \in DOMAIN d.prims /\ d.prims[m].kind # "open"
    BY <1>1, <1>2
  <2>3. 1 .. i \subseteq indices /\ i \in 0 .. Len(d.prims)
    BY <1>1, <1>2, <2>1, <2>2
  <2> QED BY <1>1, <2>1, <2>3, OnlyStart DEF Mesh!PrimList
<1>4. prim = d.prims[i]
  BY <1>2, <1>3
<1>5. PICK u : u = [m \in 1 .. (i - 1) |-> Mesh!FlattenSeq(d.prims[m].polys)]
  OBVIOUS
<1>6. [m \in 1 .. (i - 1) |-> Mesh!NormalEntries(d, Mesh!PrimList(d)[m])] = u
  <2>1. ASSUME NEW m \in 1 .. (i - 1)
        PROVE  Mesh!NormalEntries(d, Mesh!PrimList(d)[m]) = Mesh!FlattenSeq(d.prims[m].polys)
    <3>1. m \in 1 .. i
      BY <1>2
    <3> QED BY <1>2, <1>3, <3>1 DEF Mesh!NormalEntries
  <2> QED BY <1>5, <2>1
<1>7. PICK n, c : n = Len(Mesh!FlattenSeq(u)) /\ c = Len(Mesh!FlattenSeq(prim.polys))
  OBVIOUS
<1>8. Mesh!NormalsOffset(d, i) = n
  BY <1>6, <1>7 DEF Mesh!NormalsOffset
<1>9. /\ n \in Nat /\ c \in Nat /\ DOMAIN Mesh!FlattenSeq(prim.polys) = 1 .. c
      /\ \A j \in 1 .. Len(prim.polys) : \A k \in 1 .. Len(prim.polys[j]) :
           prim.polys[j][k] \in (n + 1) .. (n + c)
  BY <1>2, <1>4, <1>5, <1>7, VerticesFollow, ListFacts
<1>10. PICK corners : corners = Mesh!Corners(<<prim>>)
  OBVIOUS
<1>11. IsList(corners) /\ \A k \in 1 .. Len(corners) : corners[k] \in (n + 1) .. (n + c)
  <2>1. MeshPrims(<<prim>>) /\ Len(<<prim>>) = 1 /\ <<prim>>[1] = prim
    BY DEF OfDetail
  <2>2. ASSUME NEW p \in 1 .. Len(Mesh!Polygons(<<prim>>))
        PROVE  \A v \in 1 .. Len(Mesh!Polygons(<<prim>>)[p]) :
                 Mesh!Polygons(<<prim>>)[p][v] \in (n + 1) .. (n + c)
    <3>1. PICK one : one = <<prim>>
      OBVIOUS
    <3>2. \E m \in 1 .. Len(one) : \E j \in 1 .. Len(one[m].polys) :
            Mesh!Polygons(one)[p] = one[m].polys[j]
      BY <2>1, <3>1, PolygonsAre
    <3>3. \A m \in 1 .. Len(one) : one[m] = prim
      BY <2>1, <3>1
    <3>4. PICK j \in 1 .. Len(prim.polys) : Mesh!Polygons(one)[p] = prim.polys[j]
      BY <3>2, <3>3
    <3> QED BY <1>9, <3>1, <3>4
  <2>3. PolygonsIn(<<prim>>, (n + 1) .. (n + c))
    BY <2>2 DEF PolygonsIn
  <2> QED BY <1>10, <2>1, <2>3, CornersIn
<1>12. DOMAIN corners = 1 .. Len(corners)
  BY <1>11, ListFacts
<1>13. /\ normals.values = [k \in 1 .. c |-> n + k]
       /\ normals.faces = [k \in DOMAIN corners |-> corners[k] - n]
  BY <1>8, <1>9, <1>10 DEF Mesh!SoupNormals
<1>14. ASSUME NEW k \in DOMAIN corners PROVE normals.values[normals.faces[k]] = corners[k]
  <2>1. corners[k] \in (n + 1) .. (n + c)
    BY <1>11, <1>12
  <2>2. corners[k] - n \in 1 .. c /\ n + (corners[k] - n) = corners[k]
    BY <1>9, <2>1
  <2>3. normals.faces[k] = corners[k] - n
    BY <1>13
  <2> QED BY <1>13, <2>2, <2>3
<1>15. corners = [k \in DOMAIN corners |-> corners[k]]
  BY <1>11, <1>12, ListFacts
<1>16. [k \in DOMAIN normals.faces |-> normals.values[normals.faces[k]]] = corners
  <2>1. DOMAIN normals.faces = DOMAIN corners
    BY <1>13
  <2> QED BY <1>14, <1>15, <2>1
<1> QED BY <1>10, <1>16

\* What MeshIsDetail says of the geometry of a soup.
LEMMA SoupIs ==
  ASSUME NEW d \in MeshDetails, NEW i, NEW prim, prim = Mesh!PrimList(d)[i],
         OfDetail(<<prim>>, d), NEW g, g = Mesh!AsPolySoup(d, i)
  PROVE  /\ g.prim = prim /\ g.normals = Mesh!SoupNormals(d, i)
         /\ Mesh!EdgesAreOfPolygons(<<prim>>, g.edges)
         /\ [k \in DOMAIN g.faces |-> g.vertices[g.faces[k]]] = Mesh!PointsOf(d, Mesh!Corners(<<prim>>))
<1>1. PICK corners : corners = Mesh!Corners(<<prim>>)
  OBVIOUS
<1>2. IsList(corners) /\ \A k \in 1 .. Len(corners) : corners[k] \in DOMAIN d.points
  BY <1>1, CornersOfDetail
<1>3. PICK n : n = Len(corners)
  OBVIOUS
<1>4. n \in Nat /\ DOMAIN corners = 1 .. n
  BY <1>2, <1>3, ListFacts
<1>5. PICK faces : faces = Mesh!PointsOf(d, corners)
  OBVIOUS
<1>6. faces = [k \in 1 .. n |-> d.points[corners[k]]]
  BY <1>4, <1>5 DEF Mesh!PointsOf
<1>7. faces = [k \in 1 .. n |-> faces[k]] /\ DOMAIN faces = 1 .. n
      /\ \A k \in 1 .. n : faces[k] = d.points[corners[k]]
  BY <1>6
<1>8. \A k \in 1 .. n : faces[k] \in Nat
  BY <1>2, <1>3, <1>7, DetailPrims
<1>9. PICK lowest : lowest = Mesh!Min(Mesh!Range(faces))
  OBVIOUS
<1>10. g = [vertices |-> [p \in 0 .. (Mesh!Max(Mesh!Range(faces)) - lowest) |-> lowest + p],
            faces |-> [k \in DOMAIN faces |-> faces[k] - lowest],
            edges |-> Mesh!GetEdgeVisibility(<<prim>>), normals |-> Mesh!SoupNormals(d, i),
            prim |-> prim]
  BY <1>1, <1>5, <1>9 DEF Mesh!AsPolySoup
<1>11. /\ g.prim = prim /\ g.edges = Mesh!GetEdgeVisibility(<<prim>>)
       /\ g.normals = Mesh!SoupNormals(d, i)
       /\ g.vertices = [p \in 0 .. (Mesh!Max(Mesh!Range(faces)) - lowest) |-> lowest + p]
       /\ g.faces = [k \in DOMAIN faces |-> faces[k] - lowest]
  BY <1>10
<1>12. Mesh!EdgesAreOfPolygons(<<prim>>, g.edges)
  BY <1>11, EdgesOfDetail
<1>13. DOMAIN g.faces = 1 .. n /\ \A k \in 1 .. n : g.faces[k] = faces[k] - lowest
  BY <1>7, <1>11
<1>14. ASSUME NEW k \in 1 .. n PROVE g.vertices[g.faces[k]] = faces[k]
  <2>1. g.vertices[faces[k] - lowest] = faces[k]
    <3>1. Numbers(faces, n)
      BY <1>4, <1>7, <1>8 DEF Numbers
    <3>2. PICK span : span = g.vertices
      OBVIOUS
    <3>3. IsSpan(span, faces, lowest)
      BY <1>9, <1>11, <3>2 DEF IsSpan
    <3>4. span[faces[k] - lowest] = faces[k]
      BY <3>1, <3>3, SpanIs
    <3> QED BY <3>2, <3>4
  <2> QED BY <1>13, <2>1
<1>15. [k \in DOMAIN g.faces |-> g.vertices[g.faces[k]]] = faces
  BY <1>7, <1>13, <1>14
<1> QED BY <1>1, <1>5, <1>11, <1>12, <1>15

-----------------------------------------------------------------------------
(* The exports of details and their caches. *)

\* A material as it is made for a detail, in the context it is for.
MaterialIs(m, d) ==
  m = IF Mesh!FaceMaterials(d, m.for) = <<>> \/ Mesh!FaceMtlIDs(d, m.for) = <<>>
        THEN Mesh!NoList(m.for)
        ELSE [list |-> Mesh!FaceMaterials(d, m.for), ids |-> Mesh!FaceMtlIDs(d, m.for), for |-> m.for]

\* Where there is no list, nothing but the object can differ from what it was made for.
MaterialFor(m, d, sheet) ==
  MaterialIs(m, d) /\ (m.list = <<>> => m.for.sheet = sheet)

\* What the geometry of an item is made of.
GeometryIs(geometry, d, apart) ==
  IF apart
  THEN geometry = [i \in Mesh!Soups(d) |-> Mesh!AsPolySoup(d, i)]
  ELSE \E ctx : geometry = Mesh!AsPluginDesc(d, ctx)

ItemIs(i) ==
  /\ i.detail \in MeshDetails
  /\ GeometryIs(i.geometry, i.detail, i.apart)
  /\ IF i.apart THEN i.material = Mesh!NoList(i.ctx) /\ i.channels = <<>>
     ELSE /\ i.channels = Mesh!GetExtMapChannels(i.detail)
          /\ MaterialFor(i.material, i.detail, i.ctx.sheet)

\* A cache holds what was made for the detail it is asked for.
MeshInv ==
  /\ \A d \in DOMAIN meshPrim : GeometryIs(meshPrim[d], d, FALSE)
  /\ \A style \in DOMAIN polyMapChannels : polyMapChannels[style] = Mesh!GetExtMapChannels(style[1])
  /\ \A style \in DOMAIN polyMaterial : MaterialFor(polyMaterial[style], style[1], style[2])
  /\ \A key \in DOMAIN hashCache : MaterialIs(hashCache[key], key[2]) /\ hashCache[key].list # <<>>
  /\ item # Mesh!NoItem => ItemIs(item)

LEMMA MeshAlone ==
  [AllNext]_allVars /\ which = "Mesh" => which' = which /\ [Mesh!Next]_(Mesh!meshVars)
BY DEF AllNext, allVars, MeshVars, Mesh!meshVars

LEMMA EmptyCaches ==
  ASSUME polyMaterial = <<>>, polyMapChannels = <<>>, meshPrim = <<>>, hashCache = <<>>,
         item = Mesh!NoItem
  PROVE  MeshInv
<1>1. DOMAIN <<>> = {}
  OBVIOUS
<1> QED BY <1>1 DEF MeshInv

LEMMA MeshInit == Mesh!Init => MeshInv
BY EmptyCaches DEF Mesh!Init

LEMMA CachedIs ==
  ASSUME NEW held, NEW key, NEW value
  PROVE  \/ key \in DOMAIN held /\ Mesh!Cached(held, key, value) = held[key]
         \/ Mesh!Cached(held, key, value) = value
BY DEF Mesh!Cached

LEMMA PutIs ==
  ASSUME NEW held, NEW key, NEW value, NEW k \in DOMAIN Mesh!Put(held, key, value)
  PROVE  \/ k = key /\ Mesh!Put(held, key, value)[k] = value
         \/ k \in DOMAIN held /\ Mesh!Put(held, key, value)[k] = held[k]
BY DEF Mesh!Put

LEMMA MaterialMade ==
  ASSUME MeshInv, NEW d, NEW ctx
  PROVE  MaterialFor(Mesh!GetMaterial(d, ctx), d, ctx.sheet)
<1>1. PICK list, ids : list = Mesh!FaceMaterials(d, ctx) /\ ids = Mesh!FaceMtlIDs(d, ctx)
  OBVIOUS
<1>2. PICK key : key = Mesh!MtlMultiKey(d, ctx)
  OBVIOUS
<1>3. key[2] = d
  BY <1>2 DEF Mesh!MtlMultiKey
<1>4. PICK m : m = Mesh!GetMaterial(d, ctx)
  OBVIOUS
<1>5. \/ (list = <<>> \/ ids = <<>>) /\ m = Mesh!NoList(ctx)
      \/ key \in DOMAIN hashCache /\ m = hashCache[key]
      \/ ~(list = <<>> \/ ids = <<>>) /\ m = [list |-> list, ids |-> ids, for |-> ctx]
  BY <1>1, <1>2, <1>4 DEF Mesh!GetMaterial
<1>6. CASE key \in DOMAIN hashCache /\ m = hashCache[key]
  BY <1>3, <1>4, <1>6 DEF MeshInv, MaterialFor
<1>7. CASE (list = <<>> \/ ids = <<>>) /\ m = Mesh!NoList(ctx)
  <2>1. m.for = ctx
    BY <1>7 DEF Mesh!NoList
  <2> QED BY <1>1, <1>4, <1>7, <2>1 DEF MaterialIs, MaterialFor
<1>8. CASE ~(list = <<>> \/ ids = <<>>) /\ m = [list |-> list, ids |-> ids, for |-> ctx]
  <2>1. m.for = ctx /\ m.list = list
    BY <1>8
  <2> QED BY <1>1, <1>4, <1>8, <2>1 DEF MaterialIs, MaterialFor
<1> QED BY <1>5, <1>6, <1>7, <1>8

LEMMA ExportKeeps ==
  ASSUME MeshInv, NEW d \in MeshDetails, NEW ctx, Mesh!ExportPolyMesh(d, ctx)
  PROVE  MeshInv'
<1>1. PICK style, material, channels :
        /\ style = <<d, ctx.sheet>>
        /\ material = Mesh!Cached(polyMaterial, style, Mesh!GetMaterial(d, ctx))
        /\ channels = Mesh!Cached(polyMapChannels, style, Mesh!GetExtMapChannels(d))
  OBVIOUS
<1>2. PICK apart : apart = Mesh!Apart(d, ctx) /\ apart \in BOOLEAN
  BY DEF Mesh!Apart
<1>3. PICK geometry : geometry =
        IF apart THEN [i \in Mesh!Soups(d) |-> Mesh!AsPolySoup(d, i)]
        ELSE Mesh!Cached(meshPrim, d, Mesh!AsPluginDesc(d, ctx))
  OBVIOUS
<1>4. /\ polyMaterial' = Mesh!Put(polyMaterial, style, material)
      /\ hashCache' = IF style \in DOMAIN polyMaterial \/ material.list = <<>> THEN hashCache
                      ELSE Mesh!Put(hashCache, Mesh!MtlMultiKey(d, ctx), material)
      /\ polyMapChannels' = Mesh!Put(polyMapChannels, style, channels)
      /\ meshPrim' = IF apart THEN meshPrim ELSE Mesh!Put(meshPrim, d, geometry)
      /\ item' = [detail |-> d, ctx |-> ctx, apart |-> apart, geometry |-> geometry,
                  material |-> IF apart THEN Mesh!NoList(ctx) ELSE material,
                  channels |-> IF apart THEN <<>> ELSE channels]
  BY <1>1, <1>2, <1>3 DEF Mesh!ExportPolyMesh
<1>5. style[1] = d /\ style[2] = ctx.sheet
  BY <1>1
<1>6. MaterialFor(material, d, ctx.sheet)
  <2>1. PICK made : made = Mesh!GetMaterial(d, ctx)
    OBVIOUS
  <2>2. MaterialFor(made, d, ctx.sheet)
    BY <2>1, MaterialMade
  <2>3. \/ style \in DOMAIN polyMaterial /\ material = polyMaterial[style]
        \/ material = made
    BY <1>1, <2>1, CachedIs
  <2> QED BY <1>5, <2>2, <2>3 DEF MeshInv
<1>7. channels = Mesh!GetExtMapChannels(d)
  BY <1>1, <1>5, CachedIs DEF MeshInv
<1>8. GeometryIs(geometry, d, apart)
  <2>1. CASE apart
    BY <1>2, <1>3, <2>1 DEF GeometryIs
  <2>2. CASE ~apart
    <3>1. geometry = Mesh!Cached(meshPrim, d, Mesh!AsPluginDesc(d, ctx))
      BY <1>3, <2>2
    <3>2. GeometryIs(geometry, d, FALSE)
      <4>1. CASE d \in DOMAIN meshPrim /\ geometry = meshPrim[d]
        BY <4>1 DEF MeshInv
      <4>2. CASE geometry = Mesh!AsPluginDesc(d, ctx)
        BY <4>2 DEF GeometryIs
      <4> QED BY <3>1, <4>1, <4>2, CachedIs
    <3> QED BY <2>2, <3>2 DEF GeometryIs
  <2> QED BY <2>1, <2>2
<1>9. ASSUME NEW e \in DOMAIN meshPrim' PROVE GeometryIs(meshPrim'[e], e, FALSE)
  <2>1. CASE apart
    BY <1>4, <1>9, <2>1 DEF MeshInv
  <2>2. CASE ~apart
    <3>1. meshPrim' = Mesh!Put(meshPrim, d, geometry)
      BY <1>4, <2>2
    <3>2. \/ e = d /\ meshPrim'[e] = geometry
          \/ e \in DOMAIN meshPrim /\ meshPrim'[e] = meshPrim[e]
      BY <1>9, <3>1, PutIs
    <3>3. GeometryIs(geometry, d, FALSE)
      BY <1>8, <2>2 DEF GeometryIs
    <3> QED BY <3>2, <3>3 DEF MeshInv
  <2> QED BY <2>1, <2>2
<1>10. ASSUME NEW s \in DOMAIN polyMapChannels'
       PROVE  polyMapChannels'[s] = Mesh!GetExtMapChannels(s[1])
  <2>1. \/ s = style /\ polyMapChannels'[s] = channels
        \/ s \in DOMAIN polyMapChannels /\ polyMapChannels'[s] = polyMapChannels[s]
    BY <1>4, <1>10, PutIs
  <2> QED BY <1>5, <1>7, <2>1 DEF MeshInv
<1>11. ASSUME NEW s \in DOMAIN polyMaterial' PROVE MaterialFor(polyMaterial'[s], s[1], s[2])
  <2>1. \/ s = style /\ polyMaterial'[s] = material
        \/ s \in DOMAIN polyMaterial /\ polyMaterial'[s] = polyMaterial[s]
    BY <1>4, <1>11, PutIs
  <2> QED BY <1>5, <1>6, <2>1 DEF MeshInv
<1>12. ASSUME NEW k \in DOMAIN hashCache'
       PROVE  MaterialIs(hashCache'[k], k[2]) /\ hashCache'[k].list # <<>>
  <2>1. PICK key : key = Mesh!MtlMultiKey(d, ctx)
    OBVIOUS
  <2>2. key[2] = d
    BY <2>1 DEF Mesh!MtlMultiKey
  <2>3. CASE hashCache' = hashCache
    BY <1>12, <2>3 DEF MeshInv
  <2>4. CASE hashCache' = Mesh!Put(hashCache, key, material) /\ material.list # <<>>
    <3>1. \/ k = key /\ hashCache'[k] = material
          \/ k \in DOMAIN hashCache /\ hashCache'[k] = hashCache[k]
      BY <1>12, <2>4, PutIs
    <3> QED BY <1>6, <2>2, <2>4, <3>1 DEF MeshInv, MaterialFor
  <2> QED BY <1>4, <2>1, <2>3, <2>4
<1>13. ItemIs(item')
  <2>1. /\ item'.detail = d /\ item'.ctx = ctx /\ item'.apart = apart /\ item'.geometry = geometry
        /\ item'.material = (IF apart THEN Mesh!NoList(ctx) ELSE material)
        /\ item'.channels = (IF apart THEN <<>> ELSE channels)
    BY <1>4
  <2>2. CASE apart
    BY <1>8, <2>1, <2>2 DEF ItemIs
  <2>3. CASE ~apart
    BY <1>6, <1>7, <1>8, <2>1, <2>3 DEF ItemIs
  <2> QED BY <2>2, <2>3
<1>14. ItemIs(item)'
  BY <1>13 DEF ItemIs, GeometryIs, MaterialIs, MaterialFor
<1> QED BY <1>9, <1>10, <1>11, <1>12, <1>14 DEF MeshInv, GeometryIs, MaterialIs, MaterialFor

LEMMA MeshStep == MeshInv /\ [Mesh!Next]_(Mesh!meshVars) => MeshInv'
<1>1. ASSUME MeshInv, NEW d \in MeshDetails, NEW ctx \in MeshContexts, Mesh!ExportPolyMesh(d, ctx)
      PROVE  MeshInv'
  BY <1>1, ExportKeeps
<1>2. ASSUME MeshInv, Mesh!ClearPrimPluginCache PROVE MeshInv'
  <2>1. DOMAIN <<>> = {}
    OBVIOUS
  <2> QED BY <1>2, <2>1 DEF MeshInv, Mesh!ClearPrimPluginCache, Mesh!NoItem
<1>3. ASSUME MeshInv, NEW d, NEW ctx, Mesh!ExportFails(d, ctx) PROVE MeshInv'
  <2>1. DOMAIN <<>> = {}
    OBVIOUS
  <2> QED BY <1>3, <2>1 DEF MeshInv, Mesh!ExportFails, Mesh!NoItem
<1>4. ASSUME MeshInv, UNCHANGED Mesh!meshVars PROVE MeshInv'
  BY <1>4 DEF MeshInv, Mesh!meshVars, GeometryIs, MaterialIs, MaterialFor, ItemIs
<1> QED BY <1>1, <1>2, <1>3, <1>4 DEF Mesh!Next

LEMMA MeshAlways == AllSpec => [](which = "Mesh" => MeshInv)
<1> DEFINE I == which = "Mesh" => MeshInv
<1>1. AllInit => I
  BY MeshInit DEF AllInit
<1>2. I /\ [AllNext]_allVars => I'
  BY MeshAlone, MeshStep DEF AllNext, allVars
<1> QED BY <1>1, <1>2, PTL DEF AllSpec

LEMMA MeshOwn == MeshInv => Mesh!MeshIsDetail
<1> SUFFICES ASSUME ItemIs(item)
             PROVE  LET d == item.detail
                        split == d.prims
                        several == \E i \in DOMAIN split : split[i].kind = "soup" /\ Len(split[i].polys) > 1
                    IN IF item.apart
                       THEN \A i \in DOMAIN item.geometry :
                              LET g == item.geometry[i] IN
                              /\ g.prim = Mesh!PrimList(d)[i]
                              /\ Mesh!EdgesAreOfPolygons(<<g.prim>>, g.edges)
                              /\ [k \in DOMAIN g.faces |-> g.vertices[g.faces[k]]]
                                   = Mesh!PointsOf(d, Mesh!Corners(<<g.prim>>))
                              /\ (d.normals # "point" /\ Mesh!SoupsFirst(d, i)) =>
                                   [k \in DOMAIN g.normals.faces |->
                                      g.normals.values[g.normals.faces[k]]]
                                     = Mesh!Corners(<<g.prim>>)
                       ELSE LET g == item.geometry IN
                            /\ Mesh!EdgesAreOfPolygons(Mesh!PrimList(d), g.edges)
                            /\ Mesh!ChannelIsOfAttr(d, g.normals,
                                 [owner |-> IF d.normals = "point" THEN "point" ELSE "vertex",
                                  values |-> [k \in DOMAIN d.points |-> k]])
                            /\ \A name \in DOMAIN g.channels :
                                 (g.for.subdiv /\ several)
                                   \/ Mesh!ChannelIsOfAttr(d, g.channels[name], d.attrs[name])
  BY DEF MeshInv, Mesh!MeshIsDetail
<1>1. PICK d : d = item.detail
  OBVIOUS
<1>2. d \in MeshDetails /\ GeometryIs(item.geometry, d, item.apart)
  BY <1>1 DEF ItemIs
<1>3. ASSUME item.apart, NEW i \in DOMAIN item.geometry, NEW g, g = item.geometry[i]
      PROVE  /\ g.prim = Mesh!PrimList(d)[i]
             /\ Mesh!EdgesAreOfPolygons(<<g.prim>>, g.edges)
             /\ [k \in DOMAIN g.faces |-> g.vertices[g.faces[k]]]
                  = Mesh!PointsOf(d, Mesh!Corners(<<g.prim>>))
             /\ (d.normals # "point" /\ Mesh!SoupsFirst(d, i)) =>
                  [k \in DOMAIN g.normals.faces |-> g.normals.values[g.normals.faces[k]]]
                    = Mesh!Corners(<<g.prim>>)
  <2>1. PICK prims, prim : prims = Mesh!PrimList(d) /\ prim = prims[i]
    OBVIOUS
  <2>2. item.geometry = [j \in Mesh!Soups(d) |-> Mesh!AsPolySoup(d, j)]
    BY <1>2, <1>3 DEF GeometryIs
  <2>3. i \in DOMAIN prims /\ g = Mesh!AsPolySoup(d, i)
    BY <1>3, <2>1, <2>2 DEF Mesh!Soups
  <2>4. OfDetail(prims, d)
    BY <1>2, <2>1, PrimListOf
  <2>5. i \in 1 .. Len(prims)
    BY <2>3, <2>4, ListFacts DEF OfDetail, MeshPrims
  <2>6. OfDetail(<<prim>>, d)
    BY <1>2, <2>1, <2>4, <2>5, OneOf
  <2>7. /\ g.prim = prim /\ g.normals = Mesh!SoupNormals(d, i)
        /\ Mesh!EdgesAreOfPolygons(<<prim>>, g.edges)
        /\ [k \in DOMAIN g.faces |-> g.vertices[g.faces[k]]] = Mesh!PointsOf(d, Mesh!Corners(<<prim>>))
    BY <1>2, <2>1, <2>3, <2>6, SoupIs
  <2>8. ASSUME Mesh!SoupsFirst(d, i)
        PROVE  [k \in DOMAIN g.normals.faces |-> g.normals.values[g.normals.faces[k]]]
                 = Mesh!Corners(<<prim>>)
    BY <1>2, <2>1, <2>5, <2>6, <2>7, <2>8, SoupNormalsAre
  <2> QED BY <2>1, <2>7, <2>8
<1>4. ASSUME ~item.apart, NEW g, g = item.geometry
      PROVE  /\ Mesh!EdgesAreOfPolygons(Mesh!PrimList(d), g.edges)
             /\ Mesh!ChannelIsOfAttr(d, g.normals,
                  [owner |-> IF d.normals = "point" THEN "point" ELSE "vertex",
                   values |-> [k \in DOMAIN d.points |-> k]])
             /\ \A name \in DOMAIN g.channels :
                  \/ g.for.subdiv /\ \E i \in DOMAIN d.prims :
                                       d.prims[i].kind = "soup" /\ Len(d.prims[i].polys) > 1
                  \/ Mesh!ChannelIsOfAttr(d, g.channels[name], d.attrs[name])
  <2>1. PICK ctx : g = Mesh!AsPluginDesc(d, ctx)
    BY <1>2, <1>4 DEF GeometryIs
  <2>2. /\ g.edges = Mesh!GetEdgeVisibility(Mesh!PrimList(d)) /\ g.normals = Mesh!GetNormals(d)
        /\ g.channels = Mesh!GetMapChannels(d, ctx.subdiv) /\ g.for = ctx
    BY <2>1 DEF Mesh!AsPluginDesc
  <2>3. Mesh!EdgesAreOfPolygons(Mesh!PrimList(d), g.edges)
    BY <1>2, <2>2, PrimListOf, EdgesOfDetail
  <2>4. Mesh!ChannelIsOfAttr(d, g.normals,
          [owner |-> IF d.normals = "point" THEN "point" ELSE "vertex",
           values |-> [k \in DOMAIN d.points |-> k]])
    BY <1>2, <2>2, NormalsAre
  <2>5. ASSUME NEW name \in DOMAIN g.channels,
               ~(g.for.subdiv /\ \E i \in DOMAIN d.prims :
                                   d.prims[i].kind = "soup" /\ Len(d.prims[i].polys) > 1)
        PROVE  Mesh!ChannelIsOfAttr(d, g.channels[name], d.attrs[name])
    <3>1. name \in DOMAIN d.attrs /\ g.channels[name] = Mesh!AttrChannel(d, d.attrs[name], ctx.subdiv)
      BY <2>2, <2>5 DEF Mesh!GetMapChannels
    <3>2. AttrOf(d, d.attrs[name])
      BY <1>2, <3>1, DetailAttrs
    <3>3. ctx.subdiv => Few(d)
      BY <1>2, <2>2, <2>5, SeveralOrFew
    <3> QED BY <1>2, <3>1, <3>2, <3>3, AttrChannelIs
  <2> QED BY <2>3, <2>4, <2>5
<1> QED BY <1>1, <1>3, <1>4

\* The mesh of a detail has its polygons, with their edges, normals and attributes, and
\* that of a soup exported apart the soup's polygons and edges, and its normals where
\* they are of vertices and only soups come before it, for any details (MeshExporter).
THEOREM MeshesAreDetails == AllSpec => []MeshIsDetail
<1>1. (which = "Mesh" => MeshInv) => MeshIsDetail
  BY MeshOwn DEF MeshIsDetail
<1> QED BY <1>1, MeshAlways, PTL

-----------------------------------------------------------------------------
(* The faces of primitives. *)

HasFaces(prim) == \E j \in 1 .. Len(prim.polys) : Mesh!NumFaces(prim.polys[j]) > 0

Repeated(polys, v) ==
  Mesh!FlattenSeq([j \in DOMAIN polys |-> [f \in 1 .. Mesh!NumFaces(polys[j]) |-> v]])

LEMMA RepeatedIs ==
  ASSUME NEW polys, ListOfLists(polys), NEW v, NEW off, IsFaceOffsets(off, polys)
  PROVE  /\ IsList(Repeated(polys, v)) /\ Len(Repeated(polys, v)) = off[Len(polys) + 1]
         /\ \A k \in 1 .. Len(Repeated(polys, v)) : Repeated(polys, v)[k] = v
         /\ (\E j \in 1 .. Len(polys) : Mesh!NumFaces(polys[j]) > 0) <=> Len(Repeated(polys, v)) # 0
<1>1. DOMAIN polys = 1 .. Len(polys)
  BY ListFacts DEF ListOfLists
<1>2. PICK s : s = [j \in DOMAIN polys |-> [f \in 1 .. Mesh!NumFaces(polys[j]) |-> v]]
  OBVIOUS
<1>3. /\ s = [j \in 1 .. Len(polys) |-> s[j]]
      /\ \A j \in 1 .. Len(polys) : s[j] = [f \in 1 .. Mesh!NumFaces(polys[j]) |-> v]
  BY <1>1, <1>2
<1>4. \A j \in 1 .. Len(polys) : s[j] = [f \in 1 .. Mesh!NumFaces(polys[j]) |-> s[j][f]]
  BY <1>3
<1>5. /\ ListOfLists(s) /\ Len(s) = Len(polys)
      /\ \A j \in 1 .. Len(polys) : Len(s[j]) = Mesh!NumFaces(polys[j])
  BY <1>3, <1>4, FaceLists
<1>6. IsOffsets(off, s)
  BY <1>5, FaceOffsetsAre
<1>7. PICK r : r = Repeated(polys, v)
  OBVIOUS
<1>8. IsFlat(r, off, s)
  BY <1>2, <1>5, <1>6, <1>7, Flattened DEF Repeated
<1>9. IsList(r) /\ Len(r) \in Nat /\ Len(r) = off[Len(polys) + 1]
  BY <1>5, <1>8, ListFacts DEF IsFlat
<1>10. ASSUME NEW k \in 1 .. Len(r)
       PROVE  r[k] = v /\ \E j \in 1 .. Len(polys) : Mesh!NumFaces(polys[j]) > 0
  <2>1. \A x \in 1 .. off[Len(s) + 1] : \E j \in 1 .. Len(s) : \E i \in 1 .. Len(s[j]) : x = off[j] + i
    BY <1>5, <1>6, Covered
  <2>2. PICK j \in 1 .. Len(s) : \E i \in 1 .. Len(s[j]) : k = off[j] + i
    BY <1>5, <1>9, <2>1
  <2>3. PICK i \in 1 .. Len(s[j]) : k = off[j] + i
    BY <2>2
  <2>4. r[k] = s[j][i]
    BY <1>8, <2>3 DEF IsFlat
  <2>5. j \in 1 .. Len(polys) /\ i \in 1 .. Mesh!NumFaces(polys[j])
    BY <1>5, <2>2, <2>3
  <2>6. s[j][i] = v
    BY <1>3, <2>5
  <2>7. PICK m : m = Mesh!NumFaces(polys[j])
    OBVIOUS
  <2>8. m \in Nat
    BY <2>5, <2>7, NumFacesIs DEF ListOfLists
  <2>9. m > 0
    BY <2>5, <2>7, <2>8
  <2> QED BY <2>4, <2>5, <2>6, <2>7, <2>9
<1>11. ASSUME NEW j \in 1 .. Len(polys), Mesh!NumFaces(polys[j]) > 0 PROVE Len(r) # 0
  <2>1. PICK m : m = Mesh!NumFaces(polys[j])
    OBVIOUS
  <2>2. m \in Nat /\ m > 0
    BY <1>11, <2>1, NumFacesIs DEF ListOfLists
  <2>3. 1 \in 1 .. m
    BY <2>2
  <2>4. 1 \in 1 .. Len(s[j]) /\ j \in 1 .. Len(s)
    BY <1>5, <2>1, <2>3
  <2>5. off[j] + 1 \in 1 .. Len(r)
    BY <1>8, <2>4 DEF IsFlat
  <2> QED BY <2>5
<1>12. Len(r) # 0 => \E j \in 1 .. Len(polys) : Mesh!NumFaces(polys[j]) > 0
  <2>1. Len(r) # 0 => 1 \in 1 .. Len(r)
    BY <1>9
  <2> QED BY <1>10, <2>1
<1> QED BY <1>7, <1>9, <1>10, <1>11, <1>12

\* The primitive of each face, whatever is repeated for it.
IsSource(prims, n, source) ==
  /\ \A f \in 1 .. n : source[f] \in 1 .. Len(prims) /\ HasFaces(prims[source[f]])
  /\ \A i \in 1 .. Len(prims) : HasFaces(prims[i]) => \E f \in 1 .. n : source[f] = i
  /\ \A values : /\ IsList(Mesh!PerFace(prims, values)) /\ Len(Mesh!PerFace(prims, values)) = n
                 /\ \A f \in 1 .. n : Mesh!PerFace(prims, values)[f] = values[source[f]]

LEMMA FacesOf ==
  ASSUME NEW prims, MeshPrims(prims)
  PROVE  \E n, source : n \in Nat /\ IsSource(prims, n, source)
<1>1. Len(prims) \in Nat /\ DOMAIN prims = 1 .. Len(prims)
  BY ListFacts DEF MeshPrims
<1>2. \A i \in 1 .. Len(prims) : ListOfLists(prims[i].polys)
  BY DEF MeshPrims
<1> DEFINE Of(values) == [i \in DOMAIN prims |-> Repeated(prims[i].polys, values[i])]
<1>3. ASSUME NEW values
      PROVE  /\ Mesh!PerFace(prims, values) = Mesh!FlattenSeq(Of(values))
             /\ Of(values) = [i \in 1 .. Len(prims) |-> Of(values)[i]]
             /\ \A i \in 1 .. Len(prims) : Of(values)[i] = Repeated(prims[i].polys, values[i])
  <2>1. Mesh!PerFace(prims, values) = Mesh!FlattenSeq(Of(values))
    BY DEF Mesh!PerFace, Repeated
  <2>2. /\ Of(values) = [i \in 1 .. Len(prims) |-> Of(values)[i]]
        /\ \A i \in 1 .. Len(prims) : Of(values)[i] = Repeated(prims[i].polys, values[i])
    BY <1>1
  <2> QED BY <2>1, <2>2
<1> HIDE DEF Of
<1>4. ASSUME NEW values
      PROVE  /\ ListOfLists(Of(values)) /\ Len(Of(values)) = Len(prims)
             /\ \A i \in 1 .. Len(prims) :
                  /\ \A k \in 1 .. Len(Of(values)[i]) : Of(values)[i][k] = values[i]
                  /\ HasFaces(prims[i]) <=> Len(Of(values)[i]) # 0
                  /\ \A w : Len(Repeated(prims[i].polys, w)) = Len(Of(values)[i])
  <2>1. PICK s : s = Of(values)
    OBVIOUS
  <2>2. s = [i \in 1 .. Len(prims) |-> s[i]]
        /\ \A i \in 1 .. Len(prims) : s[i] = Repeated(prims[i].polys, values[i])
    BY <1>3, <2>1
  <2>3. IsList(s) /\ Len(s) = Len(prims)
    BY <1>1, <2>2, ListFromFcn
  <2>4. ASSUME NEW i \in 1 .. Len(prims)
        PROVE  /\ IsList(s[i]) /\ \A k \in 1 .. Len(s[i]) : s[i][k] = values[i]
               /\ HasFaces(prims[i]) <=> Len(s[i]) # 0
               /\ \A w : Len(Repeated(prims[i].polys, w)) = Len(s[i])
    <3>1. PICK polys : polys = prims[i].polys
      OBVIOUS
    <3>2. ListOfLists(polys)
      BY <1>2, <3>1
    <3>3. PICK off : IsFaceOffsets(off, polys)
      BY <3>2, FaceOffsetsExist
    <3>4. ASSUME NEW w
          PROVE  /\ IsList(Repeated(polys, w)) /\ Len(Repeated(polys, w)) = off[Len(polys) + 1]
                 /\ \A k \in 1 .. Len(Repeated(polys, w)) : Repeated(polys, w)[k] = w
                 /\ (\E j \in 1 .. Len(polys) : Mesh!NumFaces(polys[j]) > 0)
                      <=> Len(Repeated(polys, w)) # 0
      BY <3>2, <3>3, RepeatedIs
    <3>5. PICK v : v = values[i]
      OBVIOUS
    <3>6. s[i] = Repeated(polys, v)
      BY <2>2, <3>1, <3>5
    <3>7. HasFaces(prims[i]) <=> \E j \in 1 .. Len(polys) : Mesh!NumFaces(polys[j]) > 0
      BY <3>1 DEF HasFaces
    <3>8. IsList(s[i]) /\ \A k \in 1 .. Len(s[i]) : s[i][k] = values[i]
      BY <3>4, <3>5, <3>6
    <3>9. HasFaces(prims[i]) <=> Len(s[i]) # 0
      BY <3>4, <3>6, <3>7
    <3>10. \A w : Len(Repeated(prims[i].polys, w)) = Len(s[i])
      BY <3>1, <3>4, <3>6
    <3> QED BY <3>8, <3>9, <3>10
  <2> QED BY <2>1, <2>3, <2>4 DEF ListOfLists
<1>5. PICK each : each = [i \in 1 .. Len(prims) |-> i]
  OBVIOUS
<1>6. \A i \in 1 .. Len(prims) : each[i] = i
  BY <1>5
<1>7. PICK off : IsOffsets(off, Of(each))
  BY <1>4, OffsetsExist
<1>8. PICK n : n = off[Len(prims) + 1]
  OBVIOUS
<1>9. n \in Nat
  <2>1. Len(prims) + 1 \in 1 .. Len(prims) + 1
    BY <1>1
  <2> QED BY <1>4, <1>7, <1>8, <2>1 DEF IsOffsets
<1>10. ASSUME NEW values
       PROVE  /\ IsList(Mesh!PerFace(prims, values)) /\ Len(Mesh!PerFace(prims, values)) = n
              /\ \A i \in 1 .. Len(prims) : \A k \in 1 .. Len(Of(each)[i]) :
                   off[i] + k \in 1 .. n /\ Mesh!PerFace(prims, values)[off[i] + k] = values[i]
  <2>1. PICK t, s : t = Mesh!PerFace(prims, values) /\ s = Of(values)
    OBVIOUS
  <2>2. ASSUME NEW i \in 1 .. Len(prims) PROVE Len(s[i]) = Len(Of(each)[i])
    <3>1. PICK polys, v : polys = prims[i].polys /\ v = values[i]
      OBVIOUS
    <3>2. s[i] = Repeated(polys, v)
      BY <1>3, <2>1, <3>1
    <3>3. \A w : Len(Repeated(polys, w)) = Len(Of(each)[i])
      BY <1>4, <3>1
    <3> QED BY <3>2, <3>3
  <2>3. ListOfLists(s) /\ Len(s) = Len(prims) /\ Len(Of(each)) = Len(prims)
        /\ \A i \in 1 .. Len(prims) : \A k \in 1 .. Len(s[i]) : s[i][k] = values[i]
    BY <1>4, <2>1
  <2>4. IsOffsets(off, s)
    BY <1>7, <2>2, <2>3 DEF IsOffsets
  <2>5. IsFlat(t, off, s)
    BY <1>3, <2>1, <2>3, <2>4, Flattened
  <2>6. IsList(t) /\ Len(t) = n
    BY <1>8, <2>3, <2>5 DEF IsFlat
  <2>7. ASSUME NEW i \in 1 .. Len(prims), NEW k \in 1 .. Len(Of(each)[i])
        PROVE  off[i] + k \in 1 .. n /\ t[off[i] + k] = values[i]
    <3>1. i \in 1 .. Len(s) /\ k \in 1 .. Len(s[i])
      BY <2>2, <2>3, <2>7
    <3>2. off[i] + k \in 1 .. Len(t) /\ t[off[i] + k] = s[i][k]
      BY <2>5, <3>1 DEF IsFlat
    <3> QED BY <2>3, <2>6, <3>1, <3>2
  <2> QED BY <2>1, <2>6, <2>7
<1>11. PICK source : source = Mesh!PerFace(prims, each)
  OBVIOUS
<1>12. \A i \in 1 .. Len(prims) : \A k \in 1 .. Len(Of(each)[i]) :
         off[i] + k \in 1 .. n /\ source[off[i] + k] = i
  BY <1>6, <1>10, <1>11
<1>13. ASSUME NEW f \in 1 .. n
       PROVE  \E i \in 1 .. Len(prims) : \E k \in 1 .. Len(Of(each)[i]) : f = off[i] + k
  <2>1. PICK s : s = Of(each)
    OBVIOUS
  <2>2. ListOfLists(s) /\ IsOffsets(off, s) /\ Len(s) = Len(prims)
    BY <1>4, <1>7, <2>1
  <2>3. f \in 1 .. off[Len(s) + 1]
    BY <1>8, <2>2
  <2>4. \E i \in 1 .. Len(s) : \E k \in 1 .. Len(s[i]) : f = off[i] + k
    BY <2>2, <2>3, Covered
  <2> QED BY <2>1, <2>2, <2>4
<1>14. ASSUME NEW f \in 1 .. n PROVE source[f] \in 1 .. Len(prims) /\ HasFaces(prims[source[f]])
  <2>1. PICK i \in 1 .. Len(prims) : \E k \in 1 .. Len(Of(each)[i]) : f = off[i] + k
    BY <1>13
  <2>2. PICK k \in 1 .. Len(Of(each)[i]) : f = off[i] + k
    BY <2>1
  <2>3. source[f] = i
    BY <1>12, <2>2
  <2>4. Len(Of(each)[i]) # 0
    BY <2>2
  <2> QED BY <1>4, <2>3, <2>4
<1>15. ASSUME NEW i \in 1 .. Len(prims), HasFaces(prims[i]) PROVE \E f \in 1 .. n : source[f] = i
  <2>1. PICK m : m = Len(Of(each)[i])
    OBVIOUS
  <2>2. m # 0
    BY <1>4, <1>15, <2>1
  <2>3. m \in Nat
    BY <1>4, <2>1, ListFacts DEF ListOfLists
  <2>4. 1 \in 1 .. Len(Of(each)[i])
    BY <2>1, <2>2, <2>3
  <2> QED BY <1>12, <2>4
<1>16. ASSUME NEW values, NEW f \in 1 .. n
       PROVE  Mesh!PerFace(prims, values)[f] = values[source[f]]
  <2>1. PICK i \in 1 .. Len(prims) : \E k \in 1 .. Len(Of(each)[i]) : f = off[i] + k
    BY <1>13
  <2>2. PICK k \in 1 .. Len(Of(each)[i]) : f = off[i] + k
    BY <2>1
  <2> QED BY <1>10, <1>12, <2>2
<1>17. IsSource(prims, n, source)
  BY <1>10, <1>14, <1>15, <1>16 DEF IsSource
<1> QED BY <1>9, <1>17

-----------------------------------------------------------------------------
(* Materials of faces. *)

\* How many of a set of numbers are less than one.
Rank(S, i) == Mesh!Cardinality({j \in S : j < i})

LEMMA RankIs ==
  ASSUME NEW S, S \subseteq Nat, IsFiniteSet(S), NEW i \in S
  PROVE  /\ Rank(S, i) \in Nat /\ Mesh!Cardinality(S) \in Nat /\ Rank(S, i) < Mesh!Cardinality(S)
         /\ \A x \in S : Rank(S, x) = Rank(S, i) => x = i
<1> DEFINE Less(x) == {j \in S : j < x}
<1>1. ASSUME NEW x PROVE IsFiniteSet(Less(x)) /\ Cardinality(Less(x)) \in Nat
  <2>1. Less(x) \in SUBSET S
    OBVIOUS
  <2> HIDE DEF Less
  <2>2. IsFiniteSet(Less(x))
    BY <2>1, FS_Subset
  <2> QED BY <2>2, FS_CardinalityType
<1>2. ASSUME NEW x \in S, NEW y \in S, x < y PROVE Cardinality(Less(x)) # Cardinality(Less(y))
  <2>1. Less(x) \in SUBSET Less(y) /\ x \in Less(y) /\ x \notin Less(x)
    <3>1. x \in Nat /\ y \in Nat /\ x < y
      BY <1>2
    <3>2. ASSUME NEW j \in Less(x) PROVE j \in Less(y)
      <4>1. j \in Nat /\ j < x /\ j \in S
        OBVIOUS
      <4>2. j < y
        BY <3>1, <4>1
      <4> QED BY <4>1, <4>2
    <3>3. x \in Less(y) /\ x \notin Less(x)
      BY <3>1
    <3> QED BY <3>2, <3>3
  <2> HIDE DEF Less
  <2>2. Cardinality(Less(y)) = Cardinality(Less(x)) => Less(y) = Less(x)
    BY <1>1, <2>1, FS_Subset
  <2> QED BY <2>1, <2>2
<1>3. Cardinality(S) \in Nat
  BY FS_CardinalityType
<1>4. Cardinality(Less(i)) < Cardinality(S)
  <2>1. Less(i) \in SUBSET S /\ i \notin Less(i)
    OBVIOUS
  <2> HIDE DEF Less
  <2>2. Cardinality(Less(i)) <= Cardinality(S) /\ (Cardinality(S) = Cardinality(Less(i)) => S = Less(i))
    BY <2>1, FS_Subset
  <2>3. Cardinality(Less(i)) # Cardinality(S)
    BY <2>1, <2>2
  <2> QED BY <1>1, <1>3, <2>2, <2>3
<1>5. ASSUME NEW x \in S, Cardinality(Less(x)) = Cardinality(Less(i)) PROVE x = i
  <2>1. ~(x < i) /\ ~(i < x)
    BY <1>2, <1>5
  <2> QED BY <2>1
<1>6. \A x : Rank(S, x) = Cardinality(Less(x))
  BY MeshCardinality DEF Rank
<1>7. Mesh!Cardinality(S) = Cardinality(S)
  BY MeshCardinality
<1> HIDE DEF Less
<1> QED BY <1>1, <1>3, <1>4, <1>5, <1>6, <1>7

LEMMA LeastIs ==
  ASSUME NEW S, S \subseteq Nat, NEW x \in S, \A y \in S : x <= y
  PROVE  Mesh!Min(S) = x
<1>1. PICK z : z = CHOOSE w \in S : \A y \in S : w =< y
  OBVIOUS
<1>2. z \in S /\ \A y \in S : z <= y
  BY <1>1
<1>3. z = x
  BY <1>2
<1> QED BY <1>1, <1>3 DEF Mesh!Min

\* The material a face is given is the first that its primitive has.
LEMMA OwnIsPoly ==
  ASSUME NEW d, NEW ctx, NEW prim
  PROVE  Mesh!OwnMaterial(d, ctx, prim) = Mesh!PolyMatNode(d, ctx, prim)
<1>1. PICK s1, s2, s3, s4 :
        /\ s1 = ctx.sheet[prim.group] /\ s2 = ctx.context /\ s3 = ctx.object
        /\ s4 = IF d.sheetAttr THEN Mesh!None ELSE prim.path
  OBVIOUS
<1>2. PICK sources : sources = <<s1, s2, s3, s4>>
  OBVIOUS
<1>3. sources[1] = s1 /\ sources[2] = s2 /\ sources[3] = s3 /\ sources[4] = s4
  BY <1>2
<1>4. PICK given : given = {i \in 1 .. 4 : sources[i] # Mesh!None}
  OBVIOUS
<1>5. Mesh!OwnMaterial(d, ctx, prim) = IF given = {} THEN Mesh!None ELSE sources[Mesh!Min(given)]
  BY <1>1, <1>2, <1>4 DEF Mesh!OwnMaterial
<1>6. Mesh!PolyMatNode(d, ctx, prim) =
        IF s1 # Mesh!None THEN s1 ELSE IF s2 # Mesh!None THEN s2
        ELSE IF s3 # Mesh!None THEN s3 ELSE s4
  BY <1>1 DEF Mesh!PolyMatNode, Mesh!ObjMatNode
<1>7. given \subseteq Nat
  BY <1>4
<1>8. ASSUME NEW i \in 1 .. 4, sources[i] # Mesh!None,
             \A j \in 1 .. 4 : j < i => sources[j] = Mesh!None
      PROVE  Mesh!OwnMaterial(d, ctx, prim) = sources[i]
  <2>1. i \in given /\ \A j \in given : i <= j
    BY <1>4, <1>8
  <2>2. Mesh!Min(given) = i
    BY <1>7, <2>1, LeastIs
  <2> QED BY <1>5, <2>1, <2>2
<1>9. CASE s1 # Mesh!None
  <2>1. \A j \in 1 .. 4 : ~(j < 1)
    OBVIOUS
  <2>2. Mesh!OwnMaterial(d, ctx, prim) = sources[1]
    BY <1>3, <1>8, <1>9, <2>1
  <2> QED BY <1>3, <1>6, <1>9, <2>2
<1>10. CASE s1 = Mesh!None /\ s2 # Mesh!None
  <2>1. \A j \in 1 .. 4 : j < 2 => j = 1
    OBVIOUS
  <2>2. Mesh!OwnMaterial(d, ctx, prim) = sources[2]
    BY <1>3, <1>8, <1>10, <2>1
  <2> QED BY <1>3, <1>6, <1>10, <2>2
<1>11. CASE s1 = Mesh!None /\ s2 = Mesh!None /\ s3 # Mesh!None
  <2>1. \A j \in 1 .. 4 : j < 3 => j = 1 \/ j = 2
    OBVIOUS
  <2>2. Mesh!OwnMaterial(d, ctx, prim) = sources[3]
    BY <1>3, <1>8, <1>11, <2>1
  <2> QED BY <1>3, <1>6, <1>11, <2>2
<1>12. CASE s1 = Mesh!None /\ s2 = Mesh!None /\ s3 = Mesh!None /\ s4 # Mesh!None
  <2>1. \A j \in 1 .. 4 : j < 4 => j = 1 \/ j = 2 \/ j = 3
    OBVIOUS
  <2>2. Mesh!OwnMaterial(d, ctx, prim) = sources[4]
    BY <1>3, <1>8, <1>12, <2>1
  <2> QED BY <1>3, <1>6, <1>12, <2>2
<1>13. CASE s1 = Mesh!None /\ s2 = Mesh!None /\ s3 = Mesh!None /\ s4 = Mesh!None
  <2>1. \A j \in 1 .. 4 : j = 1 \/ j = 2 \/ j = 3 \/ j = 4
    OBVIOUS
  <2>2. given = {}
    BY <1>3, <1>4, <1>13, <2>1
  <2> QED BY <1>5, <1>6, <1>13, <2>2
<1> QED BY <1>9, <1>10, <1>11, <1>12, <1>13

\* The material of a primitive is one of the list.
LEMMA ListedOf ==
  ASSUME NEW d \in MeshDetails, NEW ctx, NEW prims, prims = Mesh!PrimList(d),
         NEW i \in 1 .. Len(prims), Mesh!PolyMatNode(d, ctx, prims[i]) # Mesh!None,
         NEW list, list = Mesh!FaceMaterials(d, ctx)
  PROVE  /\ DOMAIN list \subseteq Nat
         /\ \E k \in DOMAIN list : list[k] = Mesh!PolyMatNode(d, ctx, prims[i])
<1>1. OfDetail(prims, d)
  BY PrimListOf
<1>2. Len(prims) \in Nat /\ DOMAIN prims = 1 .. Len(prims)
  BY <1>1, ListFacts DEF OfDetail, MeshPrims
<1>3. PICK nodes : nodes = [j \in DOMAIN prims |-> Mesh!PolyMatNode(d, ctx, prims[j])]
  OBVIOUS
<1>4. DOMAIN nodes = 1 .. Len(prims)
      /\ \A j \in 1 .. Len(prims) : nodes[j] = Mesh!PolyMatNode(d, ctx, prims[j])
  BY <1>2, <1>3
<1>5. PICK firsts : firsts = {j \in DOMAIN nodes :
        nodes[j] # Mesh!None /\ \A l \in 1 .. (j - 1) : nodes[l] # nodes[j]}
  OBVIOUS
<1>6. list = [k \in 1 .. Mesh!Cardinality(firsts) |->
                nodes[CHOOSE j \in firsts : Rank(firsts, j) = k - 1]]
  <2> DEFINE NodesOf(ps) == [j \in DOMAIN ps |-> Mesh!PolyMatNode(d, ctx, ps[j])]
  <2> DEFINE FirstsOf(ns) == {j \in DOMAIN ns :
                ns[j] # Mesh!None /\ \A l \in 1 .. (j - 1) : ns[l] # ns[j]}
  <2> DEFINE ListOf(ns, fs) == [k \in 1 .. Mesh!Cardinality(fs) |->
                ns[CHOOSE j \in fs : Rank(fs, j) = k - 1]]
  <2>1. list = ListOf(NodesOf(Mesh!PrimList(d)), FirstsOf(NodesOf(Mesh!PrimList(d))))
    BY DEF Mesh!FaceMaterials, Rank
  <2>2. nodes = NodesOf(Mesh!PrimList(d)) /\ firsts = FirstsOf(nodes)
    BY <1>3, <1>5
  <2> HIDE DEF NodesOf, FirstsOf, ListOf
  <2>3. list = ListOf(nodes, firsts)
    BY <2>1, <2>2
  <2> QED BY <2>3 DEF ListOf
<1>7. PICK least \in {j \in 1 .. Len(prims) : nodes[j] = nodes[i]} :
        \A j \in {j \in 1 .. Len(prims) : nodes[j] = nodes[i]} : least <= j
  <2>1. PICK S : S = {j \in 1 .. Len(prims) : nodes[j] = nodes[i]}
    OBVIOUS
  <2>2. S \subseteq Nat /\ i \in S
    BY <2>1
  <2>3. \E x \in S : \A y \in S : x <= y
    BY <2>2, LeastNumber
  <2> QED BY <2>1, <2>3
<1>8. least \in firsts /\ nodes[least] = nodes[i]
  <2>1. ASSUME NEW l \in 1 .. (least - 1) PROVE nodes[l] # nodes[least]
    <3>1. l \in 1 .. Len(prims) /\ ~(least <= l)
      BY <1>2, <1>7
    <3> QED BY <1>7, <3>1
  <2> QED BY <1>4, <1>5, <1>7, <2>1
<1>9. firsts \subseteq Nat /\ IsFiniteSet(firsts)
  <2>1. firsts \in SUBSET (1 .. Len(prims))
    BY <1>4, <1>5
  <2>2. IsFiniteSet(1 .. Len(prims))
    BY <1>2, FS_Interval
  <2>3. IsFiniteSet(firsts)
    BY <2>1, <2>2, FS_Subset
  <2>4. firsts \subseteq Nat
    BY <1>2, <2>1
  <2> QED BY <2>3, <2>4
<1>10. PICK n, r : n = Mesh!Cardinality(firsts) /\ r = Rank(firsts, least)
  OBVIOUS
<1>11. /\ r \in Nat /\ n \in Nat /\ r < n
       /\ \A x \in firsts : Rank(firsts, x) = r => x = least
  BY <1>8, <1>9, <1>10, RankIs
<1>12. r + 1 \in 1 .. n /\ (r + 1) - 1 = r
  BY <1>11
<1>13. (CHOOSE j \in firsts : Rank(firsts, j) = r) = least
  BY <1>8, <1>10, <1>11
<1>14. list = [k \in 1 .. n |-> nodes[CHOOSE j \in firsts : Rank(firsts, j) = k - 1]]
  BY <1>6, <1>10
<1>15. DOMAIN list = 1 .. n /\ list[r + 1] = nodes[least]
  <2>1. list[r + 1] = nodes[CHOOSE j \in firsts : Rank(firsts, j) = (r + 1) - 1]
    BY <1>12, <1>14
  <2> QED BY <1>12, <1>13, <1>14, <2>1
<1> QED BY <1>4, <1>8, <1>11, <1>12, <1>15

\* The id of a face is that of the material of its primitive.
LEMMA FaceIdsAre ==
  ASSUME NEW d \in MeshDetails, NEW ctx, NEW prims, prims = Mesh!PrimList(d),
         NEW n \in Nat, NEW source, IsSource(prims, n, source),
         NEW f \in 1 .. n, Mesh!PolyMatNode(d, ctx, prims[source[f]]) # Mesh!None,
         NEW list, list = Mesh!FaceMaterials(d, ctx), NEW ids, ids = Mesh!FaceMtlIDs(d, ctx)
  PROVE  /\ list # <<>> /\ ids # <<>>
         /\ list[ids[f] + 1] = Mesh!PolyMatNode(d, ctx, prims[source[f]])
<1>1. PICK i : i = source[f]
  OBVIOUS
<1>2. PICK node : node = Mesh!PolyMatNode(d, ctx, prims[i])
  OBVIOUS
<1>3. i \in 1 .. Len(prims) /\ node # Mesh!None
  BY <1>1, <1>2 DEF IsSource
<1>4. DOMAIN list \subseteq Nat /\ \E k \in DOMAIN list : list[k] = node
  BY <1>1, <1>2, <1>3, ListedOf
<1>5. list # <<>>
  <2>1. DOMAIN <<>> = {}
    OBVIOUS
  <2> QED BY <1>4, <2>1
<1>6. DOMAIN prims = 1 .. Len(prims)
  BY PrimListOf, ListFacts DEF OfDetail, MeshPrims
<1>7. PICK values : values = [j \in DOMAIN prims |->
        IF Mesh!PolyMatNode(d, ctx, prims[j]) = Mesh!None THEN 0
        ELSE (CHOOSE k \in DOMAIN list : list[k] = Mesh!PolyMatNode(d, ctx, prims[j])) - 1]
  OBVIOUS
<1>8. ids = Mesh!PerFace(prims, values)
  BY <1>7 DEF Mesh!FaceMtlIDs
<1>9. IsList(ids) /\ Len(ids) = n /\ ids[f] = values[i]
  BY <1>1, <1>8 DEF IsSource
<1>10. ids # <<>>
  <2>1. Len(<<>>) = 0 /\ n # 0
    OBVIOUS
  <2> QED BY <1>9, <2>1
<1>11. PICK k : k = CHOOSE l \in DOMAIN list : list[l] = node
  OBVIOUS
<1>12. k \in DOMAIN list /\ list[k] = node
  BY <1>4, <1>11
<1>13. values[i] = k - 1
  BY <1>2, <1>3, <1>6, <1>7, <1>11
<1>14. (k - 1) + 1 = k
  BY <1>4, <1>12
<1> QED BY <1>1, <1>2, <1>5, <1>9, <1>10, <1>12, <1>13, <1>14

\* The overrides of a parameter, a value for each corner of each face.
LEMMA OverridesAre ==
  ASSUME NEW prims, MeshPrims(prims), NEW n \in Nat, NEW source, IsSource(prims, n, source),
         NEW name, NEW channel, channel = Mesh!OverrideChannel(prims, name),
         NEW f \in 1 .. n, NEW c \in 1 .. 3, NEW over, over = prims[source[f]].over
  PROVE  channel.values[channel.faces[3 * (f - 1) + c]]
           = IF name \in DOMAIN over THEN over[name] ELSE Mesh!Unset
<1>1. DOMAIN prims = 1 .. Len(prims)
  BY ListFacts DEF MeshPrims
<1>2. PICK values : values = [i \in DOMAIN prims |->
        IF name \in DOMAIN prims[i].over THEN prims[i].over[name] ELSE Mesh!Unset]
  OBVIOUS
<1>3. PICK given : given = Mesh!PerFace(prims, values)
  OBVIOUS
<1>4. Len(given) = n /\ given[f] = values[source[f]]
  BY <1>3 DEF IsSource
<1>5. values[source[f]] = IF name \in DOMAIN over THEN over[name] ELSE Mesh!Unset
  BY <1>1, <1>2 DEF IsSource
<1> DEFINE Channel(g, m) == [values |-> [k \in 1 .. (3 * m) |-> g[(k + 2) \div 3]],
                             faces |-> [k \in 1 .. (3 * m) |-> k]]
<1>6. channel = Channel(Mesh!PerFace(prims, values), Len(Mesh!PerFace(prims, values)))
  BY <1>2 DEF Mesh!OverrideChannel
<1>7. /\ Channel(given, n).values = [k \in 1 .. (3 * n) |-> given[(k + 2) \div 3]]
      /\ Channel(given, n).faces = [k \in 1 .. (3 * n) |-> k]
  OBVIOUS
<1> HIDE DEF Channel
<1>8. channel = Channel(given, n)
  BY <1>3, <1>4, <1>6
<1>9. PICK k : k = 3 * (f - 1) + c
  OBVIOUS
<1>10. k \in 1 .. (3 * n) /\ (k + 2) \div 3 = f
  <2>1. f \in Int /\ f >= 1 /\ f <= n /\ c \in {1, 2, 3}
    OBVIOUS
  <2>2. k \in 1 .. (3 * n)
    BY <1>9, <2>1
  <2>3. k + 2 = 3 * f + (c - 1) /\ c - 1 \in {0, 1, 2}
    BY <1>9, <2>1
  <2>4. (k + 2) \div 3 = f
    BY <2>1, <2>3
  <2> QED BY <2>2, <2>4
<1>11. channel.faces[k] = k /\ channel.values[k] = given[(k + 2) \div 3]
  BY <1>7, <1>8, <1>10
<1> QED BY <1>4, <1>5, <1>9, <1>10, <1>11

LEMMA FacesOwn == MeshInv => Mesh!FacesAreOfPrims
<1> DEFINE Right(d, prims, nodes, overs) ==
      /\ \A f \in DOMAIN nodes :
           IF item.apart \/ item.ctx.context # Mesh!None
           THEN Mesh!Shown(f) = Mesh!ObjMatNode(item.ctx)
           ELSE nodes[f] # Mesh!None => Mesh!Shown(f) = nodes[f]
      /\ item.apart => item.channels = <<>>
      /\ \A name \in DOMAIN item.channels :
           IF \E f \in DOMAIN overs : name \in DOMAIN overs[f]
           THEN \A f \in DOMAIN overs, c \in 1..3 :
                  item.channels[name].values[item.channels[name].faces[3 * (f - 1) + c]]
                    = (IF name \in DOMAIN overs[f] THEN overs[f][name] ELSE Mesh!Unset)
           ELSE Mesh!ChannelIsOfAttr(d, item.channels[name], d.attrs[name])
<1> DEFINE Made == IF item.material.list = <<>> THEN item.ctx ELSE item.material.for
<1> DEFINE Nodes(d, prims) ==
      Mesh!PerFace(prims, [i \in DOMAIN prims |-> Mesh!OwnMaterial(d, Made, prims[i])])
<1> DEFINE Overs(prims) == Mesh!PerFace(prims, [i \in DOMAIN prims |-> prims[i].over])
<1> SUFFICES ASSUME ItemIs(item)
             PROVE  Right(item.detail, Mesh!PrimList(item.detail),
                          Nodes(item.detail, Mesh!PrimList(item.detail)),
                          Overs(Mesh!PrimList(item.detail)))
  BY DEF MeshInv, Mesh!FacesAreOfPrims
<1>1. PICK d, prims, made : d = item.detail /\ prims = Mesh!PrimList(d) /\ made = Made
  OBVIOUS
<1>2. /\ d \in MeshDetails
      /\ IF item.apart THEN item.material = Mesh!NoList(item.ctx) /\ item.channels = <<>>
         ELSE /\ item.channels = Mesh!GetExtMapChannels(d)
              /\ MaterialFor(item.material, d, item.ctx.sheet)
  BY <1>1 DEF ItemIs
<1>3. OfDetail(prims, d) /\ MeshPrims(prims)
  BY <1>1, <1>2, PrimListOf DEF OfDetail
<1>4. Len(prims) \in Nat /\ DOMAIN prims = 1 .. Len(prims)
  BY <1>3, ListFacts DEF MeshPrims
<1>5. PICK n, source : n \in Nat /\ IsSource(prims, n, source)
  BY <1>3, FacesOf
<1>6. PICK nodes, overs :
        nodes = Nodes(d, prims) /\ overs = Overs(prims)
  OBVIOUS
<1>7. /\ DOMAIN nodes = 1 .. n /\ DOMAIN overs = 1 .. n
      /\ \A f \in 1 .. n : /\ nodes[f] = Mesh!OwnMaterial(d, made, prims[source[f]])
                           /\ overs[f] = prims[source[f]].over
  <2>1. PICK own, over :
          /\ own = [i \in DOMAIN prims |-> Mesh!OwnMaterial(d, made, prims[i])]
          /\ over = [i \in DOMAIN prims |-> prims[i].over]
    OBVIOUS
  <2>2. nodes = Mesh!PerFace(prims, own) /\ overs = Mesh!PerFace(prims, over)
    BY <1>1, <1>6, <2>1
  <2>3. IsList(nodes) /\ Len(nodes) = n /\ IsList(overs) /\ Len(overs) = n
    BY <1>5, <2>2 DEF IsSource
  <2>4. DOMAIN nodes = 1 .. n /\ DOMAIN overs = 1 .. n
    BY <2>3, ListFacts
  <2>5. ASSUME NEW f \in 1 .. n
        PROVE  /\ nodes[f] = Mesh!OwnMaterial(d, made, prims[source[f]])
               /\ overs[f] = prims[source[f]].over
    <3>1. nodes[f] = own[source[f]] /\ overs[f] = over[source[f]] /\ source[f] \in DOMAIN prims
      BY <1>4, <1>5, <2>2 DEF IsSource
    <3> QED BY <2>1, <3>1
  <2> QED BY <2>4, <2>5
<1>8. ASSUME NEW f \in 1 .. n, ~item.apart, item.ctx.context = Mesh!None, nodes[f] # Mesh!None
      PROVE  Mesh!Shown(f) = nodes[f]
  <2>1. PICK for, list, ids :
          /\ for = item.material.for
          /\ list = Mesh!FaceMaterials(d, for) /\ ids = Mesh!FaceMtlIDs(d, for)
    OBVIOUS
  <2>2. PICK prim : prim = prims[source[f]]
    OBVIOUS
  <2>3. nodes[f] = Mesh!PolyMatNode(d, made, prim)
    BY <1>7, <2>2, OwnIsPoly
  <2>4. item.material = IF list = <<>> \/ ids = <<>> THEN Mesh!NoList(for)
                        ELSE [list |-> list, ids |-> ids, for |-> for]
    BY <1>2, <1>8, <2>1 DEF MaterialFor, MaterialIs
  <2>5. Mesh!PolyMatNode(d, for, prim) # Mesh!None =>
          /\ list # <<>> /\ ids # <<>>
          /\ list[ids[f] + 1] = Mesh!PolyMatNode(d, for, prim)
    BY <1>1, <1>2, <1>5, <2>1, <2>2, FaceIdsAre
  <2>6. CASE list = <<>> \/ ids = <<>>
    <3>1. item.material.list = <<>>
      BY <2>4, <2>6 DEF Mesh!NoList
    <3>2. made = item.ctx /\ for.sheet = item.ctx.sheet
      BY <1>1, <1>2, <1>8, <2>1, <3>1 DEF MaterialFor
    <3>3. Mesh!PolyMatNode(d, for, prim) = Mesh!None
      BY <2>5, <2>6
    <3>4. PICK s, o, path : /\ s = for.sheet[prim.group] /\ o = Mesh!ObjMatNode(for)
                            /\ path = IF d.sheetAttr THEN Mesh!None ELSE prim.path
      OBVIOUS
    <3>5. Mesh!PolyMatNode(d, for, prim) =
            IF s # Mesh!None THEN s ELSE IF o # Mesh!None THEN o ELSE path
      BY <3>4 DEF Mesh!PolyMatNode
    <3>6. s = Mesh!None /\ path = Mesh!None
      BY <3>3, <3>5
    <3>7. Mesh!ObjMatNode(item.ctx) = item.ctx.object
      BY <1>8 DEF Mesh!ObjMatNode
    <3>8. PICK b : b = item.ctx.object
      OBVIOUS
    <3>9. Mesh!PolyMatNode(d, item.ctx, prim) =
            IF s # Mesh!None THEN s ELSE IF b # Mesh!None THEN b ELSE path
      BY <3>2, <3>4, <3>7, <3>8 DEF Mesh!PolyMatNode
    <3>10. nodes[f] = b
      BY <1>8, <2>3, <3>2, <3>6, <3>9
    <3> QED BY <1>8, <3>1, <3>8, <3>10 DEF Mesh!Shown
  <2>7. CASE ~(list = <<>> \/ ids = <<>>)
    <3>1. item.material.list = list /\ item.material.ids = ids
      BY <2>4, <2>7
    <3>2. made = for
      BY <1>1, <2>1, <2>7, <3>1
    <3>3. Mesh!Shown(f) = list[ids[f] + 1]
      BY <1>8, <2>7, <3>1 DEF Mesh!Shown
    <3> QED BY <1>8, <2>3, <2>5, <3>2, <3>3
  <2> QED BY <2>6, <2>7
<1>9. ASSUME item.apart \/ item.ctx.context # Mesh!None, NEW f
      PROVE  Mesh!Shown(f) = Mesh!ObjMatNode(item.ctx)
  <2>1. item.apart => item.material.list = <<>>
    BY <1>2 DEF Mesh!NoList
  <2> QED BY <1>9, <2>1 DEF Mesh!Shown, Mesh!ObjMatNode
<1>10. ASSUME item.apart
       PROVE  item.channels = <<>> /\ DOMAIN item.channels = {}
  <2>1. DOMAIN <<>> = {}
    OBVIOUS
  <2> QED BY <1>2, <1>10, <2>1
<1>11. ASSUME NEW name \in DOMAIN item.channels
      PROVE  IF \E f \in 1 .. n : name \in DOMAIN overs[f]
             THEN \A f \in 1 .. n, c \in 1..3 :
                    item.channels[name].values[item.channels[name].faces[3 * (f - 1) + c]]
                      = (IF name \in DOMAIN overs[f] THEN overs[f][name] ELSE Mesh!Unset)
             ELSE Mesh!ChannelIsOfAttr(d, item.channels[name], d.attrs[name])
  <2>1. PICK over : over = UNION {DOMAIN prims[i].over : i \in {j \in DOMAIN prims :
                      \E p \in DOMAIN prims[j].polys : Mesh!NumFaces(prims[j].polys[p]) > 0}}
    OBVIOUS
  <2>2. PICK attrs : attrs = {a \in DOMAIN d.attrs : ~d.attrs[a].uv}
    OBVIOUS
  <2> ~item.apart
    BY <1>10, <1>11
  <2>3. item.channels = [a \in over \cup attrs |->
          IF a \in over THEN Mesh!OverrideChannel(prims, a)
          ELSE Mesh!AttrChannel(d, d.attrs[a], FALSE)]
    BY <1>1, <1>2, <2>1, <2>2 DEF Mesh!GetExtMapChannels
  <2>4. /\ name \in over \cup attrs
        /\ item.channels[name] = IF name \in over THEN Mesh!OverrideChannel(prims, name)
                                 ELSE Mesh!AttrChannel(d, d.attrs[name], FALSE)
    BY <1>11, <2>3
  <2>5. \A j \in 1 .. Len(prims) :
          HasFaces(prims[j]) <=> \E p \in DOMAIN prims[j].polys : Mesh!NumFaces(prims[j].polys[p]) > 0
    <3>1. \A j \in 1 .. Len(prims) : DOMAIN prims[j].polys = 1 .. Len(prims[j].polys)
      BY <1>3, ListFacts DEF MeshPrims, ListOfLists
    <3> QED BY <3>1 DEF HasFaces
  <2>6. name \in over <=> \E f \in 1 .. n : name \in DOMAIN overs[f]
    <3>1. name \in over <=> \E i \in 1 .. Len(prims) : HasFaces(prims[i]) /\ name \in DOMAIN prims[i].over
      BY <1>4, <2>1, <2>5
    <3>2. ASSUME NEW i \in 1 .. Len(prims), HasFaces(prims[i]), name \in DOMAIN prims[i].over
          PROVE  \E f \in 1 .. n : name \in DOMAIN overs[f]
      <4>1. PICK f \in 1 .. n : source[f] = i
        BY <1>5, <3>2 DEF IsSource
      <4> QED BY <1>7, <3>2, <4>1
    <3>3. ASSUME NEW f \in 1 .. n, name \in DOMAIN overs[f]
          PROVE  \E i \in 1 .. Len(prims) : HasFaces(prims[i]) /\ name \in DOMAIN prims[i].over
      <4>1. source[f] \in 1 .. Len(prims) /\ HasFaces(prims[source[f]])
        BY <1>5 DEF IsSource
      <4>2. name \in DOMAIN prims[source[f]].over
        BY <1>7, <3>3
      <4> QED BY <4>1, <4>2
    <3> QED BY <3>1, <3>2, <3>3
  <2>7. ASSUME name \in over, NEW f \in 1 .. n, NEW c \in 1 .. 3
        PROVE  item.channels[name].values[item.channels[name].faces[3 * (f - 1) + c]]
                 = (IF name \in DOMAIN overs[f] THEN overs[f][name] ELSE Mesh!Unset)
    <3>1. PICK channel, o : channel = Mesh!OverrideChannel(prims, name) /\ o = overs[f]
      OBVIOUS
    <3>2. item.channels[name] = channel
      BY <2>4, <2>7, <3>1
    <3>3. o = prims[source[f]].over
      BY <1>7, <3>1
    <3>4. channel.values[channel.faces[3 * (f - 1) + c]] = IF name \in DOMAIN o THEN o[name] ELSE Mesh!Unset
      BY <1>3, <1>5, <3>1, <3>3, OverridesAre
    <3> QED BY <3>1, <3>2, <3>4
  <2>8. ASSUME name \notin over
        PROVE  Mesh!ChannelIsOfAttr(d, item.channels[name], d.attrs[name])
    <3>1. name \in DOMAIN d.attrs /\ item.channels[name] = Mesh!AttrChannel(d, d.attrs[name], FALSE)
      BY <2>2, <2>4, <2>8
    <3>2. AttrOf(d, d.attrs[name])
      BY <1>2, <3>1, DetailAttrs
    <3>3. Mesh!ChannelIsOfAttr(d, Mesh!AttrChannel(d, d.attrs[name], FALSE), d.attrs[name])
      BY <1>2, <3>2, AttrChannelIs
    <3> QED BY <3>1, <3>3
  <2> QED BY <2>6, <2>7, <2>8
<1>12. Right(d, prims, nodes, overs)
  BY <1>7, <1>8, <1>9, <1>10, <1>11
<1> HIDE DEF Right, Nodes, Overs
<1> QED BY <1>1, <1>6, <1>12

\* A face of a mesh shows the material its primitive has in the context the list of
\* materials was made in, and has its overrides; a soup apart shows the material of the
\* context or the object, for any details and contexts (MeshExporter).
THEOREM FacesHaveTheirOwn == AllSpec => []FacesAreOfPrims
<1>1. (which = "Mesh" => MeshInv) => FacesAreOfPrims
  BY FacesOwn DEF FacesAreOfPrims
<1> QED BY <1>1, MeshAlways, PTL
=============================================================================
