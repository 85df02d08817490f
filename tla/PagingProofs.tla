---------------------------- MODULE PagingProofs ----------------------------
(***************************************************************************)
(* Proofs about Paging, for every size of the tables and of memory, every  *)
(* memory map and every set of addresses.                                  *)
(*                                                                         *)
(* The tables are a tree of four levels.  A level is given to every frame: *)
(* 4 to the root, 3 to 1 to the tables below it and 0 to every other       *)
(* frame.                                                                  *)
(***************************************************************************)
EXTENDS Paging, FramesProofs

----------------------------------------------------------------------------
(* The tree of the tables.                                                 *)

IsLink(m, f, i) == is_present(m[f][i]) /\ ~ is_huge_page(m[f][i])

\* An entry links a table of the level below.
Leads(m, lv) ==
  \A f \in Pages, i \in Index :
    lv[f] >= 2 /\ IsLink(m, f, i) =>
      FrameOf(m[f][i]) \in Pages /\ lv[FrameOf(m[f][i])] = lv[f] - 1

\* Huge pages are those of the identity mapping.
HugeOnly(m, lv) ==
  \A f \in Pages, i \in Index :
    lv[f] >= 2 /\ is_huge_page(m[f][i]) => \E j \in 0 .. G - 1 : f = KPD[j]

\* A mapped page has an address.
Maps(m, lv) ==
  \A f \in Pages, i \in Index :
    lv[f] = 1 /\ is_present(m[f][i]) => m[f][i].addr \in Nat

\* Every table is linked.
Parents(m, lv) ==
  \A f \in Pages :
    lv[f] \in 1 .. 3 => \E g \in Pages, i \in Index : /\ lv[g] = lv[f] + 1
                                                      /\ IsLink(m, g, i)
                                                      /\ FrameOf(m[g][i]) = f

\* No table is linked twice, but for the one two entries of the root share.
Once(m, lv) ==
  \A f, g \in Pages, i, j \in Index :
    lv[f] >= 2 /\ lv[g] >= 2 /\ IsLink(m, f, i) /\ IsLink(m, g, j)
      /\ FrameOf(m[f][i]) = FrameOf(m[g][j])
    => /\ f = g
       /\ i = j \/ (f = KPML4 /\ i \in {0, E - 1} /\ j \in {0, E - 1})

Levels(lv) ==
  /\ lv \in [Pages -> 0 .. 4]
  /\ \A f \in Pages : lv[f] = 4 <=> f = KPML4

Tree(m, lv) ==
  /\ MemoryShape(m) /\ IdentityTables(m)
  /\ Levels(lv) /\ Leads(m, lv) /\ HugeOnly(m, lv) /\ Maps(m, lv)
  /\ Parents(m, lv) /\ Once(m, lv)

\* What the entries of the identity mapping are.
LEMMA KernelEntries ==
  /\ \A f \in Pages : /\ is_present(LinkTo(f)) /\ ~ is_huge_page(LinkTo(f))
                      /\ FrameOf(LinkTo(f)) = f
  /\ \A b \in Nat : /\ is_present(HugeTo(b)) /\ is_huge_page(HugeTo(b))
                    /\ HugeTo(b).addr = b * E * E
  /\ 0 \in Index /\ E - 1 \in Index /\ 0 # E - 1
  /\ \A j \in 0 .. G - 1 : j \in Index /\ KPD[j] \in Pages
  /\ KPML4 \in Pages /\ KPDPT \in Pages
<1>1. \A f \in Pages : f \in Nat
  BY MaxPagesAssumption DEF Pages
<1>2. ASSUME NEW f \in Pages
      PROVE  is_present(LinkTo(f)) /\ ~ is_huge_page(LinkTo(f)) /\ FrameOf(LinkTo(f)) = f
  <2>1. FrameOf(LinkTo(f)) = f /\ LinkTo(f).flags = {"PRESENT", "WRITABLE"}
    BY <1>1, EntryPoints DEF LinkTo
  <2> QED
    BY <2>1 DEF is_present, is_huge_page
<1>3. ASSUME NEW b \in Nat
      PROVE  is_present(HugeTo(b)) /\ is_huge_page(HugeTo(b)) /\ HugeTo(b).addr = b * E * E
  <2>1. b * E \in Nat
    BY TableSizeAssumption
  <2>2. /\ HugeTo(b).addr = b * E * PAGE_SIZE
        /\ HugeTo(b).flags = {"PRESENT", "WRITABLE", "HUGE_PAGE"}
    BY <2>1, EntryPoints DEF HugeTo
  <2> QED
    BY <2>2, TableSizeAssumption DEF is_present, is_huge_page
<1>4. 0 \in Index /\ E - 1 \in Index /\ 0 # E - 1
  BY TableSizeAssumption DEF Index
<1>5. \A j \in 0 .. G - 1 : j \in Index /\ KPD[j] \in Pages
  BY TableSizeAssumption, IdentityAssumption, KernelTablesAssumption DEF Index
<1> QED
  BY <1>2, <1>3, <1>4, <1>5, KernelTablesAssumption

\* The levels of the kernel's tables.
LEMMA KernelLevels ==
  ASSUME NEW m, NEW lv, Tree(m, lv)
  PROVE  /\ lv[KPML4] = 4 /\ lv[KPDPT] = 3 /\ \A j \in 0 .. G - 1 : lv[KPD[j]] = 2
         /\ \A f \in KernelTables : f \in Pages /\ lv[f] >= 2
<1>1. lv[KPML4] = 4
  BY KernelEntries DEF Tree, Levels
<1>2. lv[KPDPT] = 3
  <2>1. m[KPML4][0] = LinkTo(KPDPT)
    BY DEF Tree, IdentityTables
  <2>2. IsLink(m, KPML4, 0) /\ FrameOf(m[KPML4][0]) = KPDPT
    BY <2>1, KernelEntries DEF IsLink
  <2> QED
    BY <1>1, <2>2, KernelEntries DEF Tree, Leads
<1>3. ASSUME NEW j \in 0 .. G - 1 PROVE lv[KPD[j]] = 2
  <2>1. m[KPDPT][j] = LinkTo(KPD[j])
    BY DEF Tree, IdentityTables
  <2>2. IsLink(m, KPDPT, j) /\ FrameOf(m[KPDPT][j]) = KPD[j]
    BY <2>1, KernelEntries DEF IsLink
  <2> QED
    BY <1>2, <2>2, KernelEntries DEF Tree, Leads
<1> QED
  BY <1>1, <1>2, <1>3, KernelEntries DEF KernelTables

----------------------------------------------------------------------------
(* The walk of an address.                                                 *)

T3(m, v) == FrameOf(m[KPML4][indices(v).pml4])
T2(m, v) == FrameOf(m[T3(m, v)][indices(v).pdpt])
T1(m, v) == FrameOf(m[T2(m, v)][indices(v).pd])

\* The walk finds a table on every level.
Walked(m, v) ==
  /\ IsLink(m, KPML4, indices(v).pml4)
  /\ IsLink(m, T3(m, v), indices(v).pdpt)
  /\ IsLink(m, T2(m, v), indices(v).pd)

\* Outside the identity mapping no entry of the walk is a huge page.
LEMMA WalkTables ==
  ASSUME NEW m, NEW lv, Tree(m, lv), NEW v \in Nat, ~ IsIdentity(v)
  PROVE  LET i4 == indices(v).pml4
             i3 == indices(v).pdpt
             i2 == indices(v).pd
         IN  /\ i4 \in Index /\ i3 \in Index /\ i2 \in Index
             /\ ~ is_huge_page(m[KPML4][i4])
             /\ is_present(m[KPML4][i4]) =>
                  /\ IsLink(m, KPML4, i4) /\ T3(m, v) \in Pages /\ lv[T3(m, v)] = 3
                  /\ ~ is_huge_page(m[T3(m, v)][i3])
                  /\ is_present(m[T3(m, v)][i3]) =>
                       /\ IsLink(m, T3(m, v), i3) /\ T2(m, v) \in Pages /\ lv[T2(m, v)] = 2
                       /\ ~ is_huge_page(m[T2(m, v)][i2])
                       /\ is_present(m[T2(m, v)][i2]) =>
                            /\ IsLink(m, T2(m, v), i2) /\ T1(m, v) \in Pages /\ lv[T1(m, v)] = 1
<1> DEFINE i4 == indices(v).pml4
           i3 == indices(v).pdpt
           i2 == indices(v).pd
           t3 == T3(m, v)
           t2 == T2(m, v)
           t1 == T1(m, v)
<1>1. i4 \in Index /\ i3 \in Index /\ i2 \in Index
  BY IndicesAre
<1>2. ~ (i4 \in {0, E - 1} /\ i3 < G)
  BY DEF IsIdentity
<1>3. t3 = FrameOf(m[KPML4][i4]) /\ t2 = FrameOf(m[t3][i3]) /\ t1 = FrameOf(m[t2][i2])
  BY DEF T3, T2, T1
<1> HIDE DEF i4, i3, i2, t3, t2, t1
<1>4. /\ lv[KPML4] = 4 /\ lv[KPDPT] = 3 /\ (\A j \in 0 .. G - 1 : lv[KPD[j]] = 2)
      /\ KPML4 \in Pages /\ KPDPT \in Pages
  BY KernelLevels, KernelEntries
<1>5. ~ is_huge_page(m[KPML4][i4])
  BY <1>1, <1>4 DEF Tree, HugeOnly
<1>6. ASSUME is_present(m[KPML4][i4])
      PROVE  IsLink(m, KPML4, i4) /\ t3 \in Pages /\ lv[t3] = 3 /\ ~ is_huge_page(m[t3][i3])
  <2>1. IsLink(m, KPML4, i4)
    BY <1>5, <1>6 DEF IsLink
  <2>2. t3 \in Pages /\ lv[t3] = 3
    BY <1>1, <1>3, <1>4, <2>1 DEF Tree, Leads
  <2> QED
    BY <1>1, <1>4, <2>1, <2>2 DEF Tree, HugeOnly
<1>7. ASSUME is_present(m[KPML4][i4]), is_present(m[t3][i3])
      PROVE  IsLink(m, t3, i3) /\ t2 \in Pages /\ lv[t2] = 2 /\ ~ is_huge_page(m[t2][i2])
  <2>1. IsLink(m, t3, i3) /\ IsLink(m, KPML4, i4) /\ t3 \in Pages /\ lv[t3] = 3
    BY <1>6, <1>7 DEF IsLink
  <2>2. t2 \in Pages /\ lv[t2] = 2
    BY <1>1, <1>3, <2>1 DEF Tree, Leads
  <2>3. ASSUME NEW j \in 0 .. G - 1, t2 = KPD[j] PROVE FALSE
    <3>1. m[KPDPT][j] = LinkTo(KPD[j]) /\ m[KPML4][0] = LinkTo(KPDPT)
      BY DEF Tree, IdentityTables
    <3>2. /\ IsLink(m, KPDPT, j) /\ FrameOf(m[KPDPT][j]) = t2 /\ j \in Index
          /\ IsLink(m, KPML4, 0) /\ FrameOf(m[KPML4][0]) = KPDPT /\ 0 \in Index
      BY <2>3, <3>1, KernelEntries DEF IsLink
    <3>3. t3 = KPDPT /\ i3 = j
      <4>1. t3 = KPDPT /\ (i3 = j \/ t3 = KPML4)
        BY <1>1, <1>3, <1>4, <2>1, <3>2 DEF Tree, Once
      <4> QED
        BY <1>4, <4>1
    <3>4. i4 \in {0, E - 1}
      <4>1. FrameOf(m[KPML4][i4]) = FrameOf(m[KPML4][0]) /\ lv[KPML4] >= 2
        BY <1>3, <1>4, <3>2, <3>3
      <4>2. i4 = 0 \/ (KPML4 = KPML4 /\ i4 \in {0, E - 1} /\ 0 \in {0, E - 1})
        BY <1>1, <1>4, <2>1, <3>2, <4>1 DEF Tree, Once
      <4> QED
        BY <4>2
    <3>5. i3 < G
      BY <3>3, IdentityAssumption
    <3> QED
      BY <1>2, <3>4, <3>5
  <2> QED
    BY <1>1, <2>1, <2>2, <2>3 DEF Tree, HugeOnly
<1>8. ASSUME is_present(m[KPML4][i4]), is_present(m[t3][i3]), is_present(m[t2][i2])
      PROVE  IsLink(m, t2, i2) /\ t1 \in Pages /\ lv[t1] = 1
  <2>1. IsLink(m, t2, i2) /\ t2 \in Pages /\ lv[t2] = 2
    BY <1>7, <1>8 DEF IsLink
  <2>2. Leads(m, lv)
    BY DEF Tree
  <2>3. FrameOf(m[t2][i2]) \in Pages /\ lv[FrameOf(m[t2][i2])] = lv[t2] - 1
    BY <1>1, <2>1, <2>2 DEF Leads
  <2>4. lv[FrameOf(m[t2][i2])] = 1
    BY <2>1, <2>3
  <2> QED
    BY <1>3, <2>1, <2>3, <2>4, Zenon
<1> QED
  BY <1>1, <1>5, <1>6, <1>7, <1>8 DEF i4, i3, i2, t3, t2, t1

\* What translate answers outside the identity mapping.
LEMMA TranslateWalks ==
  ASSUME NEW m, NEW lv, Tree(m, lv), NEW v \in Nat, ~ IsIdentity(v)
  PROVE  translate(m, v) = IF Walked(m, v) /\ is_present(m[T1(m, v)][indices(v).pt])
                           THEN m[T1(m, v)][indices(v).pt].addr + (v % E)
                           ELSE None
<1> DEFINE i4 == indices(v).pml4
           i3 == indices(v).pdpt
           i2 == indices(v).pd
           i1 == indices(v).pt
           t3 == T3(m, v)
           t2 == T2(m, v)
           t1 == T1(m, v)
<1>1. t3 = FrameOf(m[KPML4][i4]) /\ t2 = FrameOf(m[t3][i3]) /\ t1 = FrameOf(m[t2][i2])
  BY DEF T3, T2, T1
<1>2. indices(v).offset = v % E
  BY DEF indices
<1>3. translate(m, v) =
        IF ~ is_present(m[KPML4][i4]) \/ ~ is_present(m[t3][i3]) THEN None
        ELSE IF is_huge_page(m[t3][i3]) THEN m[t3][i3].addr + (v % (E * E * E))
        ELSE IF ~ is_present(m[t2][i2]) THEN None
        ELSE IF is_huge_page(m[t2][i2]) THEN m[t2][i2].addr + (v % (E * E))
        ELSE IF ~ is_present(m[t1][i1]) THEN None
        ELSE m[t1][i1].addr + (v % E)
  BY <1>1, <1>2 DEF translate
<1>4. /\ is_present(m[KPML4][i4]) => ~ is_huge_page(m[t3][i3]) /\ IsLink(m, KPML4, i4)
      /\ is_present(m[KPML4][i4]) /\ is_present(m[t3][i3]) =>
           ~ is_huge_page(m[t2][i2]) /\ IsLink(m, t3, i3)
      /\ is_present(m[KPML4][i4]) /\ is_present(m[t3][i3]) /\ is_present(m[t2][i2]) =>
           IsLink(m, t2, i2)
  BY WalkTables
<1>5. Walked(m, v) <=> IsLink(m, KPML4, i4) /\ IsLink(m, t3, i3) /\ IsLink(m, t2, i2)
  BY DEF Walked
<1> HIDE DEF i4, i3, i2, i1, t3, t2, t1
<1>6. Walked(m, v) <=> is_present(m[KPML4][i4]) /\ is_present(m[t3][i3]) /\ is_present(m[t2][i2])
  BY <1>4, <1>5 DEF IsLink
<1>7. translate(m, v) = IF Walked(m, v) /\ is_present(m[t1][i1]) THEN m[t1][i1].addr + (v % E) ELSE None
  BY <1>3, <1>4, <1>6
<1> QED
  BY <1>7 DEF t1, i1

\* What translate answers inside it: the address itself, or for the copy at
\* the top the address it is a copy of.
LEMMA TranslateFixed ==
  ASSUME NEW m, IdentityTables(m), NEW v \in Virtual, IsIdentity(v)
  PROVE  translate(m, v) = Canonical(v) /\ Canonical(v) \in Nat
<1> DEFINE i4 == indices(v).pml4
           i3 == indices(v).pdpt
           i2 == indices(v).pd
           i1 == indices(v).pt
<1>1. v \in Nat
  BY SlotIsIndex
<1>2. i4 \in Index /\ i3 \in Index /\ i2 \in Index /\ i1 \in Index /\ v % E \in Index
  BY <1>1, IndicesAre
<1>3. i4 \in {0, E - 1} /\ i3 \in 0 .. G - 1
  BY <1>2, IdentityAssumption DEF IsIdentity, Index
<1>4. m[KPML4][i4] = LinkTo(KPDPT) /\ m[KPDPT][i3] = LinkTo(KPD[i3]) /\ m[KPD[i3]][i2] = HugeTo(i3 * E + i2)
  BY <1>2, <1>3 DEF IdentityTables
<1>5. i3 * E + i2 \in Nat
  BY <1>2, TableSizeAssumption DEF Index
<1>6. /\ is_present(m[KPML4][i4]) /\ FrameOf(m[KPML4][i4]) = KPDPT
      /\ is_present(m[KPDPT][i3]) /\ ~ is_huge_page(m[KPDPT][i3]) /\ FrameOf(m[KPDPT][i3]) = KPD[i3]
      /\ is_present(m[KPD[i3]][i2]) /\ is_huge_page(m[KPD[i3]][i2])
      /\ m[KPD[i3]][i2].addr = (i3 * E + i2) * E * E
  BY <1>3, <1>4, <1>5, KernelEntries
<1>7. translate(m, v) = (i3 * E + i2) * E * E + (v % (E * E))
  BY <1>6 DEF translate
<1>8. v % (E * E) = i1 * E + (v % E)
  <2> DEFINE b == Block(v)
             r == v % E
             x == i1 * E + r
  <2>1. v = Page(v) * E + r /\ Page(v) = b * E + i1 /\ b \in Nat
    BY <1>1, IndicesAre
  <2>2. E \in Nat /\ E > 1 /\ i1 \in 0 .. E - 1 /\ r \in 0 .. E - 1
    BY <1>2, TableSizeAssumption DEF Index
  <2> HIDE DEF b, r, i1
  <2>3. x \in 0 .. E * E - 1
    <3>1. i1 * E <= (E - 1) * E
      BY <2>2, ProductOrder
    <3>2. (E - 1) * E = E * E - E /\ i1 * E \in Nat /\ E * E \in Nat
      BY <2>2
    <3> QED
      BY <2>2, <3>1, <3>2
  <2>4. v = b * (E * E) + x
    BY <2>1, <2>2
  <2>5. E * E \in Nat \ {0}
    BY <2>2
  <2> HIDE DEF x
  <2>6. (b * (E * E) + x) % (E * E) = x
    BY <2>1, <2>3, <2>5, Parts
  <2> QED
    BY <2>4, <2>6 DEF x, r
<1>9. Canonical(v) = (((0 * E + i3) * E + i2) * E + i1) * E + (v % E)
  <2>1. Root(v) = 0
    BY <1>3 DEF Root
  <2> QED
    BY <2>1, CanonicalParts
<1>10. E \in Nat /\ i3 \in Nat /\ i2 \in Nat /\ i1 \in Nat /\ v % E \in Nat
  BY <1>2, TableSizeAssumption DEF Index
<1> HIDE DEF i4, i3, i2, i1
<1> QED
  BY <1>7, <1>8, <1>9, <1>10

\* Addresses of one page walk to one table.
LEMMA SamePageWalks ==
  ASSUME NEW m, IdentityTables(m), NEW v \in Virtual, NEW w \in Virtual, SamePage(v, w)
  PROVE  /\ IsIdentity(v) <=> IsIdentity(w)
         /\ Walked(m, v) <=> Walked(m, w)
         /\ T1(m, v) = T1(m, w) /\ indices(v).pt = indices(w).pt
<1>1. /\ Root(v) = Root(w) /\ indices(v).pdpt = indices(w).pdpt
      /\ indices(v).pd = indices(w).pd /\ indices(v).pt = indices(w).pt
  BY SamePageParts
<1>2. \/ indices(v).pml4 = indices(w).pml4
      \/ indices(v).pml4 \in {0, E - 1} /\ indices(w).pml4 \in {0, E - 1}
  BY <1>1 DEF Root
<1>3. m[KPML4][indices(v).pml4] = m[KPML4][indices(w).pml4]
  BY <1>2 DEF IdentityTables
<1>4. T3(m, v) = T3(m, w)
  BY <1>3 DEF T3
<1>5. T2(m, v) = T2(m, w)
  BY <1>1, <1>4 DEF T2
<1>6. T1(m, v) = T1(m, w)
  BY <1>1, <1>5 DEF T1
<1>7. Walked(m, v) <=> Walked(m, w)
  BY <1>1, <1>3, <1>4, <1>5 DEF Walked, IsLink
<1> QED
  BY <1>1, <1>2, <1>6, <1>7 DEF IsIdentity

\* Addresses that walk to one entry of one table are of one page.
LEMMA WalksSamePage ==
  ASSUME NEW m, NEW lv, Tree(m, lv), NEW v \in Virtual, NEW w \in Virtual,
         ~ IsIdentity(v), ~ IsIdentity(w), Walked(m, v), Walked(m, w),
         T1(m, v) = T1(m, w), indices(v).pt = indices(w).pt
  PROVE  SamePage(v, w)
<1>1. v \in Nat /\ w \in Nat
  BY SlotIsIndex
<1> DEFINE i4 == indices(v).pml4
           i3 == indices(v).pdpt
           i2 == indices(v).pd
           t3 == T3(m, v)
           t2 == T2(m, v)
           t1 == T1(m, v)
           j4 == indices(w).pml4
           j3 == indices(w).pdpt
           j2 == indices(w).pd
           u3 == T3(m, w)
           u2 == T2(m, w)
           u1 == T1(m, w)
<1>2. t3 = FrameOf(m[KPML4][i4]) /\ t2 = FrameOf(m[t3][i3]) /\ t1 = FrameOf(m[t2][i2])
  BY DEF T3, T2, T1
<1>3. u3 = FrameOf(m[KPML4][j4]) /\ u2 = FrameOf(m[u3][j3]) /\ u1 = FrameOf(m[u2][j2])
  BY DEF T3, T2, T1
<1>4. IsLink(m, KPML4, i4) /\ IsLink(m, t3, i3) /\ IsLink(m, t2, i2)
  BY DEF Walked
<1>5. IsLink(m, KPML4, j4) /\ IsLink(m, u3, j3) /\ IsLink(m, u2, j2)
  BY DEF Walked
<1>6. /\ i4 \in Index /\ i3 \in Index /\ i2 \in Index
      /\ t3 \in Pages /\ lv[t3] = 3 /\ t2 \in Pages /\ lv[t2] = 2
  BY <1>1, <1>4, WalkTables DEF IsLink
<1>7. /\ j4 \in Index /\ j3 \in Index /\ j2 \in Index
      /\ u3 \in Pages /\ lv[u3] = 3 /\ u2 \in Pages /\ lv[u2] = 2
  BY <1>1, <1>5, WalkTables DEF IsLink
<1>8. lv[KPML4] = 4 /\ KPML4 \in Pages
  BY KernelLevels, KernelEntries
<1>9. t1 = u1
  OBVIOUS
<1> HIDE DEF i4, i3, i2, t3, t2, t1, j4, j3, j2, u3, u2, u1
<1>10. Once(m, lv)
  BY DEF Tree
<1>11. t2 = u2 /\ i2 = j2
  <2>1. FrameOf(m[t2][i2]) = FrameOf(m[u2][j2]) /\ lv[t2] >= 2 /\ lv[u2] >= 2
    <3>1. FrameOf(m[t2][i2]) = FrameOf(m[u2][j2])
      BY <1>2, <1>3, <1>9, Zenon
    <3> QED
      BY <1>6, <1>7, <3>1
  <2>2. t2 = u2 /\ (i2 = j2 \/ t2 = KPML4)
    BY <1>4, <1>5, <1>6, <1>7, <1>10, <2>1 DEF Once
  <2> QED
    BY <1>6, <1>8, <2>2
<1>12. t3 = u3 /\ i3 = j3
  <2>1. FrameOf(m[t3][i3]) = FrameOf(m[u3][j3]) /\ lv[t3] >= 2 /\ lv[u3] >= 2
    <3>1. FrameOf(m[t3][i3]) = FrameOf(m[u3][j3])
      BY <1>2, <1>3, <1>11, Zenon
    <3> QED
      BY <1>6, <1>7, <3>1
  <2>2. t3 = u3 /\ (i3 = j3 \/ t3 = KPML4)
    BY <1>4, <1>5, <1>6, <1>7, <1>10, <2>1 DEF Once
  <2> QED
    BY <1>6, <1>8, <2>2
<1>13. i4 = j4 \/ (i4 \in {0, E - 1} /\ j4 \in {0, E - 1})
  <2>1. FrameOf(m[KPML4][i4]) = FrameOf(m[KPML4][j4]) /\ lv[KPML4] >= 2
    BY <1>2, <1>3, <1>8, <1>12
  <2> QED
    BY <1>4, <1>5, <1>6, <1>7, <1>8, <1>10, <2>1 DEF Once
<1>14. Root(v) = Root(w)
  BY <1>13, TableSizeAssumption DEF Root, i4, j4
<1> QED
  BY <1>11, <1>12, <1>14, SamePageParts DEF i3, i2, j3, j2

----------------------------------------------------------------------------
(* What a write to a table does to the tree and to the translations.       *)

\* Two memories with the same tables above the lowest level.
SameAbove(m, n, lv) ==
  \A f \in Pages, i \in Index : lv[f] >= 2 => n[f][i] = m[f][i]

\* They walk to the same table.
LEMMA SameAboveWalks ==
  ASSUME NEW m, NEW n, NEW lv, Tree(m, lv), SameAbove(m, n, lv), NEW v \in Nat, ~ IsIdentity(v)
  PROVE  /\ Walked(n, v) <=> Walked(m, v)
         /\ Walked(m, v) => T1(n, v) = T1(m, v)
<1> DEFINE i4 == indices(v).pml4
           i3 == indices(v).pdpt
           i2 == indices(v).pd
<1>1. /\ i4 \in Index /\ i3 \in Index /\ i2 \in Index
      /\ IsLink(m, KPML4, i4) => T3(m, v) \in Pages /\ lv[T3(m, v)] = 3
      /\ IsLink(m, KPML4, i4) /\ IsLink(m, T3(m, v), i3) => T2(m, v) \in Pages /\ lv[T2(m, v)] = 2
  BY WalkTables DEF IsLink
<1>2. lv[KPML4] = 4 /\ KPML4 \in Pages
  BY KernelLevels, KernelEntries
<1>3. n[KPML4][i4] = m[KPML4][i4]
  BY <1>1, <1>2 DEF SameAbove
<1>4. T3(n, v) = T3(m, v)
  BY <1>3 DEF T3
<1>5. IsLink(m, KPML4, i4) => n[T3(m, v)][i3] = m[T3(m, v)][i3]
  BY <1>1 DEF SameAbove
<1>6. IsLink(m, KPML4, i4) => T2(n, v) = T2(m, v)
  BY <1>4, <1>5 DEF T2
<1>7. IsLink(m, KPML4, i4) /\ IsLink(m, T3(m, v), i3) => n[T2(m, v)][i2] = m[T2(m, v)][i2]
  BY <1>1 DEF SameAbove
<1>8. IsLink(m, KPML4, i4) /\ IsLink(m, T3(m, v), i3) => T1(n, v) = T1(m, v)
  BY <1>6, <1>7 DEF T1
<1>9. Walked(n, v) <=> Walked(m, v)
  BY <1>3, <1>4, <1>5, <1>6, <1>7 DEF Walked, IsLink
<1> QED
  BY <1>8, <1>9 DEF Walked

\* The word of a page, written into a table of the lowest level.
LEMMA WritePage ==
  ASSUME NEW m, NEW lv, Tree(m, lv), NEW t \in Pages, lv[t] = 1, NEW i \in Index,
         NEW e, is_present(e) => e.addr \in Nat
  PROVE  Tree(Written(m, t, i, e), lv) /\ SameAbove(m, Written(m, t, i, e), lv)
<1> DEFINE n == Written(m, t, i, e)
<1>1. /\ MemoryShape(n) /\ n[t][i] = e
      /\ \A g \in Pages, j \in Index : g # t \/ j # i => n[g][j] = m[g][j]
  BY WriteWord DEF Tree
<1>2. IdentityTables(n)
  <2>1. t \notin KernelTables
    BY KernelLevels
  <2> QED
    BY <2>1, WriteKeepsIdentity DEF Tree
<1> HIDE DEF n
<1>3. SameAbove(m, n, lv)
  BY <1>1 DEF SameAbove
<1>4. Levels(lv) /\ lv \in [Pages -> 0 .. 4]
  BY DEF Tree, Levels
<1>5. Leads(n, lv)
  <2>1. Leads(m, lv)
    BY DEF Tree
  <2> QED
    BY <1>3, <2>1 DEF Leads, SameAbove, IsLink
<1>6. HugeOnly(n, lv)
  <2>1. HugeOnly(m, lv)
    BY DEF Tree
  <2> QED
    BY <1>3, <2>1 DEF HugeOnly, SameAbove
<1>7. Maps(n, lv)
  BY <1>1 DEF Tree, Maps
<1>8. Parents(n, lv)
  <2> SUFFICES ASSUME NEW f \in Pages, lv[f] \in 1 .. 3
               PROVE  \E g \in Pages, j \in Index : /\ lv[g] = lv[f] + 1 /\ IsLink(n, g, j)
                                                     /\ FrameOf(n[g][j]) = f
    BY DEF Parents
  <2>1. PICK g \in Pages, j \in Index : lv[g] = lv[f] + 1 /\ IsLink(m, g, j) /\ FrameOf(m[g][j]) = f
    BY DEF Tree, Parents
  <2>2. n[g][j] = m[g][j]
    BY <1>3, <2>1 DEF SameAbove
  <2> QED
    BY <2>1, <2>2 DEF IsLink
<1>9. Once(n, lv)
  <2> SUFFICES ASSUME NEW f \in Pages, NEW g \in Pages, NEW k \in Index, NEW j \in Index,
                      lv[f] >= 2, lv[g] >= 2, IsLink(n, f, k), IsLink(n, g, j),
                      FrameOf(n[f][k]) = FrameOf(n[g][j])
               PROVE  f = g /\ (k = j \/ (f = KPML4 /\ k \in {0, E - 1} /\ j \in {0, E - 1}))
    BY DEF Once
  <2>1. n[f][k] = m[f][k] /\ n[g][j] = m[g][j]
    BY <1>3 DEF SameAbove
  <2>2. IsLink(m, f, k) /\ IsLink(m, g, j) /\ FrameOf(m[f][k]) = FrameOf(m[g][j])
    BY <2>1 DEF IsLink
  <2> QED
    BY <2>2 DEF Tree, Once
<1> QED
  BY <1>1, <1>2, <1>3, <1>4, <1>5, <1>6, <1>7, <1>8, <1>9 DEF Tree, n

\* A new table: a zeroed frame z linked from an entry that was not present.
Grown(m, t, i, z) == [m EXCEPT ![t][i] = LinkTo(z), ![z] = ZeroTable]
Raised(lv, t, z)  == [lv EXCEPT ![z] = lv[t] - 1]

\* It changes the entry and the words of the new table.
LEMMA GrownWords ==
  ASSUME NEW m, MemoryShape(m), NEW t \in Pages, NEW i \in Index, NEW z \in Pages, z # t
  PROVE  LET n == Grown(m, t, i, z)
         IN  /\ MemoryShape(n)
             /\ n[t][i] = LinkTo(z) /\ IsLink(n, t, i) /\ FrameOf(n[t][i]) = z
             /\ \A j \in Index : ~ is_present(n[z][j]) /\ ~ is_huge_page(n[z][j])
             /\ \A f \in Pages, j \in Index :
                  f # z /\ (f # t \/ j # i) => n[f][j] = m[f][j]
<1> DEFINE w == Written(m, t, i, LinkTo(z))
           n == Grown(m, t, i, z)
<1>1. /\ MemoryShape(w) /\ w[t][i] = LinkTo(z)
      /\ \A g \in Pages, j \in Index : g # t \/ j # i => w[g][j] = m[g][j]
  BY WriteWord
<1>2. n = [w EXCEPT ![z] = ZeroTable]
  BY DEF Grown, Written
<1> HIDE DEF w, n
<1>3. DOMAIN w = Pages /\ \A f \in Pages : w[f] = [j \in Index |-> w[f][j]]
  BY <1>1 DEF MemoryShape
<1>4. DOMAIN n = Pages /\ n[z] = ZeroTable /\ (\A f \in Pages : f # z => n[f] = w[f])
      /\ n = [f \in Pages |-> n[f]]
  BY <1>2, <1>3
<1>5. \A f \in Pages : n[f] = [j \in Index |-> n[f][j]]
  <2>1. n[z] = [j \in Index |-> n[z][j]]
    BY <1>4 DEF ZeroTable
  <2> QED
    BY <1>3, <1>4, <2>1
<1>6. MemoryShape(n)
  BY <1>4, <1>5 DEF MemoryShape
<1>7. n[t][i] = LinkTo(z) /\ IsLink(n, t, i) /\ FrameOf(n[t][i]) = z
  BY <1>1, <1>4, KernelEntries DEF IsLink
<1>8. \A j \in Index : ~ is_present(n[z][j]) /\ ~ is_huge_page(n[z][j])
  BY <1>4 DEF ZeroTable, empty, is_present, is_huge_page
<1> QED
  BY <1>1, <1>4, <1>6, <1>7, <1>8 DEF n

\* It keeps the tree.
LEMMA GrowTree ==
  ASSUME NEW m, NEW lv, Tree(m, lv), NEW t \in Pages, lv[t] \in 2 .. 4, NEW i \in Index,
         ~ is_present(m[t][i]), NEW z \in Pages, lv[z] = 0
  PROVE  Tree(Grown(m, t, i, z), Raised(lv, t, z))
<1> DEFINE n == Grown(m, t, i, z)
           lw == Raised(lv, t, z)
<1>1. z # t /\ lv \in [Pages -> 0 .. 4] /\ MemoryShape(m)
  BY DEF Tree, Levels
<1>2. /\ MemoryShape(n)
      /\ IsLink(n, t, i) /\ FrameOf(n[t][i]) = z
      /\ \A j \in Index : ~ is_present(n[z][j]) /\ ~ is_huge_page(n[z][j])
      /\ \A f \in Pages, j \in Index : f # z /\ (f # t \/ j # i) => n[f][j] = m[f][j]
  BY <1>1, GrownWords
<1>3. /\ lw \in [Pages -> 0 .. 4] /\ lw[z] = lv[t] - 1
      /\ \A f \in Pages : f # z => lw[f] = lv[f]
  BY <1>1 DEF Raised
<1> HIDE DEF n, lw
<1>4. \A f \in Pages, j \in Index : is_present(m[f][j]) /\ lv[f] # 0 => n[f][j] = m[f][j]
  BY <1>2
<1>5. IdentityTables(n)
  <2>1. /\ lv[KPML4] # 0 /\ lv[KPDPT] # 0 /\ (\A j \in 0 .. G - 1 : lv[KPD[j]] # 0)
    BY KernelLevels
  <2>2. IdentityTables(m)
    BY DEF Tree
  <2>3. n[KPML4][0] = LinkTo(KPDPT) /\ n[KPML4][E - 1] = LinkTo(KPDPT)
    BY <1>4, <2>1, <2>2, KernelEntries DEF IdentityTables
  <2>4. ASSUME NEW j \in 0 .. G - 1
        PROVE  n[KPDPT][j] = LinkTo(KPD[j]) /\ \A k \in Index : n[KPD[j]][k] = HugeTo(j * E + k)
    <3>1. n[KPDPT][j] = LinkTo(KPD[j])
      <4>1. m[KPDPT][j] = LinkTo(KPD[j])
        BY <2>2 DEF IdentityTables
      <4>2. is_present(m[KPDPT][j]) /\ j \in Index /\ KPDPT \in Pages
        BY <4>1, KernelEntries
      <4> QED
        BY <1>4, <2>1, <4>1, <4>2
    <3>2. ASSUME NEW k \in Index PROVE n[KPD[j]][k] = HugeTo(j * E + k)
      <4>1. j * E + k \in Nat
        BY TableSizeAssumption, IdentityAssumption DEF Index
      <4>2. m[KPD[j]][k] = HugeTo(j * E + k)
        BY <2>2 DEF IdentityTables
      <4>3. is_present(m[KPD[j]][k])
        BY <4>1, <4>2, KernelEntries
      <4> QED
        BY <1>4, <2>1, <4>2, <4>3, KernelEntries
    <3> QED
      BY <3>1, <3>2
  <2> QED
    BY <2>3, <2>4 DEF IdentityTables
<1>6. Levels(lw)
  <2>1. \A f \in Pages : lv[f] = 4 <=> f = KPML4
    BY DEF Tree, Levels
  <2> QED
    BY <1>3, <2>1 DEF Levels
<1>7. ASSUME NEW f \in Pages, NEW j \in Index, lw[f] >= 2, IsLink(n, f, j)
      PROVE  \/ f = t /\ j = i /\ FrameOf(n[f][j]) = z
             \/ /\ lv[f] >= 2 /\ lw[f] = lv[f] /\ IsLink(m, f, j) /\ n[f][j] = m[f][j]
                /\ FrameOf(m[f][j]) \in Pages /\ lv[FrameOf(m[f][j])] = lv[f] - 1
                /\ FrameOf(m[f][j]) # z
  <2>1. f # z
    BY <1>2, <1>7 DEF IsLink
  <2>2. lv[f] >= 2 /\ lw[f] = lv[f]
    BY <1>3, <1>7, <2>1
  <2>3. CASE f = t /\ j = i
    BY <1>2, <2>3
  <2>4. CASE ~ (f = t /\ j = i)
    <3>1. n[f][j] = m[f][j] /\ IsLink(m, f, j)
      BY <1>2, <1>7, <2>1, <2>4 DEF IsLink
    <3>2. FrameOf(m[f][j]) \in Pages /\ lv[FrameOf(m[f][j])] = lv[f] - 1
      BY <2>2, <3>1 DEF Tree, Leads
    <3>3. lv[f] - 1 # 0
      BY <1>1, <2>2
    <3>4. FrameOf(m[f][j]) # z
      BY <3>2, <3>3
    <3> QED
      BY <2>2, <3>1, <3>2, <3>4
  <2> QED
    BY <2>3, <2>4
<1>8. Leads(n, lw)
  <2> SUFFICES ASSUME NEW f \in Pages, NEW j \in Index, lw[f] >= 2, IsLink(n, f, j)
               PROVE  FrameOf(n[f][j]) \in Pages /\ lw[FrameOf(n[f][j])] = lw[f] - 1
    BY DEF Leads
  <2> QED
    BY <1>1, <1>3, <1>7
<1>9. HugeOnly(n, lw)
  <2> SUFFICES ASSUME NEW f \in Pages, NEW j \in Index, lw[f] >= 2, is_huge_page(n[f][j])
               PROVE  \E k \in 0 .. G - 1 : f = KPD[k]
    BY DEF HugeOnly
  <2>1. f # z /\ ~ (f = t /\ j = i)
    BY <1>2 DEF IsLink
  <2>2. is_huge_page(m[f][j]) /\ lv[f] >= 2
    BY <1>2, <1>3, <2>1
  <2> QED
    BY <2>2 DEF Tree, HugeOnly
<1>10. Maps(n, lw)
  <2> SUFFICES ASSUME NEW f \in Pages, NEW j \in Index, lw[f] = 1, is_present(n[f][j])
               PROVE  n[f][j].addr \in Nat
    BY DEF Maps
  <2>1. f # z
    BY <1>2
  <2>2. lv[f] = 1 /\ f # t
    BY <1>3, <2>1
  <2>3. n[f][j] = m[f][j]
    BY <1>2, <2>1, <2>2
  <2> QED
    BY <2>2, <2>3 DEF Tree, Maps
<1>11. Parents(n, lw)
  <2> SUFFICES ASSUME NEW f \in Pages, lw[f] \in 1 .. 3
               PROVE  \E g \in Pages, j \in Index : /\ lw[g] = lw[f] + 1 /\ IsLink(n, g, j)
                                                     /\ FrameOf(n[g][j]) = f
    BY DEF Parents
  <2>1. CASE f = z
    <3>1. lw[t] = lw[z] + 1
      BY <1>1, <1>3
    <3> QED
      BY <1>2, <2>1, <3>1
  <2>2. CASE f # z
    <3>1. lv[f] = lw[f]
      BY <1>3, <2>2
    <3>2. PICK g \in Pages, j \in Index : lv[g] = lv[f] + 1 /\ IsLink(m, g, j) /\ FrameOf(m[g][j]) = f
      BY <3>1 DEF Tree, Parents
    <3>3. lv[g] # 0 /\ g # z
      BY <3>1, <3>2
    <3>4. n[g][j] = m[g][j] /\ lw[g] = lv[g]
      BY <1>3, <1>4, <3>2, <3>3 DEF IsLink
    <3> QED
      BY <3>1, <3>2, <3>4 DEF IsLink
  <2> QED
    BY <2>1, <2>2
<1>12. Once(n, lw)
  <2> SUFFICES ASSUME NEW f \in Pages, NEW g \in Pages, NEW k \in Index, NEW j \in Index,
                      lw[f] >= 2, lw[g] >= 2, IsLink(n, f, k), IsLink(n, g, j),
                      FrameOf(n[f][k]) = FrameOf(n[g][j])
               PROVE  f = g /\ (k = j \/ (f = KPML4 /\ k \in {0, E - 1} /\ j \in {0, E - 1}))
    BY DEF Once
  <2>1. \/ f = t /\ k = i /\ FrameOf(n[f][k]) = z
        \/ lv[f] >= 2 /\ IsLink(m, f, k) /\ n[f][k] = m[f][k] /\ FrameOf(m[f][k]) # z
    BY <1>7
  <2>2. \/ g = t /\ j = i /\ FrameOf(n[g][j]) = z
        \/ lv[g] >= 2 /\ IsLink(m, g, j) /\ n[g][j] = m[g][j] /\ FrameOf(m[g][j]) # z
    BY <1>7
  <2>3. CASE f = t /\ k = i /\ FrameOf(n[f][k]) = z
    BY <2>2, <2>3
  <2>4. CASE lv[f] >= 2 /\ IsLink(m, f, k) /\ n[f][k] = m[f][k] /\ FrameOf(m[f][k]) # z
    <3>1. lv[g] >= 2 /\ IsLink(m, g, j) /\ FrameOf(m[f][k]) = FrameOf(m[g][j])
      BY <2>2, <2>4
    <3> QED
      BY <2>4, <3>1 DEF Tree, Once
  <2> QED
    BY <2>1, <2>3, <2>4
<1> QED
  BY <1>2, <1>5, <1>6, <1>8, <1>9, <1>10, <1>11, <1>12 DEF Tree, n, lw

\* And it shows at no address: the new table is empty.
LEMMA GrowTranslates ==
  ASSUME NEW m, NEW lv, Tree(m, lv), NEW t \in Pages, lv[t] \in 2 .. 4, NEW i \in Index,
         ~ is_present(m[t][i]), NEW z \in Pages, lv[z] = 0, NEW v \in Virtual
  PROVE  translate(Grown(m, t, i, z), v) = translate(m, v)
<1> DEFINE n == Grown(m, t, i, z)
           lw == Raised(lv, t, z)
<1>1. z # t /\ lv \in [Pages -> 0 .. 4] /\ MemoryShape(m)
  BY DEF Tree, Levels
<1>2. /\ IsLink(n, t, i) /\ FrameOf(n[t][i]) = z
      /\ \A j \in Index : ~ is_present(n[z][j])
      /\ \A f \in Pages, j \in Index : f # z /\ (f # t \/ j # i) => n[f][j] = m[f][j]
  BY <1>1, GrownWords
<1>3. Tree(n, lw)
  BY GrowTree
<1>4. v \in Nat
  BY SlotIsIndex
<1> SUFFICES translate(n, v) = translate(m, v)
  OBVIOUS
<1> HIDE DEF n, lw
<1>5. CASE IsIdentity(v)
  BY <1>3, <1>5, TranslateFixed DEF Tree
<1>6. CASE ~ IsIdentity(v)
  <2> DEFINE i4 == indices(v).pml4
             i3 == indices(v).pdpt
             i2 == indices(v).pd
             i1 == indices(v).pt
             t3 == T3(m, v)
             t2 == T2(m, v)
             t1 == T1(m, v)
             u3 == T3(n, v)
             u2 == T2(n, v)
             u1 == T1(n, v)
  <2>1. /\ i4 \in Index /\ i3 \in Index /\ i2 \in Index /\ i1 \in Index
    BY <1>4, IndicesAre
  <2>2. /\ t3 = FrameOf(m[KPML4][i4]) /\ t2 = FrameOf(m[t3][i3]) /\ t1 = FrameOf(m[t2][i2])
        /\ u3 = FrameOf(n[KPML4][i4]) /\ u2 = FrameOf(n[u3][i3]) /\ u1 = FrameOf(n[u2][i2])
    BY DEF T3, T2, T1
  <2>3. /\ is_present(m[KPML4][i4]) => t3 \in Pages /\ lv[t3] = 3
        /\ is_present(m[KPML4][i4]) /\ is_present(m[t3][i3]) => t2 \in Pages /\ lv[t2] = 2
        /\ is_present(m[KPML4][i4]) /\ is_present(m[t3][i3]) /\ is_present(m[t2][i2]) =>
             t1 \in Pages /\ lv[t1] = 1
    BY <1>4, <1>6, WalkTables
  <2>4. /\ Walked(m, v) <=> IsLink(m, KPML4, i4) /\ IsLink(m, t3, i3) /\ IsLink(m, t2, i2)
        /\ Walked(n, v) <=> IsLink(n, KPML4, i4) /\ IsLink(n, u3, i3) /\ IsLink(n, u2, i2)
    BY DEF Walked
  <2>5. translate(m, v) = IF Walked(m, v) /\ is_present(m[t1][i1]) THEN m[t1][i1].addr + (v % E) ELSE None
    BY <1>4, <1>6, TranslateWalks
  <2>6. translate(n, v) = IF Walked(n, v) /\ is_present(n[u1][i1]) THEN n[u1][i1].addr + (v % E) ELSE None
    BY <1>3, <1>4, <1>6, TranslateWalks
  <2>7. KPML4 \in Pages /\ lv[KPML4] = 4
    BY KernelLevels, KernelEntries
  <2>8. \A f \in Pages, j \in Index : lv[f] # 0 /\ (f # t \/ j # i) => n[f][j] = m[f][j]
    BY <1>2
  <2> HIDE DEF i4, i3, i2, i1, t3, t2, t1, u3, u2, u1
  <2>9. CASE ~ is_present(m[KPML4][i4])
    <3>1. ~ Walked(m, v)
      BY <2>4, <2>9 DEF IsLink
    <3>2. ~ Walked(n, v)
      <4>1. CASE KPML4 = t /\ i4 = i
        <5>1. u3 = z
          BY <1>2, <2>2, <4>1
        <5>2. ~ is_present(n[u3][i3])
          BY <1>2, <2>1, <5>1
        <5> QED
          BY <2>4, <5>2 DEF IsLink
      <4>2. CASE ~ (KPML4 = t /\ i4 = i)
        <5>1. n[KPML4][i4] = m[KPML4][i4]
          BY <2>1, <2>7, <2>8, <4>2
        <5>2. ~ is_present(n[KPML4][i4])
          BY <2>9, <5>1
        <5> QED
          BY <2>4, <5>2 DEF IsLink
      <4> QED
        BY <4>1, <4>2
    <3> QED
      BY <2>5, <2>6, <3>1, <3>2
  <2>10. CASE is_present(m[KPML4][i4])
    <3>1. n[KPML4][i4] = m[KPML4][i4] /\ u3 = t3 /\ t3 \in Pages /\ lv[t3] = 3
      <4>1. t3 \in Pages /\ lv[t3] = 3
        BY <2>3, <2>10, Zenon
      <4>2. lv[KPML4] # 0
        BY <2>7
      <4>3. KPML4 # t \/ i4 # i
        BY <1>2, <2>10, Zenon
      <4>4. n[KPML4][i4] = m[KPML4][i4]
        BY <2>1, <2>7, <2>8, <4>2, <4>3, Zenon
      <4> QED
        BY <2>2, <4>1, <4>4, Zenon
    <3>2. CASE ~ is_present(m[t3][i3])
      <4>1. ~ Walked(m, v)
        BY <2>4, <3>2 DEF IsLink
      <4>2. ~ Walked(n, v)
        <5>1. CASE t3 = t /\ i3 = i
          <6>1. u2 = z
            BY <1>2, <2>2, <3>1, <5>1
          <6>2. ~ is_present(n[u2][i2])
            BY <1>2, <2>1, <6>1
          <6> QED
            BY <2>4, <6>2 DEF IsLink
        <5>2. CASE ~ (t3 = t /\ i3 = i)
          <6>1. n[t3][i3] = m[t3][i3]
            BY <2>1, <2>8, <3>1, <5>2
          <6>2. ~ is_present(n[u3][i3])
            BY <3>1, <3>2, <6>1
          <6> QED
            BY <2>4, <6>2 DEF IsLink
        <5> QED
          BY <5>1, <5>2
      <4> QED
        BY <2>5, <2>6, <4>1, <4>2
    <3>3. CASE is_present(m[t3][i3])
      <4>1. n[t3][i3] = m[t3][i3] /\ u2 = t2 /\ t2 \in Pages /\ lv[t2] = 2
        <5>1. t2 \in Pages /\ lv[t2] = 2
          BY <2>3, <2>10, <3>3, Zenon
        <5>2. lv[t3] # 0
          BY <3>1
        <5>3. t3 # t \/ i3 # i
          BY <1>2, <3>3, Zenon
        <5>4. n[t3][i3] = m[t3][i3]
          BY <2>1, <2>8, <3>1, <5>2, <5>3, Zenon
        <5> QED
          BY <2>2, <3>1, <5>1, <5>4, Zenon
      <4>2. CASE ~ is_present(m[t2][i2])
        <5>1. ~ Walked(m, v)
          BY <2>4, <4>2 DEF IsLink
        <5>2. ~ Walked(n, v) \/ ~ is_present(n[u1][i1])
          <6>1. CASE t2 = t /\ i2 = i
            <7>1. u1 = z
              BY <1>2, <2>2, <4>1, <6>1
            <7> QED
              BY <1>2, <2>1, <7>1
          <6>2. CASE ~ (t2 = t /\ i2 = i)
            <7>1. n[t2][i2] = m[t2][i2]
              BY <2>1, <2>8, <4>1, <6>2
            <7>2. ~ is_present(n[u2][i2])
              BY <4>1, <4>2, <7>1
            <7> QED
              BY <2>4, <7>2 DEF IsLink
          <6> QED
            BY <6>1, <6>2
        <5> QED
          BY <2>5, <2>6, <5>1, <5>2
      <4>3. CASE is_present(m[t2][i2])
        <5>1. n[t2][i2] = m[t2][i2] /\ u1 = t1 /\ t1 \in Pages /\ lv[t1] = 1
          <6>1. n[t2][i2] = m[t2][i2]
            BY <2>1, <2>8, <4>1, <4>3
          <6>2. t1 \in Pages /\ lv[t1] = 1
            BY <2>3, <2>10, <3>3, <4>3
          <6>3. u1 = t1
            BY <2>2, <4>1, <6>1
          <6> QED
            BY <6>1, <6>2, <6>3
        <5>2. n[t1][i1] = m[t1][i1]
          BY <2>1, <2>8, <5>1
        <5>3. Walked(n, v) <=> Walked(m, v)
          BY <2>4, <3>1, <4>1, <5>1 DEF IsLink
        <5> QED
          BY <2>5, <2>6, <5>1, <5>2, <5>3
      <4> QED
        BY <4>2, <4>3
    <3> QED
      BY <3>2, <3>3
  <2> QED
    BY <2>9, <2>10
<1> QED
  BY <1>5, <1>6

\* A write that hits no table keeps the tree and every translation.
LEMMA ElsewhereKeeps ==
  ASSUME NEW m, NEW lv, Tree(m, lv), NEW n, MemoryShape(n),
         \A f \in Pages, i \in Index : lv[f] # 0 => n[f][i] = m[f][i]
  PROVE  Tree(n, lv) /\ \A v \in Virtual : translate(n, v) = translate(m, v)
<1>1. IdentityTables(n)
  <2>1. /\ KPML4 \in Pages /\ KPDPT \in Pages /\ (\A j \in 0 .. G - 1 : KPD[j] \in Pages /\ j \in Index)
        /\ lv[KPML4] # 0 /\ lv[KPDPT] # 0 /\ (\A j \in 0 .. G - 1 : lv[KPD[j]] # 0)
        /\ 0 \in Index /\ E - 1 \in Index
    BY KernelLevels, KernelEntries
  <2> QED
    BY <2>1 DEF Tree, IdentityTables
<1>2. Levels(lv) /\ lv \in [Pages -> 0 .. 4]
  BY DEF Tree, Levels
<1>3. SameAbove(m, n, lv)
  BY DEF SameAbove
<1>4. Leads(n, lv)
  <2>1. Leads(m, lv)
    BY DEF Tree
  <2> QED
    BY <1>3, <2>1 DEF Leads, SameAbove, IsLink
<1>5. HugeOnly(n, lv)
  <2>1. HugeOnly(m, lv)
    BY DEF Tree
  <2> QED
    BY <1>3, <2>1 DEF HugeOnly, SameAbove
<1>6. Maps(n, lv)
  BY DEF Tree, Maps
<1>7. Parents(n, lv)
  <2> SUFFICES ASSUME NEW f \in Pages, lv[f] \in 1 .. 3
               PROVE  \E g \in Pages, j \in Index : /\ lv[g] = lv[f] + 1 /\ IsLink(n, g, j)
                                                     /\ FrameOf(n[g][j]) = f
    BY DEF Parents
  <2>1. PICK g \in Pages, j \in Index : lv[g] = lv[f] + 1 /\ IsLink(m, g, j) /\ FrameOf(m[g][j]) = f
    BY DEF Tree, Parents
  <2>2. n[g][j] = m[g][j]
    BY <1>3, <2>1 DEF SameAbove
  <2> QED
    BY <2>1, <2>2 DEF IsLink
<1>8. Once(n, lv)
  <2> SUFFICES ASSUME NEW f \in Pages, NEW g \in Pages, NEW k \in Index, NEW j \in Index,
                      lv[f] >= 2, lv[g] >= 2, IsLink(n, f, k), IsLink(n, g, j),
                      FrameOf(n[f][k]) = FrameOf(n[g][j])
               PROVE  f = g /\ (k = j \/ (f = KPML4 /\ k \in {0, E - 1} /\ j \in {0, E - 1}))
    BY DEF Once
  <2>1. n[f][k] = m[f][k] /\ n[g][j] = m[g][j]
    BY <1>3 DEF SameAbove
  <2>2. IsLink(m, f, k) /\ IsLink(m, g, j) /\ FrameOf(m[f][k]) = FrameOf(m[g][j])
    BY <2>1 DEF IsLink
  <2> QED
    BY <2>2 DEF Tree, Once
<1>9. Tree(n, lv)
  BY <1>1, <1>2, <1>4, <1>5, <1>6, <1>7, <1>8 DEF Tree
<1>10. ASSUME NEW v \in Virtual PROVE translate(n, v) = translate(m, v)
  <2>1. v \in Nat
    BY SlotIsIndex
  <2>2. CASE IsIdentity(v)
    BY <1>1, <2>2, TranslateFixed DEF Tree
  <2>3. CASE ~ IsIdentity(v)
    <3> DEFINE t == T1(m, v)
               i == indices(v).pt
    <3>1. (Walked(n, v) <=> Walked(m, v)) /\ (Walked(m, v) => T1(n, v) = t)
      BY <1>3, <2>1, <2>3, SameAboveWalks
    <3>2. translate(m, v) = IF Walked(m, v) /\ is_present(m[t][i]) THEN m[t][i].addr + (v % E) ELSE None
      BY <2>1, <2>3, TranslateWalks
    <3>3. translate(n, v) = IF Walked(n, v) /\ is_present(n[T1(n, v)][i])
                            THEN n[T1(n, v)][i].addr + (v % E) ELSE None
      BY <1>9, <2>1, <2>3, TranslateWalks
    <3>4. Walked(m, v) => t \in Pages /\ lv[t] = 1
      BY <2>1, <2>3, WalkTables DEF Walked, IsLink
    <3>5. i \in Index
      BY <2>1, IndicesAre
    <3> HIDE DEF t, i
    <3>6. Walked(m, v) => n[t][i] = m[t][i]
      BY <3>4, <3>5
    <3> QED
      BY <3>1, <3>2, <3>3, <3>6
  <2> QED
    BY <2>2, <2>3
<1> QED
  BY <1>9, <1>10

----------------------------------------------------------------------------
(* The frames of the allocator.                                            *)

\* Every available frame that is not free is a table or held.  A table of the
\* kernel may be both when the loader offers its frame.
Accounted(a, lv, H) ==
  /\ \E extra \in Nat : WellFormed(a, extra)
  /\ FreePages(a) \subseteq AvailablePages(MemoryMap)
  /\ \A f \in Pages :
       (f \in AvailablePages(MemoryMap) /\ f \notin FreePages(a))
         <=> (lv[f] # 0 /\ f \notin KernelTables) \/ f \in H
  /\ \A f \in H : f \in Pages /\ (lv[f] = 0 \/ f \in KernelTables)

\* A frame of the allocator is not held, and no table that map_page made.
LEMMA AllocAccounted ==
  ASSUME NEW a, NEW lv, NEW H, Accounted(a, lv, H)
  PROVE  \/ alloc(a) = [fa |-> a, ret |-> None]
         \/ \E z \in Pages :
              /\ alloc(a).ret = z * PAGE_SIZE /\ alloc(a).ret # None
              /\ \E extra \in Nat : WellFormed(alloc(a).fa, extra)
              /\ z \in FreePages(a) /\ FreePages(alloc(a).fa) = FreePages(a) \ {z}
              /\ (lv[z] = 0 \/ z \in KernelTables) /\ z \notin H
<1>1. PICK extra \in Nat : WellFormed(a, extra)
  BY DEF Accounted
<1>2. CASE alloc(a) = [fa |-> a, ret |-> None]
  BY <1>2
<1>3. CASE alloc(a) # [fa |-> a, ret |-> None]
  <2>1. PICK z \in FreePages(a) : alloc(a) = TakeRun(a, z, 1)
    BY <1>1, <1>3, AllocTakesOne
  <2>2. z \in Pages /\ z \in Nat
    BY <2>1, MaxPagesAssumption DEF FreePages, Pages
  <2>3. LET r == TakeRun(a, z, 1)
        IN  /\ WellFormed(r.fa, extra) /\ FreePages(r.fa) = FreePages(a) \ {z}
            /\ r.ret = z * PAGE_SIZE
    BY <1>1, TakeOneKeepsShape
  <2>4. /\ WellFormed(alloc(a).fa, extra) /\ FreePages(alloc(a).fa) = FreePages(a) \ {z}
        /\ alloc(a).ret = z * PAGE_SIZE
    BY <2>1, <2>3, Zenon
  <2>5. z * PAGE_SIZE # None
    BY <2>2, NoneAssumption, PageSizeAssumption
  <2>6. z \in AvailablePages(MemoryMap)
    BY <2>1 DEF Accounted
  <2>7. (lv[z] = 0 \/ z \in KernelTables) /\ z \notin H
    BY <2>1, <2>2, <2>6 DEF Accounted
  <2> QED
    BY <2>1, <2>2, <2>4, <2>5, <2>7
<1> QED
  BY <1>2, <1>3

----------------------------------------------------------------------------
(* map_page and unmap_page.                                                *)

\* The table a call has reached is the one of its level on the walk of its
\* address.
OnWalk(m, v, n, t) ==
  /\ n = 1 => t = KPML4
  /\ n \in 2 .. 4 => is_present(m[KPML4][indices(v).pml4])
  /\ n = 2 => t = T3(m, v)
  /\ n \in 3 .. 4 => is_present(m[T3(m, v)][indices(v).pdpt])
  /\ n = 3 => t = T2(m, v)
  /\ n = 4 => is_present(m[T2(m, v)][indices(v).pd]) /\ t = T1(m, v)

\* The walk of an address of the identity mapping ends at the first frame of
\* its huge page.
LEMMA IdentityWalk ==
  ASSUME NEW m, IdentityTables(m), NEW v \in Virtual, IsIdentity(v)
  PROVE  /\ is_present(m[KPML4][indices(v).pml4]) /\ T3(m, v) = KPDPT
         /\ is_present(m[KPDPT][indices(v).pdpt]) /\ T2(m, v) = KPD[indices(v).pdpt]
         /\ ~ is_huge_page(m[KPDPT][indices(v).pdpt])
         /\ indices(v).pdpt \in 0 .. G - 1
         /\ is_present(m[KPD[indices(v).pdpt]][indices(v).pd])
         /\ is_huge_page(m[KPD[indices(v).pdpt]][indices(v).pd])
         /\ T1(m, v) \in Pages
<1> DEFINE i4 == indices(v).pml4
           i3 == indices(v).pdpt
           i2 == indices(v).pd
<1>1. v \in Nat
  BY SlotIsIndex
<1>2. i4 \in Index /\ i3 \in Index /\ i2 \in Index
  BY <1>1, IndicesAre
<1>3. i4 \in {0, E - 1} /\ i3 \in 0 .. G - 1
  BY <1>2, IdentityAssumption DEF IsIdentity, Index
<1>4. m[KPML4][i4] = LinkTo(KPDPT) /\ m[KPDPT][i3] = LinkTo(KPD[i3]) /\ m[KPD[i3]][i2] = HugeTo(i3 * E + i2)
  BY <1>2, <1>3 DEF IdentityTables
<1>5. i3 * E + i2 \in Nat
  BY <1>2, TableSizeAssumption DEF Index
<1>6. /\ is_present(m[KPML4][i4]) /\ FrameOf(m[KPML4][i4]) = KPDPT
      /\ is_present(m[KPDPT][i3]) /\ ~ is_huge_page(m[KPDPT][i3]) /\ FrameOf(m[KPDPT][i3]) = KPD[i3]
      /\ is_present(m[KPD[i3]][i2]) /\ is_huge_page(m[KPD[i3]][i2])
  BY <1>3, <1>4, <1>5, KernelEntries
<1>7. T3(m, v) = KPDPT /\ T2(m, v) = KPD[i3]
  BY <1>6 DEF T3, T2
<1>8. T1(m, v) = FrameOf(HugeTo(i3 * E + i2))
  BY <1>4, <1>7 DEF T1
<1>9. FrameOf(HugeTo(i3 * E + i2)) = (i3 * E + i2) * E
  BY <1>5, TableSizeAssumption, EntryPoints DEF HugeTo
<1>10. (i3 * E + i2) * E \in Pages
  <2> DEFINE b == i3 * E + i2
  <2>1. b \in Nat /\ E \in Nat /\ E > 1 /\ G \in Nat /\ MAX_PAGES = G * E * E
    BY <1>5, TableSizeAssumption, IdentityAssumption
  <2>2. b <= G * E - 1
    <3>1. i3 \in Nat /\ G - 1 \in Nat /\ i3 <= G - 1 /\ i2 \in 0 .. E - 1
      BY <1>2, <1>3, <2>1 DEF Index
    <3>2. i3 * E <= (G - 1) * E
      BY <2>1, <3>1, ProductOrder
    <3>3. (G - 1) * E = G * E - E /\ i3 * E \in Nat /\ G * E \in Nat
      BY <2>1, <3>1
    <3> DEFINE x == i3 * E
               y == G * E
    <3>4. x \in Nat /\ y \in Nat /\ x <= y - E /\ b = x + i2
      BY <3>2, <3>3
    <3> HIDE DEF x, y, b
    <3>5. b <= y - 1
      BY <2>1, <3>1, <3>4
    <3> QED
      BY <3>5 DEF y
  <2> HIDE DEF b
  <2>3. b * E <= (G * E - 1) * E
    BY <2>1, <2>2, ProductOrder
  <2>4. (G * E - 1) * E = G * E * E - E /\ b * E \in Nat /\ G * E * E \in Nat
    BY <2>1
  <2>5. b * E \in 0 .. MAX_PAGES - 1
    BY <2>1, <2>3, <2>4
  <2> QED
    BY <2>5 DEF b, Pages
<1> QED
  BY <1>3, <1>6, <1>7, <1>8, <1>9, <1>10

\* What a level of map_page finds.
LEMMA LevelFacts ==
  ASSUME NEW m, NEW lv, Tree(m, lv), NEW v \in Virtual, NEW n \in 1 .. 3, NEW t, OnWalk(m, v, n, t)
  PROVE  LET i == LevelIndex(v, n)
         IN  /\ t \in Pages /\ lv[t] = 5 - n /\ i \in Index
             /\ is_present(m[t][i]) => OnWalk(m, v, n + 1, FrameOf(m[t][i]))
             /\ ~ is_present(m[t][i]) => ~ IsIdentity(v)
<1> DEFINE i4 == indices(v).pml4
           i3 == indices(v).pdpt
           i2 == indices(v).pd
<1>1. v \in Nat
  BY SlotIsIndex
<1>2. i4 \in Index /\ i3 \in Index /\ i2 \in Index
  BY <1>1, IndicesAre
<1>3. /\ LevelIndex(v, 1) = i4 /\ LevelIndex(v, 2) = i3 /\ LevelIndex(v, 3) = i2
  BY DEF LevelIndex
<1>4. /\ KPML4 \in Pages /\ lv[KPML4] = 4 /\ KPDPT \in Pages /\ lv[KPDPT] = 3
      /\ \A j \in 0 .. G - 1 : KPD[j] \in Pages /\ lv[KPD[j]] = 2
  BY KernelLevels, KernelEntries
<1>5. /\ is_present(m[KPML4][i4]) => T3(m, v) \in Pages /\ lv[T3(m, v)] = 3
      /\ is_present(m[KPML4][i4]) /\ is_present(m[T3(m, v)][i3]) => T2(m, v) \in Pages /\ lv[T2(m, v)] = 2
  <2>1. CASE IsIdentity(v)
    BY <1>4, <2>1, IdentityWalk DEF Tree
  <2>2. CASE ~ IsIdentity(v)
    BY <1>1, <2>2, WalkTables
  <2> QED
    BY <2>1, <2>2
<1>6. IsIdentity(v) => /\ is_present(m[KPML4][i4]) /\ is_present(m[T3(m, v)][i3])
                       /\ is_present(m[T2(m, v)][i2])
  BY IdentityWalk DEF Tree
<1>7. T3(m, v) = FrameOf(m[KPML4][i4]) /\ T2(m, v) = FrameOf(m[T3(m, v)][i3])
      /\ T1(m, v) = FrameOf(m[T2(m, v)][i2])
  BY DEF T3, T2, T1
<1>8. CASE n = 1
  <2>1. t = KPML4 /\ LevelIndex(v, n) = i4
    BY <1>3, <1>8 DEF OnWalk
  <2>2. is_present(m[t][i4]) => OnWalk(m, v, 2, FrameOf(m[t][i4]))
    <3>1. FrameOf(m[t][i4]) = T3(m, v)
      BY <1>7, <2>1
    <3>2. is_present(m[t][i4]) => OnWalk(m, v, 2, T3(m, v))
      BY <2>1 DEF OnWalk
    <3> QED
      BY <3>1, <3>2
  <2> QED
    BY <1>2, <1>4, <1>6, <1>8, <2>1, <2>2
<1>9. CASE n = 2
  <2>1. t = T3(m, v) /\ LevelIndex(v, n) = i3 /\ is_present(m[KPML4][i4])
    BY <1>3, <1>9 DEF OnWalk
  <2>2. is_present(m[t][i3]) => OnWalk(m, v, 3, FrameOf(m[t][i3]))
    <3>1. FrameOf(m[t][i3]) = T2(m, v)
      BY <1>7, <2>1
    <3>2. is_present(m[t][i3]) => OnWalk(m, v, 3, T2(m, v))
      BY <2>1 DEF OnWalk
    <3> QED
      BY <3>1, <3>2
  <2> QED
    BY <1>2, <1>5, <1>6, <1>9, <2>1, <2>2
<1>10. CASE n = 3
  <2>1. /\ t = T2(m, v) /\ LevelIndex(v, n) = i2
        /\ is_present(m[KPML4][i4]) /\ is_present(m[T3(m, v)][i3])
    BY <1>3, <1>10 DEF OnWalk
  <2>2. is_present(m[t][i2]) => OnWalk(m, v, 4, FrameOf(m[t][i2]))
    <3>1. FrameOf(m[t][i2]) = T1(m, v)
      BY <1>7, <2>1
    <3>2. is_present(m[t][i2]) => OnWalk(m, v, 4, T1(m, v))
      BY <2>1 DEF OnWalk
    <3> QED
      BY <3>1, <3>2
  <2> QED
    BY <1>2, <1>5, <1>6, <1>10, <2>1, <2>2
<1> QED
  BY <1>8, <1>9, <1>10

\* A level that makes a table goes on in it.
LEMMA GrownOnWalk ==
  ASSUME NEW m, NEW lv, Tree(m, lv), NEW v \in Virtual, NEW n \in 1 .. 3, NEW t, OnWalk(m, v, n, t),
         ~ is_present(m[t][LevelIndex(v, n)]), NEW z \in Pages, lv[z] = 0
  PROVE  OnWalk(Grown(m, t, LevelIndex(v, n), z), v, n + 1, z)
<1> DEFINE i4 == indices(v).pml4
           i3 == indices(v).pdpt
           i2 == indices(v).pd
           i  == LevelIndex(v, n)
           p  == Grown(m, t, i, z)
<1>1. v \in Nat
  BY SlotIsIndex
<1>2. i4 \in Index /\ i3 \in Index /\ i2 \in Index
  BY <1>1, IndicesAre
<1>3. t \in Pages /\ lv[t] = 5 - n /\ i \in Index
  BY LevelFacts
<1>4. z # t /\ MemoryShape(m)
  BY <1>3 DEF Tree
<1>5. /\ p[t][i] = LinkTo(z) /\ is_present(p[t][i]) /\ FrameOf(p[t][i]) = z
      /\ \A f \in Pages, j \in Index : f # z /\ (f # t \/ j # i) => p[f][j] = m[f][j]
  BY <1>3, <1>4, GrownWords DEF IsLink
<1>6. KPML4 \in Pages /\ lv[KPML4] = 4 /\ KPML4 # z
  BY KernelLevels, KernelEntries
<1>7. /\ T3(p, v) = FrameOf(p[KPML4][i4]) /\ T2(p, v) = FrameOf(p[T3(p, v)][i3])
      /\ T1(p, v) = FrameOf(p[T2(p, v)][i2])
      /\ T3(m, v) = FrameOf(m[KPML4][i4]) /\ T2(m, v) = FrameOf(m[T3(m, v)][i3])
  BY DEF T3, T2, T1
<1>8. /\ n = 1 => i = i4
      /\ n = 2 => i = i3
      /\ n = 3 => i = i2
  BY DEF LevelIndex
<1> HIDE DEF p, i
<1>9. CASE n = 1
  <2>1. t = KPML4
    BY <1>9 DEF OnWalk
  <2>2. is_present(p[KPML4][i4]) /\ T3(p, v) = z
    BY <1>5, <1>7, <1>8, <1>9, <2>1
  <2>3. OnWalk(p, v, 2, z)
    BY <2>2 DEF OnWalk
  <2> QED
    BY <1>9, <2>3 DEF p, i
<1>10. CASE n = 2
  <2>1. t = T3(m, v) /\ is_present(m[KPML4][i4]) /\ t # KPML4
    BY <1>3, <1>6, <1>10 DEF OnWalk
  <2>2. p[KPML4][i4] = m[KPML4][i4]
    BY <1>2, <1>5, <1>6, <2>1
  <2>3. is_present(p[KPML4][i4]) /\ T3(p, v) = t
    BY <1>7, <2>1, <2>2
  <2>4. is_present(p[T3(p, v)][i3]) /\ T2(p, v) = z
    BY <1>5, <1>7, <1>8, <1>10, <2>3
  <2>5. OnWalk(p, v, 3, z)
    BY <2>3, <2>4 DEF OnWalk
  <2> QED
    BY <1>10, <2>5 DEF p, i
<1>11. CASE n = 3
  <2>1. /\ t = T2(m, v) /\ is_present(m[KPML4][i4]) /\ is_present(m[T3(m, v)][i3]) /\ t # KPML4
    BY <1>3, <1>6, <1>11 DEF OnWalk
  <2>2. T3(m, v) \in Pages /\ lv[T3(m, v)] = 3
    <3>1. OnWalk(m, v, 2, T3(m, v))
      BY <2>1 DEF OnWalk
    <3> QED
      BY <3>1, LevelFacts
  <2>3. T3(m, v) # t /\ T3(m, v) # z
    BY <1>3, <1>11, <2>2
  <2>4. p[KPML4][i4] = m[KPML4][i4]
    BY <1>2, <1>5, <1>6, <2>1
  <2>5. is_present(p[KPML4][i4]) /\ T3(p, v) = T3(m, v)
    BY <1>7, <2>1, <2>4
  <2>6. p[T3(m, v)][i3] = m[T3(m, v)][i3]
    BY <1>2, <1>5, <2>2, <2>3
  <2>7. is_present(p[T3(p, v)][i3]) /\ T2(p, v) = t
    BY <1>7, <2>1, <2>5, <2>6
  <2>8. is_present(p[T2(p, v)][i2]) /\ T1(p, v) = z
    BY <1>5, <1>7, <1>8, <1>11, <2>7
  <2>9. OnWalk(p, v, 4, z)
    BY <2>5, <2>7, <2>8 DEF OnWalk
  <2> QED
    BY <1>11, <2>9 DEF p, i
<1> QED
  BY <1>9, <1>10, <1>11

\* The table the three levels reach.
LEMMA EntryFacts ==
  ASSUME NEW m, NEW lv, Tree(m, lv), NEW v \in Virtual, NEW t, OnWalk(m, v, 4, t)
  PROVE  /\ t \in Pages /\ t = T1(m, v) /\ indices(v).pt \in Index
         /\ ~ IsIdentity(v) => Walked(m, v) /\ lv[t] = 1
<1>1. v \in Nat
  BY SlotIsIndex
<1>2. indices(v).pt \in Index
  BY <1>1, IndicesAre
<1>3. /\ t = T1(m, v) /\ is_present(m[KPML4][indices(v).pml4])
      /\ is_present(m[T3(m, v)][indices(v).pdpt]) /\ is_present(m[T2(m, v)][indices(v).pd])
  BY DEF OnWalk
<1>4. CASE IsIdentity(v)
  BY <1>2, <1>3, <1>4, IdentityWalk DEF Tree
<1>5. CASE ~ IsIdentity(v)
  BY <1>1, <1>2, <1>3, <1>5, WalkTables DEF Walked
<1> QED
  BY <1>4, <1>5

\* A level that is not present and finds no frame stops.
LEMMA LinkStops ==
  ASSUME NEW m, NEW a, NEW t, NEW i, ~ is_present(m[t][i]), alloc(a).ret = None
  PROVE  Link(Reached(m, a, t), i).ok = FALSE
<1>1. Link(Reached(m, a, t), i) = [Reached(m, a, t) EXCEPT !.ok = FALSE]
  BY ZenonT(30) DEF Link, Reached
<1> QED
  BY <1>1 DEF Reached

\* With a frame it writes the entry.
LEMMA LinkAdds ==
  ASSUME NEW m, NEW a, NEW t, NEW i, ~ is_present(m[t][i]), alloc(a).ret # None, NEW z,
         PageTableEntry(alloc(a).ret, {"PRESENT", "WRITABLE"}) = LinkTo(z),
         FrameOf(LinkTo(z)) = z
  PROVE  Link(Reached(m, a, t), i) = Reached(Written(m, t, i, LinkTo(z)), alloc(a).fa, z)
BY ZenonT(30) DEF Link, Reached, Written

\* Writing the entry of a page changes the translations of that page only.
LEMMA WriteTranslates ==
  ASSUME NEW m, NEW lv, Tree(m, lv), NEW v \in Virtual, ~ IsIdentity(v), Walked(m, v),
         NEW e, is_present(e) => e.addr \in Nat
  PROVE  LET n == Written(m, T1(m, v), indices(v).pt, e)
         IN  /\ Tree(n, lv)
             /\ \A w \in Virtual :
                  translate(n, w) = IF SamePage(v, w)
                                    THEN IF is_present(e) THEN e.addr + (w % E) ELSE None
                                    ELSE translate(m, w)
<1> DEFINE t == T1(m, v)
           i == indices(v).pt
           n == Written(m, t, i, e)
<1>1. v \in Nat
  BY SlotIsIndex
<1>2. i \in Index /\ t \in Pages /\ lv[t] = 1
  <2>1. t \in Pages /\ lv[t] = 1
    BY <1>1, WalkTables DEF Walked, IsLink
  <2> QED
    BY <1>1, <2>1, IndicesAre
<1>3. Tree(n, lv) /\ SameAbove(m, n, lv)
  BY <1>2, WritePage
<1>4. /\ n[t][i] = e
      /\ \A g \in Pages, j \in Index : g # t \/ j # i => n[g][j] = m[g][j]
  BY <1>2, WriteWord DEF Tree
<1> SUFFICES ASSUME NEW w \in Virtual
             PROVE  translate(n, w) = IF SamePage(v, w)
                                      THEN IF is_present(e) THEN e.addr + (w % E) ELSE None
                                      ELSE translate(m, w)
  BY <1>3
<1>5. w \in Nat
  BY SlotIsIndex
<1>6. IdentityTables(m) /\ IdentityTables(n)
  BY <1>3 DEF Tree
<1>7. SamePage(v, w) => /\ ~ IsIdentity(w) /\ Walked(m, w)
                        /\ T1(m, w) = t /\ indices(w).pt = i
  BY <1>6, SamePageWalks
<1>8. ~ IsIdentity(w) /\ Walked(m, w) /\ T1(m, w) = t /\ indices(w).pt = i => SamePage(v, w)
  BY WalksSamePage
<1> HIDE DEF t, i, n
<1>9. CASE IsIdentity(w)
  BY <1>6, <1>7, <1>9, TranslateFixed
<1>10. CASE ~ IsIdentity(w)
  <2> DEFINE tw == T1(m, w)
             iw == indices(w).pt
  <2>1. (Walked(n, w) <=> Walked(m, w)) /\ (Walked(m, w) => T1(n, w) = tw)
    BY <1>3, <1>5, <1>10, SameAboveWalks
  <2>2. translate(m, w) = IF Walked(m, w) /\ is_present(m[tw][iw]) THEN m[tw][iw].addr + (w % E) ELSE None
    BY <1>5, <1>10, TranslateWalks
  <2>3. translate(n, w) = IF Walked(n, w) /\ is_present(n[T1(n, w)][iw])
                          THEN n[T1(n, w)][iw].addr + (w % E) ELSE None
    BY <1>3, <1>5, <1>10, TranslateWalks
  <2>4. iw \in Index /\ (Walked(m, w) => tw \in Pages)
    <3>1. Walked(m, w) => tw \in Pages
      BY <1>5, <1>10, WalkTables DEF Walked, IsLink
    <3> QED
      BY <1>5, <3>1, IndicesAre
  <2>5. translate(n, w) = IF Walked(m, w) /\ is_present(n[tw][iw]) THEN n[tw][iw].addr + (w % E) ELSE None
    BY <2>1, <2>3
  <2>6. SamePage(v, w) => Walked(m, w) /\ tw = t /\ iw = i
    BY <1>7
  <2>7. Walked(m, w) /\ ~ SamePage(v, w) => tw # t \/ iw # i
    BY <1>8, <1>10
  <2> HIDE DEF tw, iw
  <2>8. CASE SamePage(v, w)
    BY <1>4, <2>5, <2>6, <2>8
  <2>9. CASE ~ SamePage(v, w)
    <3>1. Walked(m, w) => n[tw][iw] = m[tw][iw]
      BY <1>4, <2>4, <2>7, <2>9
    <3> QED
      BY <2>2, <2>5, <2>9, <3>1
  <2> QED
    BY <2>8, <2>9
<1> QED
  BY <1>9, <1>10

\* The tables after a call of unmap_page that succeeds.
LEMMA UnmapFacts ==
  ASSUME NEW m, NEW lv, NEW v \in Virtual, ~ IsIdentity(v), Tree(m, lv), unmap_page(m, v).ok
  PROVE  /\ Tree(unmap_page(m, v).mem, lv)
         /\ translate(m, v) # None
         /\ \A w \in Virtual :
              translate(unmap_page(m, v).mem, w) = IF SamePage(v, w) THEN None ELSE translate(m, w)
<1> DEFINE i4 == indices(v).pml4
           i3 == indices(v).pdpt
           i2 == indices(v).pd
           i1 == indices(v).pt
<1>1. v \in Nat /\ v % E \in Nat
  BY SlotIsIndex, TableSizeAssumption
<1>2. /\ is_present(m[KPML4][i4]) /\ is_present(m[T3(m, v)][i3])
      /\ is_present(m[T2(m, v)][i2]) /\ is_present(m[T1(m, v)][i1])
      /\ unmap_page(m, v).mem = Written(m, T1(m, v), i1, empty)
  BY DEF unmap_page, T3, T2, T1, Written
<1>3. /\ Walked(m, v) /\ T1(m, v) \in Pages /\ lv[T1(m, v)] = 1
  BY <1>1, <1>2, WalkTables DEF Walked
<1>4. translate(m, v) = m[T1(m, v)][i1].addr + (v % E)
  BY <1>1, <1>2, <1>3, TranslateWalks
<1>5. m[T1(m, v)][i1].addr \in Nat
  <2>1. i1 \in Index
    BY <1>1, IndicesAre
  <2> QED
    BY <1>2, <1>3, <2>1 DEF Tree, Maps
<1>6. translate(m, v) # None
  BY <1>1, <1>4, <1>5, NoneAssumption
<1>7. ~ is_present(empty)
  BY DEF is_present, empty
<1> QED
  BY <1>2, <1>3, <1>6, <1>7, WriteTranslates

\* What the processor reads while a new table is not zeroed is what it will
\* read afterwards, or the address has no translation afterwards.
LEMMA RawWalk ==
  ASSUME NEW m, NEW lv, NEW z \in Pages, DOMAIN m = Pages, NEW n, n = [m EXCEPT ![z] = ZeroTable],
         Tree(n, lv), NEW v \in Virtual
  PROVE  translate(m, v) = translate(n, v) \/ translate(n, v) = None
<1> DEFINE i4 == indices(v).pml4
           i3 == indices(v).pdpt
           i2 == indices(v).pd
           i1 == indices(v).pt
<1>1. v \in Nat
  BY SlotIsIndex
<1>2. i4 \in Index /\ i3 \in Index /\ i2 \in Index /\ i1 \in Index
  BY <1>1, IndicesAre
<1>3. \A f \in Pages, j \in Index : is_present(n[f][j]) => f # z /\ n[f][j] = m[f][j]
  <2>1. n[z] = ZeroTable /\ \A f \in Pages : f # z => n[f] = m[f]
    OBVIOUS
  <2>2. \A j \in Index : ~ is_present(n[z][j])
    BY <2>1 DEF ZeroTable, is_present, empty
  <2> QED
    BY <2>1, <2>2
<1>4. KPML4 \in Pages /\ KPDPT \in Pages /\ \A j \in 0 .. G - 1 : KPD[j] \in Pages
  BY KernelEntries
<1> SUFFICES ASSUME translate(n, v) # None PROVE translate(m, v) = translate(n, v)
  OBVIOUS
<1>5. CASE IsIdentity(v)
  <2>1. /\ is_present(n[KPML4][i4]) /\ FrameOf(n[KPML4][i4]) = KPDPT
        /\ is_present(n[KPDPT][i3]) /\ ~ is_huge_page(n[KPDPT][i3])
        /\ FrameOf(n[KPDPT][i3]) = KPD[i3] /\ i3 \in 0 .. G - 1
        /\ is_present(n[KPD[i3]][i2]) /\ is_huge_page(n[KPD[i3]][i2])
    <3>1. /\ is_present(n[KPML4][i4]) /\ T3(n, v) = KPDPT
          /\ is_present(n[KPDPT][i3]) /\ ~ is_huge_page(n[KPDPT][i3])
          /\ T2(n, v) = KPD[i3] /\ i3 \in 0 .. G - 1
          /\ is_present(n[KPD[i3]][i2]) /\ is_huge_page(n[KPD[i3]][i2])
      BY <1>5, IdentityWalk DEF Tree
    <3> QED
      BY <3>1 DEF T3, T2
  <2>2. /\ m[KPML4][i4] = n[KPML4][i4] /\ m[KPDPT][i3] = n[KPDPT][i3]
        /\ m[KPD[i3]][i2] = n[KPD[i3]][i2]
    BY <1>2, <1>3, <1>4, <2>1
  <2> HIDE DEF i4, i3, i2, i1
  <2>3. translate(n, v) = n[KPD[i3]][i2].addr + (v % (E * E))
    BY <2>1 DEF translate, i4, i3, i2
  <2>4. translate(m, v) = m[KPD[i3]][i2].addr + (v % (E * E))
    BY <2>1, <2>2 DEF translate, i4, i3, i2
  <2> QED
    BY <2>2, <2>3, <2>4
<1>6. CASE ~ IsIdentity(v)
  <2> DEFINE t3 == T3(n, v)
             t2 == T2(n, v)
             t1 == T1(n, v)
  <2>1. translate(n, v) = n[t1][i1].addr + (v % E) /\ Walked(n, v) /\ is_present(n[t1][i1])
    BY <1>1, <1>6, TranslateWalks
  <2>2. /\ is_present(n[KPML4][i4]) /\ is_present(n[t3][i3]) /\ is_present(n[t2][i2])
        /\ ~ is_huge_page(n[t3][i3]) /\ ~ is_huge_page(n[t2][i2])
    BY <2>1 DEF Walked, IsLink
  <2>3. t3 \in Pages /\ t2 \in Pages /\ t1 \in Pages
    BY <1>1, <1>6, <2>2, WalkTables
  <2>4. t3 = FrameOf(n[KPML4][i4]) /\ t2 = FrameOf(n[t3][i3]) /\ t1 = FrameOf(n[t2][i2])
    BY DEF T3, T2, T1
  <2> HIDE DEF t3, t2, t1
  <2>5. /\ m[KPML4][i4] = n[KPML4][i4] /\ m[t3][i3] = n[t3][i3]
        /\ m[t2][i2] = n[t2][i2] /\ m[t1][i1] = n[t1][i1]
    BY <1>2, <1>3, <1>4, <2>1, <2>2, <2>3
  <2>6. indices(v).offset = v % E
    BY DEF indices
  <2>7. translate(m, v) = m[t1][i1].addr + (v % E)
    <3>1. FrameOf(m[KPML4][i4]) = t3 /\ FrameOf(m[t3][i3]) = t2 /\ FrameOf(m[t2][i2]) = t1
      BY <2>4, <2>5
    <3>2. /\ is_present(m[KPML4][i4]) /\ is_present(m[t3][i3]) /\ is_present(m[t2][i2])
          /\ ~ is_huge_page(m[t3][i3]) /\ ~ is_huge_page(m[t2][i2]) /\ is_present(m[t1][i1])
      BY <2>1, <2>2, <2>5
    <3> QED
      BY <2>6, <3>1, <3>2 DEF translate
  <2> QED
    BY <2>1, <2>5, <2>7
<1> QED
  BY <1>5, <1>6

----------------------------------------------------------------------------
(* paging::init.                                                           *)

\* The kernel's tables before paging::init, and their levels after it.
Cleared(m) == \A f \in KernelTables, i \in Index : m[f][i] = empty

KernelLevel ==
  [f \in Pages |-> IF f = KPML4 THEN 4 ELSE IF f = KPDPT THEN 3
                   ELSE IF f \in KernelTables THEN 2 ELSE 0]

\* Before it nothing is translated.
LEMMA ClearedTranslates ==
  ASSUME NEW m, Cleared(m), NEW v \in Virtual
  PROVE  translate(m, v) = None
<1>1. indices(v).pml4 \in Index
  BY SlotIsIndex, IndicesAre
<1>2. KPML4 \in KernelTables
  BY DEF KernelTables
<1>3. m[KPML4][indices(v).pml4] = empty
  BY <1>1, <1>2 DEF Cleared
<1>4. ~ is_present(m[KPML4][indices(v).pml4])
  BY <1>3 DEF is_present, empty
<1> QED
  BY <1>4 DEF translate

\* After it the tables are a tree that shows the identity mapping and nothing
\* else.
LEMMA InitTree ==
  ASSUME NEW old, MemoryShape(old), Cleared(old), NEW m, m = paging_init(old)
  PROVE  /\ Tree(m, KernelLevel)
         /\ \A v \in Virtual : translate(m, v) = IF IsIdentity(v) THEN Canonical(v) ELSE None
<1> DEFINE lv == KernelLevel
<1>1. /\ MemoryShape(m) /\ IdentityTables(m)
      /\ \A i \in Index : i \notin {0, E - 1} => m[KPML4][i] = old[KPML4][i]
      /\ \A i \in Index : ~ i < G => m[KPDPT][i] = old[KPDPT][i]
  BY InitTables
<1>2. /\ KPML4 \in KernelTables /\ KPDPT \in KernelTables
      /\ \A j \in 0 .. G - 1 : KPD[j] \in KernelTables
      /\ \A f \in KernelTables : f = KPML4 \/ f = KPDPT \/ \E j \in 0 .. G - 1 : f = KPD[j]
  BY DEF KernelTables
<1>3. ~ is_present(empty) /\ ~ is_huge_page(empty)
  BY DEF is_present, is_huge_page, empty
<1>4. \A i \in Index : \/ i \in {0, E - 1} /\ m[KPML4][i] = LinkTo(KPDPT)
                       \/ i \notin {0, E - 1} /\ m[KPML4][i] = empty
  BY <1>1, <1>2 DEF IdentityTables, Cleared
<1>5. \A i \in Index : \/ i \in 0 .. G - 1 /\ m[KPDPT][i] = LinkTo(KPD[i])
                       \/ ~ i < G /\ m[KPDPT][i] = empty
  <2>1. \A i \in Index : i < G => i \in 0 .. G - 1
    BY TableSizeAssumption, IdentityAssumption DEF Index
  <2> QED
    BY <1>1, <1>2, <2>1 DEF IdentityTables, Cleared
<1>6. \A j \in 0 .. G - 1, i \in Index :
        is_present(m[KPD[j]][i]) /\ is_huge_page(m[KPD[j]][i])
  <2> SUFFICES ASSUME NEW j \in 0 .. G - 1, NEW i \in Index
               PROVE  is_present(m[KPD[j]][i]) /\ is_huge_page(m[KPD[j]][i])
    OBVIOUS
  <2>1. j * E + i \in Nat
    BY TableSizeAssumption, IdentityAssumption DEF Index
  <2>2. m[KPD[j]][i] = HugeTo(j * E + i)
    BY <1>1 DEF IdentityTables
  <2> QED
    BY <2>1, <2>2, KernelEntries
<1>7. /\ lv \in [Pages -> 0 .. 4] /\ lv[KPML4] = 4 /\ lv[KPDPT] = 3
      /\ \A f \in Pages : lv[f] # 0 <=> f \in KernelTables
      /\ \A f \in Pages : lv[f] = 4 <=> f = KPML4
      /\ \A f \in Pages : lv[f] = 3 <=> f = KPDPT
      /\ \A f \in Pages : lv[f] = 1 \/ lv[f] >= 2 => lv[f] = 2 \/ lv[f] = 3 \/ lv[f] = 4
      /\ \A f \in Pages : lv[f] = 2 => \E j \in 0 .. G - 1 : f = KPD[j]
  BY <1>2, KernelTablesAssumption DEF KernelLevel
<1>8. \A j \in 0 .. G - 1 : lv[KPD[j]] = 2 /\ KPD[j] \in Pages
  BY <1>2, KernelTablesAssumption DEF KernelLevel
<1> HIDE DEF lv
<1>9. ASSUME NEW f \in Pages, NEW i \in Index, lv[f] >= 2, IsLink(m, f, i)
      PROVE  \/ f = KPML4 /\ i \in {0, E - 1} /\ FrameOf(m[f][i]) = KPDPT
             \/ f = KPDPT /\ i \in 0 .. G - 1 /\ FrameOf(m[f][i]) = KPD[i]
  <2>1. CASE f = KPML4
    BY <1>3, <1>4, <1>9, <2>1, KernelEntries DEF IsLink
  <2>2. CASE f = KPDPT
    BY <1>3, <1>5, <1>9, <2>2, KernelEntries DEF IsLink
  <2>3. CASE f # KPML4 /\ f # KPDPT
    BY <1>6, <1>7, <1>9, <2>3 DEF IsLink
  <2> QED
    BY <2>1, <2>2, <2>3
<1>10. Levels(lv)
  BY <1>7 DEF Levels
<1>11. Leads(m, lv)
  BY <1>7, <1>8, <1>9, KernelEntries DEF Leads
<1>12. HugeOnly(m, lv)
  <2> SUFFICES ASSUME NEW f \in Pages, NEW i \in Index, lv[f] >= 2, is_huge_page(m[f][i])
               PROVE  \E j \in 0 .. G - 1 : f = KPD[j]
    BY DEF HugeOnly
  <2>1. f # KPML4
    BY <1>3, <1>4, KernelEntries
  <2>2. f # KPDPT
    BY <1>3, <1>5, KernelEntries
  <2> QED
    BY <1>7, <2>1, <2>2
<1>13. Maps(m, lv)
  BY <1>7 DEF Maps
<1>14. Parents(m, lv)
  <2> SUFFICES ASSUME NEW f \in Pages, lv[f] \in 1 .. 3
               PROVE  \E g \in Pages, i \in Index : /\ lv[g] = lv[f] + 1 /\ IsLink(m, g, i)
                                                     /\ FrameOf(m[g][i]) = f
    BY DEF Parents
  <2>1. IsLink(m, KPML4, 0) /\ FrameOf(m[KPML4][0]) = KPDPT
    BY <1>1, KernelEntries DEF IdentityTables, IsLink
  <2>2. \A j \in 0 .. G - 1 : IsLink(m, KPDPT, j) /\ FrameOf(m[KPDPT][j]) = KPD[j]
    BY <1>1, KernelEntries DEF IdentityTables, IsLink
  <2>3. lv[f] = 2 \/ lv[f] = 3
    BY <1>7
  <2>4. CASE lv[f] = 3
    BY <1>7, <2>1, <2>4, KernelEntries
  <2>5. CASE lv[f] = 2
    BY <1>7, <2>2, <2>5, KernelEntries
  <2> QED
    BY <2>3, <2>4, <2>5
<1>15. Once(m, lv)
  <2> SUFFICES ASSUME NEW f \in Pages, NEW g \in Pages, NEW i \in Index, NEW j \in Index,
                      lv[f] >= 2, lv[g] >= 2, IsLink(m, f, i), IsLink(m, g, j),
                      FrameOf(m[f][i]) = FrameOf(m[g][j])
               PROVE  f = g /\ (i = j \/ (f = KPML4 /\ i \in {0, E - 1} /\ j \in {0, E - 1}))
    BY DEF Once
  <2>1. \/ f = KPML4 /\ i \in {0, E - 1} /\ FrameOf(m[f][i]) = KPDPT
        \/ f = KPDPT /\ i \in 0 .. G - 1 /\ FrameOf(m[f][i]) = KPD[i]
    BY <1>9
  <2>2. \/ g = KPML4 /\ j \in {0, E - 1} /\ FrameOf(m[g][j]) = KPDPT
        \/ g = KPDPT /\ j \in 0 .. G - 1 /\ FrameOf(m[g][j]) = KPD[j]
    BY <1>9
  <2> QED
    BY <2>1, <2>2, KernelTablesAssumption
<1>16. Tree(m, lv)
  BY <1>1, <1>10, <1>11, <1>12, <1>13, <1>14, <1>15 DEF Tree
<1>17. ASSUME NEW v \in Virtual, ~ IsIdentity(v)
       PROVE  translate(m, v) = None
  <2>1. v \in Nat
    BY SlotIsIndex
  <2>2. ~ Walked(m, v)
    <3>1. SUFFICES ASSUME Walked(m, v) PROVE FALSE
      OBVIOUS
    <3>2. /\ indices(v).pd \in Index /\ T2(m, v) \in Pages /\ lv[T2(m, v)] = 2
          /\ ~ is_huge_page(m[T2(m, v)][indices(v).pd])
      BY <1>16, <1>17, <2>1, <3>1, WalkTables DEF Walked, IsLink
    <3> QED
      BY <1>6, <1>7, <3>2
  <2> QED
    BY <1>16, <1>17, <2>1, <2>2, TranslateWalks
<1> QED
  BY <1>1, <1>16, <1>17, TranslateFixed DEF lv

----------------------------------------------------------------------------
(* Counting the links.                                                     *)

\* The tables of each level below the root are the frames the level above
\* links.
LEMMA TablesByLevel ==
  ASSUME NEW m, NEW lv, Tree(m, lv)
  PROVE  /\ Pdpts(m) = {f \in Pages : lv[f] = 3}
         /\ Pds(m) = {f \in Pages : lv[f] = 2}
         /\ Pts(m) = {f \in Pages : lv[f] = 1}
<1> DEFINE S(n) == {f \in Pages : lv[f] = n}
<1>1. ASSUME NEW n \in 2 .. 4
      PROVE  Linked(m, S(n)) = S(n - 1)
  <2>1. ASSUME NEW f \in Pages, NEW i \in Index, lv[f] = n, IsLink(m, f, i)
        PROVE  FrameOf(m[f][i]) \in S(n - 1)
    BY <2>1 DEF Tree, Leads
  <2>2. ASSUME NEW f \in S(n - 1)
        PROVE  \E g \in S(n), i \in Index : IsLink(m, g, i) /\ FrameOf(m[g][i]) = f
    <3>1. lv[f] \in 1 .. 3 /\ lv[f] + 1 = n
      BY <2>2
    <3> QED
      BY <3>1 DEF Tree, Parents
  <2>3. \A f \in S(n) : f \in Pages /\ lv[f] = n
    OBVIOUS
  <2>4. Links(m, S(n)) = {x \in S(n) \X Index : IsLink(m, x[1], x[2])}
    BY DEF Links, IsLink
  <2> HIDE DEF S
  <2>5. ASSUME NEW f \in Linked(m, S(n)) PROVE f \in S(n - 1)
    <3>1. PICK x \in S(n) \X Index : IsLink(m, x[1], x[2]) /\ f = FrameOf(m[x[1]][x[2]])
      BY <2>4 DEF Linked
    <3> QED
      BY <2>1, <2>3, <3>1
  <2>6. ASSUME NEW f \in S(n - 1) PROVE f \in Linked(m, S(n))
    <3>1. PICK g \in S(n), i \in Index : IsLink(m, g, i) /\ FrameOf(m[g][i]) = f
      BY <2>2
    <3>2. <<g, i>> \in Links(m, S(n))
      BY <2>4, <3>1
    <3> QED
      BY <3>1, <3>2 DEF Linked
  <2> QED
    BY <2>5, <2>6
<1>2. S(4) = {KPML4}
  BY KernelEntries DEF Tree, Levels
<1>3. Pdpts(m) = S(3)
  BY <1>1, <1>2 DEF Pdpts
<1>4. Pds(m) = S(2)
  BY <1>1, <1>3 DEF Pds
<1>5. Pts(m) = S(1)
  BY <1>1, <1>4 DEF Pts
<1> QED
  BY <1>3, <1>4, <1>5

\* The frames that are tables are those with a level.
LEMMA TablesAreLevels ==
  ASSUME NEW m, NEW lv, Tree(m, lv), NEW f \in Pages
  PROVE  f \in TableFrames(m) <=> lv[f] # 0
<1>1. lv \in [Pages -> 0 .. 4] /\ KPML4 \in Pages /\ \A g \in Pages : lv[g] = 4 <=> g = KPML4
  BY KernelEntries DEF Tree, Levels
<1> QED
  BY <1>1, TablesByLevel DEF TableFrames

\* There is one link more than there are tables below the root.
LEMMA LinkCount ==
  ASSUME NEW m, NEW lv, Tree(m, lv)
  PROVE  LET linked == Pdpts(m) \cup Pds(m) \cup Pts(m)
             links  == Links(m, {KPML4} \cup Pdpts(m) \cup Pds(m))
         IN  Cardinality(links) = Cardinality(linked) + 1
<1> DEFINE linked == Pdpts(m) \cup Pds(m) \cup Pts(m)
           links  == Links(m, {KPML4} \cup Pdpts(m) \cup Pds(m))
           last   == <<KPML4, E - 1>>
           S      == links \ {last}
           h      == [x \in S |-> FrameOf(m[x[1]][x[2]])]
<1>1. lv \in [Pages -> 0 .. 4] /\ KPML4 \in Pages /\ lv[KPML4] = 4
      /\ \A f \in Pages : lv[f] = 4 => f = KPML4
  BY KernelEntries DEF Tree, Levels
<1>2. linked = {f \in Pages : lv[f] \in 1 .. 3}
  BY <1>1, TablesByLevel
<1>3. {KPML4} \cup Pdpts(m) \cup Pds(m) = {f \in Pages : lv[f] >= 2}
  BY <1>1, TablesByLevel
<1>4. links = {x \in {f \in Pages : lv[f] >= 2} \X Index : IsLink(m, x[1], x[2])}
  BY <1>3 DEF Links, IsLink
<1>5. /\ \A x \in links : /\ x = <<x[1], x[2]>> /\ x[1] \in Pages /\ x[2] \in Index
                          /\ lv[x[1]] >= 2 /\ IsLink(m, x[1], x[2])
      /\ \A f \in Pages, i \in Index : lv[f] >= 2 /\ IsLink(m, f, i) => <<f, i>> \in links
  BY <1>4
<1>6. links \subseteq Pages \X Index
  BY <1>4
<1>7. IsFiniteSet(links)
  <2>1. IsFiniteSet(Pages) /\ IsFiniteSet(Index)
    BY FS_Interval, MaxPagesAssumption, TableSizeAssumption DEF Pages, Index
  <2>2. IsFiniteSet(Pages \X Index)
    BY <2>1, FS_Product
  <2> QED
    BY <1>6, <2>2, FS_Subset
<1>8. /\ IsLink(m, KPML4, 0) /\ IsLink(m, KPML4, E - 1) /\ 0 \in Index /\ E - 1 \in Index
      /\ FrameOf(m[KPML4][0]) = FrameOf(m[KPML4][E - 1]) /\ 0 # E - 1
  <2>1. m[KPML4][0] = LinkTo(KPDPT) /\ m[KPML4][E - 1] = LinkTo(KPDPT)
    BY DEF Tree, IdentityTables
  <2> QED
    BY <2>1, KernelEntries DEF IsLink
<1> HIDE DEF linked, links
<1>9. last \in links /\ <<KPML4, 0>> \in S
  <2>1. <<KPML4, 0>> # last
    BY <1>8
  <2>2. lv[KPML4] >= 2
    BY <1>1
  <2>3. last \in links /\ <<KPML4, 0>> \in links
    BY <1>1, <1>5, <1>8, <2>2
  <2> QED
    BY <2>1, <2>3
<1>10. IsFiniteSet(S) /\ Cardinality(S) = Cardinality(links) - 1
  BY <1>7, <1>9, FS_RemoveElement
<1>11. h \in [S -> linked]
  <2>1. ASSUME NEW x \in S PROVE FrameOf(m[x[1]][x[2]]) \in linked
    <3>1. x[1] \in Pages /\ x[2] \in Index /\ lv[x[1]] >= 2 /\ IsLink(m, x[1], x[2])
      BY <1>5
    <3>2. FrameOf(m[x[1]][x[2]]) \in Pages /\ lv[FrameOf(m[x[1]][x[2]])] = lv[x[1]] - 1
      BY <3>1 DEF Tree, Leads
    <3>3. lv[x[1]] \in 2 .. 4
      BY <1>1, <3>1
    <3> QED
      BY <1>2, <3>2, <3>3
  <2> QED
    BY <2>1
<1>12. \A f \in linked : \E x \in S : h[x] = f
  <2> SUFFICES ASSUME NEW f \in linked PROVE \E x \in S : h[x] = f
    OBVIOUS
  <2>1. PICK g \in Pages, i \in Index : lv[g] = lv[f] + 1 /\ IsLink(m, g, i) /\ FrameOf(m[g][i]) = f
    BY <1>2 DEF Tree, Parents
  <2>2. lv[g] >= 2
    BY <1>2, <2>1
  <2>3. CASE <<g, i>> = last
    <3>1. g = KPML4 /\ i = E - 1
      BY <2>3
    <3>2. FrameOf(m[KPML4][0]) = f
      BY <1>8, <2>1, <3>1
    <3>3. h[<<KPML4, 0>>] = f
      BY <1>9, <3>2
    <3> QED
      BY <1>9, <3>3
  <2>4. CASE <<g, i>> # last
    <3>1. <<g, i>> \in S
      BY <1>5, <2>1, <2>2, <2>4
    <3>2. h[<<g, i>>] = f
      BY <2>1, <3>1
    <3> QED
      BY <3>1, <3>2
  <2> QED
    BY <2>3, <2>4
<1>13. \A x, y \in S : h[x] = h[y] => x = y
  <2> SUFFICES ASSUME NEW x \in S, NEW y \in S, h[x] = h[y] PROVE x = y
    OBVIOUS
  <2>1. /\ x = <<x[1], x[2]>> /\ x[1] \in Pages /\ x[2] \in Index
        /\ lv[x[1]] >= 2 /\ IsLink(m, x[1], x[2])
    BY <1>5
  <2>2. /\ y = <<y[1], y[2]>> /\ y[1] \in Pages /\ y[2] \in Index
        /\ lv[y[1]] >= 2 /\ IsLink(m, y[1], y[2])
    BY <1>5
  <2>3. FrameOf(m[x[1]][x[2]]) = FrameOf(m[y[1]][y[2]])
    OBVIOUS
  <2>4. x[1] = y[1] /\ (x[2] = y[2] \/ (x[1] = KPML4 /\ x[2] \in {0, E - 1} /\ y[2] \in {0, E - 1}))
    BY <2>1, <2>2, <2>3 DEF Tree, Once
  <2>5. x # last /\ y # last
    OBVIOUS
  <2>6. x[2] = y[2]
    BY <2>1, <2>2, <2>4, <2>5
  <2> QED
    BY <2>1, <2>2, <2>4, <2>6
<1> HIDE DEF S, h
<1>14. h \in Surjection(S, linked)
  BY <1>11, <1>12 DEF Surjection
<1>15. h \in Injection(S, linked)
  BY <1>11, <1>13 DEF Injection, IsInjective
<1>16. Cardinality(linked) = Cardinality(S)
  BY <1>10, <1>14, <1>15, FS_Surjection
<1>17. Cardinality(links) \in Nat
  BY <1>7, FS_CardinalityType
<1>18. Cardinality(links) = Cardinality(linked) + 1
  BY <1>10, <1>16, <1>17
<1> QED
  BY <1>18 DEF links, linked

----------------------------------------------------------------------------
(* The inductive invariant.                                                *)

\* The call under way in a memory m: the table it has reached, and once its
\* entry is written the translation it made.
Calling(m) ==
  /\ call.step \in 0 .. 5
  /\ call.step # 0 => call.virt \in Targets
  /\ call.step \in 1 .. 4 => call.frame \in Pages /\ OnWalk(m, call.virt, call.step, call.table)
  /\ call.step = 5 /\ call.frame # None /\ ~ IsIdentity(call.virt) =>
       translate(m, call.virt) = call.frame * PAGE_SIZE + (call.virt % E)
  /\ raw # None => raw \in Pages /\ call.step \in 2 .. 4

\* The tables in each phase of the boot.
Tables ==
  /\ phase \in {"start", "paging", "ready"}
  /\ phase = "start" => MemoryShape(mem) /\ Cleared(mem)
  /\ phase = "paging" => Tree(mem, KernelLevel)
  /\ phase # "ready" => fa = new /\ held = {} /\ call.step = 0 /\ raw = None
  /\ phase = "ready" => /\ \E lv : Tree(Settled, lv) /\ Accounted(fa, lv, held)
                        /\ Calling(Settled)

\* The translations the processor caches, none before paging::init.
Cached ==
  /\ DOMAIN tlb \subseteq Virts
  /\ phase = "start" => tlb = << >>
  /\ TlbCoherent

\* All of it until a table is overwritten.
TablesInv == intact \in BOOLEAN /\ (intact => Tables /\ Cached)

\* Addresses of the project are virtual addresses.
LEMMA VirtsAreVirtual ==
  /\ \A v \in Virts : v \in Virtual
  /\ \A v \in Targets : v \in Virts /\ v \in Virtual
  /\ \A v \in Touched : v \in Virts /\ v \in Virtual
BY VirtsAssumption DEF Virtual

\* It holds at the start.
LEMMA InitInv == Init => TablesInv /\ Tables /\ intact = TRUE
<1> SUFFICES ASSUME Init PROVE TablesInv /\ Tables /\ intact = TRUE
  OBVIOUS
<1>1. PICK junk \in Junk : mem = [f \in Pages |-> IF f \in KernelTables THEN ZeroTable
                                                  ELSE [i \in Index |-> junk]]
  BY DEF Init
<1>2. \A f \in Pages : mem[f] = [i \in Index |-> mem[f][i]]
  BY <1>1 DEF ZeroTable
<1>3. MemoryShape(mem)
  <2>1. mem = [f \in Pages |-> mem[f]]
    BY <1>1
  <2> QED
    BY <1>2, <2>1 DEF MemoryShape
<1>4. Cleared(mem)
  <2>1. \A f \in KernelTables : f \in Pages
    BY KernelTablesAssumption DEF KernelTables
  <2> QED
    BY <1>1, <2>1 DEF Cleared, ZeroTable
<1>5. /\ phase = "start" /\ fa = new /\ held = {} /\ tlb = << >>
      /\ call.step = 0 /\ raw = None /\ intact = TRUE
  BY DEF Init, NoCall, Call
<1>6. DOMAIN tlb = {}
  BY <1>5
<1>7. Tables
  BY <1>3, <1>4, <1>5 DEF Tables
<1>8. Cached
  BY <1>5, <1>6 DEF Cached, TlbCoherent
<1> QED
  BY <1>5, <1>7, <1>8 DEF TablesInv

\* A cached translation of a page that a call changes is a cached translation
\* of the very page the call names, unless the page is visible twice.
LEMMA OneName ==
  ASSUME NEW v \in Virtual, NEW w \in Virtual, SamePage(v, w), ~ IsIdentity(v),
         indices(w).pml4 \notin {0, E - 1} \/ IsIdentity(w)
  PROVE  w \div E = v \div E
<1>1. Root(v) = Root(w) /\ indices(v).pdpt = indices(w).pdpt
  BY SamePageParts
<1>2. indices(w).pml4 \notin {0, E - 1}
  BY <1>1 DEF Root, IsIdentity
<1>3. indices(v).pml4 # E - 1 /\ indices(w).pml4 # E - 1
  BY <1>1, <1>2 DEF Root
<1> QED
  BY <1>3 DEF SamePage, Canonical

\* The processor's cache through a step that is not the processor's and no
\* invlpg: the translations that change are those of a page to be flushed.
LEMMA CacheKept ==
  ASSUME intact, Cached, tlb' = tlb, wild' = wild, phase' # "start", call.step # 5,
         \A w \in Virtual :
           /\ indices(w).pml4 \notin {0, E - 1} \/ IsIdentity(w)
           /\ ~ (call'.step = 5 /\ w \div E = call'.virt \div E)
           => translate(Settled', w) = translate(Settled, w)
  PROVE  Cached'
<1>1. \A w \in DOMAIN tlb : w \in Virtual /\ w \in Virts
  BY VirtsAreVirtual DEF Cached
<1>2. ASSUME NEW w \in DOMAIN tlb, indices(w).pml4 \notin {0, E - 1} \/ IsIdentity(w),
             ~ (call'.step = 5 /\ w \div E = call'.virt \div E)
      PROVE  tlb[w] = translate(Settled', w) \/ (w \in wild /\ translate(Settled', w) = None)
  <2>1. translate(Settled', w) = translate(Settled, w)
    BY <1>1, <1>2
  <2>2. tlb[w] = translate(Settled, w) \/ (w \in wild /\ translate(Settled, w) = None)
    BY <1>2 DEF Cached, TlbCoherent, Pending
  <2> QED
    BY <2>1, <2>2
<1>3. TlbCoherent'
  BY <1>2 DEF TlbCoherent, Pending
<1> QED
  BY <1>1, <1>3 DEF Cached

\* A step that leaves the settled tables alone.
LEMMA SettledStep ==
  ASSUME intact, Tables, Cached, phase = "ready", phase' = phase, tlb' = tlb, wild' = wild,
         Settled' = Settled, call.step # 5, call'.step # 5,
         \E lv : Tree(Settled, lv) /\ Accounted(fa', lv, held'), Calling(Settled)'
  PROVE  Tables' /\ Cached'
<1>1. Tables'
  <2>1. \E lv : Tree(Settled', lv) /\ Accounted(fa', lv, held')
    OBVIOUS
  <2> QED
    BY <2>1 DEF Tables
<1>2. Cached'
  BY CacheKept
<1> QED
  BY <1>1, <1>2

\* paging::init
LEMMA InitPagingStep ==
  ASSUME intact, Tables, Cached, InitPaging
  PROVE  /\ Tables' /\ Cached'
         /\ \A v \in Virtual : /\ translate(Settled, v) = None
                               /\ translate(Settled', v) = IF IsIdentity(v) THEN Canonical(v) ELSE None
<1>1. /\ phase = "start" /\ phase' = "paging" /\ mem' = paging_init(mem) /\ tlb' = << >>
      /\ fa' = fa /\ held' = held /\ call' = call /\ raw' = raw
      /\ MemoryShape(mem) /\ Cleared(mem) /\ fa = new /\ held = {} /\ call.step = 0 /\ raw = None
  BY DEF InitPaging, Tables
<1>2. Settled = mem /\ Settled' = mem'
  BY <1>1 DEF Settled
<1>3. /\ Tree(mem', KernelLevel)
      /\ \A v \in Virtual : translate(mem', v) = IF IsIdentity(v) THEN Canonical(v) ELSE None
  BY <1>1, InitTree
<1>4. \A v \in Virtual : translate(mem, v) = None
  BY <1>1, ClearedTranslates
<1>5. Tables'
  BY <1>1, <1>3 DEF Tables
<1>6. DOMAIN tlb' = {}
  BY <1>1
<1>7. Cached'
  BY <1>1, <1>6 DEF Cached, TlbCoherent
<1> QED
  BY <1>2, <1>3, <1>4, <1>5, <1>7

\* phys::init
LEMMA InitFramesStep ==
  ASSUME intact, Tables, Cached, InitFrames
  PROVE  Tables' /\ Cached' /\ Settled' = Settled
<1>1. /\ phase = "paging" /\ phase' = "ready" /\ mem' = mem /\ tlb' = tlb /\ wild' = wild
      /\ held' = {} /\ call' = call /\ raw' = raw /\ call.step = 0 /\ raw = None
      /\ fa' = init(new, MemoryMap) /\ Tree(mem, KernelLevel)
  BY DEF InitFrames, Tables
<1>2. Settled = mem /\ Settled' = mem
  BY <1>1 DEF Settled
<1>3. FreePages(fa') = AvailablePages(MemoryMap) /\ \E extra \in Nat : WellFormed(fa', extra)
  <2>1. MemoryMap # << >> => WellFormed(fa', 0) /\ FreePages(fa') = AvailablePages(MemoryMap)
    BY <1>1, InitFillsBitmap
  <2>2. MemoryMap = << >> => WellFormed(fa', MAX_PAGES) /\ FreePages(fa') = {}
    BY <1>1, InitFillsBitmap
  <2>3. MemoryMap = << >> => AvailablePages(MemoryMap) = {}
    BY DEF AvailablePages
  <2> QED
    BY <2>1, <2>2, <2>3, MaxPagesAssumption
<1>4. \A f \in Pages : KernelLevel[f] # 0 => f \in KernelTables
  BY DEF KernelLevel, KernelTables
<1>5. Accounted(fa', KernelLevel, held')
  BY <1>1, <1>3, <1>4 DEF Accounted
<1>6. Calling(Settled)'
  BY <1>1 DEF Calling
<1>7. Tables'
  BY <1>1, <1>2, <1>5, <1>6 DEF Tables
<1>8. Cached'
  BY <1>1, <1>2, CacheKept
<1> QED
  BY <1>2, <1>7, <1>8

\* Between two calls.
LEMMA IdleFacts ==
  ASSUME Tables, Idle
  PROVE  /\ intact /\ phase = "ready" /\ call.step = 0 /\ raw = None /\ Settled = mem
         /\ Calling(mem)
         /\ \E lv : Tree(mem, lv) /\ Accounted(fa, lv, held)
<1>1. intact /\ phase = "ready" /\ call.step = 0 /\ Calling(Settled)
      /\ \E lv : Tree(Settled, lv) /\ Accounted(fa, lv, held)
  BY DEF Idle, Tables
<1>2. raw = None
  BY <1>1 DEF Calling
<1>3. Settled = mem
  BY <1>2 DEF Settled
<1> QED
  BY <1>1, <1>2, <1>3

\* The client takes a frame.
LEMMA TakeStep ==
  ASSUME Tables, Cached, Take
  PROVE  Tables' /\ Cached' /\ Settled' = Settled
<1>1. /\ Idle /\ phase' = phase /\ mem' = mem /\ tlb' = tlb /\ wild' = wild
      /\ call' = call /\ raw' = raw
      /\ alloc(fa).ret # None /\ fa' = alloc(fa).fa
      /\ held' = held \cup {alloc(fa).ret \div PAGE_SIZE}
  BY DEF Take
<1>2. /\ intact /\ phase = "ready" /\ call.step = 0 /\ Settled = mem /\ Calling(mem) /\ raw = None
  BY <1>1, IdleFacts
<1>3. PICK lv : Tree(mem, lv) /\ Accounted(fa, lv, held)
  BY <1>1, IdleFacts
<1>4. PICK z \in Pages :
        /\ alloc(fa).ret = z * PAGE_SIZE
        /\ \E extra \in Nat : WellFormed(alloc(fa).fa, extra)
        /\ z \in FreePages(fa) /\ FreePages(alloc(fa).fa) = FreePages(fa) \ {z}
        /\ (lv[z] = 0 \/ z \in KernelTables) /\ z \notin held
  BY <1>1, <1>3, AllocAccounted
<1>5. held' = held \cup {z}
  <2>1. z \in Nat
    BY MaxPagesAssumption DEF Pages
  <2> QED
    BY <1>1, <1>4, <2>1, PageOfPageAddress
<1>6. Accounted(fa', lv, held')
  BY <1>1, <1>3, <1>4, <1>5 DEF Accounted
<1>7. Settled' = mem /\ Calling(Settled)'
  BY <1>1, <1>2 DEF Calling, Settled
<1> QED
  BY <1>1, <1>2, <1>3, <1>6, <1>7, SettledStep

\* The client writes into a frame that is no table.
LEMMA FillStep ==
  ASSUME Tables, Cached, NEW frame \in Pages, Fill(frame), intact'
  PROVE  /\ Tables' /\ Cached'
         /\ \A v \in Virtual : translate(Settled', v) = translate(Settled, v)
<1>1. /\ Idle /\ frame \in held /\ phase' = phase /\ fa' = fa /\ held' = held /\ tlb' = tlb
      /\ wild' = wild /\ call' = call /\ raw' = raw /\ frame \notin TableFrames(mem)
  BY DEF Fill
<1>2. PICK junk \in Junk : mem' = [mem EXCEPT ![frame] = [i \in Index |-> junk]]
  BY DEF Fill
<1>3. /\ intact /\ phase = "ready" /\ call.step = 0 /\ Settled = mem /\ raw = None
  BY <1>1, IdleFacts
<1>4. PICK lv : Tree(mem, lv) /\ Accounted(fa, lv, held)
  BY <1>1, IdleFacts
<1>5. lv[frame] = 0
  BY <1>1, <1>4, TablesAreLevels
<1>6. MemoryShape(mem) /\ mem = [f \in Pages |-> mem[f]]
  BY <1>4 DEF Tree, MemoryShape
<1>7. MemoryShape(mem') /\ \A f \in Pages : f # frame => mem'[f] = mem[f]
  <2>1. \A f \in Pages : mem[f] = [i \in Index |-> mem[f][i]]
    BY <1>6 DEF MemoryShape
  <2>2. mem' = [f \in Pages |-> IF f = frame THEN [i \in Index |-> junk] ELSE mem[f]]
    BY <1>2, <1>6
  <2>3. \A f \in Pages : mem'[f] = [i \in Index |-> mem'[f][i]]
    BY <2>1, <2>2
  <2> QED
    BY <2>2, <2>3 DEF MemoryShape
<1>8. Tree(mem', lv) /\ \A v \in Virtual : translate(mem', v) = translate(mem, v)
  BY <1>4, <1>5, <1>7, ElsewhereKeeps
<1>9. Settled' = mem'
  BY <1>1, <1>3 DEF Settled
<1>10. Calling(Settled)'
  BY <1>1, <1>3 DEF Calling
<1>11. Tables'
  BY <1>1, <1>3, <1>4, <1>8, <1>9, <1>10 DEF Tables
<1>12. Cached'
  BY <1>1, <1>3, <1>8, <1>9, CacheKept
<1> QED
  BY <1>3, <1>8, <1>9, <1>11, <1>12

\* The client gives a frame back.
LEMMA GiveBackStep ==
  ASSUME Tables, Cached, NEW frame \in Pages, GiveBack(frame)
  PROVE  Tables' /\ Cached' /\ Settled' = Settled
<1>1. /\ Idle /\ frame \in held /\ phase' = phase /\ mem' = mem /\ tlb' = tlb /\ wild' = wild
      /\ call' = call /\ raw' = raw
      /\ fa' = free(fa, frame * PAGE_SIZE) /\ held' = held \ {frame}
  BY DEF GiveBack
<1>2. /\ intact /\ phase = "ready" /\ call.step = 0 /\ Settled = mem /\ Calling(mem) /\ raw = None
  BY <1>1, IdleFacts
<1>3. PICK lv : Tree(mem, lv) /\ Accounted(fa, lv, held)
  BY <1>1, IdleFacts
<1>4. PICK extra \in Nat : WellFormed(fa, extra)
  BY <1>3 DEF Accounted
<1>5. frame * PAGE_SIZE \in Nat /\ (frame * PAGE_SIZE) \div PAGE_SIZE = frame
  <2>1. frame \in Nat
    BY MaxPagesAssumption DEF Pages
  <2> QED
    BY <2>1, PageOfPageAddress
<1>6. WellFormed(fa', extra) /\ FreePages(fa') = FreePages(fa) \cup {frame}
  BY <1>1, <1>4, <1>5, FreeClearsOne
<1>7. frame \in AvailablePages(MemoryMap) /\ (lv[frame] = 0 \/ frame \in KernelTables)
  BY <1>1, <1>3 DEF Accounted
<1>8. Accounted(fa', lv, held')
  BY <1>1, <1>3, <1>6, <1>7 DEF Accounted
<1>9. Settled' = mem /\ Calling(Settled)'
  BY <1>1, <1>2 DEF Calling, Settled
<1> QED
  BY <1>1, <1>2, <1>3, <1>8, <1>9, SettledStep

\* map_page begins.
LEMMA MapPageStep ==
  ASSUME Tables, Cached, NEW virt \in Targets, NEW frame \in Pages, MapPage(virt, frame)
  PROVE  Tables' /\ Cached' /\ Settled' = Settled
<1>1. /\ Idle /\ phase' = phase /\ mem' = mem /\ tlb' = tlb /\ wild' = wild
      /\ fa' = fa /\ held' = held /\ raw' = raw /\ call' = Call(1, virt, frame, KPML4)
  BY DEF MapPage
<1>2. /\ intact /\ phase = "ready" /\ call.step = 0 /\ Settled = mem /\ raw = None
      /\ \E lv : Tree(mem, lv) /\ Accounted(fa, lv, held)
  BY <1>1, IdleFacts
<1>3. Settled' = mem
  BY <1>1, <1>2 DEF Settled
<1>4. call'.step = 1 /\ call'.virt = virt /\ call'.frame = frame /\ call'.table = KPML4
  BY <1>1 DEF Call
<1>5. OnWalk(mem, virt, 1, KPML4)
  BY DEF OnWalk
<1>6. Calling(Settled)'
  BY <1>1, <1>2, <1>3, <1>4, <1>5 DEF Calling
<1> QED
  BY <1>1, <1>2, <1>3, <1>4, <1>6, SettledStep

\* A call at one of its levels.
LEMMA AtLevelFacts ==
  ASSUME Tables, AtLevel
  PROVE  /\ intact /\ phase = "ready" /\ call.step \in 1 .. 3 /\ raw = None /\ Settled = mem
         /\ call.virt \in Targets /\ call.virt \in Virtual /\ call.frame \in Pages
         /\ OnWalk(mem, call.virt, call.step, call.table)
         /\ Reach = Reached(mem, fa, call.table)
         /\ \E lv : Tree(mem, lv) /\ Accounted(fa, lv, held)
<1>1. intact /\ call.step \in 1 .. 3 /\ raw = None
  BY DEF AtLevel
<1>2. phase = "ready"
  BY <1>1 DEF Tables
<1>3. Settled = mem
  BY <1>1 DEF Settled
<1>4. Calling(mem) /\ \E lv : Tree(mem, lv) /\ Accounted(fa, lv, held)
  BY <1>2, <1>3 DEF Tables
<1>5. call.step # 0 /\ call.step \in 1 .. 4
  BY <1>1
<1>6. call.virt \in Targets /\ call.frame \in Pages /\ OnWalk(mem, call.virt, call.step, call.table)
  BY <1>4, <1>5 DEF Calling
<1>7. Reach = Reached(mem, fa, call.table)
  BY DEF Reach, Reached
<1> QED
  BY <1>1, <1>2, <1>3, <1>4, <1>6, <1>7, VirtsAreVirtual

\* A level whose entry is present.
LEMMA FollowStep ==
  ASSUME Tables, Cached, Follow
  PROVE  Tables' /\ Cached' /\ Settled' = Settled
<1> DEFINE n == call.step
           v == call.virt
           t == call.table
           i == LevelIndex(v, n)
           u == FrameOf(mem[t][i])
<1>1. /\ AtLevel /\ phase' = phase /\ mem' = mem /\ tlb' = tlb /\ wild' = wild
      /\ fa' = fa /\ held' = held /\ raw' = raw /\ is_present(mem[t][i])
      /\ call' = Call(n + 1, v, call.frame, Link(Reach, i).table)
  BY DEF Follow
<1>2. /\ intact /\ phase = "ready" /\ n \in 1 .. 3 /\ raw = None /\ Settled = mem
      /\ v \in Targets /\ v \in Virtual /\ call.frame \in Pages
      /\ OnWalk(mem, v, n, t) /\ Reach = Reached(mem, fa, t)
      /\ \E lv : Tree(mem, lv) /\ Accounted(fa, lv, held)
  BY <1>1, AtLevelFacts
<1>3. Link(Reach, i) = Reached(mem, fa, u)
  BY <1>1, <1>2, LinkFollows
<1>4. Link(Reach, i).table = u
  BY <1>3 DEF Reached
<1>5. OnWalk(mem, v, n + 1, u)
  BY <1>1, <1>2, LevelFacts
<1>6. call'.step = n + 1 /\ call'.virt = v /\ call'.frame = call.frame /\ call'.table = u
  BY <1>1, <1>4 DEF Call
<1>7. Settled' = mem
  BY <1>1, <1>2 DEF Settled
<1> HIDE DEF u, i, n, v
<1>8. n + 1 \in 2 .. 4 /\ n # 5 /\ n + 1 # 5
  BY <1>2
<1>9. Calling(Settled)'
  BY <1>1, <1>2, <1>5, <1>6, <1>7, <1>8 DEF Calling
<1> QED
  BY <1>1, <1>2, <1>6, <1>7, <1>8, <1>9, SettledStep DEF n

\* A level that links a frame that is no table.
LEMMA LinkTableStep ==
  ASSUME Tables, Cached, LinkTable, intact'
  PROVE  /\ Tables' /\ Cached'
         /\ \A w \in Virtual : translate(Settled', w) = translate(Settled, w)
<1> DEFINE n == call.step
           v == call.virt
           t == call.table
           i == LevelIndex(v, n)
           s == Link(Reach, i)
<1>1. /\ AtLevel /\ ~ is_present(mem[t][i]) /\ s.ok /\ mem' = s.mem /\ fa' = s.fa
      /\ call' = Call(n + 1, v, call.frame, s.table) /\ raw' = s.table
      /\ s.table \notin TableFrames(mem) /\ held' = held /\ tlb' = tlb /\ phase' = phase
      /\ wild' = wild
  BY DEF LinkTable
<1>2. /\ intact /\ phase = "ready" /\ n \in 1 .. 3 /\ raw = None /\ Settled = mem
      /\ v \in Targets /\ v \in Virtual /\ call.frame \in Pages
      /\ OnWalk(mem, v, n, t) /\ Reach = Reached(mem, fa, t)
  BY <1>1, AtLevelFacts
<1>3. PICK lv : Tree(mem, lv) /\ Accounted(fa, lv, held)
  BY <1>1, AtLevelFacts
<1>4. alloc(fa).ret # None
  <2>1. SUFFICES ASSUME alloc(fa).ret = None PROVE FALSE
    OBVIOUS
  <2>2. Link(Reached(mem, fa, t), i).ok = FALSE
    BY <1>1, <2>1, LinkStops
  <2> QED
    BY <1>1, <1>2, <2>2
<1>5. PICK z \in Pages :
        /\ alloc(fa).ret = z * PAGE_SIZE
        /\ \E extra \in Nat : WellFormed(alloc(fa).fa, extra)
        /\ z \in FreePages(fa) /\ FreePages(alloc(fa).fa) = FreePages(fa) \ {z}
        /\ (lv[z] = 0 \/ z \in KernelTables) /\ z \notin held
  BY <1>3, <1>4, AllocAccounted
<1>6. PageTableEntry(alloc(fa).ret, {"PRESENT", "WRITABLE"}) = LinkTo(z) /\ FrameOf(LinkTo(z)) = z
  BY <1>5, KernelEntries DEF LinkTo
<1>7. s = Reached(Written(mem, t, i, LinkTo(z)), alloc(fa).fa, z)
  BY <1>1, <1>2, <1>4, <1>6, LinkAdds
<1>8. s.table = z /\ s.fa = alloc(fa).fa /\ s.mem = Written(mem, t, i, LinkTo(z))
  BY <1>7 DEF Reached
<1>9. /\ t \in Pages /\ lv[t] = 5 - n /\ i \in Index
  BY <1>2, <1>3, LevelFacts
<1>10. lv[z] = 0
  BY <1>1, <1>3, <1>8, TablesAreLevels
<1>11. lv[t] \in 2 .. 4 /\ lv[t] - 1 # 0
  BY <1>2, <1>9
<1> DEFINE p  == Grown(mem, t, i, z)
           lw == Raised(lv, t, z)
<1>12. Tree(p, lw)
  BY <1>1, <1>3, <1>9, <1>10, <1>11, GrowTree
<1>13. \A w \in Virtual : translate(p, w) = translate(mem, w)
  BY <1>1, <1>3, <1>9, <1>10, <1>11, GrowTranslates
<1>14. OnWalk(p, v, n + 1, z)
  BY <1>1, <1>2, <1>3, <1>10, GrownOnWalk
<1>15. raw' = z /\ z # None
  <2>1. z \in Nat
    BY MaxPagesAssumption DEF Pages
  <2> QED
    BY <1>1, <1>8, <2>1, NoneAssumption
<1>16. Settled' = p
  <2>1. Settled' = [Written(mem, t, i, LinkTo(z)) EXCEPT ![z] = ZeroTable]
    BY <1>1, <1>8, <1>15 DEF Settled
  <2> QED
    BY <2>1 DEF Grown, Written
<1>17. lw[z] = lv[t] - 1 /\ \A f \in Pages : f # z => lw[f] = lv[f]
  <2>1. lv \in [Pages -> 0 .. 4]
    BY <1>3 DEF Tree, Levels
  <2> QED
    BY <2>1 DEF Raised
<1> HIDE DEF p, lw, s, i
<1>18. z \notin KernelTables
  <2>1. \A f \in KernelTables : lv[f] >= 2
    BY <1>3, KernelLevels
  <2> QED
    BY <1>10, <2>1
<1>19. Accounted(fa', lw, held')
  BY <1>1, <1>3, <1>5, <1>8, <1>11, <1>17, <1>18 DEF Accounted
<1>20. call'.step = n + 1 /\ call'.virt = v /\ call'.frame = call.frame /\ call'.table = z
  BY <1>1, <1>8 DEF Call
<1> HIDE DEF n, v, t
<1>21. n + 1 \in 2 .. 4 /\ n # 5 /\ n + 1 # 5
  BY <1>2
<1>22. Calling(Settled)'
  BY <1>2, <1>14, <1>15, <1>16, <1>20, <1>21 DEF Calling
<1>23. Tables'
  BY <1>1, <1>2, <1>12, <1>16, <1>19, <1>22 DEF Tables
<1>24. \A w \in Virtual : translate(Settled', w) = translate(Settled, w)
  BY <1>2, <1>13, <1>16
<1>25. Cached'
  BY <1>1, <1>2, <1>21, <1>24, CacheKept DEF n
<1> QED
  BY <1>23, <1>24, <1>25

\* A level that finds no frame ends the call.
LEMMA NoFrameStep ==
  ASSUME Tables, Cached, NoFrame
  PROVE  Tables' /\ Cached' /\ Settled' = Settled
<1>1. /\ AtLevel /\ phase' = phase /\ mem' = mem /\ tlb' = tlb /\ wild' = wild
      /\ fa' = fa /\ held' = held /\ raw' = raw /\ call' = NoCall
  BY DEF NoFrame
<1>2. /\ intact /\ phase = "ready" /\ call.step \in 1 .. 3 /\ raw = None /\ Settled = mem
      /\ \E lv : Tree(mem, lv) /\ Accounted(fa, lv, held)
  BY <1>1, AtLevelFacts
<1>3. call'.step = 0
  BY <1>1 DEF NoCall, Call
<1>4. Settled' = mem
  BY <1>1, <1>2 DEF Settled
<1>5. Calling(Settled)'
  BY <1>1, <1>2, <1>3 DEF Calling
<1> QED
  BY <1>1, <1>2, <1>3, <1>4, <1>5, SettledStep

\* The new table is zeroed.
LEMMA ZeroStep ==
  ASSUME Tables, Cached, ZeroTheTable
  PROVE  Tables' /\ Cached' /\ Settled' = Settled
<1>1. /\ intact /\ raw # None /\ mem' = [mem EXCEPT ![raw] = ZeroTable] /\ raw' = None
      /\ fa' = fa /\ held' = held /\ tlb' = tlb /\ phase' = phase /\ call' = call /\ wild' = wild
  BY DEF ZeroTheTable, ZeroFrame
<1>2. phase = "ready"
  BY <1>1 DEF Tables
<1>3. Settled = mem' /\ Settled' = mem'
  BY <1>1 DEF Settled
<1>4. Calling(Settled) /\ \E lv : Tree(Settled, lv) /\ Accounted(fa, lv, held)
  BY <1>2 DEF Tables
<1>5. call.step \in 2 .. 4
  BY <1>1, <1>4 DEF Calling
<1>6. Calling(Settled)'
  BY <1>1, <1>3, <1>4 DEF Calling
<1>7. Settled' = Settled /\ call.step # 5 /\ call'.step # 5
  BY <1>1, <1>3, <1>5
<1>8. \E lv : Tree(Settled, lv) /\ Accounted(fa', lv, held')
  BY <1>1, <1>4
<1>9. phase' = phase /\ tlb' = tlb /\ wild' = wild
  BY <1>1
<1>10. Tables' /\ Cached'
  BY <1>1, <1>2, <1>6, <1>7, <1>8, <1>9, SettledStep
<1> QED
  BY <1>7, <1>10

\* What a write of a page's entry does: outside the identity mapping it
\* changes the translations of the page, inside it none, unless it hits a
\* table.
LEMMA EntryWritten ==
  ASSUME NEW m, NEW lv, Tree(m, lv), NEW v \in Virtual, NEW t, OnWalk(m, v, 4, t),
         NEW e, is_present(e) => e.addr \in Nat, ~ (IsIdentity(v) /\ t \in TableFrames(m))
  PROVE  LET p == Written(m, t, indices(v).pt, e)
         IN  /\ Tree(p, lv)
             /\ \A w \in Virtual :
                  translate(p, w) = IF ~ IsIdentity(v) /\ SamePage(v, w)
                                    THEN IF is_present(e) THEN e.addr + (w % E) ELSE None
                                    ELSE translate(m, w)
<1> DEFINE i == indices(v).pt
           p == Written(m, t, i, e)
<1>1. /\ t \in Pages /\ t = T1(m, v) /\ i \in Index
      /\ ~ IsIdentity(v) => Walked(m, v) /\ lv[t] = 1
  BY EntryFacts
<1>2. CASE ~ IsIdentity(v)
  BY <1>1, <1>2, WriteTranslates
<1>3. CASE IsIdentity(v)
  <2>1. lv[t] = 0
    BY <1>1, <1>3, TablesAreLevels
  <2>2. /\ MemoryShape(p)
        /\ \A g \in Pages, j \in Index : g # t \/ j # i => p[g][j] = m[g][j]
    BY <1>1, WriteWord DEF Tree
  <2> HIDE DEF p
  <2>3. \A g \in Pages, j \in Index : lv[g] # 0 => p[g][j] = m[g][j]
    BY <2>1, <2>2
  <2>4. Tree(p, lv) /\ \A w \in Virtual : translate(p, w) = translate(m, w)
    BY <2>2, <2>3, ElsewhereKeeps
  <2> QED
    BY <1>3, <2>4 DEF p
<1> QED
  BY <1>2, <1>3

\* The processor's cache when the entry of a page has changed.
LEMMA EntryCached ==
  ASSUME intact, Cached, tlb' = tlb, wild' = wild, phase' # "start", call.step # 5,
         NEW virt \in Virtual, call'.step = 5, call'.virt = virt,
         \A w \in Virtual :
           IsIdentity(virt) \/ ~ SamePage(virt, w) => translate(Settled', w) = translate(Settled, w)
  PROVE  Cached'
<1>1. ASSUME NEW w \in Virtual, indices(w).pml4 \notin {0, E - 1} \/ IsIdentity(w),
             ~ (call'.step = 5 /\ w \div E = call'.virt \div E)
      PROVE  translate(Settled', w) = translate(Settled, w)
  <2>1. w \div E # virt \div E
    BY <1>1
  <2>2. IsIdentity(virt) \/ ~ SamePage(virt, w)
    BY <1>1, <2>1, OneName
  <2> QED
    BY <2>2
<1> QED
  BY <1>1, CacheKept

\* The entry of the page is written.
LEMMA WriteStep ==
  ASSUME Tables, Cached, WritePageEntry, intact'
  PROVE  /\ Tables' /\ Cached' /\ call.virt \in Targets /\ call.frame \in Pages
         /\ \A w \in Virtual :
              translate(Settled', w) = IF ~ IsIdentity(call.virt) /\ SamePage(call.virt, w)
                                       THEN call.frame * PAGE_SIZE + (w % E)
                                       ELSE translate(Settled, w)
<1> DEFINE v == call.virt
           t == call.table
           e == PageEntry(call.frame * PAGE_SIZE, {"WRITABLE"})
           p == Written(mem, t, indices(v).pt, e)
<1>1. /\ intact /\ call.step = 4 /\ raw = None /\ mem' = p
      /\ call' = Call(5, v, call.frame, t) /\ ~ (IsIdentity(v) /\ t \in TableFrames(mem))
      /\ fa' = fa /\ held' = held /\ tlb' = tlb /\ phase' = phase /\ raw' = raw /\ wild' = wild
  BY DEF WritePageEntry, Written
<1>2. phase = "ready"
  BY <1>1 DEF Tables
<1>3. Settled = mem /\ Settled' = p
  BY <1>1 DEF Settled
<1>4. Calling(mem)
  BY <1>2, <1>3 DEF Tables
<1>5. PICK lv : Tree(mem, lv) /\ Accounted(fa, lv, held)
  BY <1>2, <1>3 DEF Tables
<1>6. v \in Targets /\ v \in Virtual /\ call.frame \in Pages /\ OnWalk(mem, v, 4, t)
  BY <1>1, <1>4, VirtsAreVirtual DEF Calling
<1>7. is_present(e) /\ e.addr = call.frame * PAGE_SIZE /\ e.addr \in Nat
  <2>1. call.frame \in Nat
    BY <1>6, MaxPagesAssumption DEF Pages
  <2>2. e.addr = call.frame * PAGE_SIZE /\ e.flags = {"WRITABLE"} \cup {"PRESENT"}
    BY <2>1, EntryPoints DEF PageEntry
  <2>3. call.frame * PAGE_SIZE \in Nat
    BY <2>1, PageSizeAssumption
  <2> HIDE DEF e
  <2> QED
    BY <2>2, <2>3 DEF is_present
<1> HIDE DEF e
<1>8. /\ Tree(p, lv)
      /\ \A w \in Virtual :
           translate(p, w) = IF ~ IsIdentity(v) /\ SamePage(v, w)
                             THEN IF is_present(e) THEN e.addr + (w % E) ELSE None
                             ELSE translate(mem, w)
  BY <1>1, <1>5, <1>6, <1>7, EntryWritten
<1> HIDE DEF p
<1>9. \A w \in Virtual :
        translate(Settled', w) = IF ~ IsIdentity(v) /\ SamePage(v, w)
                                 THEN call.frame * PAGE_SIZE + (w % E)
                                 ELSE translate(Settled, w)
  BY <1>3, <1>7, <1>8
<1>10. call'.step = 5 /\ call'.virt = v /\ call'.frame = call.frame
  BY <1>1 DEF Call
<1>11. SamePage(v, v)
  BY DEF SamePage
<1> HIDE DEF v, t
<1>12. ~ IsIdentity(v) => translate(Settled', v) = call.frame * PAGE_SIZE + (v % E)
  BY <1>6, <1>9, <1>11
<1>13. Calling(Settled)'
  BY <1>1, <1>6, <1>10, <1>12 DEF Calling
<1>14. Tables'
  BY <1>1, <1>2, <1>3, <1>5, <1>8, <1>13 DEF Tables
<1>15. Cached'
  <2>1. \A w \in Virtual :
          IsIdentity(v) \/ ~ SamePage(v, w) => translate(Settled', w) = translate(Settled, w)
    BY <1>9
  <2> QED
    BY <1>1, <1>2, <1>6, <1>10, <2>1, EntryCached
<1> QED
  BY <1>6, <1>9, <1>14, <1>15 DEF v

\* unmap_page up to its write.
LEMMA UnmapStep ==
  ASSUME Tables, Cached, NEW virt \in Targets, UnmapPage(virt), intact'
  PROVE  /\ Tables' /\ Cached'
         /\ ~ IsIdentity(virt) => translate(Settled, virt) # None
         /\ \A w \in Virtual :
              translate(Settled', w) = IF ~ IsIdentity(virt) /\ SamePage(virt, w) THEN None
                                       ELSE translate(Settled, w)
<1> DEFINE r == unmap_page(mem, virt)
           t == T1(mem, virt)
           i == indices(virt).pt
           p == Written(mem, t, i, empty)
<1>1. /\ Idle /\ r.ok /\ mem' = r.mem /\ call' = Call(5, virt, None, r.table)
      /\ ~ (IsIdentity(virt) /\ r.table \in TableFrames(mem))
      /\ fa' = fa /\ held' = held /\ tlb' = tlb /\ phase' = phase /\ raw' = raw /\ wild' = wild
  BY DEF UnmapPage
<1>2. /\ intact /\ phase = "ready" /\ call.step = 0 /\ Settled = mem /\ raw = None
  BY <1>1, IdleFacts
<1>3. PICK lv : Tree(mem, lv) /\ Accounted(fa, lv, held)
  BY <1>1, IdleFacts
<1>4. virt \in Virtual
  BY VirtsAreVirtual
<1>5. /\ is_present(mem[KPML4][indices(virt).pml4])
      /\ is_present(mem[T3(mem, virt)][indices(virt).pdpt])
      /\ is_present(mem[T2(mem, virt)][indices(virt).pd])
      /\ r.table = t /\ r.mem = p
  BY <1>1 DEF unmap_page, T3, T2, T1, Written
<1>6. OnWalk(mem, virt, 4, t)
  BY <1>5 DEF OnWalk
<1>7. ~ is_present(empty)
  BY DEF is_present, empty
<1>8. /\ Tree(p, lv)
      /\ \A w \in Virtual :
           translate(p, w) = IF ~ IsIdentity(virt) /\ SamePage(virt, w)
                             THEN IF is_present(empty) THEN empty.addr + (w % E) ELSE None
                             ELSE translate(mem, w)
  BY <1>1, <1>3, <1>4, <1>5, <1>6, <1>7, EntryWritten
<1>9. ~ IsIdentity(virt) => translate(mem, virt) # None
  BY <1>1, <1>3, <1>4, UnmapFacts
<1>10. Settled' = p
  BY <1>1, <1>2, <1>5 DEF Settled
<1> HIDE DEF p, r, t
<1>11. call'.step = 5 /\ call'.virt = virt /\ call'.frame = None
  BY <1>1 DEF Call
<1>12. Calling(Settled)'
  BY <1>1, <1>2, <1>11 DEF Calling
<1>13. Tables'
  BY <1>1, <1>2, <1>3, <1>8, <1>10, <1>12 DEF Tables
<1>14. \A w \in Virtual :
         translate(Settled', w) = IF ~ IsIdentity(virt) /\ SamePage(virt, w) THEN None
                                  ELSE translate(Settled, w)
  BY <1>2, <1>7, <1>8, <1>10
<1>15. Cached'
  <2>1. \A w \in Virtual :
          IsIdentity(virt) \/ ~ SamePage(virt, w) => translate(Settled', w) = translate(Settled, w)
    BY <1>14
  <2> QED
    BY <1>1, <1>2, <1>4, <1>11, <2>1, EntryCached
<1> QED
  BY <1>2, <1>9, <1>13, <1>14, <1>15

\* invlpg
LEMMA FlushStep ==
  ASSUME Tables, Cached, Flush
  PROVE  Tables' /\ Cached' /\ Settled' = Settled
<1>1. /\ intact /\ call.step = 5 /\ tlb' = invlpg(call.virt) /\ wild' = wild \cap DOMAIN tlb'
      /\ call' = NoCall /\ mem' = mem /\ fa' = fa /\ held' = held /\ phase' = phase
      /\ raw' = raw /\ intact' = intact
  BY DEF Flush
<1>2. phase = "ready"
  BY <1>1 DEF Tables
<1>3. Settled' = Settled
  BY <1>1 DEF Settled
<1>4. Calling(Settled) /\ \E lv : Tree(Settled, lv) /\ Accounted(fa, lv, held)
  BY <1>2 DEF Tables
<1>5. call'.step = 0
  BY <1>1 DEF NoCall, Call
<1>6. raw = None
  BY <1>1, <1>4 DEF Calling
<1>7. Calling(Settled)'
  BY <1>1, <1>5, <1>6 DEF Calling
<1>8. Tables'
  BY <1>1, <1>2, <1>3, <1>4, <1>7 DEF Tables
<1>9. DOMAIN tlb' = {w \in DOMAIN tlb : w \div E # call.virt \div E}
      /\ \A w \in DOMAIN tlb' : tlb'[w] = tlb[w]
  BY <1>1 DEF invlpg
<1>10. ASSUME NEW w \in DOMAIN tlb', indices(w).pml4 \notin {0, E - 1} \/ IsIdentity(w)
       PROVE  tlb'[w] = translate(Settled', w) \/ (w \in wild' /\ translate(Settled', w) = None)
  <2>1. w \in DOMAIN tlb /\ w \div E # call.virt \div E /\ tlb'[w] = tlb[w]
    BY <1>9, <1>10
  <2>2. tlb[w] = translate(Settled, w) \/ (w \in wild /\ translate(Settled, w) = None)
    BY <1>1, <1>10, <2>1 DEF Cached, TlbCoherent, Pending
  <2> QED
    BY <1>1, <1>3, <1>10, <2>1, <2>2
<1>11. TlbCoherent'
  BY <1>10 DEF TlbCoherent
<1>12. Cached'
  BY <1>1, <1>2, <1>9, <1>11 DEF Cached
<1> QED
  BY <1>3, <1>8, <1>12

\* A walk of the processor, also through a table that is not zeroed yet.
LEMMA WalkStep ==
  ASSUME Tables, Cached, NEW virt \in Touched, Walk(virt)
  PROVE  Tables' /\ Cached' /\ Settled' = Settled
<1>1. /\ intact /\ phase # "start" /\ phase' = phase /\ mem' = mem /\ fa' = fa /\ held' = held
      /\ call' = call /\ raw' = raw /\ intact' = intact
      /\ DOMAIN tlb' = DOMAIN tlb \cup {virt} /\ tlb'[virt] = translate(mem, virt)
      /\ (\A v \in DOMAIN tlb : v # virt => tlb'[v] = tlb[v])
      /\ wild' = IF translate(mem, virt) = translate(Settled, virt) THEN wild ELSE wild \cup {virt}
  BY DEF Walk
<1>2. Settled' = Settled
  BY <1>1 DEF Settled
<1>3. Tables'
  <2>1. Calling(Settled)' <=> Calling(Settled)
    BY <1>1, <1>2 DEF Calling
  <2> QED
    BY <1>1, <1>2, <2>1 DEF Tables
<1>4. translate(mem, virt) = translate(Settled, virt) \/ translate(Settled, virt) = None
  <2>1. CASE raw = None
    BY <2>1 DEF Settled
  <2>2. CASE raw # None
    <3>1. phase = "ready"
      BY <2>2 DEF Tables
    <3>2. PICK lv : Tree(Settled, lv)
      BY <3>1 DEF Tables
    <3>3. raw \in Pages
      BY <2>2, <3>1 DEF Tables, Calling
    <3>4. Settled = [mem EXCEPT ![raw] = ZeroTable]
      BY <2>2 DEF Settled
    <3>5. DOMAIN mem = Pages
      <4>1. DOMAIN Settled = Pages
        BY <3>2 DEF Tree, MemoryShape
      <4>2. DOMAIN Settled = DOMAIN mem
        BY <3>4
      <4> QED
        BY <4>1, <4>2
    <3>6. virt \in Virtual
      BY VirtsAreVirtual
    <3> QED
      BY <3>2, <3>3, <3>4, <3>5, <3>6, RawWalk
  <2> QED
    BY <2>1, <2>2
<1>5. DOMAIN tlb' \subseteq Virts
  BY <1>1, VirtsAreVirtual DEF Cached
<1>6. ASSUME NEW w \in DOMAIN tlb', indices(w).pml4 \notin {0, E - 1} \/ IsIdentity(w),
             ~ (call.step = 5 /\ w \div E = call.virt \div E)
      PROVE  tlb'[w] = translate(Settled', w) \/ (w \in wild' /\ translate(Settled', w) = None)
  <2>1. CASE w = virt
    BY <1>1, <1>2, <1>4, <2>1
  <2>2. CASE w # virt
    <3>1. w \in DOMAIN tlb /\ tlb'[w] = tlb[w]
      BY <1>1, <1>6, <2>2
    <3>2. tlb[w] = translate(Settled, w) \/ (w \in wild /\ translate(Settled, w) = None)
      BY <1>1, <1>6, <3>1 DEF Cached, TlbCoherent, Pending
    <3> QED
      BY <1>1, <1>2, <3>1, <3>2
  <2> QED
    BY <2>1, <2>2
<1>7. TlbCoherent'
  BY <1>1, <1>6 DEF TlbCoherent, Pending
<1> QED
  BY <1>1, <1>2, <1>3, <1>5, <1>7 DEF Cached

\* The steps that may overwrite a table, and the others.
LEMMA IntactStep ==
  ASSUME intact \in BOOLEAN, [Next]_vars
  PROVE  intact' \in BOOLEAN /\ (intact' => intact)
<1>1. CASE UNCHANGED vars
  BY <1>1 DEF vars
<1>2. CASE InitPaging \/ InitFrames \/ Take \/ NoFrame \/ Follow \/ ZeroTheTable \/ Flush \/ Overwritten
  BY <1>2 DEF InitPaging, InitFrames, Take, NoFrame, Follow, ZeroTheTable, Flush, Overwritten, vars
<1>3. ASSUME NEW frame \in Pages, Fill(frame) \/ GiveBack(frame)
      PROVE  intact' \in BOOLEAN /\ (intact' => intact)
  BY <1>3 DEF Fill, GiveBack, Idle
<1>4. ASSUME NEW virt \in Targets, NEW frame \in Pages, MapPage(virt, frame)
      PROVE  intact' \in BOOLEAN /\ (intact' => intact)
  BY <1>4 DEF MapPage
<1>5. ASSUME NEW virt \in Targets, UnmapPage(virt)
      PROVE  intact' \in BOOLEAN /\ (intact' => intact)
  <2>1. intact /\ intact' = ~ (IsIdentity(virt) /\ unmap_page(mem, virt).table \in TableFrames(mem))
    BY <1>5 DEF UnmapPage, Idle
  <2> QED
    BY <2>1
<1>6. ASSUME NEW virt \in Touched, Walk(virt)
      PROVE  intact' \in BOOLEAN /\ (intact' => intact)
  BY <1>6 DEF Walk
<1>7. CASE LinkTable
  <2>1. intact /\ intact' = (Link(Reach, LevelIndex(call.virt, call.step)).table \notin TableFrames(mem))
    BY <1>7 DEF LinkTable, AtLevel
  <2> QED
    BY <2>1
<1>8. CASE WritePageEntry
  <2>1. intact /\ intact' = ~ (IsIdentity(call.virt) /\ call.table \in TableFrames(mem))
    BY <1>8 DEF WritePageEntry
  <2> QED
    BY <2>1
<1> QED
  BY <1>1, <1>2, <1>3, <1>4, <1>5, <1>6, <1>7, <1>8 DEF Next

\* Every step keeps the invariant.
LEMMA NextInv == TablesInv /\ [Next]_vars => TablesInv'
<1> SUFFICES ASSUME TablesInv, [Next]_vars, intact' PROVE Tables' /\ Cached'
  BY IntactStep DEF TablesInv
<1>0. intact /\ Tables /\ Cached
  BY IntactStep DEF TablesInv
<1>1. CASE InitPaging
  BY <1>0, <1>1, InitPagingStep
<1>2. CASE InitFrames
  BY <1>0, <1>2, InitFramesStep
<1>3. CASE Take
  BY <1>0, <1>3, TakeStep
<1>4. ASSUME NEW frame \in Pages, Fill(frame) PROVE Tables' /\ Cached'
  BY <1>0, <1>4, FillStep
<1>5. ASSUME NEW frame \in Pages, GiveBack(frame) PROVE Tables' /\ Cached'
  BY <1>0, <1>5, GiveBackStep
<1>6. ASSUME NEW virt \in Targets, NEW frame \in Pages, MapPage(virt, frame) PROVE Tables' /\ Cached'
  BY <1>0, <1>6, MapPageStep
<1>7. CASE Follow
  BY <1>0, <1>7, FollowStep
<1>8. CASE LinkTable
  BY <1>0, <1>8, LinkTableStep
<1>9. CASE NoFrame
  BY <1>0, <1>9, NoFrameStep
<1>10. CASE ZeroTheTable
  BY <1>0, <1>10, ZeroStep
<1>11. CASE WritePageEntry
  BY <1>0, <1>11, WriteStep
<1>12. ASSUME NEW virt \in Targets, UnmapPage(virt) PROVE Tables' /\ Cached'
  BY <1>0, <1>12, UnmapStep
<1>13. CASE Flush
  BY <1>0, <1>13, FlushStep
<1>14. ASSUME NEW virt \in Touched, Walk(virt) PROVE Tables' /\ Cached'
  BY <1>0, <1>14, WalkStep
<1>15. CASE Overwritten
  BY <1>0, <1>15 DEF Overwritten
<1>16. CASE UNCHANGED vars
  BY <1>0, <1>16 DEF vars, Tables, Calling, Settled, Cached, TlbCoherent, Pending
<1> QED
  BY <1>1, <1>2, <1>3, <1>4, <1>5, <1>6, <1>7, <1>8, <1>9, <1>10, <1>11, <1>12, <1>13, <1>14,
     <1>15, <1>16 DEF Next

\* The invariant holds in every state.
LEMMA AlwaysInv == Spec => []TablesInv
BY InitInv, NextInv, PTL DEF Spec

----------------------------------------------------------------------------
(* The theorems.  None has a hypothesis on the memory map or on the        *)
(* addresses that are mapped; each of them ends where a table is           *)
(* overwritten (intact).                                                   *)

\* What the TLB may show: map_page and unmap_page flush the page they change,
\* and it is the only cached one whose translation changes unless the page is
\* visible through both ends of the root table; a translation read from a new
\* table before it is zeroed stays cached only while its address is unmapped.
THEOREM TlbCorrect == Spec => []TlbCoherent
<1>1. TablesInv => TlbCoherent
  BY DEF TablesInv, Cached, TlbCoherent
<1> QED
  BY <1>1, AlwaysInv, PTL

\* map_page maps: outside the identity mapping a call that reaches its invlpg
\* has its address translated to its frame, whatever was mapped before and
\* however many tables the call had to make.
THEOREM MapPageCorrect == Spec => []MapPageMaps
<1>1. TablesInv => MapPageMaps
  <2> SUFFICES ASSUME TablesInv, intact, call.step = 5, call.frame # None, ~ IsIdentity(call.virt)
               PROVE  translate(mem, call.virt) = call.frame * PAGE_SIZE + (call.virt % E)
    BY DEF MapPageMaps
  <2>1. phase = "ready" /\ Calling(Settled)
    BY DEF TablesInv, Tables
  <2>2. raw = None
    BY <2>1 DEF Calling
  <2> QED
    BY <2>1, <2>2 DEF Calling, Settled
<1> QED
  BY <1>1, AlwaysInv, PTL

\* Between any two writes of a call every offered frame that is not free is a
\* page table or held, no table map_page made is held, and every table is
\* linked from one entry, the one both ends of the root table lead to from
\* two: a map_page that fails half way neither leaks a frame nor shares a
\* table.
THEOREM AccountCorrect == Spec => []FramesAccounted
<1>1. TablesInv => FramesAccounted
  <2> DEFINE m       == Settled
             linked  == Pdpts(m) \cup Pds(m) \cup Pts(m)
             dynamic == linked \ KernelTables
             links   == Links(m, {KPML4} \cup Pdpts(m) \cup Pds(m))
  <2> SUFFICES ASSUME TablesInv, phase = "ready", intact
               PROVE  /\ AvailablePages(MemoryMap) \ FreePages(fa) = dynamic \cup held
                      /\ dynamic \cap held = {}
                      /\ Cardinality(links) = Cardinality(linked) + 1
    BY DEF FramesAccounted
  <2>1. PICK lv : Tree(m, lv) /\ Accounted(fa, lv, held)
    BY DEF TablesInv, Tables
  <2> HIDE DEF m
  <2>2. Cardinality(links) = Cardinality(linked) + 1
    BY <2>1, LinkCount
  <2>3. lv \in [Pages -> 0 .. 4] /\ \A f \in Pages : lv[f] = 4 <=> f = KPML4
    BY <2>1 DEF Tree, Levels
  <2>4. linked = {f \in Pages : lv[f] \in 1 .. 3}
    BY <2>1, <2>3, TablesByLevel
  <2> HIDE DEF linked, links
  <2>5. KPML4 \in KernelTables
    BY DEF KernelTables
  <2>6. dynamic = {f \in Pages : lv[f] # 0 /\ f \notin KernelTables}
    BY <2>3, <2>4, <2>5
  <2>7. AvailablePages(MemoryMap) \subseteq Pages
    BY DEF AvailablePages
  <2> HIDE DEF dynamic
  <2>8. AvailablePages(MemoryMap) \ FreePages(fa) = dynamic \cup held
    BY <2>1, <2>6, <2>7 DEF Accounted
  <2>9. dynamic \cap held = {}
    BY <2>1, <2>6 DEF Accounted
  <2> QED
    BY <2>2, <2>8, <2>9
<1> QED
  BY <1>1, AlwaysInv, PTL

\* The tables implement an address space without tables: every write of the
\* kernel is a step of AddressSpace or changes no translation.
THEOREM SpaceCorrect == Spec => SpaceSpec
<1> DEFINE sp == [v \in Virts |-> translate(Settled, v)]
<1>1. Init => Space!Init
  <2> SUFFICES ASSUME Init PROVE Space!Init
    OBVIOUS
  <2>1. Cleared(mem) /\ raw = None /\ intact = TRUE
    BY InitInv DEF Tables, Init
  <2>2. Settled = mem
    BY <2>1 DEF Settled
  <2>3. \A v \in Virts : translate(Settled, v) = None
    BY <2>1, <2>2, ClearedTranslates, VirtsAreVirtual
  <2> QED
    BY <2>1, <2>3 DEF Space!Init
<1>2. TablesInv /\ [Next]_vars => [Space!Next]_<<sp, intact>>
  <2> SUFFICES ASSUME TablesInv, [Next]_vars PROVE Space!Next \/ (sp' = sp /\ intact' = intact)
    OBVIOUS
  <2>0. intact' \in BOOLEAN /\ (intact' => intact) /\ intact \in BOOLEAN
    BY IntactStep DEF TablesInv
  <2>1. CASE intact' = FALSE
    BY <2>1 DEF Space!Next, Space!Lose
  <2>2. CASE intact' # FALSE
    <3>0. intact = TRUE /\ intact' = TRUE /\ Tables /\ Cached
      BY <2>0, <2>2 DEF TablesInv
    <3>1. ((\A v \in Virts : translate(Settled', v) = translate(Settled, v)) => sp' = sp)
          /\ (Settled' = Settled => sp' = sp)
      OBVIOUS
    <3>2. CASE InitPaging
      <4>1. \A v \in Virts : /\ translate(Settled, v) = None
                             /\ translate(Settled', v) = IF IsIdentity(v) THEN Canonical(v) ELSE None
        BY <3>0, <3>2, InitPagingStep, VirtsAreVirtual
      <4>2. Space!Setup
        BY <4>1 DEF Space!Setup
      <4> QED
        BY <3>0, <4>2 DEF Space!Next
    <3>3. CASE InitFrames
      BY <3>0, <3>1, <3>3, InitFramesStep
    <3>4. CASE Take
      BY <3>0, <3>1, <3>4, TakeStep
    <3>5. ASSUME NEW frame \in Pages, Fill(frame) PROVE sp' = sp
      <4>1. \A v \in Virtual : translate(Settled', v) = translate(Settled, v)
        BY <3>0, <3>5, FillStep
      <4> QED
        BY <3>1, <4>1, VirtsAreVirtual
    <3>6. ASSUME NEW frame \in Pages, GiveBack(frame) PROVE sp' = sp
      BY <3>0, <3>1, <3>6, GiveBackStep
    <3>7. ASSUME NEW virt \in Targets, NEW frame \in Pages, MapPage(virt, frame) PROVE sp' = sp
      BY <3>0, <3>1, <3>7, MapPageStep
    <3>8. CASE Follow
      BY <3>0, <3>1, <3>8, FollowStep
    <3>9. CASE LinkTable
      <4>1. \A v \in Virtual : translate(Settled', v) = translate(Settled, v)
        BY <3>0, <3>9, LinkTableStep
      <4> QED
        BY <3>0, <3>1, <4>1, VirtsAreVirtual
    <3>10. CASE NoFrame
      BY <3>0, <3>1, <3>10, NoFrameStep
    <3>11. CASE ZeroTheTable
      BY <3>0, <3>1, <3>11, ZeroStep
    <3>12. CASE WritePageEntry
      <4> DEFINE virt == call.virt
                 a == call.frame * PAGE_SIZE
      <4>1. /\ virt \in Targets /\ call.frame \in Pages
            /\ \A w \in Virtual : translate(Settled', w) = IF ~ IsIdentity(virt) /\ SamePage(virt, w)
                                                           THEN a + (w % E) ELSE translate(Settled, w)
        BY <3>0, <3>12, WriteStep
      <4>2. CASE IsIdentity(virt)
        <5>1. \A w \in Virts : translate(Settled', w) = translate(Settled, w)
          BY <4>1, <4>2, VirtsAreVirtual
        <5> QED
          BY <3>0, <3>1, <5>1
      <4>3. CASE ~ IsIdentity(virt)
        <5>1. \A w \in Virts : translate(Settled', w) = IF SamePage(virt, w) THEN a + (w % E)
                                                        ELSE translate(Settled, w)
          BY <4>1, <4>3, VirtsAreVirtual
        <5>2. a \in Nat /\ (\A w \in Virts : w % E \in Nat) /\ virt \in Virts
          <6>1. \A w \in Virts : w \in Nat
            BY VirtsAreVirtual, SlotIsIndex
          <6>2. call.frame \in Nat
            BY <4>1, MaxPagesAssumption DEF Pages
          <6>3. a \in Nat
            BY <6>2, PageSizeAssumption
          <6> QED
            BY <4>1, <6>1, <6>3, VirtsAreVirtual, TableSizeAssumption
        <5> HIDE DEF a, virt
        <5>3. translate(Settled', virt) = a + (virt % E)
          BY <5>1, <5>2 DEF SamePage
        <5>4. translate(Settled', virt) # None
          BY <5>2, <5>3, NoneAssumption
        <5>5. \A w \in Virts : a + (w % E) = translate(Settled', virt) - (virt % E) + (w % E)
          BY <5>2, <5>3
        <5>6. Space!Map(virt)
          BY <4>3, <5>1, <5>2, <5>4, <5>5 DEF Space!Map
        <5> QED
          BY <3>0, <5>2, <5>6 DEF Space!Next
      <4> QED
        BY <4>2, <4>3
    <3>13. ASSUME NEW virt \in Targets, UnmapPage(virt)
           PROVE  Space!Next \/ (sp' = sp /\ intact' = intact)
      <4>1. /\ ~ IsIdentity(virt) => translate(Settled, virt) # None
            /\ \A w \in Virtual : translate(Settled', w) = IF ~ IsIdentity(virt) /\ SamePage(virt, w)
                                                           THEN None ELSE translate(Settled, w)
        BY <3>0, <3>13, UnmapStep
      <4>2. CASE IsIdentity(virt)
        <5>1. \A w \in Virts : translate(Settled', w) = translate(Settled, w)
          BY <4>1, <4>2, VirtsAreVirtual
        <5> QED
          BY <3>0, <3>1, <5>1
      <4>3. CASE ~ IsIdentity(virt)
        <5>1. /\ virt \in Virts /\ translate(Settled, virt) # None
              /\ \A w \in Virts : translate(Settled', w) = IF SamePage(virt, w) THEN None
                                                           ELSE translate(Settled, w)
          BY <4>1, <4>3, VirtsAreVirtual
        <5>2. Space!Unmap(virt)
          BY <4>3, <5>1 DEF Space!Unmap
        <5> QED
          BY <3>0, <5>1, <5>2 DEF Space!Next
      <4> QED
        BY <4>2, <4>3
    <3>14. CASE Flush
      BY <3>0, <3>1, <3>14, FlushStep
    <3>15. ASSUME NEW virt \in Touched, Walk(virt) PROVE sp' = sp
      BY <3>0, <3>1, <3>15, WalkStep
    <3>16. CASE Overwritten
      BY <3>0, <3>16 DEF Overwritten
    <3>17. CASE UNCHANGED vars
      <4>1. Settled' = Settled
        BY <3>17 DEF vars, Settled
      <4> QED
        BY <3>0, <3>1, <4>1
    <3> QED
      BY <3>0, <3>2, <3>3, <3>4, <3>5, <3>6, <3>7, <3>8, <3>9, <3>10, <3>11, <3>12, <3>13, <3>14,
         <3>15, <3>16, <3>17 DEF Next
  <2> QED
    BY <2>1, <2>2
<1> QED
  BY <1>1, <1>2, AlwaysInv, PTL DEF Spec, SpaceSpec, Space!Spec
=============================================================================
