--------------------------- MODULE HostMapProofs ---------------------------
(***************************************************************************)
(* Proofs for HostMap.  The argument follows a page of the router from its *)
(* area to the list and from the list to the tables of the hypervisor:     *)
(*                                                                         *)
(*   - the list is built from the last area to the first (ReadInv);        *)
(*   - after that every page is in the list or entered (UpdateInv);        *)
(*   - what is entered stays: small pages and huge ones are in different   *)
(*     regions because huge areas are made of whole regions, regions have  *)
(*     different tables (OwnTable), and a large page is entered for good   *)
(*     only by the first page of its region, which the list has last       *)
(*     (OrderInv): entries before it write the frame of a later page;      *)
(*   - regions with a table are counted by num_used (CountInv).            *)
(***************************************************************************)
EXTENDS HostMap, SequenceTheorems, FiniteSetTheorems, TLAPS

\* The region of a page, and its place there.
Region(p) == p \div Big
Offset(p) == p % Big

\* The entries of the page directory, and those of a page table.
Dir == 0..Regions-1
Slots == 0..Big-1

\* The regions that have a page table.
Tabled == {r \in Dir : ~hpd[r].pse}

\* The page is still to be entered.
InList(p) == \E j \in 1..Len(head_hva) : head_hva[j].vaddr = p

\* What the hypercall finds, and does not change.
InputInv ==
    /\ maps \in Maps /\ gpt \in GuestTables /\ Backed(maps, gpt) /\ walk \in Walks
    /\ signal \in AreaPages(FALSE) /\ gpt[signal] # None

\* The types of what it changes.
Typed ==
    /\ pc \in {"read", "update", "signal", "done", "halted"}
    /\ head_hva \in Seq(PageEntry)
    /\ hpd \in [Dir -> DirEntry]
    /\ pts \in [1..Pool -> [Slots -> Pages \cup {None}]]
    /\ num_used \in 0..Pool
    /\ tlb \subseteq RegionsOf(walk)

\* Every page of the list is of the router, and stands for what the guest has
\* there.
EntryInv ==
    \A j \in 1..Len(head_hva) :
        LET e == head_hva[j]
        IN  /\ e.is_huge_page => e.vaddr \in AreaPages(TRUE)
            /\ ~e.is_huge_page => e.vaddr \in AreaPages(FALSE)
            /\ e.paddr = Gva2gpa(e.vaddr)

\* The first page of a region of a huge area comes last of all that are in the
\* region.
OrderInv ==
    \A j, k \in 1..Len(head_hva) :
        /\ j < k /\ head_hva[j].is_huge_page /\ Offset(head_hva[j].vaddr) = 0
        => Region(head_hva[k].vaddr) # Region(head_hva[j].vaddr)

\* What an area is to the list.
Listed(a) ==
    \A p \in PagesOf(a) : ~Huge(a) \/ Offset(p) = 0 => InList(p)

\* The areas after todo are in the list, those up to todo lie below it.
ReadInv ==
    pc = "read" =>
        /\ todo \in 1..Len(maps)
        /\ \A i \in todo+1..Len(maps) : Listed(maps[i])
        /\ \A j \in 1..Len(head_hva) : maps[todo].end_addr <= head_hva[j].vaddr
        /\ Tabled = {}

\* A page is in the tables of the hypervisor.
Entered(p) ==
    /\ ~hpd[Region(p)].pse
    /\ pts[hpd[Region(p)].addr][Offset(p)] = Gva2gpa(p)

\* No page of the region is in the list any more.
NoneLeft(r) == \A k \in 1..Len(head_hva) : Region(head_hva[k].vaddr) # r

\* The region of the page is mapped as a whole, for good.
EnteredHuge(p) ==
    /\ hpd[Region(p)] = [pse |-> TRUE, addr |-> Gva2gpa(p), user |-> TRUE]
    /\ NoneLeft(Region(p))

\* Every page is still in the list, or entered.
UpdateInv ==
    pc # "read" =>
        /\ \A p \in AreaPages(FALSE) : InList(p) \/ Entered(p)
        /\ \A p \in AreaPages(TRUE) : Offset(p) = 0 => InList(p) \/ EnteredHuge(p)

\* Tables belong to regions of small pages, large user pages to huge areas.
DirInv ==
    /\ \A r \in Tabled :
        /\ hpd[r].addr \in 1..num_used
        /\ r \in RegionsOf(AreaPages(FALSE))
        /\ hpd[r].user
    /\ \A r \in Dir \ Tabled : hpd[r].user => r \in RegionsOf(AreaPages(TRUE))

\* No two regions share a table.
OwnTable == \A q, r \in Tabled : hpd[q].addr = hpd[r].addr => q = r

\* A table maps pages of the router only.
TableInv ==
    \A r \in Tabled : \A i \in Slots :
        pts[hpd[r].addr][i] # None => Big * r + i \in AreaPages(FALSE)

\* Every page taken from app_pl is the table of a region.
CountInv == IsFiniteSet(Tabled) /\ Cardinality(Tabled) = num_used

\* How the hypercall ends.
EndInv ==
    /\ pc \in {"signal", "done"} => head_hva = <<>>
    /\ pc = "halted" => Pool < Cardinality(RegionsOf(AreaPages(FALSE)))
    /\ SignalDelivered

IInv == /\ InputInv /\ Typed /\ EntryInv /\ OrderInv /\ ReadInv /\ UpdateInv
        /\ DirInv /\ OwnTable /\ TableInv /\ CountInv /\ EndInv

-----------------------------------------------------------------------------
(***************************************************************************)
(* Regions.                                                                *)
(***************************************************************************)

\* Multiplication keeps the order.
LEMMA Times ==
    ASSUME NEW b \in Nat \ {0}, NEW x \in Int, NEW y \in Int, x <= y
    PROVE  b * x <= b * y /\ b * x \in Int /\ b * y \in Int
OBVIOUS

\* The multiple that follows a multiple.
LEMMA NextMultiple ==
    ASSUME NEW b \in Nat \ {0}, NEW x \in Nat
    PROVE  b * (x + 1) = b * x + b /\ b * x \in Nat
OBVIOUS

\* Division with remainder.
LEMMA Division ==
    ASSUME NEW b \in Nat \ {0}, NEW p \in Nat
    PROVE  /\ p \div b \in Nat /\ p % b \in 0..b-1
           /\ p = b * (p \div b) + (p % b)
OBVIOUS

\* A page is below a region iff its region is.
LEMMA Below ==
    ASSUME NEW b \in Nat \ {0}, NEW p \in Nat, NEW m \in Nat
    PROVE  p < b * m <=> p \div b < m
<1> DEFINE q == p \div b
           o == p % b
<1>1. q \in Nat /\ o \in 0..b-1 /\ p = b * q + o
  BY Division, Zenon
<1> HIDE DEF q, o
<1>2. CASE q < m
  <2>1. b * (q + 1) <= b * m
    BY <1>1, <1>2, Times
  <2>2. b * (q + 1) = b * q + b
    BY <1>1
  <2>3. p < b * m
    BY <1>1, <2>1, <2>2
  <2> QED
    BY <1>2, <2>3 DEF q
<1>3. CASE ~(q < m)
  <2>1. b * m <= b * q
    BY <1>1, <1>3, Times
  <2>2. ~(p < b * m)
    BY <1>1, <2>1
  <2> QED
    BY <1>3, <2>2 DEF q
<1> QED
  BY <1>2, <1>3

\* Quotient and remainder are unique.
LEMMA Unique ==
    ASSUME NEW b \in Nat \ {0}, NEW r \in Nat, NEW i \in 0..b-1
    PROVE  /\ b * r + i \in Nat
           /\ (b * r + i) \div b = r /\ (b * r + i) % b = i
<1> DEFINE p == b * r + i
<1>1. p \in Nat /\ b * r \in Nat /\ b * (r + 1) = b * r + b
  OBVIOUS
<1>2. p < b * (r + 1) /\ ~(p < b * r)
  BY <1>1
<1>3. p \div b < r + 1 /\ ~(p \div b < r)
  <2> HIDE DEF p
  <2> QED
    BY <1>1, <1>2, Below
<1>4. /\ p = b * (p \div b) + (p % b) /\ p % b \in 0..b-1
      /\ p \div b \in Nat
  <2> HIDE DEF p
  <2> QED
    BY <1>1, Division, Zenon
<1>5. p \div b = r
  <2>1. \A q \in Nat : q < r + 1 /\ ~(q < r) => q = r
    OBVIOUS
  <2> HIDE DEF p
  <2> QED
    BY <1>3, <1>4, <2>1, Zenon
<1> QED
  BY <1>1, <1>4, <1>5

\* The constants.
LEMMA BigNat ==
    /\ Big \in Nat \ {0} /\ 2 * Big \in Nat \ {0}
    /\ Regions \in Nat /\ Pool \in Nat /\ None = -1
    /\ Big * Regions \in Nat
BY ConstantsAssumption DEF None

\* The region of a page and its place there.
LEMMA RegionFacts ==
    ASSUME NEW p \in Nat
    PROVE  /\ Region(p) \in Nat /\ Offset(p) \in Slots
           /\ p = Big * Region(p) + Offset(p)
BY BigNat, Division, Zenon DEF Region, Offset, Slots

\* A page below the hypervisor is in one of the regions below it.
LEMMA PageFacts ==
    ASSUME NEW p \in Pages
    PROVE  p \in Nat /\ Region(p) \in Dir
<1>1. p \in Nat /\ p < Big * Regions
  BY BigNat DEF Pages
<1>2. Region(p) < Regions /\ Region(p) \in Nat
  BY <1>1, BigNat, Below, RegionFacts, Zenon DEF Region
<1> QED
  BY <1>1, <1>2, BigNat DEF Dir

\* The page at a place of a region.
LEMMA PlaceFacts ==
    ASSUME NEW r \in Nat, NEW i \in Slots
    PROVE  /\ Big * r + i \in Nat
           /\ Region(Big * r + i) = r /\ Offset(Big * r + i) = i
BY BigNat, Unique DEF Region, Offset, Slots

\* The first page of a region.
LEMMA FirstPage ==
    ASSUME NEW r \in Nat
    PROVE  Big * r \in Nat /\ Region(Big * r) = r /\ Offset(Big * r) = 0
<1>1. 0 \in Slots
  BY BigNat DEF Slots
<1>2. Big * r + 0 = Big * r /\ Big * r \in Nat
  BY BigNat
<1> QED
  BY <1>1, <1>2, PlaceFacts

-----------------------------------------------------------------------------
(***************************************************************************)
(* Areas.                                                                  *)
(***************************************************************************)

\* What is assumed of the areas of the router.
LEMMA AreaFacts ==
    ASSUME InputInv, NEW i \in 1..Len(maps)
    PROVE  /\ maps[i].start_addr \in Nat /\ maps[i].end_addr \in Nat
           /\ Huge(maps[i]) \in BOOLEAN
           /\ maps[i].start_addr < maps[i].end_addr
           /\ PagesOf(maps[i]) \subseteq Pages
           /\ \A j \in 1..i-1 : maps[j].end_addr <= maps[i].start_addr
           /\ Huge(maps[i]) => /\ maps[i].start_addr % (2 * Big) = 0
                               /\ maps[i].end_addr % (2 * Big) = 0
<1>1. maps \in Seq(Areas) /\ maps \in Maps
  BY ConstantsAssumption DEF InputInv
<1>2. maps[i] \in Areas
  BY <1>1
<1>3. /\ maps[i].start_addr \in Nat /\ maps[i].end_addr \in Nat
      /\ Huge(maps[i]) \in BOOLEAN
  BY <1>2 DEF Areas, Huge
<1>4. /\ PagesOf(maps[i]) # {} /\ PagesOf(maps[i]) \subseteq Pages
      /\ \A j \in 1..i-1 : maps[j].end_addr <= maps[i].start_addr
      /\ Huge(maps[i]) => /\ maps[i].start_addr % (2 * Big) = 0
                          /\ maps[i].end_addr % (2 * Big) = 0
  BY <1>1, ConstantsAssumption
<1>5. maps[i].start_addr < maps[i].end_addr
  BY <1>3, <1>4 DEF PagesOf
<1> QED
  BY <1>3, <1>4, <1>5

\* The pages of the areas of one kind.
LEMMA AreaOf ==
    ASSUME InputInv, NEW h \in BOOLEAN, NEW p
    PROVE  p \in AreaPages(h) <=>
               \E i \in 1..Len(maps) : p \in PagesOf(maps[i]) /\ Huge(maps[i]) = h
<1>1. maps \in Seq(Areas)
  BY ConstantsAssumption DEF InputInv
<1>2. Range(maps) = {maps[i] : i \in 1..Len(maps)}
  BY <1>1 DEF Range
<1>3. p \in AreaPages(h) <=> \E a \in Range(maps) : p \in PagesOf(a) /\ Huge(a) = h
  BY DEF AreaPages
<1> QED
  BY <1>2, <1>3

\* They are pages below the hypervisor.
LEMMA AreaPageFacts ==
    ASSUME InputInv, NEW h \in BOOLEAN, NEW p \in AreaPages(h)
    PROVE  p \in Pages /\ p \in Nat /\ Region(p) \in Dir
<1>1. PICK i \in 1..Len(maps) : p \in PagesOf(maps[i])
  BY AreaOf
<1>2. p \in Pages
  BY <1>1, AreaFacts
<1> QED
  BY <1>2, PageFacts

\* A huge area is made of whole regions.
LEMMA HugeAligned ==
    ASSUME InputInv, NEW i \in 1..Len(maps), Huge(maps[i])
    PROVE  \E s, m \in Nat : /\ maps[i].start_addr = Big * s
                             /\ maps[i].end_addr = Big * m
<1> DEFINE s == maps[i].start_addr \div (2 * Big)
           m == maps[i].end_addr \div (2 * Big)
<1>1. /\ maps[i].start_addr \in Nat /\ maps[i].end_addr \in Nat
      /\ maps[i].start_addr % (2 * Big) = 0 /\ maps[i].end_addr % (2 * Big) = 0
  BY AreaFacts
<1>2. /\ s \in Nat /\ m \in Nat
      /\ maps[i].start_addr = (2 * Big) * s + (maps[i].start_addr % (2 * Big))
      /\ maps[i].end_addr = (2 * Big) * m + (maps[i].end_addr % (2 * Big))
  BY <1>1, BigNat, Division, Zenon
<1> HIDE DEF s, m
<1>3. maps[i].start_addr = Big * (2 * s) /\ maps[i].end_addr = Big * (2 * m)
  <2>1. \A x \in Nat : (2 * Big) * x = Big * (2 * x) /\ Big * (2 * x) + 0 = Big * (2 * x)
    BY BigNat
  <2> QED
    BY <1>1, <1>2, <2>1
<1>4. 2 * s \in Nat /\ 2 * m \in Nat
  BY <1>2
<1> QED
  BY <1>3, <1>4

\* A region is in a huge area as a whole or not at all.
LEMMA WholeRegion ==
    ASSUME InputInv, NEW i \in 1..Len(maps), Huge(maps[i]),
           NEW p \in PagesOf(maps[i]), NEW q \in Nat, Region(q) = Region(p)
    PROVE  q \in PagesOf(maps[i])
<1>1. PICK s, m \in Nat : maps[i].start_addr = Big * s /\ maps[i].end_addr = Big * m
  BY HugeAligned
<1>2. Big * s \in Nat /\ Big * m \in Nat
  BY BigNat
<1>3. p \in Nat /\ p < Big * m /\ ~(p < Big * s)
  BY <1>1, <1>2 DEF PagesOf
<1>4. Region(p) < m /\ ~(Region(p) < s)
  BY <1>3, BigNat, Below DEF Region
<1>5. q < Big * m /\ ~(q < Big * s)
  BY <1>4, BigNat, Below, Zenon DEF Region
<1> QED
  BY <1>1, <1>2, <1>5 DEF PagesOf

\* An area has no page of another one.
LEMMA Disjoint ==
    ASSUME InputInv, NEW i \in 1..Len(maps), NEW j \in 1..Len(maps),
           NEW p \in PagesOf(maps[i]), p \in PagesOf(maps[j])
    PROVE  i = j
<1>1. ASSUME NEW k \in 1..Len(maps), NEW l \in 1..Len(maps), k < l,
             p \in PagesOf(maps[k]), p \in PagesOf(maps[l])
      PROVE  FALSE
  <2>1. maps[k].end_addr <= maps[l].start_addr
    BY <1>1, AreaFacts
  <2>2. /\ maps[k].end_addr \in Nat /\ maps[l].start_addr \in Nat
        /\ maps[k].start_addr \in Nat /\ maps[l].end_addr \in Nat
    BY AreaFacts
  <2> QED
    BY <1>1, <2>1, <2>2 DEF PagesOf
<1>2. Len(maps) \in Nat
  BY ConstantsAssumption DEF InputInv
<1>3. i < j \/ j < i \/ i = j
  BY <1>2
<1> QED
  BY <1>1, <1>3

\* Small and huge pages are never in the same region.
LEMMA Apart ==
    ASSUME InputInv, NEW p \in AreaPages(TRUE), NEW q \in AreaPages(FALSE)
    PROVE  Region(p) # Region(q)
<1> SUFFICES ASSUME Region(q) = Region(p) PROVE FALSE
  OBVIOUS
<1>1. PICK i \in 1..Len(maps) : p \in PagesOf(maps[i]) /\ Huge(maps[i])
  BY AreaOf, Zenon
<1>2. PICK j \in 1..Len(maps) : q \in PagesOf(maps[j]) /\ ~Huge(maps[j])
  BY AreaOf, Zenon
<1>3. q \in PagesOf(maps[i])
  BY <1>1, AreaPageFacts, WholeRegion, Zenon
<1> QED
  BY <1>1, <1>2, <1>3, Disjoint

\* What the guest has mapped at a page.
LEMMA FrameFacts ==
    ASSUME InputInv, NEW p \in Pages
    PROVE  /\ gpt[p] \in Pages \cup {None} /\ Gva2gpa(p) \in Pages
           /\ gpt[p] # None => Gva2gpa(p) = gpt[p]
<1>1. gpt[p] \in Pages \cup {None}
  BY ConstantsAssumption DEF InputInv
<1>2. Unmapped[p] \in Pages
  BY ConstantsAssumption
<1> QED
  BY <1>1, <1>2 DEF Gva2gpa

\* The pages of a region of a huge area are backed by consecutive frames.
LEMMA HugeFrames ==
    ASSUME InputInv, NEW p \in AreaPages(TRUE)
    PROVE  LET b == Big * Region(p)
           IN  /\ b \in AreaPages(TRUE) /\ Region(b) = Region(p) /\ Offset(b) = 0
               /\ gpt[b] # None /\ gpt[p] = gpt[b] + Offset(p)
<1> DEFINE b == Big * Region(p)
           W == 2 * Big
           q == p \div W
           o == p % W
<1>1. PICK i \in 1..Len(maps) : p \in PagesOf(maps[i]) /\ Huge(maps[i])
  BY AreaOf, Zenon
<1>2. p \in Pages /\ p \in Nat /\ Region(p) \in Nat
  BY AreaPageFacts, RegionFacts, Zenon
<1>3. b \in Nat /\ Region(b) = Region(p) /\ Offset(b) = 0
  BY <1>2, FirstPage
<1>4. b \in PagesOf(maps[i])
  BY <1>1, <1>3, WholeRegion
<1>5. b \in AreaPages(TRUE)
  BY <1>1, <1>4, AreaOf, Zenon
<1>6. q \in Nat /\ o \in 0..W-1 /\ p = W * q + o
  BY <1>2, BigNat, Division, Zenon
<1>7. /\ gpt[p - o] # None /\ gpt[p] = gpt[p - o] + o
      /\ gpt[b - (b % W)] # None /\ gpt[b] = gpt[b - (b % W)] + (b % W)
  BY <1>1, <1>4 DEF InputInv, Backed
<1> HIDE DEF q, o
<1>8. b - (b % W) = p - o /\ b % W \in Nat /\ o = (b % W) + Offset(p)
  <2>1. \A x \in Nat : W * x = Big * (2 * x) /\ W * x \in Nat
    BY BigNat
  <2>2. CASE o < Big
    <3>1. p = Big * (2 * q) + o /\ 2 * q \in Nat /\ o \in Slots
      BY <1>6, <2>1, <2>2, BigNat DEF Slots
    <3>2. Region(p) = 2 * q /\ Offset(p) = o
      BY <3>1, PlaceFacts
    <3>3. b = W * q + 0 /\ 0 \in 0..W-1
      BY <1>6, <2>1, <3>2, BigNat
    <3>4. b % W = 0
      <4>1. W \in Nat \ {0}
        BY BigNat
      <4> HIDE DEF W, b
      <4>2. (W * q + 0) % W = 0
        BY <1>6, <3>3, <4>1, Unique
      <4> QED
        BY <3>3, <4>2
    <3> HIDE DEF b
    <3>5. W * q \in Nat
      BY <1>6, <2>1
    <3>6. b = W * q
      BY <3>3, <3>5
    <3>7. b - 0 = p - o /\ o = 0 + Offset(p)
      <4> HIDE DEF W
      <4> QED
        BY <1>2, <1>6, <3>2, <3>5, <3>6
    <3> QED
      BY <3>4, <3>7
  <2>3. CASE ~(o < Big)
    <3>1. Big * (2 * q + 1) = W * q + Big
      BY <1>6, BigNat
    <3>2. p = Big * (2 * q + 1) + (o - Big) /\ 2 * q + 1 \in Nat /\ o - Big \in Slots
      BY <1>6, <2>1, <2>3, <3>1, BigNat DEF Slots
    <3>3. Region(p) = 2 * q + 1 /\ Offset(p) = o - Big
      BY <3>2, PlaceFacts
    <3>4. b = W * q + Big /\ Big \in 0..W-1
      BY <3>1, <3>3, BigNat
    <3>5. b % W = Big
      <4>1. W \in Nat \ {0}
        BY BigNat
      <4> HIDE DEF W, b
      <4>2. (W * q + Big) % W = Big
        BY <1>6, <3>4, <4>1, Unique
      <4> QED
        BY <3>4, <4>2
    <3> HIDE DEF b
    <3>6. W * q \in Nat
      BY <1>6, <2>1
    <3>7. b - Big = p - o /\ o = Big + Offset(p)
      <4> HIDE DEF W
      <4> QED
        BY <1>2, <1>6, <3>3, <3>4, <3>6, BigNat
    <3> QED
      BY <3>5, <3>7, BigNat
  <2> QED
    BY <2>2, <2>3
<1>9. p - o \in Pages
  <2>1. W * q \in Nat /\ p - o = W * q /\ p - o <= p
    BY <1>2, <1>6, BigNat
  <2> QED
    BY <1>2, <2>1, BigNat DEF Pages
<1>10. gpt[p - o] \in Nat
  BY <1>7, <1>9, FrameFacts, PageFacts
<1>11. gpt[b] # None
  BY <1>7, <1>8, <1>10, BigNat
<1>12. Offset(p) \in Nat
  BY <1>2, RegionFacts DEF Slots
<1>13. gpt[p] = gpt[b] + Offset(p)
  <2> DEFINE g == gpt[p - o]
             r == b % W
  <2>1. g \in Nat /\ r \in Nat /\ gpt[p] = g + o /\ gpt[b] = g + r /\ o = r + Offset(p)
    BY <1>7, <1>8, <1>10
  <2> HIDE DEF g, r
  <2> QED
    BY <1>12, <2>1
<1> QED
  BY <1>3, <1>5, <1>11, <1>13, Zenon

-----------------------------------------------------------------------------
(***************************************************************************)
(* The list.                                                               *)
(***************************************************************************)

\* The loop over an area ends where the area does.
LEMMA StepFacts ==
    ASSUME InputInv, NEW i \in 1..Len(maps), NEW last \in BOOLEAN
    PROVE  LET a == maps[i]
               st == Step(a, last)
               n == (a.end_addr - a.start_addr) \div st
           IN  /\ st \in Nat \ {0} /\ n \in Nat
               /\ a.end_addr = a.start_addr + st * n
               /\ st = 1 \/ (st = Big /\ Huge(a))
<1> DEFINE a == maps[i]
           st == Step(a, last)
           d == a.end_addr - a.start_addr
<1>1. a.start_addr \in Nat /\ a.end_addr \in Nat /\ a.start_addr < a.end_addr
  BY AreaFacts
<1>2. d \in Nat
  BY <1>1
<1>3. CASE Huge(a) /\ ~last
  <2>1. st = Big
    BY <1>3 DEF Step
  <2>2. PICK s, m \in Nat : a.start_addr = Big * s /\ a.end_addr = Big * m
    BY <1>3, HugeAligned
  <2>3. m - s \in Nat
    <3> SUFFICES ASSUME m < s PROVE FALSE
      OBVIOUS
    <3>1. Big * m <= Big * s
      BY BigNat, Times
    <3> QED
      BY <1>1, <2>2, <3>1
  <2>4. Big * (m - s) = d /\ Big * (m - s) + 0 = Big * (m - s) /\ 0 \in 0..Big-1
    BY <2>2, <2>3, BigNat
  <2>5. (Big * (m - s) + 0) \div Big = m - s
    BY <2>3, <2>4, BigNat, Unique
  <2>6. d \div Big = m - s
    BY <2>4, <2>5
  <2>7. a.end_addr = a.start_addr + Big * (m - s)
    BY <1>1, <2>4
  <2> QED
    BY <1>3, <2>1, <2>3, <2>6, <2>7, BigNat
<1>4. CASE ~(Huge(a) /\ ~last)
  <2>1. st = 1
    BY <1>4 DEF Step
  <2>2. d \div 1 = d /\ a.end_addr = a.start_addr + 1 * d
    BY <1>1, <1>2
  <2> QED
    BY <1>2, <2>1, <2>2
<1> QED
  BY <1>3, <1>4

\* The entries push_pa_map makes of an area: each is of a page of the area and
\* has its frame, they descend, and they miss no page, or no region.
LEMMA PushedFacts ==
    ASSUME InputInv, NEW i \in 1..Len(maps), NEW last \in BOOLEAN
    PROVE  LET a == maps[i]
               s == Pushed(a, last)
           IN  /\ s \in Seq(PageEntry)
               /\ \A j \in 1..Len(s) : /\ s[j].vaddr \in PagesOf(a)
                                       /\ s[j].paddr = Gva2gpa(s[j].vaddr)
                                       /\ s[j].is_huge_page = Huge(a)
               /\ \A j, k \in 1..Len(s) : j < k => s[k].vaddr < s[j].vaddr
               /\ \A p \in PagesOf(a) : ~Huge(a) \/ Offset(p) = 0 =>
                      \E j \in 1..Len(s) : s[j].vaddr = p
<1> DEFINE a == maps[i]
           s == Pushed(a, last)
           st == Step(a, last)
           n == (a.end_addr - a.start_addr) \div st
           page(k) == a.start_addr + k * st
           entry(k) == [vaddr |-> page(k), paddr |-> Gva2gpa(page(k)),
                        is_huge_page |-> Huge(a)]
<1>1. /\ a.start_addr \in Nat /\ a.end_addr \in Nat /\ a.start_addr < a.end_addr
      /\ Huge(a) \in BOOLEAN /\ PagesOf(a) \subseteq Pages
  BY AreaFacts
<1>2. /\ st \in Nat \ {0} /\ n \in Nat
      /\ a.end_addr = a.start_addr + st * n
      /\ st = 1 \/ (st = Big /\ Huge(a))
  BY StepFacts
<1>3. s = [j \in 1..n |-> entry(n - j)]
  BY DEF Pushed
<1> HIDE DEF s, st, n
<1>4. ASSUME NEW k \in 0..n-1
      PROVE  page(k) \in PagesOf(a)
  <2>1. st * (k + 1) <= st * n /\ st * (k + 1) = st * k + st /\ st * k \in Nat
    <3>1. st \in Nat \ {0} /\ n \in Int /\ k \in Nat /\ k + 1 \in Int /\ k + 1 <= n
      BY <1>2
    <3>2. st * (k + 1) <= st * n
      BY <3>1, Times, Zenon
    <3> QED
      BY <3>1, <3>2, NextMultiple, Zenon
  <2>2. page(k) = a.start_addr + st * k
    BY <1>2
  <2>3. \A x, y \in Nat : x + st <= y => x < y
    BY <1>2
  <2>4. st * n \in Nat
    BY <1>2
  <2>5. st * k < st * n
    BY <2>1, <2>3, <2>4
  <2>6. \A x, y \in Nat : x < y /\ a.end_addr = a.start_addr + y
                         => a.start_addr + x \in PagesOf(a)
    BY <1>1 DEF PagesOf
  <2> HIDE DEF page, a
  <2> QED
    BY <1>2, <2>1, <2>2, <2>4, <2>5, <2>6
<1>5. ASSUME NEW k \in 0..n-1
      PROVE  entry(k) \in PageEntry
  BY <1>1, <1>4, <1>5, FrameFacts DEF PageEntry
<1>6. \A j \in 1..n : n - j \in 0..n-1
  BY <1>2
<1>7. s \in Seq(PageEntry) /\ Len(s) = n
  <2> HIDE DEF entry
  <2> QED
    BY <1>2, <1>3, <1>5, <1>6
<1>8. \A j \in 1..n : s[j] = entry(n - j)
  BY <1>3
<1>9. \A j \in 1..n : /\ s[j].vaddr = page(n - j)
                      /\ s[j].paddr = Gva2gpa(page(n - j))
                      /\ s[j].is_huge_page = Huge(a)
  <2> HIDE DEF page, a
  <2> SUFFICES ASSUME NEW j \in 1..n
               PROVE  /\ s[j].vaddr = page(n - j)
                      /\ s[j].paddr = Gva2gpa(page(n - j))
                      /\ s[j].is_huge_page = Huge(a)
    OBVIOUS
  <2>1. s[j] = entry(n - j)
    BY <1>8
  <2> QED
    BY <2>1
<1> HIDE DEF entry
<1>10. \A j \in 1..Len(s) : /\ s[j].vaddr \in PagesOf(a)
                            /\ s[j].paddr = Gva2gpa(s[j].vaddr)
                            /\ s[j].is_huge_page = Huge(a)
  BY <1>4, <1>6, <1>7, <1>9
<1>11. \A j, k \in 1..Len(s) : j < k => s[k].vaddr < s[j].vaddr
  <2> SUFFICES ASSUME NEW j \in 1..n, NEW k \in 1..n, j < k
               PROVE  page(n - k) < page(n - j)
    BY <1>7, <1>9
  <2>1. st * ((n - k) + 1) <= st * (n - j)
    BY <1>2, Times
  <2>2. st * ((n - k) + 1) = st * (n - k) + st /\ st * (n - k) \in Int
        /\ st * (n - j) \in Int
    BY <1>2
  <2>3. (n - k) * st = st * (n - k) /\ (n - j) * st = st * (n - j)
    BY <1>2
  <2> QED
    BY <1>1, <1>2, <2>1, <2>2, <2>3
<1>12. \A p \in PagesOf(a) : ~Huge(a) \/ Offset(p) = 0 =>
            \E j \in 1..Len(s) : s[j].vaddr = p
  <2> SUFFICES ASSUME NEW p \in PagesOf(a), ~Huge(a) \/ Offset(p) = 0
               PROVE  \E j \in 1..Len(s) : s[j].vaddr = p
    OBVIOUS
  <2> SUFFICES \E k \in 0..n-1 : page(k) = p
    <3>1. PICK k \in 0..n-1 : page(k) = p
      OBVIOUS
    <3>2. n - k \in 1..n /\ n - (n - k) = k
      BY <1>2
    <3>3. s[n - k].vaddr = p
      BY <1>9, <3>1, <3>2
    <3> QED
      BY <1>7, <3>2, <3>3
  <2>1. CASE st = 1
    <3>1. p - a.start_addr \in 0..n-1
      BY <1>1, <1>2, <2>1 DEF PagesOf
    <3>2. page(p - a.start_addr) = p
      BY <1>1, <2>1, <3>1 DEF PagesOf
    <3> QED
      BY <3>1, <3>2
  <2>2. CASE st = Big /\ Huge(a)
    <3>1. p \in Nat /\ a.start_addr <= p /\ p < a.end_addr
      BY <1>1 DEF PagesOf
    <3>2. Region(p) \in Nat /\ p = Big * Region(p)
      <4>1. p = Big * Region(p) + Offset(p) /\ Region(p) \in Nat /\ Offset(p) = 0
        BY <2>2, <3>1, RegionFacts
      <4> QED
        BY <4>1, BigNat
    <3>3. PICK f, m \in Nat : a.start_addr = Big * f /\ a.end_addr = Big * m
      BY <2>2, HugeAligned
    <3>4. Region(p) < m /\ ~(Region(p) < f)
      BY <3>1, <3>3, BigNat, Below DEF Region
    <3> DEFINE k == Region(p) - f
    <3>5. k \in Nat
      BY <3>2, <3>4
    <3>6. Big * f + k * Big = Big * (f + k) /\ f + k = Region(p)
      BY <3>2, <3>4, BigNat
    <3>7. page(k) = p
      BY <2>2, <3>2, <3>3, <3>6
    <3>8. k < n
      <4> SUFFICES ASSUME ~(k < n) PROVE FALSE
        OBVIOUS
      <4> HIDE DEF k
      <4>1. Big * n <= Big * k /\ k * Big = Big * k
        BY <1>2, <3>5, BigNat, Times
      <4> QED
        BY <1>1, <1>2, <2>2, <3>1, <3>5, <3>7, <4>1, BigNat
    <3> QED
      BY <1>2, <3>5, <3>7, <3>8
  <2> QED
    BY <1>2, <2>1, <2>2
<1> QED
  BY <1>7, <1>10, <1>11, <1>12 DEF s

-----------------------------------------------------------------------------
(***************************************************************************)
(* The invariant holds at the start, and while the list is made.           *)
(***************************************************************************)

\* The entry of a region is in the directory.
LEMMA IdentityFacts ==
    ASSUME NEW r \in Dir
    PROVE  Identity(r) \in DirEntry /\ Identity(r).pse /\ ~Identity(r).user
<1>1. r \in Nat /\ r < Regions
  BY BigNat DEF Dir
<1>2. Big * (r + 1) <= Big * Regions /\ Big * (r + 1) = Big * r + Big
      /\ Big * r \in Nat /\ r * Big = Big * r
  BY <1>1, BigNat, Times
<1>3. r * Big \in Pages
  BY <1>2, BigNat DEF Pages
<1> QED
  BY <1>3 DEF Identity, DirEntry

\* The initial state.
LEMMA Initially == Init => IInv
<1> SUFFICES ASSUME Init PROVE IInv
  OBVIOUS
<1>1. InputInv
  BY Zenon DEF Init, InputInv
<1>2. head_hva = <<>> /\ Len(head_hva) = 0 /\ pc = "read" /\ todo = Len(maps)
  BY DEF Init
<1>3. hpd \in [Dir -> DirEntry] /\ \A r \in Dir : hpd[r].pse /\ ~hpd[r].user
  <2>1. hpd = [r \in Dir |-> Identity(r)]
    BY DEF Init, Dir
  <2> QED
    BY <2>1, IdentityFacts
<1>4. Tabled = {}
  BY <1>3 DEF Tabled
<1>5. pts \in [1..Pool -> [Slots -> Pages \cup {None}]]
  BY DEF Init, Slots
<1>6. Typed
  BY <1>2, <1>3, <1>5, BigNat DEF Init, Typed
<1>7. EntryInv /\ OrderInv
  BY <1>2 DEF EntryInv, OrderInv
<1>8. ReadInv
  <2>1. Len(maps) \in Nat
    BY <1>1, ConstantsAssumption DEF InputInv
  <2>2. PICK i \in 1..Len(maps) : signal \in PagesOf(maps[i])
    BY <1>1, AreaOf, Zenon DEF InputInv
  <2> QED
    BY <1>2, <1>4, <2>1, <2>2 DEF ReadInv
<1>9. UpdateInv
  BY <1>2 DEF UpdateInv
<1>10. DirInv /\ OwnTable /\ TableInv
  BY <1>3, <1>4, Zenon DEF DirInv, OwnTable, TableInv
<1>11. CountInv
  BY <1>4, FS_EmptySet DEF CountInv, Init
<1>12. EndInv
  BY <1>2 DEF EndInv, SignalDelivered
<1> QED
  BY <1>1, <1>6, <1>7, <1>8, <1>9, <1>10, <1>11, <1>12 DEF IInv

\* What depends on the router and the guest alone does not change.
LEMMA Frozen ==
    ASSUME InputInv, UNCHANGED inputs
    PROVE  /\ InputInv' /\ UNCHANGED <<maps, gpt, walk, signal>>
           /\ AreaPages(TRUE)' = AreaPages(TRUE) /\ AreaPages(FALSE)' = AreaPages(FALSE)
           /\ \A p : Gva2gpa(p)' = Gva2gpa(p)
<1>1. UNCHANGED <<maps, gpt, walk, signal>>
  BY DEF inputs
<1>2. AreaPages(TRUE)' = AreaPages(TRUE) /\ AreaPages(FALSE)' = AreaPages(FALSE)
  BY <1>1 DEF AreaPages
<1>3. \A p : Gva2gpa(p)' = Gva2gpa(p)
  BY <1>1 DEF Gva2gpa
<1> QED
  BY <1>1, <1>2, <1>3, Zenon DEF InputInv

\* An area is read.
LEMMA ReadKeeps == ASSUME IInv, ReadArea PROVE IInv'
<1> DEFINE a == maps[todo]
           s == Pushed(a, todo = 1)
           L == Len(s)
<1>1. /\ pc = "read" /\ head_hva' = s \o head_hva /\ todo' = todo - 1
      /\ tlb' = tlb \cup RegionsOf(walk)
      /\ pc' = IF todo = 1 THEN "update" ELSE "read"
      /\ UNCHANGED <<inputs, hpd, pts, num_used, wrote>>
  BY DEF ReadArea, AfterRead
<1>2. InputInv /\ todo \in 1..Len(maps) /\ Len(maps) \in Nat
      /\ head_hva \in Seq(PageEntry)
  <2>1. InputInv /\ head_hva \in Seq(PageEntry)
    BY DEF IInv, Typed
  <2>2. todo \in 1..Len(maps)
    BY <1>1 DEF IInv, ReadInv
  <2>3. Len(maps) \in Nat
    BY <2>1, ConstantsAssumption DEF InputInv
  <2> QED
    BY <2>1, <2>2, <2>3
<1>3. /\ InputInv' /\ UNCHANGED <<maps, gpt, walk, signal>>
      /\ AreaPages(TRUE)' = AreaPages(TRUE) /\ AreaPages(FALSE)' = AreaPages(FALSE)
      /\ \A p : Gva2gpa(p)' = Gva2gpa(p)
  BY <1>1, <1>2, Frozen, Zenon
<1>4. /\ s \in Seq(PageEntry)
      /\ \A j \in 1..L : /\ s[j].vaddr \in PagesOf(a)
                         /\ s[j].paddr = Gva2gpa(s[j].vaddr)
                         /\ s[j].is_huge_page = Huge(a)
      /\ \A j, k \in 1..L : j < k => s[k].vaddr < s[j].vaddr
      /\ \A p \in PagesOf(a) : ~Huge(a) \/ Offset(p) = 0 =>
             \E j \in 1..L : s[j].vaddr = p
  BY <1>2, PushedFacts, ZenonT(40)
<1>5. /\ a.start_addr \in Nat /\ a.end_addr \in Nat /\ a.start_addr < a.end_addr
      /\ Huge(a) \in BOOLEAN /\ PagesOf(a) \subseteq Pages
  BY <1>2, AreaFacts
<1> HIDE DEF s
<1>6. L \in Nat /\ Len(head_hva) \in Nat
  BY <1>2, <1>4
<1>7. /\ head_hva' \in Seq(PageEntry) /\ Len(head_hva') = L + Len(head_hva)
      /\ \A j \in 1..L + Len(head_hva) :
             head_hva'[j] = IF j <= L THEN s[j] ELSE head_hva[j - L]
  BY <1>1, <1>2, <1>4, ConcatProperties
<1> HIDE DEF L
<1>8. \A j \in 1..Len(head_hva') :
         \/ j \in 1..L /\ head_hva'[j] = s[j]
         \/ /\ j > L /\ j - L \in 1..Len(head_hva)
            /\ head_hva'[j] = head_hva[j - L]
  BY <1>6, <1>7
<1>9. \A p : InList(p) => InList(p)'
  <2> SUFFICES ASSUME NEW p, InList(p) PROVE InList(p)'
    OBVIOUS
  <2>1. PICK j \in 1..Len(head_hva) : head_hva[j].vaddr = p
    BY DEF InList
  <2>2. L + j \in 1..Len(head_hva') /\ ~(L + j <= L) /\ (L + j) - L = j
    BY <1>6, <1>7
  <2>3. head_hva'[L + j] = head_hva[j]
    BY <1>7, <2>2
  <2> QED
    BY <2>1, <2>2, <2>3 DEF InList
<1>10. \A p \in PagesOf(a) : ~Huge(a) \/ Offset(p) = 0 => InList(p)'
  <2> SUFFICES ASSUME NEW p \in PagesOf(a), ~Huge(a) \/ Offset(p) = 0
               PROVE  InList(p)'
    OBVIOUS
  <2>1. PICK j \in 1..L : s[j].vaddr = p
    BY <1>4
  <2>2. j \in 1..Len(head_hva') /\ head_hva'[j] = s[j]
    BY <1>6, <1>7
  <2> QED
    BY <2>1, <2>2 DEF InList
<1>11. \A i \in todo..Len(maps) : Listed(maps[i])'
  <2> SUFFICES ASSUME NEW i \in todo..Len(maps) PROVE Listed(maps[i])'
    OBVIOUS
  <2>1. CASE i = todo
    BY <1>3, <1>10, <2>1 DEF Listed
  <2>2. CASE i # todo
    <3>1. i \in todo+1..Len(maps)
      BY <1>2, <2>2
    <3>2. Listed(maps[i])
      BY <1>1, <3>1 DEF IInv, ReadInv
    <3> QED
      BY <1>3, <1>9, <3>2 DEF Listed
  <2> QED
    BY <2>1, <2>2
<1>12. Typed'
  <2>1. tlb' \subseteq RegionsOf(walk)'
    <3>1. tlb \subseteq RegionsOf(walk) /\ RegionsOf(walk)' = RegionsOf(walk)
      BY <1>3 DEF IInv, Typed, RegionsOf
    <3> QED
      BY <1>1, <3>1
  <2> QED
    BY <1>1, <1>7, <2>1 DEF IInv, Typed
<1>13. EntryInv'
  <2> SUFFICES ASSUME NEW j \in 1..Len(head_hva')
               PROVE  LET e == head_hva'[j]
                      IN  /\ e.is_huge_page => e.vaddr \in AreaPages(TRUE)
                          /\ ~e.is_huge_page => e.vaddr \in AreaPages(FALSE)
                          /\ e.paddr = Gva2gpa(e.vaddr)
    BY <1>3, Zenon DEF EntryInv, Gva2gpa
  <2>1. CASE j \in 1..L /\ head_hva'[j] = s[j]
    <3>1. /\ Huge(a) => s[j].vaddr \in AreaPages(TRUE)
          /\ ~Huge(a) => s[j].vaddr \in AreaPages(FALSE)
      BY <1>2, <1>4, <1>5, <2>1, AreaOf, Zenon
    <3> QED
      BY <1>4, <2>1, <3>1, Zenon
  <2>2. CASE j - L \in 1..Len(head_hva) /\ head_hva'[j] = head_hva[j - L]
    BY <2>2, Zenon DEF IInv, EntryInv
  <2> QED
    BY <1>8, <2>1, <2>2, Zenon
<1>14. \A j \in 1..Len(head_hva) :
          head_hva[j].vaddr \in Nat /\ a.end_addr <= head_hva[j].vaddr
  <2>1. \A e \in PageEntry : e.vaddr \in Pages
    BY DEF PageEntry
  <2>2. \A j \in 1..Len(head_hva) : head_hva[j].vaddr \in Pages
    BY <1>2, <2>1
  <2> QED
    BY <1>1, <2>2, PageFacts DEF IInv, ReadInv
<1>15. OrderInv'
  <2> SUFFICES ASSUME NEW j \in 1..Len(head_hva'), NEW k \in 1..Len(head_hva'),
                      j < k, head_hva'[j].is_huge_page,
                      Offset(head_hva'[j].vaddr) = 0
               PROVE  Region(head_hva'[k].vaddr) # Region(head_hva'[j].vaddr)
    BY DEF OrderInv, Region, Offset
  <2>1. CASE j \in 1..L /\ head_hva'[j] = s[j] /\ k \in 1..L /\ head_hva'[k] = s[k]
    <3>1. s[k].vaddr < s[j].vaddr /\ s[k].vaddr \in Pages /\ s[j].vaddr \in Pages
      BY <1>4, <1>5, <2>1
    <3>2. s[k].vaddr \in Nat /\ s[j].vaddr \in Nat
      BY <3>1, PageFacts
    <3>3. /\ s[j].vaddr = Big * Region(s[j].vaddr) + Offset(s[j].vaddr)
          /\ Region(s[j].vaddr) \in Nat /\ Region(s[k].vaddr) \in Nat
      BY <3>2, RegionFacts, Zenon
    <3>4. Big * Region(s[j].vaddr) + 0 = Big * Region(s[j].vaddr)
      BY <3>3, BigNat
    <3>5. s[k].vaddr < Big * Region(s[j].vaddr)
      BY <2>1, <3>1, <3>3, <3>4
    <3>6. Region(s[k].vaddr) < Region(s[j].vaddr)
      BY <3>2, <3>3, <3>5, BigNat, Below DEF Region
    <3> QED
      BY <2>1, <3>3, <3>6
  <2>2. CASE /\ j \in 1..L /\ head_hva'[j] = s[j]
             /\ k - L \in 1..Len(head_hva) /\ head_hva'[k] = head_hva[k - L]
    <3> SUFFICES ASSUME Region(head_hva[k - L].vaddr) = Region(s[j].vaddr)
                 PROVE  FALSE
      BY <2>2
    <3>1. Huge(a) /\ s[j].vaddr \in PagesOf(a)
      BY <1>4, <2>2, Zenon
    <3>2. head_hva[k - L].vaddr \in PagesOf(a)
      BY <1>2, <1>14, <2>2, <3>1, WholeRegion
    <3> QED
      BY <1>5, <1>14, <2>2, <3>2 DEF PagesOf
  <2>3. CASE /\ j - L \in 1..Len(head_hva) /\ head_hva'[j] = head_hva[j - L]
             /\ k - L \in 1..Len(head_hva) /\ head_hva'[k] = head_hva[k - L]
    <3>1. j - L < k - L
      BY <1>6, <1>7
    <3> QED
      BY <2>3, <3>1 DEF IInv, OrderInv
  <2>4. k \in 1..L => j \in 1..L
    BY <1>6, <1>7
  <2>5. \/ j \in 1..L /\ head_hva'[j] = s[j]
        \/ /\ j > L /\ j - L \in 1..Len(head_hva)
           /\ head_hva'[j] = head_hva[j - L]
    BY <1>8
  <2>6. \/ k \in 1..L /\ head_hva'[k] = s[k]
        \/ /\ k > L /\ k - L \in 1..Len(head_hva)
           /\ head_hva'[k] = head_hva[k - L]
    BY <1>8
  <2>7. ~(j \in 1..L /\ j > L)
    BY <1>6
  <2> QED
    BY <2>1, <2>2, <2>3, <2>4, <2>5, <2>6, <2>7
<1>16. Tabled = {} /\ Tabled' = {}
  BY <1>1 DEF IInv, ReadInv, Tabled
<1>17. ReadInv'
  <2> SUFFICES ASSUME pc' = "read"
               PROVE  /\ todo' \in 1..Len(maps)
                      /\ \A i \in todo'+1..Len(maps) : Listed(maps[i])'
                      /\ \A j \in 1..Len(head_hva') :
                            maps[todo'].end_addr <= head_hva'[j].vaddr
    BY <1>3, <1>16 DEF ReadInv
  <2>1. todo' \in 1..Len(maps) /\ todo'+1 = todo /\ todo' \in 1..todo-1
    BY <1>1, <1>2
  <2>2. maps[todo'].end_addr <= a.start_addr /\ maps[todo'].end_addr \in Nat
    BY <1>2, <2>1, AreaFacts
  <2>3. \A j \in 1..Len(head_hva') : maps[todo'].end_addr <= head_hva'[j].vaddr
    <3> SUFFICES ASSUME NEW j \in 1..Len(head_hva')
                 PROVE  maps[todo'].end_addr <= head_hva'[j].vaddr
      OBVIOUS
    <3>1. CASE j \in 1..L /\ head_hva'[j] = s[j]
      <4>1. a.start_addr <= s[j].vaddr /\ s[j].vaddr \in Int
        BY <1>4, <1>5, <3>1 DEF PagesOf
      <4> QED
        BY <1>5, <2>2, <3>1, <4>1
    <3>2. CASE j - L \in 1..Len(head_hva) /\ head_hva'[j] = head_hva[j - L]
      BY <1>5, <1>14, <2>2, <3>2
    <3> QED
      BY <1>8, <3>1, <3>2
  <2> QED
    BY <1>11, <2>1, <2>3, Zenon
<1>18. UpdateInv'
  <2> SUFFICES ASSUME pc' # "read"
               PROVE  /\ \A p \in AreaPages(FALSE) : InList(p)'
                      /\ \A p \in AreaPages(TRUE) : Offset(p) = 0 => InList(p)'
    BY <1>3, Zenon DEF UpdateInv, Offset
  <2>1. todo = 1
    BY <1>1
  <2>2. \A i \in 1..Len(maps) : \A p \in PagesOf(maps[i]) :
            ~Huge(maps[i]) \/ Offset(p) = 0 => InList(p)'
    BY <1>3, <1>11, <2>1 DEF Listed
  <2>3. \A p \in AreaPages(FALSE) : InList(p)'
    BY <1>2, <2>2, AreaOf, Zenon
  <2>4. \A p \in AreaPages(TRUE) : Offset(p) = 0 => InList(p)'
    BY <1>2, <2>2, AreaOf, Zenon
  <2> QED
    BY <2>3, <2>4, Zenon
<1>19. DirInv' /\ OwnTable' /\ TableInv'
  BY <1>1, <1>3, <1>16, Zenon DEF IInv, DirInv, OwnTable, TableInv, RegionsOf
<1>20. CountInv'
  BY <1>1, <1>16 DEF IInv, CountInv
<1>21. EndInv'
  BY <1>1 DEF EndInv, SignalDelivered
<1> QED
  BY <1>3, <1>12, <1>13, <1>15, <1>17, <1>18, <1>19, <1>20, <1>21 DEF IInv

-----------------------------------------------------------------------------
(***************************************************************************)
(* Pages are entered.                                                      *)
(***************************************************************************)

\* The page at the head of the list, and the rest of the list.
LEMMA TailFacts ==
    ASSUME IInv, head_hva # <<>>, head_hva' = Tail(head_hva), UNCHANGED inputs
    PROVE  LET e == Head(head_hva)
           IN  /\ e.vaddr \in Pages /\ e.paddr \in Pages /\ e.is_huge_page \in BOOLEAN
               /\ e.is_huge_page => e.vaddr \in AreaPages(TRUE)
               /\ ~e.is_huge_page => e.vaddr \in AreaPages(FALSE)
               /\ e.paddr = Gva2gpa(e.vaddr)
               /\ head_hva' \in Seq(PageEntry) /\ EntryInv' /\ OrderInv'
               /\ \A p : InList(p) => p = e.vaddr \/ InList(p)'
               /\ \A r : NoneLeft(r) => NoneLeft(r)' /\ r # Region(e.vaddr)
               /\ e.is_huge_page /\ Offset(e.vaddr) = 0 =>
                      \A r : r = Region(e.vaddr) => NoneLeft(r)'
<1> DEFINE e == Head(head_hva)
<1>1. head_hva \in Seq(PageEntry) /\ InputInv
  BY DEF IInv, Typed
<1>2. /\ head_hva' \in Seq(PageEntry) /\ Len(head_hva') = Len(head_hva) - 1
      /\ \A j \in 1..Len(head_hva') : head_hva'[j] = head_hva[j + 1]
      /\ e \in PageEntry
  BY <1>1, HeadTailProperties
<1>3. e = head_hva[1] /\ Len(head_hva) \in Nat /\ Len(head_hva) # 0
  BY <1>1
<1>4. \A j \in 1..Len(head_hva') : j + 1 \in 1..Len(head_hva) /\ 1 < j + 1
  BY <1>2, <1>3
<1>5. 1 \in 1..Len(head_hva)
  BY <1>3
<1>6. UNCHANGED <<maps, gpt>>
      /\ AreaPages(TRUE)' = AreaPages(TRUE) /\ AreaPages(FALSE)' = AreaPages(FALSE)
  BY <1>1, Frozen, Zenon
<1>7. e.vaddr \in Pages /\ e.paddr \in Pages /\ e.is_huge_page \in BOOLEAN
  BY <1>2 DEF PageEntry
<1> HIDE DEF e
<1>8. /\ e.is_huge_page => e.vaddr \in AreaPages(TRUE)
      /\ ~e.is_huge_page => e.vaddr \in AreaPages(FALSE)
      /\ e.paddr = Gva2gpa(e.vaddr)
  BY <1>3, <1>5, Zenon DEF IInv, EntryInv
<1>9. EntryInv'
  <2> SUFFICES ASSUME NEW j \in 1..Len(head_hva')
               PROVE  LET f == head_hva'[j]
                      IN  /\ f.is_huge_page => f.vaddr \in AreaPages(TRUE)
                          /\ ~f.is_huge_page => f.vaddr \in AreaPages(FALSE)
                          /\ f.paddr = Gva2gpa(f.vaddr)
    BY <1>6, Zenon DEF EntryInv, Gva2gpa
  <2> QED
    BY <1>2, <1>4, Zenon DEF IInv, EntryInv
<1>10. OrderInv'
  <2> SUFFICES ASSUME NEW j \in 1..Len(head_hva'), NEW k \in 1..Len(head_hva'),
                      j < k, head_hva'[j].is_huge_page,
                      Offset(head_hva'[j].vaddr) = 0
               PROVE  Region(head_hva'[k].vaddr) # Region(head_hva'[j].vaddr)
    BY DEF OrderInv, Region, Offset
  <2>1. /\ j + 1 \in 1..Len(head_hva) /\ k + 1 \in 1..Len(head_hva)
        /\ head_hva'[j] = head_hva[j + 1] /\ head_hva'[k] = head_hva[k + 1]
    BY <1>2, <1>4
  <2>2. j + 1 < k + 1
    BY <1>2, <1>3
  <2> QED
    BY <2>1, <2>2 DEF IInv, OrderInv
<1>11. \A p : InList(p) => p = e.vaddr \/ InList(p)'
  <2> SUFFICES ASSUME NEW p, InList(p), p # e.vaddr PROVE InList(p)'
    OBVIOUS
  <2>1. PICK j \in 1..Len(head_hva) : head_hva[j].vaddr = p
    BY DEF InList
  <2>2. j # 1
    BY <1>3, <2>1
  <2>3. j - 1 \in 1..Len(head_hva') /\ (j - 1) + 1 = j
    BY <1>2, <1>3, <2>2
  <2>4. head_hva'[j - 1] = head_hva[j]
    BY <1>2, <2>3
  <2> QED
    BY <2>1, <2>3, <2>4, Zenon DEF InList
<1>12. \A r : NoneLeft(r) => NoneLeft(r)' /\ r # Region(e.vaddr)
  BY <1>2, <1>3, <1>4, <1>5 DEF NoneLeft
<1>13. e.is_huge_page /\ Offset(e.vaddr) = 0 =>
           \A r : r = Region(e.vaddr) => NoneLeft(r)'
  <2> SUFFICES ASSUME e.is_huge_page, Offset(e.vaddr) = 0,
                      NEW k \in 1..Len(head_hva')
               PROVE  Region(head_hva'[k].vaddr) # Region(e.vaddr)
    BY DEF NoneLeft
  <2>1. head_hva'[k] = head_hva[k + 1] /\ k + 1 \in 1..Len(head_hva) /\ 1 < k + 1
    BY <1>2, <1>4
  <2> QED
    BY <1>3, <1>5, <2>1 DEF IInv, OrderInv
<1> QED
  BY <1>2, <1>7, <1>8, <1>9, <1>10, <1>11, <1>12, <1>13, Zenon DEF e

\* What is left to show of a page that is entered.
LEMMA EnterKeeps ==
    ASSUME IInv, pc = "update", head_hva # <<>>, head_hva' = Tail(head_hva),
           UNCHANGED <<pc, inputs, todo, tlb, wrote>>,
           hpd' \in [Dir -> DirEntry],
           pts' \in [1..Pool -> [Slots -> Pages \cup {None}]],
           num_used' \in 0..Pool,
           UpdateInv', DirInv', OwnTable', TableInv', CountInv'
    PROVE  IInv'
<1>1. InputInv' /\ UNCHANGED <<maps, gpt, walk, signal>>
  BY Frozen DEF IInv
<1>2. head_hva' \in Seq(PageEntry) /\ EntryInv' /\ OrderInv'
  BY TailFacts
<1>3. Typed'
  <2>1. RegionsOf(walk)' = RegionsOf(walk)
    BY <1>1 DEF RegionsOf
  <2> QED
    BY <1>2, <2>1 DEF IInv, Typed
<1>4. ReadInv' /\ EndInv'
  BY DEF ReadInv, EndInv, SignalDelivered
<1> QED
  BY <1>1, <1>2, <1>3, <1>4 DEF IInv

\* A small page leaves every region that is mapped by a large page as it is.
LEMMA SmallKeeps ==
    ASSUME IInv, pc = "update", head_hva # <<>>, head_hva' = Tail(head_hva),
           UNCHANGED <<pc, inputs>>,
           ~Head(head_hva).is_huge_page,
           \A q \in Dir : q # Region(Head(head_hva).vaddr) => hpd'[q] = hpd[q],
           \A p \in AreaPages(FALSE) :
               Entered(p) \/ p = Head(head_hva).vaddr => Entered(p)'
    PROVE  UpdateInv'
<1> DEFINE e == Head(head_hva)
<1>1. InputInv
  BY DEF IInv
<1>2. /\ AreaPages(TRUE)' = AreaPages(TRUE) /\ AreaPages(FALSE)' = AreaPages(FALSE)
      /\ \A p : Gva2gpa(p)' = Gva2gpa(p)
  BY <1>1, Frozen, Zenon
<1>3. /\ e.vaddr \in AreaPages(FALSE)
      /\ \A p : InList(p) => p = e.vaddr \/ InList(p)'
      /\ \A r : NoneLeft(r) => NoneLeft(r)' /\ r # Region(e.vaddr)
  BY TailFacts, Zenon
<1> HIDE DEF e
<1>4. \A p \in AreaPages(FALSE) : InList(p)' \/ Entered(p)'
  BY <1>3, Zenon DEF IInv, UpdateInv, e
<1>5. \A p \in AreaPages(TRUE) : Offset(p) = 0 => InList(p)' \/ EnteredHuge(p)'
  <2> SUFFICES ASSUME NEW p \in AreaPages(TRUE), Offset(p) = 0
               PROVE  InList(p)' \/ EnteredHuge(p)'
    BY Zenon
  <2>1. Region(p) # Region(e.vaddr) /\ Region(p) \in Dir
    BY <1>1, <1>3, Apart, AreaPageFacts, Zenon
  <2>2. CASE InList(p)
    BY <1>3, <2>1, <2>2
  <2>3. CASE EnteredHuge(p)
    <3>1. hpd'[Region(p)] = [pse |-> TRUE, addr |-> Gva2gpa(p), user |-> TRUE]
      BY <2>1, <2>3 DEF EnteredHuge, e
    <3>2. NoneLeft(Region(p))'
      BY <1>3, <2>3 DEF EnteredHuge
    <3> QED
      BY <1>2, <3>1, <3>2, Zenon DEF EnteredHuge
  <2> QED
    BY <2>2, <2>3, Zenon DEF IInv, UpdateInv
<1> QED
  BY <1>2, <1>4, <1>5, Zenon DEF UpdateInv

\* A table of its own for a region that had none.
LEMMA NewTableKeeps ==
    ASSUME IInv, UpdateEntry, MapInNewTable(Head(head_hva))
    PROVE  IInv'
<1> DEFINE e == Head(head_hva)
           r == Region(e.vaddr)
           o == Offset(e.vaddr)
           t == num_used + 1
<1>1. /\ pc = "update" /\ head_hva # <<>> /\ head_hva' = Tail(head_hva)
      /\ UNCHANGED <<pc, inputs, todo, tlb, wrote>>
  BY DEF UpdateEntry
<1>2. /\ e.vaddr \in Pages /\ e.paddr \in Pages
      /\ ~e.is_huge_page /\ e.vaddr \in AreaPages(FALSE)
      /\ e.paddr = Gva2gpa(e.vaddr)
  BY <1>1, TailFacts, Zenon DEF MapInNewTable
<1>3. InputInv /\ InputInv'
      /\ AreaPages(TRUE)' = AreaPages(TRUE) /\ AreaPages(FALSE)' = AreaPages(FALSE)
      /\ \A p : Gva2gpa(p)' = Gva2gpa(p)
  BY <1>1, Frozen, Zenon DEF IInv
<1>4. r \in Dir /\ r \in Nat /\ o \in Slots /\ e.vaddr = Big * r + o
  BY <1>2, PageFacts, RegionFacts
<1>5. /\ hpd \in [Dir -> DirEntry] /\ num_used \in 0..Pool
      /\ pts \in [1..Pool -> [Slots -> Pages \cup {None}]]
  BY DEF IInv, Typed
<1>6. hpd[r].pse /\ ~(num_used >= Pool) /\ num_used' = t
  BY DEF MapInNewTable, NeedsTable, Exhausted, PdtIndex, Region
<1>7. t \in 1..Pool /\ num_used' \in 0..Pool /\ num_used \in Nat
  BY <1>5, <1>6, BigNat
<1> DEFINE d == [pse |-> FALSE, addr |-> t, user |-> TRUE]
           z == [i \in Slots |-> None]
<1>8. hpd' = [hpd EXCEPT ![r] = d] /\ pts' = [pts EXCEPT ![t] = [z EXCEPT ![o] = e.paddr]]
  BY DEF MapInNewTable, ZeroedPage, PdtIndex, PtIndex, Region, Offset, Slots
<1>9. d \in DirEntry /\ ~d.pse /\ d.addr = t /\ d.user
  BY <1>7 DEF DirEntry
<1> HIDE DEF e, r, o, d
<1>10. /\ hpd' \in [Dir -> DirEntry] /\ hpd'[r] = d
       /\ \A q \in Dir : q # r => hpd'[q] = hpd[q]
  BY <1>4, <1>5, <1>8, <1>9
<1>11. /\ [z EXCEPT ![o] = e.paddr] \in [Slots -> Pages \cup {None}]
       /\ [z EXCEPT ![o] = e.paddr][o] = e.paddr
       /\ \A i \in Slots : i # o => [z EXCEPT ![o] = e.paddr][i] = None
  BY <1>2, <1>4
<1> HIDE DEF z
<1>12. /\ pts' \in [1..Pool -> [Slots -> Pages \cup {None}]]
       /\ pts'[t][o] = e.paddr
       /\ \A i \in Slots : i # o => pts'[t][i] = None
       /\ \A u \in 1..Pool : u # t => pts'[u] = pts[u]
  BY <1>5, <1>7, <1>8, <1>11
<1>13. r \notin Tabled /\ Tabled' = Tabled \cup {r}
  BY <1>4, <1>6, <1>9, <1>10, Zenon DEF Tabled
<1>14. \A q \in Tabled : /\ hpd[q].addr \in 1..num_used /\ hpd'[q] = hpd[q] /\ q # r
                         /\ q \in RegionsOf(AreaPages(FALSE)) /\ hpd[q].user
  BY <1>10, <1>13, Zenon DEF IInv, DirInv, Tabled
<1> HIDE DEF t
<1>15. \A q \in Tabled : hpd[q].addr \in 1..Pool /\ hpd[q].addr # t
                         /\ hpd[q].addr \in 1..t
  <2>1. \A x \in 1..num_used : x \in 1..Pool /\ x # t /\ x \in 1..t
    BY <1>5, BigNat DEF t
  <2> QED
    BY <1>14, <2>1, Zenon
<1>16. \A q \in Tabled : pts'[hpd'[q].addr] = pts[hpd[q].addr]
  BY <1>12, <1>14, <1>15, Zenon
<1>17. ASSUME NEW p \in AreaPages(FALSE), Entered(p) \/ p = e.vaddr
       PROVE  Entered(p)'
  <2>1. CASE Entered(p)
    <3>1. Region(p) \in Tabled
      BY <1>3, <2>1, AreaPageFacts, Zenon DEF Entered, Tabled
    <3>2. hpd'[Region(p)] = hpd[Region(p)]
      BY <1>14, <3>1, Zenon
    <3>3. pts'[hpd'[Region(p)].addr] = pts[hpd[Region(p)].addr]
      BY <1>16, <3>1
    <3> QED
      BY <1>3, <2>1, <3>2, <3>3 DEF Entered
  <2>2. CASE p = e.vaddr
    <3>1. Region(p) = r /\ Offset(p) = o
      BY <2>2 DEF r, o
    <3>2. ~hpd'[r].pse /\ pts'[hpd'[r].addr][o] = Gva2gpa(p)
      BY <1>2, <1>9, <1>10, <1>12, <2>2
    <3> QED
      BY <1>3, <3>1, <3>2 DEF Entered
  <2> QED
    BY <1>17, <2>1, <2>2
<1>18. UpdateInv'
  BY <1>1, <1>2, <1>10, <1>17, SmallKeeps, Zenon DEF e, r
<1>19. /\ r \in RegionsOf(AreaPages(FALSE))
       /\ RegionsOf(AreaPages(FALSE))' = RegionsOf(AreaPages(FALSE))
       /\ RegionsOf(AreaPages(TRUE))' = RegionsOf(AreaPages(TRUE))
  BY <1>2, <1>3, Zenon DEF RegionsOf, r, Region
<1>20. DirInv'
  <2>1. \A q \in Tabled' : /\ hpd'[q].addr \in 1..num_used' /\ hpd'[q].user
                           /\ q \in RegionsOf(AreaPages(FALSE))
    <3>1. t \in 1..t
      BY <1>7
    <3>2. hpd'[r].addr \in 1..num_used' /\ hpd'[r].user
      BY <1>6, <1>9, <1>10, <3>1
    <3> QED
      BY <1>6, <1>13, <1>14, <1>15, <1>19, <3>2, Zenon
  <2>2. \A q \in Dir \ Tabled' : hpd'[q].user => q \in RegionsOf(AreaPages(TRUE))
    BY <1>10, <1>13, Zenon DEF IInv, DirInv
  <2> QED
    BY <1>19, <2>1, <2>2, Zenon DEF DirInv
<1>21. OwnTable'
  <2>1. \A q \in Tabled : hpd'[q].addr = hpd[q].addr /\ hpd'[q].addr # t
    BY <1>14, <1>15, Zenon
  <2>2. hpd'[r].addr = t
    BY <1>9, <1>10
  <2> QED
    BY <1>13, <2>1, <2>2 DEF IInv, OwnTable
<1>22. TableInv'
  <2> SUFFICES ASSUME NEW q \in Tabled', NEW i \in Slots, pts'[hpd'[q].addr][i] # None
               PROVE  Big * q + i \in AreaPages(FALSE)
    BY <1>3, Zenon DEF TableInv
  <2>1. CASE q = r
    <3>1. i = o
      BY <1>9, <1>10, <1>12, <2>1
    <3> QED
      BY <1>2, <1>4, <2>1, <3>1, Zenon
  <2>2. CASE q \in Tabled
    BY <1>16, <2>2, Zenon DEF IInv, TableInv
  <2> QED
    BY <1>13, <2>1, <2>2, Zenon
<1>23. CountInv'
  <2>1. IsFiniteSet(Tabled) /\ Cardinality(Tabled) = num_used
    BY DEF IInv, CountInv
  <2>2. IsFiniteSet(Tabled') /\ Cardinality(Tabled') = Cardinality(Tabled) + 1
    BY <1>13, <2>1, FS_AddElement
  <2> QED
    BY <1>6, <2>1, <2>2 DEF CountInv, t
<1> QED
  BY <1>1, <1>7, <1>10, <1>12, <1>18, <1>20, <1>21, <1>22, <1>23, EnterKeeps

\* A small page goes into the table its region has.
LEMMA InTableKeeps ==
    ASSUME IInv, UpdateEntry, MapInTable(Head(head_hva))
    PROVE  IInv'
<1> DEFINE e == Head(head_hva)
           r == Region(e.vaddr)
           o == Offset(e.vaddr)
           t == hpd[r].addr
<1>1. /\ pc = "update" /\ head_hva # <<>> /\ head_hva' = Tail(head_hva)
      /\ UNCHANGED <<pc, inputs, todo, tlb, wrote>>
  BY DEF UpdateEntry
<1>2. /\ e.vaddr \in Pages /\ e.paddr \in Pages
      /\ ~e.is_huge_page /\ e.vaddr \in AreaPages(FALSE)
      /\ e.paddr = Gva2gpa(e.vaddr)
  BY <1>1, TailFacts, Zenon DEF MapInTable
<1>3. InputInv /\ InputInv'
      /\ AreaPages(TRUE)' = AreaPages(TRUE) /\ AreaPages(FALSE)' = AreaPages(FALSE)
      /\ \A p : Gva2gpa(p)' = Gva2gpa(p)
  BY <1>1, Frozen, Zenon DEF IInv
<1>4. r \in Dir /\ r \in Nat /\ o \in Slots /\ e.vaddr = Big * r + o
  BY <1>2, PageFacts, RegionFacts
<1>5. /\ hpd \in [Dir -> DirEntry] /\ num_used \in 0..Pool
      /\ pts \in [1..Pool -> [Slots -> Pages \cup {None}]]
  BY DEF IInv, Typed
<1>6. ~hpd[r].pse /\ pts' = [pts EXCEPT ![t][o] = e.paddr] /\ UNCHANGED <<hpd, num_used>>
  BY Zenon DEF MapInTable, NeedsTable, PdtIndex, PtIndex, Region, Offset
<1> HIDE DEF e, r, o
<1>7. r \in Tabled /\ Tabled' = Tabled
  BY <1>4, <1>6 DEF Tabled
<1>8. \A q \in Tabled : hpd[q].addr \in 1..Pool
  <2>1. \A x \in 1..num_used : x \in 1..Pool
    BY <1>5, BigNat
  <2> QED
    BY <2>1, Zenon DEF IInv, DirInv
<1>9. t \in 1..Pool
  BY <1>7, <1>8
<1>10. \A q \in Tabled : hpd[q].addr = t => q = r
  BY <1>7 DEF IInv, OwnTable
<1> HIDE DEF t
<1>11. /\ pts' \in [1..Pool -> [Slots -> Pages \cup {None}]]
       /\ pts'[t][o] = e.paddr
       /\ \A i \in Slots : i # o => pts'[t][i] = pts[t][i]
       /\ \A u \in 1..Pool : u # t => pts'[u] = pts[u]
  BY <1>2, <1>4, <1>5, <1>6, <1>9
<1>12. \A q \in Tabled \ {r} : pts'[hpd[q].addr] = pts[hpd[q].addr]
  BY <1>8, <1>10, <1>11
<1>13. ASSUME NEW p \in AreaPages(FALSE), Entered(p) \/ p = e.vaddr
       PROVE  Entered(p)'
  <2>1. p \in Nat /\ Region(p) \in Dir /\ Offset(p) \in Slots
        /\ p = Big * Region(p) + Offset(p)
    BY <1>3, AreaPageFacts, RegionFacts, ZenonT(40)
  <2>2. CASE p = e.vaddr
    <3>1. Region(p) = r /\ Offset(p) = o
      BY <2>2 DEF r, o
    <3>2. ~hpd'[r].pse /\ pts'[hpd'[r].addr][o] = Gva2gpa(p)
      BY <1>2, <1>6, <1>11, <2>2 DEF t
    <3> QED
      BY <1>3, <3>1, <3>2 DEF Entered
  <2>3. CASE p # e.vaddr
    <3>1. Entered(p)
      BY <1>13, <2>3
    <3>2. Region(p) \in Tabled
      BY <2>1, <3>1 DEF Entered, Tabled
    <3>3. pts'[hpd[Region(p)].addr][Offset(p)] = pts[hpd[Region(p)].addr][Offset(p)]
      <4>1. CASE Region(p) # r
        BY <1>12, <3>2, <4>1
      <4>2. CASE Region(p) = r
        <5>1. Offset(p) # o
          BY <1>4, <2>1, <2>3, <4>2
        <5> QED
          BY <1>11, <2>1, <4>2, <5>1 DEF t
      <4> QED
        BY <4>1, <4>2
    <3> QED
      BY <1>3, <1>6, <3>1, <3>3 DEF Entered
  <2> QED
    BY <2>2, <2>3
<1>14. UpdateInv'
  BY <1>1, <1>2, <1>6, <1>13, SmallKeeps, Zenon DEF e, r
<1>15. DirInv' /\ OwnTable' /\ CountInv'
  <2>1. /\ RegionsOf(AreaPages(FALSE))' = RegionsOf(AreaPages(FALSE))
        /\ RegionsOf(AreaPages(TRUE))' = RegionsOf(AreaPages(TRUE))
    BY <1>3, Zenon DEF RegionsOf
  <2> QED
    BY <1>6, <1>7, <2>1, Zenon DEF IInv, DirInv, OwnTable, CountInv
<1>16. TableInv'
  <2> SUFFICES ASSUME NEW q \in Tabled, NEW i \in Slots, pts'[hpd[q].addr][i] # None
               PROVE  Big * q + i \in AreaPages(FALSE)
    BY <1>3, <1>6, <1>7, Zenon DEF TableInv
  <2>1. CASE q = r /\ i = o
    BY <1>2, <1>4, <2>1, Zenon
  <2>2. CASE ~(q = r /\ i = o)
    <3>1. pts[hpd[q].addr][i] # None
      BY <1>11, <1>12, <2>2 DEF t
    <3> QED
      BY <3>1, Zenon DEF IInv, TableInv
  <2> QED
    BY <2>1, <2>2, Zenon
<1> QED
  BY <1>1, <1>5, <1>6, <1>11, <1>14, <1>15, <1>16, EnterKeeps

\* A large page replaces the entry of its region, which has no table.
LEMMA HugeKeeps ==
    ASSUME IInv, UpdateEntry, MapHuge(Head(head_hva))
    PROVE  IInv'
<1> DEFINE e == Head(head_hva)
           r == Region(e.vaddr)
           d == [pse |-> TRUE, addr |-> e.paddr, user |-> TRUE]
<1>1. /\ pc = "update" /\ head_hva # <<>> /\ head_hva' = Tail(head_hva)
      /\ UNCHANGED <<pc, inputs, todo, tlb, wrote>>
  BY DEF UpdateEntry
<1>2. /\ e.vaddr \in Pages /\ e.paddr \in Pages
      /\ e.is_huge_page /\ e.vaddr \in AreaPages(TRUE)
      /\ e.paddr = Gva2gpa(e.vaddr)
  BY <1>1, TailFacts, Zenon DEF MapHuge
<1>3. InputInv /\ InputInv'
      /\ AreaPages(TRUE)' = AreaPages(TRUE) /\ AreaPages(FALSE)' = AreaPages(FALSE)
      /\ \A p : Gva2gpa(p)' = Gva2gpa(p)
  BY <1>1, Frozen, Zenon DEF IInv
<1>4. r \in Dir /\ r \in RegionsOf(AreaPages(TRUE))
  BY <1>2, PageFacts, Zenon DEF RegionsOf, Region
<1>5. /\ hpd \in [Dir -> DirEntry] /\ num_used \in 0..Pool
      /\ pts \in [1..Pool -> [Slots -> Pages \cup {None}]]
  BY DEF IInv, Typed
<1>6. \A q \in AreaPages(FALSE) : Region(q) # r
  BY <1>2, <1>3, Apart, Zenon
<1>7. r \notin Tabled
  <2>1. \A q \in RegionsOf(AreaPages(FALSE)) : q # r
    BY <1>6, Zenon DEF RegionsOf, Region
  <2> QED
    BY <2>1, Zenon DEF IInv, DirInv
<1>8. hpd[r].pse
  BY <1>4, <1>7 DEF Tabled
<1>9. hpd' = [hpd EXCEPT ![r] = d] /\ UNCHANGED <<pts, num_used>>
  BY <1>8 DEF MapHuge, PdtIndex, Region
<1>10. d \in DirEntry /\ d.pse
  BY <1>2 DEF DirEntry
<1>11. \A q : q = r => (Offset(e.vaddr) = 0 => NoneLeft(q)')
  BY <1>1, <1>2, TailFacts
<1>12. /\ \A p : InList(p) => p = e.vaddr \/ InList(p)'
       /\ \A q : NoneLeft(q) => NoneLeft(q)' /\ q # r
  BY <1>1, TailFacts
<1> HIDE DEF d
<1>13. hpd' \in [Dir -> DirEntry] /\ hpd'[r] = d
       /\ \A q \in Dir : q # r => hpd'[q] = hpd[q]
  BY <1>4, <1>5, <1>9, <1>10
<1> HIDE DEF e, r
<1>14. Tabled' = Tabled /\ \A q \in Tabled : hpd'[q] = hpd[q]
  <2>1. \A q \in Dir : (~hpd'[q].pse) = (~hpd[q].pse)
    BY <1>8, <1>10, <1>13
  <2>2. Tabled' = Tabled
    BY <2>1 DEF Tabled
  <2> QED
    BY <1>7, <1>13, <2>2 DEF Tabled
<1>15. \A p \in AreaPages(FALSE) : InList(p)' \/ Entered(p)'
  <2> SUFFICES ASSUME NEW p \in AreaPages(FALSE)
               PROVE  InList(p)' \/ Entered(p)'
    BY Zenon
  <2>1. p # e.vaddr /\ Region(p) # r /\ Region(p) \in Dir
    BY <1>3, <1>6, AreaPageFacts, Zenon DEF r
  <2>2. hpd'[Region(p)] = hpd[Region(p)]
    BY <1>13, <2>1
  <2>3. CASE InList(p)
    BY <1>12, <2>1, <2>3
  <2>4. CASE Entered(p)
    BY <1>3, <1>9, <2>2, <2>4 DEF Entered
  <2> QED
    BY <1>1, <2>3, <2>4, Zenon DEF IInv, UpdateInv
<1>16. \A p \in AreaPages(TRUE) : Offset(p) = 0 => InList(p)' \/ EnteredHuge(p)'
  <2> SUFFICES ASSUME NEW p \in AreaPages(TRUE), Offset(p) = 0
               PROVE  InList(p)' \/ EnteredHuge(p)'
    BY Zenon
  <2>1. CASE p = e.vaddr
    <3>1. Region(p) = r /\ NoneLeft(Region(p))'
      BY <1>11, <2>1 DEF r
    <3>2. hpd'[r] = [pse |-> TRUE, addr |-> Gva2gpa(p), user |-> TRUE]
      BY <1>2, <1>13, <2>1 DEF d
    <3> QED
      BY <1>3, <3>1, <3>2, Zenon DEF EnteredHuge
  <2>2. CASE p # e.vaddr /\ InList(p)
    BY <1>12, <2>2
  <2>3. CASE EnteredHuge(p)
    <3>1. NoneLeft(Region(p))' /\ Region(p) # r /\ Region(p) \in Dir
      BY <1>3, <1>12, <2>3, AreaPageFacts, Zenon DEF EnteredHuge
    <3>2. hpd'[Region(p)] = [pse |-> TRUE, addr |-> Gva2gpa(p), user |-> TRUE]
      BY <1>13, <2>3, <3>1 DEF EnteredHuge
    <3> QED
      BY <1>3, <3>1, <3>2, Zenon DEF EnteredHuge
  <2> QED
    BY <1>1, <2>1, <2>2, <2>3, Zenon DEF IInv, UpdateInv
<1>17. UpdateInv'
  BY <1>3, <1>15, <1>16, Zenon DEF UpdateInv
<1>18. /\ RegionsOf(AreaPages(FALSE))' = RegionsOf(AreaPages(FALSE))
       /\ RegionsOf(AreaPages(TRUE))' = RegionsOf(AreaPages(TRUE))
  BY <1>3, Zenon DEF RegionsOf
<1>19. DirInv'
  <2>1. \A q \in Tabled : /\ hpd'[q].addr \in 1..num_used /\ hpd'[q].user
                          /\ q \in RegionsOf(AreaPages(FALSE))
    BY <1>14, Zenon DEF IInv, DirInv
  <2>2. \A q \in Dir \ Tabled : hpd'[q].user => q \in RegionsOf(AreaPages(TRUE))
    BY <1>4, <1>13, Zenon DEF IInv, DirInv
  <2> QED
    BY <1>9, <1>14, <1>18, <2>1, <2>2, Zenon DEF DirInv
<1>20. OwnTable' /\ TableInv' /\ CountInv'
  <2>1. OwnTable'
    BY <1>14 DEF IInv, OwnTable
  <2>2. TableInv'
    BY <1>3, <1>9, <1>14, Zenon DEF IInv, TableInv
  <2>3. CountInv'
    BY <1>9, <1>14 DEF IInv, CountInv
  <2> QED
    BY <2>1, <2>2, <2>3
<1> QED
  BY <1>1, <1>5, <1>9, <1>13, <1>17, <1>19, <1>20, EnterKeeps

\* The regions of the small pages are finitely many, with those that have a
\* table among them.
LEMMA SmallRegions ==
    ASSUME IInv
    PROVE  LET S == RegionsOf(AreaPages(FALSE))
           IN  /\ IsFiniteSet(S) /\ Tabled \subseteq S
               /\ Cardinality(S) \in Nat /\ num_used <= Cardinality(S)
<1> DEFINE S == RegionsOf(AreaPages(FALSE))
<1>1. S \subseteq Dir /\ Tabled \subseteq S
  BY AreaPageFacts, Zenon DEF IInv, DirInv, RegionsOf, Region
<1>2. IsFiniteSet(Dir)
  BY BigNat, FS_Interval DEF Dir
<1>3. IsFiniteSet(S)
  BY <1>1, <1>2, FS_Subset, Zenon
<1>4. Cardinality(S) \in Nat /\ Cardinality(Tabled) <= Cardinality(S)
  BY <1>1, <1>3, FS_Subset, FS_CardinalityType, Zenon
<1> QED
  BY <1>1, <1>3, <1>4, Zenon DEF IInv, CountInv

\* The steps that leave the list and the tables alone.
LEMMA TablesStay ==
    ASSUME IInv, UNCHANGED <<inputs, head_hva, hpd, pts, num_used, tlb>>,
           pc # "read", pc' \in {"signal", "done", "halted"}, EndInv'
    PROVE  IInv'
<1>1. InputInv' /\ UNCHANGED <<maps, gpt, walk, signal>>
      /\ AreaPages(TRUE)' = AreaPages(TRUE) /\ AreaPages(FALSE)' = AreaPages(FALSE)
      /\ \A p : Gva2gpa(p)' = Gva2gpa(p)
  BY Frozen, Zenon DEF IInv
<1>2. /\ Tabled' = Tabled /\ \A p : InList(p)' = InList(p)
      /\ \A r : NoneLeft(r)' = NoneLeft(r) /\ \A S : RegionsOf(S)' = RegionsOf(S)
  BY DEF Tabled, InList, NoneLeft, RegionsOf
<1>3. Typed' /\ EntryInv' /\ OrderInv' /\ ReadInv'
  <2>1. Typed'
    BY <1>1, <1>2 DEF IInv, Typed, RegionsOf
  <2>2. EntryInv'
    BY <1>1, Zenon DEF IInv, EntryInv
  <2> QED
    BY <2>1, <2>2 DEF IInv, OrderInv, ReadInv
<1>4. UpdateInv'
  <2>1. \A p : Entered(p)' = Entered(p) /\ EnteredHuge(p)' = EnteredHuge(p)
    BY <1>1, <1>2, Zenon DEF Entered, EnteredHuge
  <2> QED
    BY <1>1, <1>2, <2>1, Zenon DEF IInv, UpdateInv
<1>5. DirInv'
  BY <1>1, <1>2, Zenon DEF IInv, DirInv, RegionsOf
<1>6. OwnTable' /\ CountInv'
  BY <1>2 DEF IInv, OwnTable, CountInv
<1>7. TableInv'
  BY <1>1, <1>2, Zenon DEF IInv, TableInv
<1> QED
  BY <1>1, <1>3, <1>4, <1>5, <1>6, <1>7 DEF IInv

\* The pages of app_pl run out only if there are more regions than pages.
LEMMA AbortKeeps ==
    ASSUME IInv, Abort
    PROVE  IInv'
<1> DEFINE e == Head(head_hva)
           r == Region(e.vaddr)
           S == RegionsOf(AreaPages(FALSE))
<1>1. /\ head_hva # <<>> /\ ~e.is_huge_page /\ hpd[r].pse /\ num_used >= Pool
      /\ pc = "update" /\ pc' = "halted"
      /\ UNCHANGED <<inputs, todo, head_hva, hpd, pts, num_used, tlb, wrote>>
  BY DEF Abort, NeedsTable, Exhausted, PdtIndex, Region
<1>2. e.vaddr \in Pages /\ e.vaddr \in AreaPages(FALSE)
  <2>1. head_hva \in Seq(PageEntry)
    BY DEF IInv, Typed
  <2>2. 1 \in 1..Len(head_hva) /\ e = head_hva[1] /\ e \in PageEntry
    BY <1>1, <2>1, HeadTailProperties, EmptySeq, LenProperties
  <2>3. e.vaddr \in AreaPages(FALSE)
    BY <1>1, <2>2, Zenon DEF IInv, EntryInv
  <2> QED
    BY <2>2, <2>3, Zenon DEF PageEntry
<1>3. r \in S /\ r \notin Tabled
  BY <1>1, <1>2, Zenon DEF RegionsOf, Region, Tabled
<1>4. /\ IsFiniteSet(S) /\ Tabled \subseteq S /\ Cardinality(S) \in Nat
  BY SmallRegions, Zenon
<1>5. IsFiniteSet(Tabled) /\ Cardinality(Tabled) = num_used
  BY DEF IInv, CountInv
<1> HIDE DEF r, S
<1>6. Cardinality(Tabled \cup {r}) = num_used + 1
  BY <1>3, <1>5, FS_AddElement
<1>7. Cardinality(Tabled \cup {r}) <= Cardinality(S)
  BY <1>3, <1>4, FS_Subset
<1>8. Pool < Cardinality(S)
  BY <1>1, <1>4, <1>6, <1>7, BigNat DEF IInv, Typed
<1>9. AreaPages(FALSE)' = AreaPages(FALSE)
  BY <1>1, Frozen, Zenon DEF IInv
<1>10. EndInv'
  BY <1>1, <1>8, <1>9, Zenon DEF EndInv, SignalDelivered, RegionsOf, S
<1> QED
  BY <1>1, <1>10, TablesStay

\* The list is done.
LEMMA UpdatedKeeps ==
    ASSUME IInv, Updated
    PROVE  IInv'
<1>1. EndInv'
  BY DEF Updated, EndInv, SignalDelivered
<1> QED
  BY <1>1, TablesStay DEF Updated

\* Once the list is empty a small page that the guest has mapped is found at
\* its frame.
LEMMA SmallFound ==
    ASSUME IInv, pc # "read", head_hva = <<>>, NEW p \in AreaPages(FALSE), gpt[p] # None
    PROVE  Translate(p) = [frame |-> gpt[p], user |-> TRUE]
<1>1. p \in Pages /\ Region(p) \in Dir /\ Gva2gpa(p) = gpt[p]
  BY AreaPageFacts, FrameFacts, Zenon DEF IInv
<1>2. ~InList(p)
  BY EmptySeq DEF InList
<1>3. Entered(p)
  BY <1>2, Zenon DEF IInv, UpdateInv
<1>4. hpd[Region(p)].user
  BY <1>1, <1>3, Zenon DEF IInv, DirInv, Tabled, Entered
<1> QED
  BY <1>1, <1>3, <1>4, Zenon DEF Translate, Entered, Region, Offset

\* The store to the router's variable.
LEMMA SetSignalKeeps ==
    ASSUME IInv, SetSignal
    PROVE  IInv'
<1>1. /\ pc = "signal" /\ pc' = "done"
      /\ UNCHANGED <<inputs, todo, head_hva, hpd, pts, num_used, tlb>>
  BY DEF SetSignal
<1>2. UNCHANGED <<maps, gpt, walk, signal>> /\ head_hva = <<>> /\ tlb \subseteq RegionsOf(walk)
  BY <1>1, Frozen DEF IInv, EndInv, Typed
<1>3. signal \div Big \notin tlb => wrote' = gpt[signal]
  <2>1. signal \in AreaPages(FALSE) /\ gpt[signal] # None
    BY Zenon DEF IInv, InputInv
  <2>2. Translate(signal) = [frame |-> gpt[signal], user |-> TRUE]
    BY <1>1, <1>2, <2>1, SmallFound, Zenon
  <2> QED
    BY <2>2 DEF SetSignal
<1>4. SignalDelivered'
  BY <1>2, <1>3 DEF SignalDelivered, RegionsOf
<1>5. EndInv'
  BY <1>1, <1>2, <1>4 DEF EndInv
<1> QED
  BY <1>1, <1>5, TablesStay

\* Every step keeps the invariant.
LEMMA Preserved ==
    ASSUME IInv, [Next]_vars
    PROVE  IInv'
<1>1. CASE ReadArea
  BY <1>1, ReadKeeps
<1>2. CASE UpdateEntry
  BY <1>2, NewTableKeeps, InTableKeeps, HugeKeeps DEF UpdateEntry
<1>3. CASE Abort
  BY <1>3, AbortKeeps
<1>4. CASE Updated
  BY <1>4, UpdatedKeeps
<1>5. CASE SetSignal
  BY <1>5, SetSignalKeeps
<1>6. CASE UNCHANGED vars
  <2>1. /\ UNCHANGED <<pc, inputs, todo, head_hva, hpd, pts, num_used, tlb, wrote>>
        /\ UNCHANGED <<maps, gpt, walk, signal>>
    BY <1>6 DEF vars, inputs
  <2>2. InputInv' /\ Typed' /\ EntryInv' /\ OrderInv'
    BY <2>1, Frozen, Zenon DEF IInv, Typed, EntryInv, OrderInv, RegionsOf
  <2>3. Tabled' = Tabled /\ AreaPages(FALSE)' = AreaPages(FALSE)
        /\ AreaPages(TRUE)' = AreaPages(TRUE) /\ \A p : Gva2gpa(p)' = Gva2gpa(p)
    BY <2>1, Frozen, Zenon DEF IInv, Tabled
  <2>4. ReadInv'
    <3>1. \A a : Listed(a)' = Listed(a)
      BY <2>1 DEF Listed, InList
    <3> QED
      BY <2>1, <2>3, <3>1 DEF IInv, ReadInv
  <2>5. UpdateInv'
    <3>1. \A p : /\ InList(p)' = InList(p) /\ Entered(p)' = Entered(p)
                 /\ EnteredHuge(p)' = EnteredHuge(p)
      BY <2>1, <2>3, Zenon DEF InList, Entered, EnteredHuge, NoneLeft
    <3> QED
      BY <2>1, <2>3, <3>1, ZenonT(40) DEF IInv, UpdateInv
  <2>6. DirInv' /\ OwnTable' /\ CountInv'
    BY <2>1, <2>3, Zenon DEF IInv, DirInv, OwnTable, CountInv, RegionsOf
  <2>7. TableInv' /\ EndInv'
    BY <2>1, <2>3, Zenon DEF IInv, TableInv, EndInv, SignalDelivered, RegionsOf
  <2> QED
    BY <2>2, <2>4, <2>5, <2>6, <2>7 DEF IInv
<1> QED
  BY <1>1, <1>2, <1>3, <1>4, <1>5, <1>6 DEF Next

-----------------------------------------------------------------------------
(***************************************************************************)
(* The theorems.                                                           *)
(***************************************************************************)

\* The invariant of the hypercall (appmain.c:124-252) holds throughout.
THEOREM Invariance == Spec => []IInv
<1>1. Init => IInv
  BY Initially
<1>2. IInv /\ [Next]_vars => IInv'
  BY Preserved
<1> QED
  BY <1>1, <1>2, PTL DEF Spec

\* A huge page of the router is found at its frame, through the one entry that
\* stands for its half of the guest's large page.
LEMMA HugeFound ==
    ASSUME IInv, pc # "read", head_hva = <<>>, NEW p \in AreaPages(TRUE)
    PROVE  Translate(p) = [frame |-> gpt[p], user |-> TRUE]
<1> DEFINE b == Big * Region(p)
<1>1. /\ b \in AreaPages(TRUE) /\ Region(b) = Region(p) /\ Offset(b) = 0
      /\ gpt[b] # None /\ gpt[p] = gpt[b] + Offset(p)
  BY HugeFrames, Zenon DEF IInv
<1>2. b \in Pages /\ gpt[b] \in Pages /\ Gva2gpa(b) = gpt[b] /\ p \in Nat /\ Offset(p) \in Slots
  BY <1>1, AreaPageFacts, FrameFacts, RegionFacts, Zenon DEF IInv
<1> HIDE DEF b
<1>3. ~InList(b)
  BY EmptySeq DEF InList
<1>4. hpd[Region(p)] = [pse |-> TRUE, addr |-> gpt[b], user |-> TRUE]
  BY <1>1, <1>2, <1>3, Zenon DEF IInv, UpdateInv, EnteredHuge
<1>5. gpt[p] # None
  BY <1>1, <1>2, BigNat DEF Pages, Slots, None
<1>6. /\ hpd[p \div Big].pse /\ hpd[p \div Big].user
      /\ hpd[p \div Big].addr + (p % Big) = gpt[p]
  BY <1>1, <1>4 DEF Region, Offset
<1> QED
  BY <1>5, <1>6, Zenon DEF Translate

\* For every address space, every guest page table and every pool, when the
\* hypercall is done every page of the router that the guest has mapped is at
\* its frame and open to ring 3 (update_hypervisor_pt, appmain.c:124-168).
THEOREM RouterIsMapped == Spec => []MapsProcess
<1>1. IInv => MapsProcess
  <2> SUFFICES ASSUME IInv, pc = "done",
                      NEW p \in AreaPages(FALSE) \cup AreaPages(TRUE), gpt[p] # None
               PROVE  Translate(p) = [frame |-> gpt[p], user |-> TRUE]
    BY Zenon DEF MapsProcess
  <2>1. head_hva = <<>> /\ pc # "read"
    BY DEF IInv, EndInv
  <2> QED
    BY <2>1, SmallFound, HugeFound, Zenon
<1> QED
  BY <1>1, Invariance, PTL

\* At no step does ring 3 reach a page that is not the router's: a split large
\* page starts from an empty table, and a large user page lies in a huge area
\* as a whole (appmain.c:142-147).
THEOREM RingThreeConfined == Spec => []OnlyProcessUser
<1>1. IInv => OnlyProcessUser
  <2> SUFFICES ASSUME IInv, NEW p \in Pages, Translate(p).user
               PROVE  p \in AreaPages(FALSE) \cup AreaPages(TRUE)
    BY Zenon DEF OnlyProcessUser
  <2>1. /\ p \in Nat /\ Region(p) \in Dir /\ Offset(p) \in Slots
        /\ p = Big * Region(p) + Offset(p)
    BY PageFacts, RegionFacts
  <2>2. hpd[Region(p)].user
    BY Zenon DEF Translate, Region
  <2>3. CASE Region(p) \in Tabled
    <3>1. pts[hpd[Region(p)].addr][Offset(p)] # None
      BY <2>3, Zenon DEF Translate, Tabled, Region, Offset
    <3>2. Big * Region(p) + Offset(p) \in AreaPages(FALSE)
      BY <2>1, <2>3, <3>1, Zenon DEF IInv, TableInv
    <3> QED
      BY <2>1, <3>2, Zenon
  <2>4. CASE Region(p) \notin Tabled
    <3>1. Region(p) \in RegionsOf(AreaPages(TRUE))
      BY <2>1, <2>2, <2>4, Zenon DEF IInv, DirInv
    <3>2. PICK q \in AreaPages(TRUE) : Region(q) = Region(p)
      BY <3>1, Zenon DEF RegionsOf, Region
    <3>3. InputInv
      BY DEF IInv
    <3>4. PICK i \in 1..Len(maps) : q \in PagesOf(maps[i]) /\ Huge(maps[i])
      BY <3>3, AreaOf, Zenon
    <3>5. p \in PagesOf(maps[i])
      BY <2>1, <3>2, <3>3, <3>4, WholeRegion
    <3>6. p \in AreaPages(TRUE)
      BY <3>3, <3>4, <3>5, AreaOf, Zenon
    <3> QED
      BY <3>6, Zenon
  <2> QED
    BY <2>3, <2>4, Zenon
<1> QED
  BY <1>1, Invariance, PTL

\* The tables are never more than the regions with small pages, and the
\* hypercall stops for want of a page only if these are more than app_pl has
\* (pages.c:71-77).
THEOREM TablesAreEnough == Spec => []OneTablePerRegion
<1>1. IInv => OneTablePerRegion
  BY SmallRegions, Zenon DEF OneTablePerRegion, IInv, EndInv
<1> QED
  BY <1>1, Invariance, PTL

\* The store that lets the workers go on reaches the router's variable, unless
\* the entry of its region was in the TLB from reading the guest's page tables
\* (appmain.c:249-250).
THEOREM WorkersAreWoken == Spec => []SignalDelivered
<1>1. IInv => SignalDelivered
  BY DEF IInv, EndInv
<1> QED
  BY <1>1, Invariance, PTL
=============================================================================
