------------------------------ MODULE HostMap ------------------------------
(***************************************************************************)
(* What the quiesce hypercall does while the machine is stopped            *)
(* (hypapps/quiesce/app/appmain.c): it reads the list of the areas of the  *)
(* router's address space, looks up every page in the guest's page tables  *)
(* and enters it into the page tables of the hypervisor, so that the       *)
(* workers can go on in ring 3.  Then it sets the variable the workers     *)
(* wait for, through the page tables just changed.                         *)
(*                                                                         *)
(* An address is the number of a 4K page.  The hypervisor maps 2M, Big     *)
(* pages, by one entry of its page directory or by a page table.  A region *)
(* is what one entry maps.  The hypervisor itself is in regions above      *)
(* those of the router (0xC0200000, sl-x86.c).                             *)
(***************************************************************************)
EXTENDS Integers, Sequences, Functions, FiniteSets

CONSTANTS Big,          \* 4K pages in 2M
          Regions,      \* the regions below the hypervisor are 0..Regions-1
          Pool,         \* pages of app_pl for page tables
          Maps,         \* address spaces of the router
          GuestTables,  \* page tables of the guest
          Unmapped,     \* where the walk of a page not in them ends
          Walks         \* sets of frames: the guest's page tables and list

Pages == 0 .. Big * Regions - 1
None  == -1             \* a page the guest has not mapped

\* proc_map_t
Areas == [start_addr : Nat, end_addr : Nat, is_huge_page : BOOLEAN]

Huge(a)  == a.is_huge_page
PagesOf(a) == a.start_addr .. a.end_addr - 1

\* Areas follow each other; huge pages of the guest have 4M and are mapped.
ASSUME ConstantsAssumption ==
    /\ Big \in Nat \ {0} /\ Regions \in Nat /\ Pool \in Nat
    /\ Maps \subseteq Seq(Areas)
    /\ \A m \in Maps : \A i \in 1..Len(m) :
           /\ PagesOf(m[i]) # {} /\ PagesOf(m[i]) \subseteq Pages
           /\ \A j \in 1..i-1 : m[j].end_addr <= m[i].start_addr
           /\ Huge(m[i]) => /\ m[i].start_addr % (2 * Big) = 0
                            /\ m[i].end_addr % (2 * Big) = 0
    /\ GuestTables \subseteq [Pages -> Pages \cup {None}]
    /\ Unmapped \in [Pages -> Pages]
    /\ Walks \subseteq SUBSET Pages

VARIABLES
    pc,
    maps,       \* the areas, in the order of /proc/self/maps
    gpt,        \* the page table of the guest
    walk,       \* the frames the hypervisor reads to look them up
    signal,     \* the page of slave_resume_signal
    todo,       \* the areas still to read
    head_hva,   \* the list of pages
    hpd,        \* the page directory of the hypervisor
    pts,        \* the pages of app_pl used as page tables
    num_used,   \* how many are
    tlb,        \* the regions whose entry the core has in its TLB
    wrote       \* the frame the signal was written to

inputs == <<maps, gpt, walk, signal>>
vars == <<pc, inputs, todo, head_hva, hpd, pts, num_used, tlb, wrote>>

AreaPages(huge) == UNION {PagesOf(a) : a \in {b \in Range(maps) : Huge(b) = huge}}
RegionsOf(pages) == {p \div Big : p \in pages}

PageEntry == [vaddr : Pages, paddr : Pages, is_huge_page : BOOLEAN]
DirEntry == [pse : BOOLEAN, addr : Pages \cup 1..Pool, user : BOOLEAN]

TypeOK ==
    /\ pc \in {"read", "update", "signal", "done", "halted"}
    /\ maps \in Maps /\ gpt \in GuestTables /\ walk \in Walks /\ signal \in Pages
    /\ todo \in 0..Len(maps)
    /\ head_hva \in Seq(PageEntry)
    /\ hpd \in [0..Regions-1 -> DirEntry]
    /\ pts \in [1..Pool -> [0..Big-1 -> Pages \cup {None}]]
    /\ num_used \in 0..Pool
    /\ tlb \subseteq 0..Regions-1
    /\ wrote \in Pages \cup {None}

\* A huge area of the router is backed by pages of 4M of the guest.
Backed(m, g) ==
    \A i \in 1..Len(m) : Huge(m[i]) =>
        \A p \in PagesOf(m[i]) :
            LET base == p - (p % (2 * Big))
            IN  /\ g[base] # None /\ g[base] % (2 * Big) = 0
                /\ g[p] = g[base] + (p % (2 * Big))

Identity(r) == [pse |-> TRUE, addr |-> r * Big, user |-> FALSE]

Init ==
    /\ pc = "read"
    /\ maps \in Maps
    /\ gpt \in {g \in GuestTables : Backed(maps, g)}
    /\ walk \in Walks
    /\ signal \in {p \in AreaPages(FALSE) : gpt[p] # None}
    /\ todo = Len(maps)
    /\ head_hva = <<>>
    /\ hpd = [r \in 0..Regions-1 |-> Identity(r)]
    /\ pts = [t \in 1..Pool |-> [i \in 0..Big-1 |-> None]]
    /\ num_used = 0
    /\ tlb = {}
    /\ wrote = None

-----------------------------------------------------------------------------
\* The address bits of the last entry of the walk, which tests no present bit: an
\* entry of 0 leads to frame 0, and one of 0 in the directory to whatever the
\* page at physical address 0 holds in the place of a table.
Gva2gpa(p) == IF gpt[p] = None THEN Unmapped[p] ELSE gpt[p]

\* How far the loops of get_proc_map_from_guest_app advance; the last item of
\* the list is taken page by page whatever it is.
Step(a, last) == IF Huge(a) /\ ~last THEN Big ELSE 1

\* Mutant of Pushed: the pages are added at the other end of the list.
PushedInOrder(a, last) ==
    LET n == (a.end_addr - a.start_addr) \div Step(a, last)
        page(i) == a.start_addr + i * Step(a, last)
    IN  [i \in 1..n |-> [vaddr |-> page(i - 1), paddr |-> Gva2gpa(page(i - 1)),
                         is_huge_page |-> Huge(a)]]

\* The pages of an area as push_pa_map leaves them, the last one first.
Pushed(a, last) ==
    LET n == (a.end_addr - a.start_addr) \div Step(a, last)
        page(i) == a.start_addr + i * Step(a, last)
    IN  [i \in 1..n |-> [vaddr |-> page(n - i), paddr |-> Gva2gpa(page(n - i)),
                         is_huge_page |-> Huge(a)]]

\* Mutant of AfterRead: the workers are woken first.
WakeFirst == "signal"

\* What xmhf_app_handlehypercall goes on with.
AfterRead == "update"

\* get_proc_map_from_guest_app reads an area.  proc_maps_push made the list the
\* other way round, so that it ends with the lowest one.
ReadArea ==
    /\ pc = "read"
    /\ head_hva' = Pushed(maps[todo], todo = 1) \o head_hva
    /\ todo' = todo - 1
    /\ tlb' = tlb \cup RegionsOf(walk)
    /\ pc' = IF todo = 1 THEN AfterRead ELSE "read"
    /\ UNCHANGED <<inputs, hpd, pts, num_used, wrote>>

-----------------------------------------------------------------------------
\* pae_get_pdt_index, with pae_get_pdpt_index before it
PdtIndex(p) == p \div Big

\* pae_get_pt_index
PtIndex(p) == p % Big

\* Mutant of ZeroedPage: the table maps what the large page mapped.
OldPage(r) == [i \in 0..Big-1 |-> r * Big + i]

\* pagelist_get_zeroedpage
ZeroedPage(r) == [i \in 0..Big-1 |-> None]

\* EU_VERIFY in pagelist_get_page
Exhausted == num_used >= Pool

\* Mutant of NeedsTable: every page gets a table of its own.
NeedsTableAlways(r) == TRUE

\* pd_entry & _PAGE_PSE
NeedsTable(r) == hpd[r].pse

\* The three ways in which update_hypervisor_pt enters a page.
MapInNewTable(e) ==
    LET r == PdtIndex(e.vaddr)
        t == num_used + 1
    IN  /\ ~e.is_huge_page /\ NeedsTable(r) /\ ~Exhausted
        /\ num_used' = t
        /\ pts' = [pts EXCEPT ![t] = [ZeroedPage(r) EXCEPT ![PtIndex(e.vaddr)] = e.paddr]]
        /\ hpd' = [hpd EXCEPT ![r] = [pse |-> FALSE, addr |-> t, user |-> TRUE]]

MapInTable(e) ==
    LET r == PdtIndex(e.vaddr)
    IN  /\ ~e.is_huge_page /\ ~NeedsTable(r)
        /\ pts' = [pts EXCEPT ![hpd[r].addr][PtIndex(e.vaddr)] = e.paddr]
        /\ UNCHANGED <<hpd, num_used>>

\* An entry that points to a table is left alone, with a message.
MapHuge(e) ==
    LET r == PdtIndex(e.vaddr)
    IN  /\ e.is_huge_page
        /\ hpd' = IF hpd[r].pse
                  THEN [hpd EXCEPT ![r] = [pse |-> TRUE, addr |-> e.paddr, user |-> TRUE]]
                  ELSE hpd
        /\ UNCHANGED <<pts, num_used>>

\* update_hypervisor_pt takes the next page of the list, up to the sentinel.
UpdateEntry ==
    /\ pc = "update"
    /\ head_hva # <<>>
    /\ LET e == Head(head_hva)
       IN  MapInNewTable(e) \/ MapInTable(e) \/ MapHuge(e)
    /\ head_hva' = Tail(head_hva)
    /\ UNCHANGED <<pc, inputs, todo, tlb, wrote>>

\* There is no page left for a table.
Abort ==
    /\ pc = "update"
    /\ head_hva # <<>>
    /\ ~Head(head_hva).is_huge_page
    /\ NeedsTable(PdtIndex(Head(head_hva).vaddr))
    /\ Exhausted
    /\ pc' = "halted"
    /\ UNCHANGED <<inputs, todo, head_hva, hpd, pts, num_used, tlb, wrote>>

Updated ==
    /\ pc = "update"
    /\ head_hva = <<>>
    /\ pc' = "signal"
    /\ UNCHANGED <<inputs, todo, head_hva, hpd, pts, num_used, tlb, wrote>>

\* The frame and the mode of a page by the page tables of the hypervisor.
Translate(p) ==
    LET d == hpd[p \div Big]
        f == IF d.pse THEN d.addr + (p % Big) ELSE pts[d.addr][p % Big]
    IN  [frame |-> f, user |-> f # None /\ d.user]

\* *slave_resume_signal_p = 1: the store uses the entry of the TLB if there is
\* one, and nothing has flushed it.
SetSignal ==
    /\ pc = "signal"
    /\ wrote' = IF signal \div Big \in tlb THEN signal ELSE Translate(signal).frame
    /\ pc' = "done"
    /\ UNCHANGED <<inputs, todo, head_hva, hpd, pts, num_used, tlb>>

Next == ReadArea \/ UpdateEntry \/ Abort \/ Updated \/ SetSignal

Spec == Init /\ [][Next]_vars

-----------------------------------------------------------------------------
\* When the hypercall is done, the workers see in ring 3 what the guest mapped:
\* every page of the address space that the guest has mapped is at its frame,
\* through large pages and tables, in whatever order the list has them
\* (appmain.c:124-168, 171-220).
MapsProcess ==
    pc = "done" =>
        \A p \in AreaPages(FALSE) \cup AreaPages(TRUE) :
            gpt[p] # None => Translate(p) = [frame |-> gpt[p], user |-> TRUE]

\* At no time does ring 3 reach a page that is not of the address space, even
\* where a large page of the hypervisor had to be split (appmain.c:142-147).
OnlyProcessUser ==
    \A p \in Pages : Translate(p).user => p \in AreaPages(FALSE) \cup AreaPages(TRUE)

\* A region takes one page table however many pages and areas are in it, and
\* the hypercall fails only if the regions are more than the pages of app_pl
\* (pages.c:71-77).
OneTablePerRegion ==
    LET n == Cardinality(RegionsOf(AreaPages(FALSE)))
    IN  num_used <= n /\ (pc = "halted" => Pool < n)

\* The store that wakes the workers reaches the router's variable, unless the
\* hypervisor read guest memory in the region of the same address before it
\* changed the entry, which it does not flush (appmain.c:249-250).
SignalDelivered ==
    pc = "done" => wrote = gpt[signal] \/ signal \div Big \in RegionsOf(walk)
=============================================================================
