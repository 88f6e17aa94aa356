----------------------------- MODULE MCHostMap -----------------------------
(***************************************************************************)
(* A small instance of HostMap: four regions of two pages each, so that a  *)
(* page of 4M of the guest is two regions.                                 *)
(***************************************************************************)
EXTENDS HostMap

Area(s, e, h) == [start_addr |-> s, end_addr |-> e, is_huge_page |-> h]

\* Up to MaxAreas areas, of one to MaxPages pages or huge.
CONSTANTS MaxAreas, MaxPages

MCAreas ==
    {Area(s, e, FALSE) : s \in 0..7, e \in 1..8}
    \cup {Area(0, 4, TRUE), Area(4, 8, TRUE), Area(0, 8, TRUE)}

MCMaps ==
    LET areas == {a \in MCAreas : /\ a.start_addr < a.end_addr
                                  /\ Huge(a) \/ a.end_addr - a.start_addr <= MaxPages}
        ascending(m) == \A i \in 1..Len(m)-1 : m[i].end_addr <= m[i+1].start_addr
    IN  {m \in UNION {[1..n -> areas] : n \in 1..MaxAreas} : ascending(m)}

\* Half of the guest's pages moved as a whole, the other half mixed up, with
\* and without pages that are not mapped.
Moved == [p \in 0..7 |-> (p + 4) % 8]
Mixed == [p \in 0..7 |-> 7 - p]
Holes == [p \in 0..7 |-> IF p % 2 = 0 THEN -1 ELSE 7 - p]

MCGuestTables ==
    {[p \in 0..7 |-> IF p < 4 THEN f[p] ELSE g[p]] :
        f \in {Moved, Holes}, g \in {Moved, Mixed}}

\* One hole is an entry of 0, the other one of the directory.
MCUnmapped == [p \in 0..7 |-> IF p < 2 THEN 0 ELSE 3]
=============================================================================
