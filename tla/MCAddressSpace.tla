---------------------------- MODULE MCAddressSpace ----------------------------
(* Small instances of AddressSpace for TLC.  A unit is 1 KiB, so the sizes   *)
(* of the heap, the stacks and the pages are the real ones; the addresses    *)
(* are much closer together and a page table has 8 entries.                  *)
EXTENDS AddressSpace

Region(start, end, usable) == [start |-> start, end |-> end, usable |-> usable]

(* Plenty of memory behind a hole; exactly enough for some images; too       *)
(* little for every one.  A usable region of the first ends inside a page,   *)
(* one of the second begins and ends inside a page; only the third consists  *)
(* of whole pages.                                                           *)
MCMemoryMaps == {
    <<Region(0, 8, FALSE), Region(8, 39, TRUE), Region(39, 60, FALSE), Region(60, 300, TRUE)>>,
    <<Region(16, 24, TRUE), Region(24, 26, FALSE), Region(401, 605, TRUE)>>,
    <<Region(0, 4, FALSE), Region(4, 164, TRUE)>>}

Segment(vaddr, memsz, filesz, write, offset) ==
    [vaddr |-> vaddr, memsz |-> memsz, filesz |-> filesz, write |-> write, offset |-> offset]

(* Within a page, ending exactly at a page boundary, across one; the second  *)
(* segment may begin in the page in which the first one ends, or lie in the  *)
(* way of a stack.                                                           *)
Text == {Segment(v, m, f, FALSE, 0) : v \in {8, 11}, m \in {4, 5}, f \in {1}}
Data == {Segment(v, m, m \div 2, TRUE, 20) : v \in {12, 15, 16, 62}, m \in {1, 4, 6}}
ROData == {Segment(20, 3, 3, FALSE, 40)}

MCImages == {<<t>> : t \in Text} \cup {<<t, d>> : t \in Text, d \in Data}
            \cup {<<t, r, d>> : t \in Text, r \in ROData, d \in Data}

MCStackStart == <<16, 28>>
MCBootTables == {<<3, 0>>}
==============================================================================
