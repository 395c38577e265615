------------------------------- MODULE BootProofs -------------------------------
(***************************************************************************)
(* The outcome of the boot, for every memory map, program image, heap and  *)
(* number of processes that the heap has room for: kernel_main panics      *)
(* exactly when the frames do not suffice or two things need the same      *)
(* page (BootVerdict).                                                     *)
(*                                                                         *)
(* The argument is one of accounting.  The pages that the heap, the        *)
(* segments and the stacks need are served one demand after the other;     *)
(* what allocate_frame has handed out is the number of mapped pages and of *)
(* page tables on the way to them, so the frames run out only if they      *)
(* could not have sufficed.                                                *)
(***************************************************************************)
EXTENDS AddressSpaceProofs

(* The demand kernel_main is serving, and the pages of it that are still to  *)
(* be mapped (while a segment is protected, all of its pages are mapped).    *)
Current ==
    CASE phase = "heap" -> 1
      [] phase \in {"segment", "protect"} -> 1 + item
      [] phase = "stack" -> 1 + Len(image) + item
      [] OTHER -> 2 + Len(image) + NumProcs
Ahead == IF phase \in {"heap", "segment", "stack"} THEN Range(todo) ELSE {}

(* What has been mapped of demand i.                                         *)
Served(i) ==
    {page \in Demands[i] : i < Current \/ (i = Current /\ page \notin Ahead)}

(* Every frame that was taken is a page's or a page table's, and every page  *)
(* table is on the way to a mapped page.                                     *)
Accounts ==
    /\ IsFiniteSet(DOMAIN pt) /\ IsFiniteSet(DOMAIN tables)
    /\ next = Cardinality(DOMAIN pt) + Cardinality(DOMAIN tables)
    /\ DOMAIN tables = (UNION {Path(q) : q \in DOMAIN pt}) \ BootTables

(* The demands are served in turn, and no page so far was in two of them.    *)
Progress ==
    phase # "panic" =>
        /\ DOMAIN pt = UNION {Served(i) : i \in DOMAIN Demands}
        /\ \A i, j \in DOMAIN Demands : i # j => Served(i) \cap Served(j) = {}

(* Before the kernel task the heap holds what the processes took.            *)
HeapAccount ==
    phase \notin {"running", "panic"} =>
        heap_used = Len(user_rsp) * (UserKStack + SmallObjects)

(* The inductive invariant of the boot, on top of FrameInv and LoadInv.      *)
BootInv == /\ Accounts
           /\ Progress
           /\ HeapAccount
           /\ phase = "panic" => ~Fits

--------------------------------------------------------------------------------
(* What a function takes on a finite set is finite.                          *)
LEMMA FiniteRange ==
    ASSUME NEW S, IsFiniteSet(S), NEW T, NEW f \in [S -> T]
    PROVE  IsFiniteSet(Range(f))
<1>1. f \in Surjection(S, Range(f))
  BY DEF Surjection, Range
<1> QED
  BY <1>1, FS_Surjection

(* A page has finitely many tables on its way.                               *)
LEMMA FinitePath ==
    ASSUME NEW page
    PROVE  IsFiniteSet(Path(page))
<1>1. \A x, y, z : IsFiniteSet({x, y, z})
  <2> TAKE x, y, z
  <2>1. {x, y, z} = ({x} \cup {y}) \cup {z}
    OBVIOUS
  <2>2. IsFiniteSet(({x} \cup {y}) \cup {z})
    BY FS_Singleton, FS_AddElement
  <2> QED
    BY <2>1, <2>2
<1> QED
  BY <1>1, Zenon DEF Path

(* The pages of an address range are those from its first address to its     *)
(* last: with every page in between, one address of the page is in the range.*)
LEMMA CoveringRange ==
    ASSUME NEW start \in Nat, NEW size \in Nat \ {0}
    PROVE  Covering(start, size) = PageOf(start) .. PageOf(start + size - 1)
<1> DEFINE last == start + size - 1
<1>1. start \in Int /\ last \in Int /\ start <= last
  OBVIOUS
<1> HIDE DEF last
<1>2. PageOf(start) \in Int /\ PageOf(last) \in Int
  BY <1>1, PageNumber
<1>3. Covering(start, size) = {PageOf(addr) : addr \in start .. last}
  BY DEF Covering, last
<1>4. ASSUME NEW addr \in start .. last
      PROVE  PageOf(addr) \in PageOf(start) .. PageOf(last)
  <2>1. addr \in Int /\ start <= addr /\ addr <= last
    BY <1>1
  <2>2. PageOf(addr) \in Int /\ PageOf(start) <= PageOf(addr) /\ PageOf(addr) <= PageOf(last)
    BY <1>1, <2>1, PageNumber, PageOrder
  <2> QED
    BY <1>2, <2>2
<1>5. ASSUME NEW page \in PageOf(start) .. PageOf(last)
      PROVE  \E addr \in start .. last : PageOf(addr) = page
  <2>1. CASE page = PageOf(start)
    <3>1. start \in start .. last
      BY <1>1
    <3> QED
      BY <2>1, <3>1
  <2>2. CASE page # PageOf(start)
    <3> DEFINE first == PageOf(start)
               final == PageOf(last)
    <3>1. /\ first \in Int /\ final \in Int /\ page \in Int
          /\ first + 1 <= page /\ page <= final
      BY <1>2, <2>2
    <3>2. PageSize \in Nat /\ PageSize > 0
      BY SizeAssumption
    <3>3. start < PageSize * first + PageSize /\ PageSize * final <= last
      BY <1>1, PageNumber
    <3> HIDE DEF first, final
    <3>4. PageSize * (first + 1) <= PageSize * page /\ PageSize * page <= PageSize * final
      BY <3>1, <3>2
    <3>5. PageSize * (first + 1) = PageSize * first + PageSize /\ PageSize * page \in Int
          /\ PageSize * first \in Int /\ PageSize * final \in Int
      BY <3>1, <3>2
    <3>6. PageSize * page \in start .. last
      BY <1>1, <3>2, <3>3, <3>4, <3>5
    <3>7. PageOf(PageSize * page) = page
      <4>1. 0 \in 0 .. PageSize - 1 /\ PageSize * page = page * PageSize + 0
        BY <3>1, <3>2
      <4> QED
        BY <3>1, <4>1, PageNumberUnique
    <3> QED
      BY <3>6, <3>7
  <2> QED
    BY <2>1, <2>2
<1> QED
  BY <1>3, <1>4, <1>5 DEF last

(* A range that begins with a page, which may be empty.                      *)
LEMMA CoveringWholePages ==
    ASSUME NEW first \in Nat, NEW size \in Nat
    PROVE  Covering(first * PageSize, size) = first .. PageOf(first * PageSize + size - 1)
<1> DEFINE start == first * PageSize
<1>1. PageSize \in Nat /\ PageSize > 0
  BY SizeAssumption
<1>2. start \in Nat /\ start = first * PageSize + 0
      /\ start - 1 = (first - 1) * PageSize + (PageSize - 1)
  BY <1>1
<1>3. PageOf(start) = first /\ PageOf(start - 1) = first - 1
  <2>1. first \in Int /\ first - 1 \in Int /\ 0 \in 0 .. PageSize - 1
        /\ PageSize - 1 \in 0 .. PageSize - 1
    BY <1>1
  <2> QED
    BY <1>2, <2>1, PageNumberUnique
<1> HIDE DEF start
<1>4. CASE size = 0
  <2>1. start + size - 1 = start - 1 /\ start .. start + size - 1 = {}
    BY <1>2, <1>4
  <2>2. first .. first - 1 = {}
    OBVIOUS
  <2>3. Covering(start, size) = {}
    BY <2>1 DEF Covering
  <2> QED
    BY <1>3, <2>1, <2>2, <2>3 DEF start
<1>5. CASE size # 0
  <2>1. Covering(start, size) = PageOf(start) .. PageOf(start + size - 1)
    BY <1>2, <1>5, CoveringRange
  <2> QED
    BY <1>3, <2>1 DEF start
<1> QED
  BY <1>4, <1>5

(* The demands of the heap, of each segment and of each stack.               *)
LEMMA DemandPages ==
    /\ Covering(HeapStart * PageSize, HeapSize) = PagesOfHeap
    /\ image \in Images =>
          \A i \in 1 .. Len(image) :
              Covering(image[i].vaddr, image[i].memsz) = PagesOfSegment(i)
    /\ \A p \in 1 .. NumProcs :
          Covering(StackStart[p] * PageSize, StackPages * PageSize) = PagesOfStack(p)
<1>0. PageSize \in Nat /\ PageSize > 0 /\ HeapStart \in Nat /\ HeapSize \in Nat
      /\ StackPages \in Nat /\ StackStart \in Seq(Nat)
  BY SizeAssumption
<1>1. Covering(HeapStart * PageSize, HeapSize) = PagesOfHeap
  BY <1>0, CoveringWholePages DEF PagesOfHeap, HeapLast
<1>2. ASSUME image \in Images, NEW i \in 1 .. Len(image)
      PROVE  Covering(image[i].vaddr, image[i].memsz) = PagesOfSegment(i)
  <2>1. image[i].vaddr \in Nat /\ image[i].memsz \in Nat \ {0}
    <3>1. image[i] \in LoadSegment
      BY <1>2, SegmentRange
    <3> QED
      BY <3>1 DEF LoadSegment
  <2> QED
    BY <2>1, CoveringRange DEF PagesOfSegment
<1>3. ASSUME NEW p \in 1 .. NumProcs
      PROVE  Covering(StackStart[p] * PageSize, StackPages * PageSize) = PagesOfStack(p)
  <2> DEFINE first == StackStart[p]
             size == StackPages * PageSize
  <2>1. first \in Nat /\ size \in Nat
    BY <1>0 DEF NumProcs
  <2>2. first * PageSize + size - 1 = (first + StackPages - 1) * PageSize + (PageSize - 1)
    <3> HIDE DEF first
    <3>1. (first + StackPages - 1) * PageSize
             = first * PageSize + StackPages * PageSize - PageSize
      BY <1>0, <2>1
    <3>2. first * PageSize \in Int /\ StackPages * PageSize \in Int
      BY <1>0, <2>1
    <3> QED
      BY <1>0, <3>1, <3>2
  <2>3. PageOf(first * PageSize + size - 1) = first + StackPages - 1
    <3>1. first + StackPages - 1 \in Int /\ PageSize - 1 \in 0 .. PageSize - 1
      BY <1>0, <2>1
    <3> QED
      BY <2>2, <3>1, PageNumberUnique
  <2> HIDE DEF first, size
  <2>4. Covering(first * PageSize, size) = first .. first + StackPages - 1
    BY <2>1, <2>3, CoveringWholePages
  <2> QED
    BY <2>4 DEF first, size, PagesOfStack
<1> QED
  BY <1>1, <1>2, <1>3

(* Which demand is which.                                                    *)
LEMMA DemandFacts ==
    ASSUME image \in Images
    PROVE  /\ Len(image) \in Nat /\ NumProcs \in Nat \ {0}
           /\ DOMAIN Demands = 1 .. 1 + Len(image) + NumProcs
           /\ Demands \in [DOMAIN Demands -> SUBSET Int]
           /\ Demands[1] = PagesOfHeap
           /\ \A i \in 1 .. Len(image) : Demands[1 + i] = PagesOfSegment(i)
           /\ \A p \in 1 .. NumProcs : Demands[1 + Len(image) + p] = PagesOfStack(p)
<1> DEFINE a == <<Covering(HeapStart * PageSize, HeapSize)>>
           b == [i \in DOMAIN image |-> Covering(image[i].vaddr, image[i].memsz)]
           c == [p \in 1 .. NumProcs |-> Covering(StackStart[p] * PageSize, StackPages * PageSize)]
           U == SUBSET Int
           n == Len(image)
<1>1. n \in Nat /\ DOMAIN image = 1 .. n /\ NumProcs \in Nat \ {0}
  BY LoopTypes
<1>2. Demands = (a \o b) \o c
  BY DEF Demands
<1>3. a \in Seq(U) /\ Len(a) = 1 /\ a[1] = PagesOfHeap
  BY DemandPages, HeapRange DEF PagesOfHeap
<1>4. b \in Seq(U) /\ Len(b) = n /\ \A i \in 1 .. n : b[i] = PagesOfSegment(i)
  <2>1. \A i \in 1 .. n : b[i] = PagesOfSegment(i)
    BY <1>1, DemandPages
  <2>2. b \in [1 .. n -> U]
    <3>1. \A i \in 1 .. n : b[i] \in U
      <4>1. \A i : PagesOfSegment(i) \in U
        BY DEF PagesOfSegment
      <4> HIDE DEF b, U
      <4> QED
        BY <2>1, <4>1
    <3>2. b = [i \in 1 .. n |-> b[i]]
      BY <1>1
    <3> HIDE DEF b, U
    <3> QED
      BY <3>1, <3>2
  <2>3. b \in Seq(U) /\ Len(b) = n
    <3> HIDE DEF b, U
    <3> QED
      BY <1>1, <2>2
  <2> QED
    BY <2>1, <2>3
<1>5. c \in Seq(U) /\ Len(c) = NumProcs /\ \A p \in 1 .. NumProcs : c[p] = PagesOfStack(p)
  <2>1. \A p \in 1 .. NumProcs : c[p] = PagesOfStack(p)
    BY DemandPages
  <2>2. c \in [1 .. NumProcs -> U]
    <3>1. \A p \in 1 .. NumProcs : c[p] \in U
      <4>1. \A p : PagesOfStack(p) \in U
        BY DEF PagesOfStack
      <4> HIDE DEF c, U
      <4> QED
        BY <2>1, <4>1
    <3>2. c = [p \in 1 .. NumProcs |-> c[p]]
      OBVIOUS
    <3> HIDE DEF c, U
    <3> QED
      BY <3>1, <3>2
  <2>3. c \in Seq(U) /\ Len(c) = NumProcs
    <3> HIDE DEF c, U
    <3> QED
      BY <1>1, <2>2
  <2> QED
    BY <2>1, <2>3
<1> HIDE DEF a, b, c, U, n
<1>6. /\ a \o b \in Seq(U) /\ Len(a \o b) = 1 + n
      /\ \A i \in 1 .. 1 + n : (a \o b)[i] = IF i <= 1 THEN a[i] ELSE b[i - 1]
  <2>1. /\ a \o b \in Seq(U) /\ Len(a \o b) = Len(a) + Len(b)
        /\ \A i \in 1 .. Len(a) + Len(b) :
              (a \o b)[i] = IF i <= Len(a) THEN a[i] ELSE b[i - Len(a)]
    BY <1>3, <1>4, ConcatProperties, Zenon
  <2> QED
    BY <1>3, <1>4, <2>1, Zenon
<1> DEFINE d == a \o b
<1>7. d \in Seq(U) /\ Len(d) = 1 + n
      /\ \A i \in 1 .. 1 + n : d[i] = IF i <= 1 THEN a[i] ELSE b[i - 1]
  BY <1>6
<1>8. Demands = d \o c
  BY <1>2
<1> HIDE DEF d
<1>9. /\ Demands \in Seq(U) /\ Len(Demands) = 1 + n + NumProcs
      /\ \A i \in 1 .. 1 + n + NumProcs :
            Demands[i] = IF i <= 1 + n THEN d[i] ELSE c[i - (1 + n)]
  BY <1>5, <1>7, <1>8, ConcatProperties
<1>10. DOMAIN Demands = 1 .. 1 + n + NumProcs /\ Demands \in [DOMAIN Demands -> U]
  BY <1>9
<1>11. Demands[1] = PagesOfHeap
  <2>1. 1 \in 1 .. 1 + n + NumProcs /\ 1 \in 1 .. 1 + n
    BY <1>1
  <2> QED
    BY <1>1, <1>3, <1>7, <1>9, <2>1
<1>12. ASSUME NEW i \in 1 .. n PROVE Demands[1 + i] = PagesOfSegment(i)
  <2>1. 1 + i \in 1 .. 1 + n + NumProcs /\ 1 + i \in 1 .. 1 + n /\ 1 + i - 1 = i /\ ~(1 + i <= 1)
    BY <1>1
  <2> QED
    BY <1>1, <1>4, <1>7, <1>9, <2>1
<1>13. ASSUME NEW p \in 1 .. NumProcs PROVE Demands[1 + n + p] = PagesOfStack(p)
  <2>1. 1 + n + p \in 1 .. 1 + n + NumProcs /\ ~(1 + n + p <= 1 + n) /\ 1 + n + p - (1 + n) = p
    BY <1>1
  <2> QED
    BY <1>1, <1>5, <1>9, <2>1
<1> QED
  BY <1>1, <1>10, <1>11, <1>12, <1>13 DEF n, U

--------------------------------------------------------------------------------
(* All pages that are needed, and the page tables that are needed for them.  *)
AllPages == UNION Range(Demands)
AllTables == (UNION {Path(page) : page \in AllPages}) \ BootTables

(* They are finitely many.                                                   *)
LEMMA FiniteDemands ==
    ASSUME image \in Images
    PROVE  /\ IsFiniteSet(AllPages) /\ IsFiniteSet(AllTables)
           /\ \A i \in DOMAIN Demands : Demands[i] \subseteq AllPages
<1> DEFINE n == 1 + Len(image) + NumProcs
<1>1. DOMAIN Demands = 1 .. n /\ n \in Nat
  BY DemandFacts
<1>2. Range(Demands) = {Demands[i] : i \in 1 .. n}
  BY <1>1 DEF Range
<1>4. IsFiniteSet(Range(Demands))
  <2>1. IsFiniteSet(DOMAIN Demands)
    BY <1>1, FS_Interval
  <2> QED
    BY <2>1, DemandFacts, FiniteRange
<1>5. ASSUME NEW i \in 1 .. n PROVE IsFiniteSet(Demands[i])
  <2>1. CASE i = 1
    BY <2>1, DemandFacts, HeapRange, FS_Interval DEF PagesOfHeap
  <2>2. CASE i \in 2 .. 1 + Len(image)
    <3>1. i - 1 \in 1 .. Len(image) /\ 1 + (i - 1) = i
      BY <2>2, DemandFacts
    <3>2. Demands[i] = PagesOfSegment(i - 1)
      BY <3>1, DemandFacts
    <3>3. /\ PageOf(image[i - 1].vaddr) \in Int
          /\ PageOf(image[i - 1].vaddr + image[i - 1].memsz - 1) \in Int
      BY <3>1, SegmentRange
    <3> QED
      BY <3>2, <3>3, FS_Interval DEF PagesOfSegment
  <2>3. CASE i \in 2 + Len(image) .. n
    <3> DEFINE p == i - 1 - Len(image)
    <3>1. p \in 1 .. NumProcs /\ 1 + Len(image) + p = i
      BY <2>3, DemandFacts
    <3> HIDE DEF p
    <3>2. Demands[i] = PagesOfStack(p)
      BY <3>1, DemandFacts
    <3>3. StackStart[p] \in Int /\ StackStart[p] + StackPages - 1 \in Int
      BY <3>1, StackPagesRange
    <3> QED
      BY <3>2, <3>3, FS_Interval DEF PagesOfStack
  <2> QED
    BY <1>1, <2>1, <2>2, <2>3, DemandFacts
<1>6. IsFiniteSet(AllPages)
  <2>1. \A T \in Range(Demands) : IsFiniteSet(T)
    BY <1>2, <1>5
  <2> QED
    BY <1>4, <2>1, FS_UNION DEF AllPages
<1>7. IsFiniteSet(AllTables)
  <2> DEFINE P == {Path(page) : page \in AllPages}
             f == [page \in AllPages |-> Path(page)]
  <2>1. f \in [AllPages -> P] /\ Range(f) = P
    BY DEF Range
  <2>2. IsFiniteSet(P)
    <3> HIDE DEF f, P
    <3> QED
      BY <1>6, <2>1, FiniteRange
  <2>3. \A T \in P : IsFiniteSet(T)
    BY FinitePath
  <2> DEFINE V == UNION P
  <2>4. AllTables = V \ BootTables
    BY Zenon DEF AllTables
  <2>5. IsFiniteSet(V)
    <3> HIDE DEF P
    <3> QED
      BY <2>2, <2>3, FS_UNION
  <2> HIDE DEF V
  <2>6. IsFiniteSet(V \ BootTables)
    BY <2>5, FS_Difference
  <2> QED
    BY <2>4, <2>6, Zenon
<1>8. \A i \in DOMAIN Demands : Demands[i] \subseteq AllPages
  BY <1>1, <1>2 DEF AllPages
<1> QED
  BY <1>6, <1>7, <1>8

(* What Fits means, in these terms.                                          *)
LEMMA FitsMeans ==
    Fits <=> /\ \A i, j \in DOMAIN Demands : i # j => Demands[i] \cap Demands[j] = {}
             /\ Cardinality(AllPages) + Cardinality(AllTables) <= Len(UsableFrames)
BY DEF Fits, AllPages, AllTables

(* The demands, and whether they fit, are settled before the first step.     *)
LEMMA DemandsStay ==
    ASSUME UNCHANGED inputVars
    PROVE  Demands' = Demands /\ (Fits' <=> Fits)
<1>1. UNCHANGED <<regions, image>>
  BY DEF inputVars
<1>2. Demands' = Demands
  BY <1>1 DEF Demands
<1>3. UsableFrames' = UsableFrames
  BY <1>1, FramesStay
<1> QED
  BY <1>2, <1>3 DEF Fits

--------------------------------------------------------------------------------
(* A page takes a frame of its own and one for each table that is missing.   *)
LEMMA MapPageAccounts ==
    ASSUME FrameInv, Accounts, NEW page \in Nat, NEW write \in BOOLEAN, NEW user \in BOOLEAN,
           MapPage(page, write, user), page \notin DOMAIN pt,
           next + 1 + Cardinality(Path(page) \ Present) <= Len(UsableFrames)
    PROVE  Accounts'
<1> DEFINE missing == Path(page) \ Present
           m == Cardinality(missing)
           before == UNION {Path(q) : q \in DOMAIN pt}
<1>1. /\ next' = next + (1 + m)
      /\ DOMAIN pt' = DOMAIN pt \cup {page}
      /\ DOMAIN tables' = DOMAIN tables \cup missing
  BY DEF MapPage, Present, Advance, Extend
<1>2. m \in Nat /\ IsFiniteSet(missing)
  <2>4. IsFiniteSet(missing)
    BY FinitePath, FS_Difference
  <2> QED
    BY <2>4, FS_CardinalityType
<1>3. missing \cap DOMAIN tables = {} /\ missing = (Path(page) \ BootTables) \ DOMAIN tables
  BY DEF Present
<1> HIDE DEF missing, m
<1>4. /\ IsFiniteSet(DOMAIN pt) /\ IsFiniteSet(DOMAIN tables)
      /\ next = Cardinality(DOMAIN pt) + Cardinality(DOMAIN tables)
      /\ Cardinality(DOMAIN pt) \in Nat /\ Cardinality(DOMAIN tables) \in Nat
  BY FS_CardinalityType DEF Accounts
<1>5. IsFiniteSet(DOMAIN pt') /\ Cardinality(DOMAIN pt') = Cardinality(DOMAIN pt) + 1
  BY <1>1, <1>4, FS_AddElement
<1>6. IsFiniteSet(DOMAIN tables') /\ Cardinality(DOMAIN tables') = Cardinality(DOMAIN tables) + m
  <2>1. IsFiniteSet(DOMAIN tables \cup missing)
        /\ Cardinality(DOMAIN tables \cup missing)
              = Cardinality(DOMAIN tables) + m - Cardinality(DOMAIN tables \cap missing)
    BY <1>2, <1>4, FS_Union DEF m
  <2>2. Cardinality(DOMAIN tables \cap missing) = 0
    <3>1. DOMAIN tables \cap missing = {}
      BY <1>3
    <3> QED
      BY <3>1, FS_EmptySet, Zenon
  <2> QED
    BY <1>1, <1>2, <1>4, <2>1, <2>2
<1>7. DOMAIN tables' = (UNION {Path(q) : q \in DOMAIN pt'}) \ BootTables
  <2> DEFINE after == UNION {Path(q) : q \in DOMAIN pt'}
  <2>1. after = before \cup Path(page)
    BY <1>1
  <2>2. DOMAIN tables = before \ BootTables
    BY Zenon DEF Accounts
  <2> HIDE DEF before
  <2> SUFFICES DOMAIN tables' = after \ BootTables
    BY Zenon
  <2> HIDE DEF after
  <2>3. DOMAIN tables \cup missing = (before \cup Path(page)) \ BootTables
    BY <1>3, <2>2
  <2> QED
    BY <1>1, <2>1, <2>3, Zenon
<1>8. next' = Cardinality(DOMAIN pt') + Cardinality(DOMAIN tables')
  BY <1>1, <1>2, <1>4, <1>5, <1>6
<1> QED
  BY <1>5, <1>6, <1>7, <1>8 DEF Accounts

(* Without a frame for what the next page takes, the frames do not suffice   *)
(* for all the pages and tables there are to be.                             *)
LEMMA OutOfFrames ==
    ASSUME FrameInv, Accounts, DOMAIN pt \subseteq AllPages,
           NEW page \in AllPages, page \in Nat, page \notin DOMAIN pt,
           ~(next + 1 + Cardinality(Path(page) \ Present) <= Len(UsableFrames))
    PROVE  ~Fits
<1> DEFINE missing == Path(page) \ Present
           m == Cardinality(missing)
           A == DOMAIN pt \cup {page}
           B == DOMAIN tables \cup missing
<1>0. image \in Images /\ IsFiniteSet(AllPages) /\ IsFiniteSet(AllTables)
      /\ Len(UsableFrames) \in Nat
  BY FiniteDemands DEF FrameInv, ItemInRange, PagingInv, FramesListed
<1>1. A \subseteq AllPages /\ B \subseteq AllTables
  <2>1. DOMAIN tables = (UNION {Path(q) : q \in DOMAIN pt}) \ BootTables
    BY DEF Accounts
  <2>2. Path(page) \ BootTables \subseteq AllTables
    <3>1. Path(page) \subseteq UNION {Path(q) : q \in AllPages}
      OBVIOUS
    <3> QED
      BY <3>1 DEF AllTables
  <2>3. DOMAIN tables \subseteq AllTables
    BY <2>1 DEF AllTables
  <2> QED
    BY <2>2, <2>3 DEF Present
<1>2. /\ IsFiniteSet(DOMAIN pt) /\ IsFiniteSet(DOMAIN tables)
      /\ next = Cardinality(DOMAIN pt) + Cardinality(DOMAIN tables)
      /\ Cardinality(DOMAIN pt) \in Nat /\ Cardinality(DOMAIN tables) \in Nat
  BY FS_CardinalityType DEF Accounts
<1>3. Cardinality(A) = Cardinality(DOMAIN pt) + 1 /\ Cardinality(A) <= Cardinality(AllPages)
  BY <1>0, <1>1, <1>2, FS_AddElement, FS_Subset
<1>4. IsFiniteSet(B) /\ Cardinality(B) <= Cardinality(AllTables)
  BY <1>0, <1>1, FS_Subset
<1>5. Cardinality(B) = Cardinality(DOMAIN tables) + m /\ m \in Nat
  <2>1. IsFiniteSet(missing)
    <3>1. missing \in SUBSET B
      OBVIOUS
    <3> QED
      BY <1>4, <3>1, FS_Subset
  <2>2. Cardinality(DOMAIN tables \cap missing) = 0
    <3>1. DOMAIN tables \cap missing = {}
      BY DEF Present
    <3> QED
      BY <3>1, FS_EmptySet, Zenon
  <2>3. m \in Nat
    BY <2>1, FS_CardinalityType
  <2> HIDE DEF missing
  <2>4. Cardinality(B) = Cardinality(DOMAIN tables) + m - Cardinality(DOMAIN tables \cap missing)
    BY <1>2, <2>1, FS_Union
  <2> QED
    BY <1>2, <2>2, <2>3, <2>4
<1>6. Cardinality(AllPages) \in Nat /\ Cardinality(AllTables) \in Nat
  BY <1>0, FS_CardinalityType
<1>7. ~(next + 1 + m <= Len(UsableFrames))
  OBVIOUS
<1> DEFINE cp == Cardinality(DOMAIN pt)
           ct == Cardinality(DOMAIN tables)
<1>9. /\ cp \in Nat /\ ct \in Nat /\ next = cp + ct
      /\ Cardinality(A) = cp + 1 /\ Cardinality(B) = ct + m
  BY <1>2, <1>3, <1>5
<1> HIDE DEF A, B, m, missing, cp, ct
<1>8. ~(Cardinality(AllPages) + Cardinality(AllTables) <= Len(UsableFrames))
  <2>1. Cardinality(A) \in Nat /\ Cardinality(B) \in Nat
        /\ next + 1 + m = Cardinality(A) + Cardinality(B)
    BY <1>5, <1>9
  <2> QED
    BY <1>0, <1>3, <1>4, <1>6, <1>7, <2>1
<1> QED
  BY <1>8, FitsMeans

--------------------------------------------------------------------------------
(* A mapping loop serves a demand: what is still ahead of it is part of that *)
(* demand, and a turn takes one page off it.                                 *)
LEMMA LoopPosition ==
    ASSUME FrameInv, LoadInv, phase \in {"heap", "segment", "stack"}
    PROVE  /\ Current \in DOMAIN Demands
           /\ Ahead = Range(todo) /\ Ahead \subseteq Demands[Current]
           /\ todo = <<>> => Ahead = {}
           /\ todo # <<>> => /\ Head(todo) \in Ahead /\ Head(todo) \in Nat
                             /\ Range(Tail(todo)) = Ahead \ {Head(todo)}
<1> USE DEF FrameInv, LoadInv
<1>1. image \in Images /\ todo \in Seq(Nat)
  BY DEF ItemInRange, MemTypeOK
<1>2. todo # <<>> => Head(todo) \in Nat
  BY <1>1
<1>3. Ahead = Range(todo)
  BY DEF Ahead
<1>4. PICK first \in Nat, last \in Int :
          /\ first <= last + 1 /\ InLoop(todo, first, last)
          /\ Current \in DOMAIN Demands /\ Demands[Current] = first .. last
  <2>1. CASE phase = "heap"
    <3>1. Current = 1
      BY <2>1 DEF Current
    <3>2. 1 \in DOMAIN Demands /\ Demands[1] = HeapStart .. HeapLast
      BY <1>1, DemandFacts DEF PagesOfHeap
    <3>3. InLoop(todo, HeapStart, HeapLast)
      BY <2>1 DEF HeapInv
    <3> QED
      BY <3>1, <3>2, <3>3, HeapRange
  <2>2. CASE phase = "segment"
    <3> DEFINE f == PageOf(image[item].vaddr)
               l == PageOf(image[item].vaddr + image[item].memsz - 1)
    <3>1. Current = 1 + item /\ item \in 1 .. Len(image)
      BY <2>2 DEF Current, ItemInRange
    <3>2. 1 + item \in DOMAIN Demands /\ Demands[1 + item] = f .. l
      BY <1>1, <3>1, DemandFacts DEF PagesOfSegment
    <3>3. InLoop(todo, f, l)
      BY <2>2 DEF SegmentInv
    <3>4. f \in Nat /\ l \in Int /\ f <= l
      BY <1>1, <3>1, SegmentRange
    <3> HIDE DEF f, l
    <3>5. f <= l + 1
      BY <3>4
    <3> QED
      BY <3>1, <3>2, <3>3, <3>4, <3>5
  <2>3. CASE phase = "stack"
    <3> DEFINE f == StackStart[item]
               l == StackStart[item] + StackPages - 1
               i == 1 + Len(image) + item
    <3>1. Current = i /\ item \in 1 .. NumProcs
      BY <2>3 DEF Current, ItemInRange
    <3>2. i \in DOMAIN Demands /\ Demands[i] = f .. l
      BY <1>1, <3>1, DemandFacts DEF PagesOfStack
    <3>3. InLoop(todo, f, l)
      BY <2>3 DEF StackInv
    <3>4. f \in Nat /\ l \in Int /\ f <= l + 1
      BY <3>1, StackPagesRange
    <3> HIDE DEF f, l, i
    <3> QED
      BY <3>1, <3>2, <3>3, <3>4
  <2> QED
    BY <2>1, <2>2, <2>3
<1>5. /\ Range(todo) \subseteq first .. last
      /\ todo = <<>> => Range(todo) = {}
      /\ todo # <<>> => /\ Head(todo) \in Range(todo)
                        /\ Range(Tail(todo)) = Range(todo) \ {Head(todo)}
  BY <1>4, LoopFacts, ZenonT(60)
<1> QED
  BY <1>2, <1>3, <1>4, <1>5

(* A turn of a mapping loop serves one more page of the demand, or shows     *)
(* that the demands do not fit.                                              *)
LEMMA MapNextServes ==
    ASSUME FrameInv, LoadInv, BootInv, NEW ph \in {"heap", "segment", "stack"},
           NEW write \in BOOLEAN, NEW user \in BOOLEAN, MapNext(ph, write, user)
    PROVE  BootInv'
<1> DEFINE page == Head(todo)
           missing == Path(page) \ Present
           room == next + 1 + Cardinality(missing) <= Len(UsableFrames)
<1>1. /\ phase = ph /\ phase # "panic" /\ todo # <<>> /\ MapPage(page, write, user)
      /\ UNCHANGED inputVars /\ UNCHANGED <<heap_used, user_rsp>>
  BY DEF MapNext
<1>2. /\ Current \in DOMAIN Demands /\ Ahead \subseteq Demands[Current]
      /\ page \in Ahead /\ page \in Nat /\ Range(Tail(todo)) = Ahead \ {page}
  BY <1>1, LoopPosition
<1>3. image \in Images
  BY DEF FrameInv, ItemInRange
<1>4. Demands' = Demands /\ (Fits' <=> Fits)
  BY <1>1, DemandsStay
<1>5. /\ DOMAIN pt = UNION {Served(i) : i \in DOMAIN Demands}
      /\ \A i, j \in DOMAIN Demands : i # j => Served(i) \cap Served(j) = {}
  BY <1>1 DEF BootInv, Progress
<1>6. CASE room /\ page \notin DOMAIN pt
  <2>1. /\ phase' = phase /\ item' = item /\ todo' = Tail(todo)
        /\ DOMAIN pt' = DOMAIN pt \cup {page}
    BY <1>1, <1>6 DEF MapPage, Extend, Present
  <2>2. Accounts'
    BY <1>1, <1>2, <1>6, MapPageAccounts DEF BootInv
  <2>3. Current' = Current /\ Ahead' = Ahead \ {page}
    <3>1. image' = image
      BY <1>1 DEF inputVars
    <3> QED
      BY <1>1, <1>2, <2>1, <3>1 DEF Current, Ahead
  <2>4. \A i \in DOMAIN Demands :
            Served(i)' = IF i = Current THEN Served(i) \cup {page} ELSE Served(i)
    <3> SUFFICES ASSUME NEW i \in DOMAIN Demands, NEW q
                 PROVE  q \in Served(i)' <=> q \in Served(i) \/ (i = Current /\ q = page)
      OBVIOUS
    <3>1. /\ q \in Served(i)' <=> /\ q \in Demands[i]
                                  /\ i < Current \/ (i = Current /\ q \notin Ahead \ {page})
          /\ q \in Served(i) <=> /\ q \in Demands[i]
                                 /\ i < Current \/ (i = Current /\ q \notin Ahead)
      BY <1>4, <2>3 DEF Served
    <3> QED
      BY <1>2, <3>1
  <2>5. Progress'
    <3>1. DOMAIN pt' = UNION {Served(i)' : i \in DOMAIN Demands}
      BY <1>2, <1>5, <2>1, <2>4
    <3>2. ASSUME NEW i \in DOMAIN Demands, NEW j \in DOMAIN Demands, i # j
          PROVE  Served(i)' \cap Served(j)' = {}
      <4>1. page \notin Served(i) /\ page \notin Served(j)
        BY <1>5, <1>6
      <4> QED
        BY <1>5, <2>4, <3>2, <4>1
    <3> QED
      BY <1>4, <3>1, <3>2 DEF Progress
  <2>6. HeapAccount' /\ phase' # "panic"
    BY <1>1, <2>1 DEF BootInv, HeapAccount
  <2> QED
    BY <2>2, <2>5, <2>6 DEF BootInv
<1>7. CASE ~(room /\ page \notin DOMAIN pt)
  <2>1. phase' = "panic" /\ UNCHANGED pagingVars
    BY <1>1, <1>7 DEF MapPage, Panic, Enter, Present
  <2>2. ~Fits
    <3>1. CASE page \in DOMAIN pt
      <4>1. PICK i \in DOMAIN Demands : page \in Served(i)
        BY <1>5, <3>1
      <4>2. page \in Demands[i] /\ i # Current
        <5>1. Current \in Int
          BY <1>2, <1>3, DemandFacts
        <5> QED
          BY <1>2, <4>1, <5>1 DEF Served
      <4>3. Demands[i] \cap Demands[Current] # {}
        BY <1>2, <4>2
      <4> QED
        BY <1>2, <4>2, <4>3, FitsMeans
    <3>2. CASE page \notin DOMAIN pt /\ ~room
      <4>1. \A i \in DOMAIN Demands : Demands[i] \subseteq AllPages
        BY <1>3, FiniteDemands
      <4>2. page \in AllPages
        BY <1>2, <4>1
      <4>3. DOMAIN pt \subseteq AllPages
        BY <1>5, <4>1 DEF Served
      <4> QED
        BY <1>2, <3>2, <4>2, <4>3, OutOfFrames DEF BootInv
    <3> QED
      BY <1>7, <3>1, <3>2
  <2>3. Accounts'
    BY <2>1 DEF BootInv, Accounts, pagingVars
  <2> QED
    BY <1>4, <2>1, <2>2, <2>3 DEF BootInv, Progress, HeapAccount
<1> QED
  BY <1>6, <1>7

(* Going on to the next demand, or staying with one, maps nothing.           *)
LEMMA MoveOn ==
    ASSUME BootInv, image \in Images, UNCHANGED <<inputVars, next, tables>>,
           DOMAIN pt' = DOMAIN pt, phase # "panic", phase' # "panic",
           Current \in 1 .. 2 + Len(image) + NumProcs,
           \/ Current' = Current /\ Ahead' = Ahead
           \/ /\ Ahead = {} /\ Current' = Current + 1
              /\ Current' \in DOMAIN Demands => Ahead' = Demands[Current']
    PROVE  Accounts' /\ Progress'
<1>1. Demands' = Demands /\ UNCHANGED <<next, tables>>
  BY DemandsStay
<1>2. Accounts'
  BY <1>1 DEF BootInv, Accounts
<1>3. \A i \in DOMAIN Demands : Served(i)' = Served(i)
  <2> SUFFICES ASSUME NEW i \in DOMAIN Demands, NEW q
               PROVE  q \in Served(i)' <=> q \in Served(i)
    OBVIOUS
  <2>1. /\ q \in Served(i)' <=> /\ q \in Demands[i]
                                /\ i < Current' \/ (i = Current' /\ q \notin Ahead')
        /\ q \in Served(i) <=> /\ q \in Demands[i]
                               /\ i < Current \/ (i = Current /\ q \notin Ahead)
    BY <1>1 DEF Served
  <2>2. i \in Int /\ Current \in Int
    BY DemandFacts
  <2> QED
    BY <2>1, <2>2
<1>4. Progress'
  <2>1. /\ DOMAIN pt = UNION {Served(i) : i \in DOMAIN Demands}
        /\ \A i, j \in DOMAIN Demands : i # j => Served(i) \cap Served(j) = {}
    BY DEF BootInv, Progress
  <2>2. DOMAIN pt' = UNION {Served(i)' : i \in DOMAIN Demands}
    BY <1>3, <2>1
  <2>3. \A i, j \in DOMAIN Demands : i # j => Served(i)' \cap Served(j)' = {}
    BY <1>3, <2>1
  <2> QED
    BY <1>1, <2>2, <2>3 DEF Progress
<1> QED
  BY <1>2, <1>4

(* A step that goes on and leaves the heap alone.                            *)
LEMMA MoveOnKeepsHeap ==
    ASSUME BootInv, phase \notin {"running", "panic"}, phase' \notin {"running", "panic"},
           UNCHANGED <<heap_used, user_rsp>>, Accounts', Progress'
    PROVE  BootInv'
BY DEF BootInv, HeapAccount

(* The next segment, or the first stack: the demand after this one.          *)
LEMMA NextDemand ==
    ASSUME image \in Images, UNCHANGED image, NEW i \in 1 .. Len(image) + 1, EnterSegment(i)
    PROVE  /\ phase' \in {"segment", "stack"} /\ Current' = 1 + i
           /\ Ahead' = Demands[1 + i]
<1>1. CASE i \in 1 .. Len(image)
  <2> DEFINE f == PageOf(image[i].vaddr)
             l == PageOf(image[i].vaddr + image[i].memsz - 1)
  <2>1. phase' = "segment" /\ item' = i /\ todo' = SegmentPages(image[i])
    BY <1>1, EnterSegmentStep, LoopTypes
  <2>2. f \in Nat /\ l \in Int /\ f <= l /\ SegmentPages(image[i]) = PageRange(f, l)
    BY <1>1, SegmentRange
  <2>3. Demands[1 + i] = f .. l
    BY <1>1, DemandFacts DEF PagesOfSegment
  <2> HIDE DEF f, l
  <2>4. f <= l + 1
    BY <2>2
  <2>5. Range(todo') = f .. l
    BY <2>1, <2>2, <2>4, LoopStarts
  <2> QED
    BY <2>1, <2>3, <2>5 DEF Current, Ahead
<1>2. CASE i = Len(image) + 1
  <2> DEFINE f == StackStart[1]
             l == StackStart[1] + StackPages - 1
  <2>0. Len(image) \in Nat /\ 1 \in 1 .. NumProcs
    BY DemandFacts
  <2>1. phase' = "stack" /\ item' = 1 /\ todo' = StackRange(1)
    <3>1. ~(i \in 1 .. Len(image)) /\ i \in Nat \ {0}
      BY <1>2, <2>0
    <3> QED
      BY <3>1, EnterSegmentStep
  <2>2. f \in Nat /\ l \in Int /\ f <= l + 1 /\ StackRange(1) = PageRange(f, l)
    BY <2>0, StackPagesRange
  <2>3. Demands[1 + Len(image) + 1] = f .. l
    BY <2>0, DemandFacts DEF PagesOfStack
  <2> HIDE DEF f, l
  <2>4. Range(todo') = f .. l
    BY <2>1, <2>2, LoopStarts
  <2>5. Current' = 1 + Len(image) + 1 /\ 1 + i = 1 + Len(image) + 1
    BY <1>2, <2>0, <2>1 DEF Current
  <2> QED
    BY <2>1, <2>3, <2>4, <2>5 DEF Ahead
<1> QED
  BY <1>1, <1>2, DemandFacts

(* The heap holds the kernel stack of each process and of the kernel task.   *)
LEMMA HeapHolds ==
    LET size == UserKStack + SmallObjects
    IN  /\ \A n \in 0 .. NumProcs - 1 : n * size + size <= HeapSize
        /\ NumProcs * size + (TaskKStack + SmallObjects) <= HeapSize
<1> DEFINE size == UserKStack + SmallObjects
<1>1. size \in Nat /\ TaskKStack + SmallObjects \in Nat /\ HeapSize \in Nat
      /\ TaskKStack \in Nat /\ SmallObjects \in Nat
  BY SizeAssumption
<1>2. NumProcs \in Nat
  BY LoopTypes
<1>3. NumProcs * size + TaskKStack + SmallObjects <= HeapSize
  BY HeapAssumption
<1> HIDE DEF size
<1>4. NumProcs * size \in Nat
  BY <1>1, <1>2
<1>5. ASSUME NEW n \in 0 .. NumProcs - 1 PROVE n * size + size <= HeapSize
  <2>1. n + 1 \in Nat /\ n + 1 <= NumProcs /\ n \in Nat
    BY <1>2
  <2>2. (n + 1) * size <= NumProcs * size
    BY <1>1, <1>2, <2>1, ProductOrder
  <2>3. (n + 1) * size = n * size + size /\ n * size \in Nat
    BY <1>1, <2>1
  <2> QED
    BY <1>1, <1>3, <1>4, <2>2, <2>3
<1>6. NumProcs * size + (TaskKStack + SmallObjects) <= HeapSize
  BY <1>1, <1>3, <1>4
<1> QED
  BY <1>5, <1>6 DEF size

--------------------------------------------------------------------------------
(* At first everything is still to be mapped.                                *)
LEMMA BootInit == MemInit => BootInv
<1> SUFFICES ASSUME MemInit PROVE BootInv
  OBVIOUS
<1>1. /\ image \in Images /\ phase = "heap" /\ todo = HeapPages /\ next = 0
      /\ DOMAIN pt = {} /\ DOMAIN tables = {}
      /\ heap_used = 0 /\ Len(user_rsp) = 0
  BY DEF MemInit
<1>2. Accounts
  <2>1. IsFiniteSet({}) /\ Cardinality({}) = 0
    BY FS_EmptySet
  <2>2. (UNION {Path(q) : q \in {}}) \ BootTables = {}
    OBVIOUS
  <2>3. next = Cardinality({}) + Cardinality({})
    BY <1>1, <2>1
  <2> QED
    BY <1>1, <2>1, <2>2, <2>3, Zenon DEF Accounts
<1>3. Current = 1 /\ Ahead = Demands[1]
  <2>1. Range(HeapPages) = PagesOfHeap
    BY HeapRange, LoopStarts DEF PagesOfHeap
  <2>2. Demands[1] = PagesOfHeap
    BY <1>1, DemandFacts
  <2> QED
    BY <1>1, <2>1, <2>2 DEF Current, Ahead
<1>4. \A i \in DOMAIN Demands : Served(i) = {}
  <2>1. \A i \in DOMAIN Demands : i \in Int /\ 1 <= i
    BY <1>1, DemandFacts
  <2> QED
    BY <1>3, <2>1 DEF Served
<1>5. Progress
  BY <1>1, <1>4 DEF Progress
<1>6. HeapAccount
  <2>1. UserKStack + SmallObjects \in Nat
    BY SizeAssumption
  <2>2. 0 * (UserKStack + SmallObjects) = 0
    BY <2>1
  <2> QED
    BY <1>1, <2>2 DEF HeapAccount
<1> QED
  BY <1>1, <1>2, <1>5, <1>6 DEF BootInv

(* The loader has mapped a segment and goes on: a copy, the flags of a page, *)
(* the end of the loop over the flags.                                       *)
LEMMA LoaderMovesOn ==
    ASSUME FrameInv, LoadInv, BootInv, HeapReady \/ CopySegment \/ ProtectPage \/ SegmentDone
    PROVE  BootInv'
<1>0. image \in Images /\ Len(image) \in Nat /\ NumProcs \in Nat \ {0}
      /\ DOMAIN Demands = 1 .. 1 + Len(image) + NumProcs
  BY DemandFacts DEF FrameInv, ItemInRange
<1>1. CASE HeapReady
  <2>1. /\ phase = "heap" /\ todo = <<>> /\ EnterSegment(1)
        /\ UNCHANGED <<inputVars, pagingVars, heap_used, user_rsp>>
    BY <1>1 DEF HeapReady, LoopDone
  <2>2. Current = 1 /\ Ahead = {}
    BY <2>1, LoopPosition DEF Current
  <2>3. 1 \in 1 .. Len(image) + 1 /\ 1 \in 1 .. 2 + Len(image) + NumProcs /\ UNCHANGED image
    BY <1>0, <2>1 DEF inputVars
  <2>4. phase' \in {"segment", "stack"} /\ Current' = 1 + 1 /\ Ahead' = Demands[1 + 1]
    BY <1>0, <2>1, <2>3, NextDemand
  <2>5. Accounts' /\ Progress'
    BY <1>0, <2>1, <2>2, <2>3, <2>4, MoveOn DEF pagingVars
  <2> QED
    BY <2>1, <2>4, <2>5, MoveOnKeepsHeap
<1>2. CASE CopySegment
  <2>1. /\ phase = "segment" /\ todo = <<>>
        /\ UNCHANGED <<inputVars, pagingVars, heap_used, user_rsp>> /\ UNCHANGED image
        /\ EnterSegment(item + 1) \/ Enter("protect", item, SegmentPages(image[item]))
    BY <1>2 DEF CopySegment, LoopDone, inputVars
  <2>2. Current = 1 + item /\ Ahead = {} /\ item \in 1 .. Len(image)
    BY <2>1, LoopPosition DEF Current, FrameInv, ItemInRange
  <2>3. /\ item + 1 \in 1 .. Len(image) + 1
        /\ 1 + item \in 1 .. 2 + Len(image) + NumProcs /\ 1 + (item + 1) = 1 + item + 1
    BY <1>0, <2>2
  <2>4. CASE EnterSegment(item + 1)
    <3>1. /\ phase' \in {"segment", "stack"} /\ Current' = 1 + (item + 1)
          /\ Ahead' = Demands[1 + (item + 1)]
      BY <1>0, <2>1, <2>3, <2>4, NextDemand
    <3>2. Accounts' /\ Progress'
      BY <1>0, <2>1, <2>2, <2>3, <3>1, MoveOn DEF pagingVars
    <3> QED
      BY <2>1, <3>1, <3>2, MoveOnKeepsHeap
  <2>5. CASE Enter("protect", item, SegmentPages(image[item]))
    <3>1. phase' = "protect" /\ item' = item
      BY <2>5 DEF Enter
    <3>2. Current' = Current /\ Ahead' = Ahead
      BY <2>2, <3>1 DEF Current, Ahead
    <3>3. Accounts' /\ Progress'
      BY <1>0, <2>1, <2>2, <2>3, <3>1, <3>2, MoveOn DEF pagingVars
    <3> QED
      BY <2>1, <3>1, <3>3, MoveOnKeepsHeap
  <2> QED
    BY <2>1, <2>4, <2>5
<1>3. CASE ProtectPage
  <2>1. /\ phase = "protect" /\ phase' = phase /\ item' = item /\ UNCHANGED image
        /\ UNCHANGED <<inputVars, next, tables>> /\ UNCHANGED <<heap_used, user_rsp>>
        /\ pt' = [pt EXCEPT ![Head(todo)].write = FALSE]
    BY <1>3 DEF ProtectPage, UpdateFlags, inputVars
  <2>2. DOMAIN pt' = DOMAIN pt
    BY <2>1
  <2>3. Current' = Current /\ Ahead' = Ahead /\ Current = 1 + item /\ item \in 1 .. Len(image)
    BY <2>1 DEF Current, Ahead, FrameInv, ItemInRange
  <2>4. Current \in 1 .. 2 + Len(image) + NumProcs
    BY <1>0, <2>3
  <2>5. Accounts' /\ Progress'
    BY <1>0, <2>1, <2>2, <2>3, <2>4, MoveOn
  <2> QED
    BY <2>1, <2>5, MoveOnKeepsHeap
<1>4. CASE SegmentDone
  <2>1. /\ phase = "protect" /\ EnterSegment(item + 1) /\ UNCHANGED image
        /\ UNCHANGED <<inputVars, pagingVars, heap_used, user_rsp>>
    BY <1>4 DEF SegmentDone, LoopDone, inputVars
  <2>2. Current = 1 + item /\ Ahead = {} /\ item \in 1 .. Len(image)
    BY <2>1 DEF Current, Ahead, FrameInv, ItemInRange
  <2>3. /\ item + 1 \in 1 .. Len(image) + 1
        /\ 1 + item \in 1 .. 2 + Len(image) + NumProcs /\ 1 + (item + 1) = 1 + item + 1
    BY <1>0, <2>2
  <2>4. /\ phase' \in {"segment", "stack"} /\ Current' = 1 + (item + 1)
        /\ Ahead' = Demands[1 + (item + 1)]
    BY <1>0, <2>1, <2>3, NextDemand
  <2>5. Accounts' /\ Progress'
    BY <1>0, <2>1, <2>2, <2>3, <2>4, MoveOn DEF pagingVars
  <2> QED
    BY <2>1, <2>4, <2>5, MoveOnKeepsHeap
<1> QED
  BY <1>1, <1>2, <1>3, <1>4

(* A process is created: the heap has room, and the next stack is next.      *)
LEMMA ProcessMovesOn ==
    ASSUME FrameInv, LoadInv, BootInv, CreateUserProcess
    PROVE  BootInv'
<1> DEFINE size == UserKStack + SmallObjects
<1>0. image \in Images /\ Len(image) \in Nat /\ NumProcs \in Nat \ {0}
      /\ DOMAIN Demands = 1 .. 1 + Len(image) + NumProcs
  BY DemandFacts DEF FrameInv, ItemInRange
<1>1. /\ phase = "stack" /\ todo = <<>> /\ UNCHANGED <<inputVars, pagingVars>>
      /\ UNCHANGED image /\ item \in 1 .. NumProcs
      /\ Len(user_rsp) = item - 1 /\ heap_used = (item - 1) * size
      /\ user_rsp \in Seq(Nat)
  BY DEF CreateUserProcess, LoopDone, inputVars, FrameInv, ItemInRange, MemTypeOK,
         LoadInv, StackInv, BootInv, HeapAccount
<1>2. Current = 1 + Len(image) + item /\ Ahead = {}
  BY <1>1, LoopPosition DEF Current
<1>3. size \in Nat /\ KStackSize + SmallObjects = size /\ HeapSize \in Nat
  BY SizeAssumption DEF KStackSize
<1>4. ~HeapFull(KStackSize + SmallObjects)
  <2>1. item - 1 \in 0 .. NumProcs - 1
    BY <1>0, <1>1
  <2>2. (item - 1) * size + size <= HeapSize
    BY <2>1, HeapHolds
  <2>3. (item - 1) * size \in Nat
    BY <1>3, <2>1
  <2> HIDE DEF size
  <2> QED
    BY <1>1, <1>3, <2>2, <2>3 DEF HeapFull
<1>5. /\ heap_used' = heap_used + size
      /\ user_rsp' = Append(user_rsp, (StackStart[item] + StackPages) * PageSize)
      /\ IF item < NumProcs THEN Enter("stack", item + 1, StackRange(item + 1))
                            ELSE Enter("spawn", item, <<>>)
  BY <1>3, <1>4 DEF CreateUserProcess, Allocate
<1>6. Len(user_rsp') = item /\ heap_used' = item * size
  <2>1. Len(user_rsp') = item
    BY <1>1, <1>5
  <2>2. (item - 1) * size + size = item * size
    BY <1>1, <1>3
  <2> QED
    BY <1>1, <1>5, <2>1, <2>2
<1>7. Current \in 1 .. 2 + Len(image) + NumProcs
  BY <1>0, <1>1, <1>2
<1>8. /\ phase' \in {"stack", "spawn"} /\ Current' = Current + 1
      /\ Current' \in DOMAIN Demands => Ahead' = Demands[Current']
  <2>1. CASE item < NumProcs
    <3> DEFINE f == StackStart[item + 1]
               l == StackStart[item + 1] + StackPages - 1
    <3>1. phase' = "stack" /\ item' = item + 1 /\ todo' = StackRange(item + 1)
      BY <1>5, <2>1 DEF Enter
    <3>2. item + 1 \in 1 .. NumProcs
      BY <1>0, <1>1, <2>1
    <3>3. f \in Nat /\ l \in Int /\ f <= l + 1 /\ StackRange(item + 1) = PageRange(f, l)
      BY <3>2, StackPagesRange
    <3>4. Demands[1 + Len(image) + (item + 1)] = f .. l
      BY <1>0, <3>2, DemandFacts DEF PagesOfStack
    <3> HIDE DEF f, l
    <3>5. Ahead' = f .. l
      BY <3>1, <3>3, LoopStarts DEF Ahead
    <3>6. Current' = 1 + Len(image) + (item + 1) /\ Current' = Current + 1
      BY <1>0, <1>1, <1>2, <3>1 DEF Current
    <3> QED
      BY <3>1, <3>4, <3>5, <3>6
  <2>2. CASE ~(item < NumProcs)
    <3>1. phase' = "spawn" /\ item = NumProcs
      BY <1>0, <1>1, <1>5, <2>2 DEF Enter
    <3>2. Current' = 2 + Len(image) + NumProcs
      BY <1>1, <3>1 DEF Current
    <3> QED
      BY <1>0, <1>2, <3>1, <3>2
  <2> QED
    BY <2>1, <2>2
<1>9. Accounts' /\ Progress'
  BY <1>0, <1>1, <1>2, <1>7, <1>8, MoveOn DEF pagingVars
<1>10. HeapAccount' /\ phase' # "panic"
  BY <1>6, <1>8 DEF HeapAccount
<1> QED
  BY <1>9, <1>10 DEF BootInv

(* The kernel task is spawned: the heap has room for it too.                 *)
LEMMA SpawnMovesOn ==
    ASSUME FrameInv, LoadInv, BootInv, SpawnKernelTask
    PROVE  BootInv'
<1> DEFINE size == UserKStack + SmallObjects
<1>0. image \in Images /\ Len(image) \in Nat /\ NumProcs \in Nat \ {0}
  BY DemandFacts DEF FrameInv, ItemInRange
<1>1. /\ phase = "spawn" /\ UNCHANGED <<inputVars, pagingVars>> /\ UNCHANGED image
      /\ heap_used = NumProcs * size
  BY DEF SpawnKernelTask, inputVars, LoadInv, StackInv, BootInv, HeapAccount
<1>2. ~HeapFull(TaskKStack + SmallObjects)
  <2>1. NumProcs * size + (TaskKStack + SmallObjects) <= HeapSize
    BY HeapHolds
  <2>2. TaskKStack + SmallObjects \in Nat /\ size \in Nat /\ HeapSize \in Nat
    BY SizeAssumption
  <2>3. NumProcs * size \in Nat
    BY <1>0, <2>2
  <2> HIDE DEF size
  <2> QED
    BY <1>1, <2>1, <2>2, <2>3 DEF HeapFull
<1>3. phase' = "running"
  BY <1>2 DEF SpawnKernelTask, Enter
<1>4. Current' = Current /\ Ahead' = Ahead /\ Current = 2 + Len(image) + NumProcs
  BY <1>1, <1>3 DEF Current, Ahead
<1>5. Current \in 1 .. 2 + Len(image) + NumProcs
  BY <1>0, <1>4
<1>6. Accounts' /\ Progress'
  BY <1>0, <1>1, <1>3, <1>4, <1>5, MoveOn DEF pagingVars
<1> QED
  BY <1>3, <1>6 DEF BootInv, HeapAccount

(* Every step of kernel_main preserves BootInv.                              *)
LEMMA BootInvStep == FrameInv /\ LoadInv /\ BootInv /\ [MemNext]_memVars => BootInv'
<1> SUFFICES ASSUME FrameInv, LoadInv, BootInv, [MemNext]_memVars
             PROVE  BootInv'
  OBVIOUS
<1>1. CASE MapHeapPage
  BY <1>1, MapNextServes DEF MapHeapPage
<1>2. CASE MapSegmentPage
  BY <1>2, MapNextServes DEF MapSegmentPage
<1>3. CASE MapStackPage
  BY <1>3, MapNextServes DEF MapStackPage
<1>4. CASE HeapReady \/ CopySegment \/ ProtectPage \/ SegmentDone
  BY <1>4, LoaderMovesOn
<1>5. CASE CreateUserProcess
  BY <1>5, ProcessMovesOn
<1>6. CASE SpawnKernelTask
  BY <1>6, SpawnMovesOn
<1>7. CASE UNCHANGED memVars
  <2>1. UNCHANGED <<regions, image, phase, item, todo, next, pt, tables, heap_used, user_rsp>>
        /\ UNCHANGED inputVars
    BY <1>7 DEF memVars, inputVars, pagingVars
  <2>2. Demands' = Demands /\ (Fits' <=> Fits)
    BY <2>1, DemandsStay
  <2>3. Current' = Current /\ Ahead' = Ahead
    BY <2>1 DEF Current, Ahead
  <2>4. Accounts' /\ HeapAccount'
    BY <2>1 DEF BootInv, Accounts, HeapAccount
  <2>5. Progress'
    BY <2>1, <2>2, <2>3 DEF BootInv, Progress, Served
  <2> QED
    BY <2>1, <2>2, <2>4, <2>5 DEF BootInv
<1> QED
  BY <1>1, <1>2, <1>3, <1>4, <1>5, <1>6, <1>7 DEF MemNext

(* The accounts of every boot are right.                                     *)
THEOREM BootInvInvariant == MemSpec => []BootInv
<1>1. MemInit => BootInv
  BY BootInit
<1>2. FrameInv /\ LoadInv /\ BootInv /\ [MemNext]_memVars => BootInv'
  BY BootInvStep
<1> QED
  BY <1>1, <1>2, FrameInvInvariant, LoadInvInvariant, PTL DEF MemSpec

(* When kernel_main has come to its end, every demand has been served.       *)
LEMMA RunningFits ==
    ASSUME FrameInv, BootInv, phase = "running"
    PROVE  Fits
<1>1. image \in Images /\ next \in Nat /\ next <= Len(UsableFrames)
      /\ Len(UsableFrames) \in Nat
  BY DEF FrameInv, ItemInRange, PagingInv, FramesListed
<1>2. \A i \in DOMAIN Demands : Served(i) = Demands[i]
  <2>1. \A i \in DOMAIN Demands : i < Current
    BY <1>1, DemandFacts DEF Current
  <2> QED
    BY <2>1 DEF Served
<1>3. /\ DOMAIN pt = UNION {Served(i) : i \in DOMAIN Demands}
      /\ \A i, j \in DOMAIN Demands : i # j => Served(i) \cap Served(j) = {}
  BY DEF BootInv, Progress
<1>4. DOMAIN pt = AllPages
  BY <1>2, <1>3 DEF AllPages, Range
<1>5. DOMAIN tables = AllTables
  BY <1>4 DEF BootInv, Accounts, AllTables
<1>6. Cardinality(AllPages) + Cardinality(AllTables) = next
  BY <1>4, <1>5 DEF BootInv, Accounts
<1>7. \A i, j \in DOMAIN Demands : i # j => Demands[i] \cap Demands[j] = {}
  BY <1>2, <1>3
<1> QED
  BY <1>1, <1>6, <1>7, FitsMeans

(* kernel_main panics exactly when the pages it has to map overlap or the    *)
(* machine has not the frames for them and for their page tables.            *)
THEOREM BootVerdictIsRight == MemSpec => []BootVerdict
<1>1. FrameInv /\ BootInv => BootVerdict
  BY RunningFits DEF BootInv, BootVerdict
<1> QED
  BY <1>1, FrameInvInvariant, BootInvInvariant, PTL
================================================================================
