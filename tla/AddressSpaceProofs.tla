-------------------------- MODULE AddressSpaceProofs --------------------------
(***************************************************************************)
(* Theorems about the boot, for every memory map, program image, heap and  *)
(* number of processes.                                                    *)
(*                                                                         *)
(* What usable_frames yields is proved by induction over the regions of    *)
(* the memory map (EveryMapIsListed), with an induction principle over     *)
(* sets (Induction); everything else follows from it by invariance.        *)
(***************************************************************************)
EXTENDS AddressSpace, FiniteSetTheorems, SequenceTheorems, WellFoundedInduction, TLAPS

PageEntry == [frame : Nat, write : BOOLEAN, user : BOOLEAN]

(* The page tables that exist form a tree.                                   *)
Present == DOMAIN tables \cup BootTables
IsTree(T) == \A t \in T : t[1] \in 1 .. 2 => <<t[1] + 1, t[2] \div FanOut>> \in T

(* Only frames allocate_frame has handed out are in use.                     *)
Taken == {UsableFrames[k] : k \in 1 .. next}
FramesTaken ==
    /\ \A p \in DOMAIN pt : pt[p].frame \in Taken
    /\ \A t \in DOMAIN tables : tables[t] \in Taken

(* What kernel_main is working on exists.                                    *)
ItemInRange ==
    /\ image \in Images
    /\ phase = "heap" => item = 1
    /\ phase \in {"segment", "protect"} => item \in 1 .. Len(image)
    /\ phase = "stack" => item \in 1 .. NumProcs

(* The inductive invariant of the allocator and the page tables.             *)
PagingInv ==
    /\ FramesListed
    /\ next \in 0 .. Len(UsableFrames)
    /\ pt \in [DOMAIN pt -> PageEntry]
    /\ tables \in [DOMAIN tables -> Nat]
    /\ IsTree(Present)
    /\ FramesTaken
    /\ FramesExclusive

FrameInv == PagingInv /\ MemTypeOK /\ ItemInRange

(* The pages of the heap, of segment i and of the stack of process p.        *)
HeapLast == PageOf(HeapStart * PageSize + HeapSize - 1)
PagesOfHeap == HeapStart .. HeapLast
PagesOfSegment(i) == PageOf(image[i].vaddr) .. PageOf(image[i].vaddr + image[i].memsz - 1)
PagesOfStack(p) == StackStart[p] .. StackStart[p] + StackPages - 1

(* The loop over first .. last has come as far as some page of it.           *)
InLoop(pages, first, last) == \E f \in first .. last + 1 : pages = PageRange(f, last)

(* A page ring 3 can use; one it can write; one it cannot write.             *)
UserPage(page) == page \in DOMAIN pt /\ pt[page].user
Writable(page) == UserPage(page) /\ pt[page].write
ReadOnly(page) == UserPage(page) /\ ~pt[page].write

(* Every address of segment i holds what load_segment is to put there; the   *)
(* pages have their final flags as well.                                     *)
Addresses(i) == image[i].vaddr .. image[i].vaddr + image[i].memsz - 1
Contents(i) ==
    \A a \in Addresses(i) : Cell(a) \in DOMAIN ram /\ ram[Cell(a)] = Loaded(image[i], a)
SegmentReady(i) ==
    /\ Contents(i)
    /\ \A page \in PagesOfSegment(i) :
          IF image[i].write THEN Writable(page) ELSE ReadOnly(page)

(* The loader has finished with segment i.                                   *)
Finished(i) == \/ phase \in {"segment", "protect"} /\ i < item
               \/ phase \in {"stack", "spawn", "running"}

(* No page of the kernel's heap is ever accessible in ring 3: it is mapped   *)
(* first, and map_to does not map a page twice.                              *)
HeapInv ==
    /\ phase = "heap" => /\ InLoop(todo, HeapStart, HeapLast)
                         /\ DOMAIN pt = PagesOfHeap \ Range(todo)
    /\ phase \notin {"heap", "panic"} => PagesOfHeap \subseteq DOMAIN pt
    /\ \A page \in PagesOfHeap : ~UserPage(page)

(* For the same reason no page mapped for the present segment belongs to a   *)
(* finished one, so copying and protecting do not disturb those.             *)
SegmentInv ==
    /\ phase \in {"segment", "protect"} =>
          InLoop(todo, PageOf(image[item].vaddr),
                 PageOf(image[item].vaddr + image[item].memsz - 1))
    /\ phase = "segment" =>
          \A page \in PagesOfSegment(item) \ Range(todo) :
              Writable(page) /\ \A i \in 1 .. item - 1 : page \notin PagesOfSegment(i)
    /\ phase = "protect" =>
          /\ ~image[item].write
          /\ Contents(item)
          /\ \A page \in PagesOfSegment(item) :
                /\ UserPage(page)
                /\ page \notin Range(todo) => ReadOnly(page)
                /\ \A i \in 1 .. item - 1 : page \notin PagesOfSegment(i)
    /\ \A i \in 1 .. Len(image) : Finished(i) => SegmentReady(i)

StackReady(p) ==
    /\ user_rsp[p] = (StackStart[p] + StackPages) * PageSize
    /\ \A page \in PagesOfStack(p) : Writable(page)
StackInv ==
    /\ phase \in {"heap", "segment", "protect"} => user_rsp = <<>>
    /\ phase = "stack" =>
          /\ InLoop(todo, StackStart[item], StackStart[item] + StackPages - 1)
          /\ \A page \in PagesOfStack(item) \ Range(todo) : Writable(page)
          /\ Len(user_rsp) = item - 1
    /\ phase \in {"spawn", "running"} => Len(user_rsp) = NumProcs
    /\ \A p \in 1 .. Len(user_rsp) : StackReady(p)

(* The inductive invariant of the loader, on top of FrameInv.                *)
LoadInv == HeapInv /\ SegmentInv /\ StackInv

--------------------------------------------------------------------------------
(* The frames of the list are distinct and acceptable.                       *)
LEMMA ListFacts ==
    ASSUME FramesListed
    PROVE  /\ UsableFrames \in Seq(Nat)
           /\ Len(UsableFrames) \in Nat
           /\ DOMAIN UsableFrames = 1 .. Len(UsableFrames)
           /\ \A j, k \in 1 .. Len(UsableFrames) : UsableFrames[j] = UsableFrames[k] => j = k
           /\ \A k \in 1 .. Len(UsableFrames) : UsableFrames[k] \in Nat /\ Acceptable(UsableFrames[k])
BY DEF FramesListed

(* A table is missing only if everything below it is: the missing tables of  *)
(* a page are those of the levels 1 .. m.                                    *)
LEMMA MissingTables ==
    ASSUME NEW T, IsTree(T), NEW page \in Nat
    PROVE  LET missing == Path(page) \ T
               m       == Cardinality(missing)
           IN  /\ m \in 0 .. 3
               /\ \A t \in missing : t[1] \in 1 .. m
               /\ \A s, t \in missing : s[1] = t[1] => s = t
               /\ IsTree(T \cup missing)
<1> DEFINE i1 == page \div FanOut
           i2 == i1 \div FanOut
           i3 == i2 \div FanOut
           missing == Path(page) \ T
<1>1. Path(page) = {<<1, i1>>, <<2, i2>>, <<3, i3>>}
  BY DEF Path
<1>2. /\ <<1, i1>> \in T => <<2, i2>> \in T
      /\ <<2, i2>> \in T => <<3, i3>> \in T
  BY DEF IsTree
<1> HIDE DEF i1, i2, i3
<1>3. \/ missing = {} /\ Cardinality(missing) = 0
      \/ missing = {<<1, i1>>} /\ Cardinality(missing) = 1
      \/ missing = {<<1, i1>>, <<2, i2>>} /\ Cardinality(missing) = 2
      \/ missing = {<<1, i1>>, <<2, i2>>, <<3, i3>>} /\ Cardinality(missing) = 3
  <2>1. \/ missing = {}
        \/ missing = {<<1, i1>>}
        \/ missing = {<<1, i1>>, <<2, i2>>}
        \/ missing = {<<1, i1>>, <<2, i2>>, <<3, i3>>}
    BY <1>1, <1>2
  <2>2. <<1, i1>> # <<2, i2>> /\ <<1, i1>> # <<3, i3>> /\ <<2, i2>> # <<3, i3>>
    OBVIOUS
  <2>3. /\ Cardinality({}) = 0
        /\ Cardinality({<<1, i1>>}) = 1
        /\ Cardinality({<<1, i1>>, <<2, i2>>}) = 2
        /\ Cardinality({<<1, i1>>, <<2, i2>>, <<3, i3>>}) = 3
    <3> DEFINE t1 == <<1, i1>>
               t2 == <<2, i2>>
               t3 == <<3, i3>>
    <3>1. t1 # t2 /\ t1 # t3 /\ t2 # t3
      BY <2>2
    <3> HIDE DEF t1, t2, t3
    <3>2. /\ Cardinality({}) = 0
          /\ Cardinality({t1}) = 1
          /\ Cardinality({t1, t2}) = 2
          /\ Cardinality({t1, t2, t3}) = 3
      <4>1. Cardinality({}) = 0 /\ IsFiniteSet({t1}) /\ Cardinality({t1}) = 1
        BY FS_EmptySet, FS_Singleton
      <4>2. {t1, t2} = {t1} \cup {t2} /\ IsFiniteSet({t1, t2}) /\ Cardinality({t1, t2}) = 2
        BY <3>1, <4>1, FS_AddElement
      <4>3. {t1, t2, t3} = {t1, t2} \cup {t3} /\ Cardinality({t1, t2, t3}) = 3
        BY <3>1, <4>2, FS_AddElement
      <4> QED
        BY <4>1, <4>2, <4>3
    <3> QED
      BY <3>2 DEF t1, t2, t3
  <2> QED
    BY <2>1, <2>3, Zenon
<1>4. IsTree(T \cup missing)
  <2> SUFFICES ASSUME NEW t \in T \cup missing, t[1] \in 1 .. 2
               PROVE  <<t[1] + 1, t[2] \div FanOut>> \in T \cup missing
    BY DEF IsTree
  <2>1. CASE t \in T
    BY <2>1 DEF IsTree
  <2>2. CASE t = <<1, i1>>
    <3>1. <<t[1] + 1, t[2] \div FanOut>> = <<2, i2>>
      BY <2>2 DEF i2
    <3> QED
      BY <1>1, <3>1
  <2>3. CASE t = <<2, i2>>
    <3>1. <<t[1] + 1, t[2] \div FanOut>> = <<3, i3>>
      BY <2>3 DEF i3
    <3> QED
      BY <1>1, <3>1
  <2> QED
    BY <1>1, <2>1, <2>2, <2>3
<1> HIDE DEF missing
<1>5. /\ Cardinality(missing) \in 0 .. 3
      /\ \A t \in missing : t[1] \in 1 .. Cardinality(missing)
      /\ \A s, t \in missing : s[1] = t[1] => s = t
  BY <1>3
<1> QED
  BY <1>4, <1>5 DEF missing

(* The list of frames depends on the memory map only, which does not change. *)
LEMMA FramesStay ==
    ASSUME UNCHANGED regions
    PROVE  UsableFrames' = UsableFrames /\ (FramesListed => FramesListed')
<1>1. UsableFrames' = UsableFrames
  BY DEF UsableFrames, FramesUpTo
<1> QED
  BY <1>1 DEF FramesListed, Acceptable, InUsableRegion, PartlyUsable, WholePages

(* Page::range_inclusive yields the pages of the range, each once, in order. *)
LEMMA PageRangeFacts ==
    ASSUME NEW first \in Nat, NEW last \in Int, first <= last + 1
    PROVE  /\ PageRange(first, last) \in Seq(Nat)
           /\ Range(PageRange(first, last)) = first .. last
           /\ PageRange(first, last) = <<>> <=> first = last + 1
           /\ PageRange(first, last) # <<>> =>
                 /\ Head(PageRange(first, last)) = first
                 /\ Tail(PageRange(first, last)) = PageRange(first + 1, last)
<1> DEFINE s == PageRange(first, last)
           n == last - first + 1
<1>1. n \in Nat /\ s = [k \in 1 .. n |-> first + k - 1]
  BY DEF PageRange
<1>2. s \in Seq(Nat) /\ Len(s) = n /\ DOMAIN s = 1 .. n
  BY <1>1
<1>3. Range(s) = first .. last
  <2>1. \A p \in first .. last : p - first + 1 \in 1 .. n /\ s[p - first + 1] = p
    BY <1>1
  <2>2. \A k \in 1 .. n : s[k] \in first .. last
    BY <1>1
  <2> QED
    BY <1>2, <2>1, <2>2 DEF Range
<1>4. s = <<>> <=> first = last + 1
  BY <1>1, <1>2
<1>5. ASSUME s # <<>>
      PROVE  Head(s) = first /\ Tail(s) = PageRange(first + 1, last)
  <2>1. n \in Nat \ {0}
    BY <1>4, <1>5, <1>1
  <2>2. Head(s) = first
    BY <1>1, <1>2, <2>1
  <2> DEFINE r == PageRange(first + 1, last)
  <2>3. r = [k \in 1 .. n - 1 |-> first + 1 + k - 1] /\ r \in Seq(Nat) /\ Len(r) = n - 1
    BY <2>1 DEF PageRange
  <2>4. /\ Tail(s) \in Seq(Nat) /\ Len(Tail(s)) = n - 1
        /\ \A k \in 1 .. n - 1 : Tail(s)[k] = s[k + 1]
    BY <1>2, <1>5, HeadTailProperties
  <2>5. \A k \in 1 .. n - 1 : s[k + 1] = r[k]
    BY <1>1, <2>3
  <2>6. Tail(s) = r
    BY <2>3, <2>4, <2>5, SeqEqual
  <2> QED
    BY <2>2, <2>6
<1> QED
  BY <1>2, <1>3, <1>4, <1>5

(* Division: the quotient and the remainder make up the number.              *)
LEMMA DivMod ==
    ASSUME NEW a \in Int, NEW b \in Int, b > 0
    PROVE  a = b * (a \div b) + (a % b)
OBVIOUS

(* The quotient and the remainder are the only such pair.                    *)
LEMMA DivUnique ==
    ASSUME NEW a \in Int, NEW b \in Int, b > 0,
           NEW q \in Int, NEW r \in 0 .. b - 1, a = b * q + r
    PROVE  a \div b = q /\ a % b = r
OBVIOUS

(* An address lies in its page, at its offset.                               *)
LEMMA PageNumber ==
    ASSUME NEW a \in Int
    PROVE  /\ PageOf(a) \in Int
           /\ a % PageSize \in 0 .. PageSize - 1
           /\ a = PageSize * PageOf(a) + (a % PageSize)
           /\ PageSize * PageOf(a) <= a /\ a < PageSize * PageOf(a) + PageSize
<1>1. PageSize \in Nat /\ PageSize > 0
  BY SizeAssumption
<1>2. PageOf(a) \in Int
  BY <1>1 DEF PageOf
<1>3. a % PageSize \in 0 .. PageSize - 1
  BY <1>1
<1>4. a = PageSize * PageOf(a) + (a % PageSize)
  BY <1>1, DivMod DEF PageOf
<1>5. PageSize * PageOf(a) \in Int
  BY <1>1, <1>2
<1> QED
  BY <1>1, <1>2, <1>3, <1>4, <1>5

(* The page and the offset of the r-th unit of page q.                       *)
LEMMA PageNumberUnique ==
    ASSUME NEW q \in Int, NEW r \in 0 .. PageSize - 1
    PROVE  PageOf(q * PageSize + r) = q /\ (q * PageSize + r) % PageSize = r
<1>1. PageSize \in Nat /\ PageSize > 0
  BY SizeAssumption
<1>2. q * PageSize + r = PageSize * q + r /\ q * PageSize + r \in Int
  BY <1>1
<1> QED
  BY <1>1, <1>2, DivUnique DEF PageOf

(* Page numbers grow with addresses.                                         *)
LEMMA PageOrder ==
    ASSUME NEW a \in Int, NEW b \in Int, a <= b
    PROVE  PageOf(a) <= PageOf(b)
<1>1. PageSize \in Nat \ {0}
  BY SizeAssumption
<1>2. PageOf(a) \in Int /\ PageOf(b) \in Int
  BY PageNumber
<1>3. PageSize * PageOf(a) <= a /\ b < PageSize * PageOf(b) + PageSize
  BY <1>1, <1>2, PageNumber
<1>4. CASE PageOf(b) + 1 <= PageOf(a)
  <2>1. PageSize * (PageOf(b) + 1) <= PageSize * PageOf(a)
    BY <1>1, <1>2, <1>4
  <2> QED
    BY <1>1, <1>2, <1>3, <2>1
<1> QED
  BY <1>2, <1>4

--------------------------------------------------------------------------------
(* Induction up to n, over a set: what holds of 0 and passes from k to       *)
(* k + 1 holds up to n.                                                      *)
LEMMA Induction ==
    ASSUME NEW n \in Nat, NEW S, 0 \in S,
           \A k \in 0 .. n : k \in S /\ k < n => k + 1 \in S
    PROVE  \A k \in 0 .. n : k \in S
<1> DEFINE Less == {ss \in Nat \X Nat : ss[1] < ss[2]}
           T    == {k \in 0 .. n : k \notin S}
<1>1. IsWellFoundedOn(Less, Nat)
  BY NatLessThanWellFounded DEF OpToRel
<1> SUFFICES ASSUME T # {} PROVE FALSE
  OBVIOUS
<1>2. T \subseteq Nat
  OBVIOUS
<1>3. PICK x \in T : \A y \in T : ~(<<y, x>> \in Less)
  <2> HIDE DEF Less, T
  <2> QED
    BY <1>1, <1>2, WFMin
<1>4. x \in 1 .. n /\ x - 1 \in 0 .. n /\ x - 1 < n /\ (x - 1) + 1 = x
  OBVIOUS
<1>5. x - 1 \notin S
  BY <1>4
<1>6. x - 1 \in T
  BY <1>4, <1>5
<1>7. <<x - 1, x>> \in Less
  BY <1>4
<1> QED
  BY <1>3, <1>6, <1>7

(* Concatenating the members of a sequence of sequences one by one is a      *)
(* function on the lengths of its prefixes.                                  *)
Concatenates(F, G, n) ==
    /\ F \in [0 .. n -> Seq(Nat)]
    /\ F[0] = <<>>
    /\ \A i \in 1 .. n : F[i] = F[i - 1] \o G[i]
LEMMA ConcatenationExists ==
    ASSUME NEW n \in Nat, NEW G \in [1 .. n -> Seq(Nat)]
    PROVE  \E F : Concatenates(F, G, n)
<1> DEFINE S == {k \in 0 .. n : \E F : Concatenates(F, G, k)}
<1>1. 0 \in S
  <2>1. Concatenates([i \in 0 .. 0 |-> <<>>], G, 0)
    BY DEF Concatenates
  <2> QED
    BY <2>1
<1>2. ASSUME NEW k \in 0 .. n, k \in S, k < n PROVE k + 1 \in S
  <2>1. PICK F : Concatenates(F, G, k)
    BY <1>2
  <2> DEFINE H == [i \in 0 .. k + 1 |-> IF i = k + 1 THEN F[k] \o G[k + 1] ELSE F[i]]
  <2>2. F[k] \o G[k + 1] \in Seq(Nat)
    <3>1. F[k] \in Seq(Nat) /\ G[k + 1] \in Seq(Nat)
      BY <1>2, <2>1 DEF Concatenates
    <3> QED
      BY <3>1
  <2>3. H \in [0 .. k + 1 -> Seq(Nat)] /\ H[0] = <<>>
    BY <2>1, <2>2 DEF Concatenates
  <2>4. ASSUME NEW i \in 1 .. k + 1 PROVE H[i] = H[i - 1] \o G[i]
    <3>1. /\ i - 1 \in 0 .. k /\ H[i - 1] = F[i - 1]
          /\ i = k + 1 => i - 1 = k /\ H[i] = F[k] \o G[k + 1]
          /\ i # k + 1 => i \in 1 .. k /\ H[i] = F[i]
      OBVIOUS
    <3> HIDE DEF H
    <3>2. CASE i = k + 1
      BY <3>1, <3>2, Zenon
    <3>3. CASE i # k + 1
      <4>1. F[i] = F[i - 1] \o G[i]
        BY <2>1, <3>1, <3>3, Zenon DEF Concatenates
      <4> QED
        BY <3>1, <3>3, <4>1, Zenon
    <3> QED
      BY <3>2, <3>3
  <2>5. Concatenates(H, G, k + 1)
    BY <2>3, <2>4 DEF Concatenates
  <2> QED
    BY <1>2, <2>5
<1>3. \A k \in 0 .. n : k \in S
  <2> HIDE DEF S
  <2> QED
    BY <1>1, <1>2, Induction
<1> QED
  BY <1>3

(* Multiplication is monotonic.                                              *)
LEMMA ProductOrder ==
    ASSUME NEW x \in Nat, NEW y \in Nat, NEW p \in Nat, x <= y
    PROVE  x * p <= y * p
<1>1. PICK d \in Nat : y = x + d
  <2>1. y - x \in Nat /\ y = x + (y - x)
    OBVIOUS
  <2> QED
    BY <2>1
<1>2. y * p = x * p + d * p /\ d * p \in Nat /\ x * p \in Nat
  BY <1>1
<1> QED
  BY <1>2

(* What usable_frames takes from the memory map: the frames of each region.  *)
Chunks == [i \in 1 .. Len(regions) |->
              IF IsUsable(regions[i]) THEN RegionFrames(regions[i]) ELSE <<>>]

(* step_by yields one address of each of the n pages from that of the start  *)
(* on, wherever in its page the region begins; the whole pages of the region *)
(* are among them.                                                           *)
LEMMA RegionPages ==
    ASSUME NEW r \in MemoryRegion
    PROVE  LET a == PageOf(r.start)
               n == PageOf(r.end - r.start + PageSize - 1)
           IN  /\ a \in Nat /\ n \in Int
               /\ RegionFrames(r) = [k \in 1 .. n |-> a + k - 1]
               /\ \A k \in 1 .. n : \E x \in r.start .. r.end - 1 : PageOf(x) = a + k - 1
               /\ \A f \in PageOf(r.start + PageSize - 1) .. PageOf(r.end) - 1 :
                     f - a + 1 \in 1 .. n
<1> DEFINE P == PageSize
           s == r.start
           e == r.end
           a == PageOf(s)
           o == s % P
           last == e - s + P - 1
           n == PageOf(last)
<1>1. P \in Nat /\ P > 0 /\ s \in Nat /\ e \in Nat /\ last \in Int
  BY SizeAssumption DEF MemoryRegion
<1>2. a \in Nat /\ n \in Int /\ o \in 0 .. P - 1 /\ s = P * a + o /\ P * n <= last
  <2>1. a \in Nat
    BY <1>1 DEF PageOf
  <2>2. s \in Int
    BY <1>1
  <2> QED
    BY <1>1, <2>1, <2>2, PageNumber, Zenon
<1>3. RegionFrames(r) = [k \in 1 .. n |-> PageOf(s + (k - 1) * P)]
  BY DEF RegionFrames, PageOf
<1> HIDE DEF a, o, n
<1>4. ASSUME NEW k \in 1 .. n
      PROVE  PageOf(s + (k - 1) * P) = a + k - 1
  <2>1. a + k - 1 \in Int /\ k \in Int
    BY <1>2
  <2>2. s + (k - 1) * P = (a + k - 1) * P + o
    BY <1>1, <1>2, <2>1
  <2> QED
    BY <1>2, <2>1, <2>2, PageNumberUnique
<1>5. ASSUME NEW k \in 1 .. n
      PROVE  \E x \in s .. e - 1 : PageOf(x) = a + k - 1
  <2> DEFINE x == s + (k - 1) * P
  <2>1. k \in Nat /\ n \in Nat /\ k <= n /\ k >= 1 /\ k - 1 \in Nat
    BY <1>2
  <2>2. k * P <= n * P
    BY <1>1, <2>1, ProductOrder
  <2>3. (k - 1) * P = k * P - P /\ n * P = P * n /\ (k - 1) * P \in Nat /\ k * P \in Nat
    BY <1>1, <2>1
  <2>4. (k - 1) * P <= e - s - 1
    <3> DEFINE u == k * P
               v == n * P
    <3>1. u \in Nat /\ v \in Int /\ u <= v /\ v <= last
      BY <1>1, <1>2, <2>1, <2>2, <2>3
    <3> HIDE DEF u, v
    <3>2. u - P <= e - s - 1
      BY <1>1, <3>1
    <3> QED
      BY <2>3, <3>2, Zenon DEF u
  <2>5. x \in s .. e - 1
    <3> DEFINE w == (k - 1) * P
    <3>1. w \in Nat /\ w <= e - s - 1
      BY <2>3, <2>4
    <3> HIDE DEF w
    <3>2. s + w \in s .. e - 1
      BY <1>1, <3>1
    <3> QED
      BY <3>2 DEF w
  <2> QED
    BY <1>4, <2>5
<1>6. ASSUME NEW f \in PageOf(s + P - 1) .. PageOf(e) - 1
      PROVE  f - a + 1 \in 1 .. n
  <2> DEFINE b == PageOf(s + P - 1)
             c == PageOf(e)
  <2>1. /\ b \in Nat /\ c \in Nat
        /\ s + P - 1 < P * b + P /\ P * c <= e
    <3>1. s + P - 1 \in Nat /\ e \in Nat /\ s + P - 1 \in Int /\ e \in Int
      BY <1>1
    <3>2. b \in Nat /\ c \in Nat
      BY <1>1, <3>1 DEF PageOf
    <3> QED
      BY <3>1, <3>2, PageNumber, Zenon
  <2>2. f \in b .. c - 1
    OBVIOUS
  <2> HIDE DEF b, c
  <2>3. f \in Nat /\ b <= f /\ f + 1 <= c /\ f + 1 \in Nat
    BY <2>1, <2>2
  <2>4. b * P <= f * P /\ (f + 1) * P <= c * P
    BY <1>1, <2>1, <2>3, ProductOrder
  <2>5. s <= f * P /\ (f + 1) * P <= e
    BY <1>1, <2>1, <2>3, <2>4
  <2>6. a <= f
    <3>1. s \in Int /\ f * P \in Int /\ 0 \in 0 .. P - 1 /\ f * P = f * P + 0 /\ f \in Int
      BY <1>1, <2>3
    <3>2. PageOf(s) <= PageOf(f * P)
      BY <2>5, <3>1, PageOrder
    <3>3. PageOf(f * P) = f
      BY <3>1, PageNumberUnique
    <3> QED
      BY <3>2, <3>3 DEF a
  <2>7. (f - a + 1) * P <= last
    <3>1. (f - a + 1) * P = (f + 1) * P - P * a /\ (f + 1) * P \in Int /\ P * a \in Int
      BY <1>1, <1>2, <2>3
    <3> DEFINE u == (f + 1) * P
               v == P * a
    <3>2. u \in Int /\ v \in Int /\ u <= e /\ s = v + o
      BY <1>2, <2>5, <3>1
    <3> HIDE DEF u, v
    <3>3. u - v <= last
      BY <1>1, <1>2, <3>2
    <3> QED
      BY <3>1, <3>3 DEF u, v
  <2>8. f - a + 1 <= n
    <3>1. (f - a + 1) \in Int /\ (f - a + 1) * P \in Int /\ 0 \in 0 .. P - 1
          /\ (f - a + 1) * P = (f - a + 1) * P + 0
      BY <1>1, <1>2, <2>3
    <3>2. PageOf((f - a + 1) * P) <= PageOf(last)
      BY <1>1, <2>7, <3>1, PageOrder
    <3>3. PageOf((f - a + 1) * P) = f - a + 1
      BY <3>1, PageNumberUnique
    <3> QED
      BY <3>2, <3>3 DEF n
  <2> QED
    BY <1>2, <2>3, <2>6, <2>8
<1>7. RegionFrames(r) = [k \in 1 .. n |-> a + k - 1]
  BY <1>3, <1>4
<1> QED
  BY <1>2, <1>5, <1>6, <1>7 DEF a, n

(* Frame f has an address of the usable region i.                            *)
Meets(f, i) ==
    /\ regions[i].usable
    /\ \E x \in regions[i].start .. regions[i].end - 1 : PageOf(x) = f

(* The frames that lie wholly in region i.                                   *)
WholeFrames(i) == PageOf(regions[i].start + PageSize - 1) .. PageOf(regions[i].end) - 1

(* What is listed for region i: no frame twice, none that has no address of  *)
(* the region, and every one that lies wholly in it.                         *)
LEMMA ChunkFacts ==
    ASSUME regions \in MemoryMaps, NEW i \in 1 .. Len(regions)
    PROVE  /\ Chunks[i] \in Seq(Nat)
           /\ \A j, k \in DOMAIN Chunks[i] : Chunks[i][j] = Chunks[i][k] => j = k
           /\ \A k \in DOMAIN Chunks[i] : Meets(Chunks[i][k], i)
           /\ regions[i].usable =>
                \A f \in WholeFrames(i) : \E k \in DOMAIN Chunks[i] : Chunks[i][k] = f
<1> DEFINE r == regions[i]
<1>1. r \in MemoryRegion
  BY MemoryMapAssumption
<1>2. Chunks[i] = IF r.usable THEN RegionFrames(r) ELSE <<>>
  BY DEF Chunks, IsUsable
<1>3. CASE ~r.usable
  BY <1>2, <1>3
<1>4. CASE r.usable
  <2> DEFINE a == PageOf(r.start)
             n == PageOf(r.end - r.start + PageSize - 1)
             C == [k \in 1 .. n |-> a + k - 1]
  <2>1. /\ a \in Nat /\ n \in Int /\ Chunks[i] = C
        /\ \A k \in 1 .. n : \E x \in r.start .. r.end - 1 : PageOf(x) = a + k - 1
        /\ \A f \in WholeFrames(i) : f - a + 1 \in 1 .. n
    BY <1>1, <1>2, <1>4, RegionPages, Zenon DEF WholeFrames
  <2>2. WholeFrames(i) \subseteq Int
    BY DEF WholeFrames
  <2> HIDE DEF a, n
  <2>3. C \in Seq(Nat) /\ DOMAIN C = 1 .. n
    <3>1. CASE n < 0
      <4>1. 1 .. n = {}
        BY <2>1, <3>1
      <4>2. C = <<>> /\ DOMAIN C = 1 .. n
        BY <4>1
      <4>3. <<>> \in Seq(Nat)
        OBVIOUS
      <4> QED
        BY <4>2, <4>3, Zenon
    <3>2. CASE n >= 0
      BY <2>1, <3>2
    <3> QED
      BY <2>1, <3>1, <3>2
  <2>4. \A j, k \in 1 .. n : C[j] = C[k] => j = k
    BY <2>1
  <2>5. \A f \in WholeFrames(i) : f - a + 1 \in 1 .. n /\ C[f - a + 1] = f
    BY <2>1, <2>2
  <2>6. \A k \in 1 .. n : C[k] = a + k - 1
    OBVIOUS
  <2> HIDE DEF C
  <2>7. \A k \in 1 .. n : Meets(C[k], i)
    BY <1>4, <2>1, <2>6 DEF Meets
  <2> QED
    BY <2>1, <2>3, <2>4, <2>5, <2>7
<1> QED
  BY <1>3, <1>4

(* The definition of FramesUpTo is a sound recursion.                        *)
LEMMA FramesUpToFacts ==
    ASSUME regions \in MemoryMaps
    PROVE  Concatenates(FramesUpTo, Chunks, Len(regions))
<1> DEFINE n == Len(regions)
           Step(F) == [i \in 0 .. n |->
                         IF i = 0 THEN <<>>
                         ELSE F[i - 1] \o IF IsUsable(regions[i]) THEN RegionFrames(regions[i]) ELSE <<>>]
<1>1. n \in Nat /\ regions \in Seq(MemoryRegion)
  BY MemoryMapAssumption
<1>2. Chunks \in [1 .. n -> Seq(Nat)]
  <2>1. \A i \in 1 .. n : Chunks[i] \in Seq(Nat)
    BY ChunkFacts
  <2> QED
    BY <2>1 DEF Chunks
<1>3. \A i \in 1 .. n : Chunks[i] = IF IsUsable(regions[i]) THEN RegionFrames(regions[i]) ELSE <<>>
  BY DEF Chunks
<1>4. PICK F : Concatenates(F, Chunks, n)
  <2> HIDE DEF n
  <2> QED
    BY <1>1, <1>2, ConcatenationExists
<1>5. F = Step(F)
  <2>1. F = [i \in 0 .. n |-> F[i]] /\ F[0] = <<>>
    BY <1>4 DEF Concatenates
  <2>2. ASSUME NEW i \in 0 .. n PROVE F[i] = Step(F)[i]
    <3>1. CASE i = 0
      BY <2>1, <3>1
    <3>2. CASE i # 0
      <4>1. i \in 1 .. n
        BY <1>1, <3>2
      <4>2. F[i] = F[i - 1] \o Chunks[i]
        BY <1>4, <4>1, Zenon DEF Concatenates
      <4>3. Step(F)[i] = F[i - 1] \o IF IsUsable(regions[i]) THEN RegionFrames(regions[i]) ELSE <<>>
        BY <3>2, Zenon
      <4> QED
        BY <1>3, <4>1, <4>2, <4>3, Zenon
    <3> QED
      BY <3>1, <3>2
  <2>3. Step(F) = [i \in 0 .. n |-> Step(F)[i]]
    BY Zenon
  <2> QED
    BY <2>1, <2>2, <2>3, Zenon
<1>6. FramesUpTo = CHOOSE G : G = Step(G)
  BY DEF FramesUpTo
<1>7. FramesUpTo = Step(FramesUpTo)
  <2> HIDE DEF Step
  <2> QED
    BY <1>5, <1>6, Zenon
<1>8. ASSUME NEW i \in 0 .. n, FramesUpTo[i] = F[i], i < n PROVE FramesUpTo[i + 1] = F[i + 1]
  <2>1. i + 1 \in 0 .. n /\ i + 1 # 0 /\ (i + 1) - 1 = i
    BY <1>1, <1>8
  <2>2. ASSUME NEW G, G = Step(G)
        PROVE  G[i + 1] = G[i] \o IF IsUsable(regions[i + 1]) THEN RegionFrames(regions[i + 1]) ELSE <<>>
    <3>1. Step(G)[i + 1] = G[(i + 1) - 1] \o IF IsUsable(regions[i + 1]) THEN RegionFrames(regions[i + 1]) ELSE <<>>
      BY <2>1, Zenon
    <3> QED
      BY <2>1, <2>2, <3>1, Zenon
  <2> HIDE DEF Step
  <2> QED
    BY <1>5, <1>7, <1>8, <2>2, Zenon
<1>9. FramesUpTo[0] = F[0] /\ 0 \in 0 .. n
  <2>1. 0 \in 0 .. n
    BY <1>1
  <2>2. ASSUME NEW G, G = Step(G) PROVE G[0] = <<>>
    BY <2>1, <2>2, Zenon
  <2> HIDE DEF Step
  <2> QED
    BY <1>5, <1>7, <2>1, <2>2, Zenon
<1>10. \A i \in 0 .. n : FramesUpTo[i] = F[i]
  <2> DEFINE S == {i \in 0 .. n : FramesUpTo[i] = F[i]}
  <2>1. 0 \in S
    BY <1>9, Zenon
  <2>2. \A k \in 0 .. n : k \in S /\ k < n => k + 1 \in S
    <3>1. \A k \in 0 .. n : k < n => k + 1 \in 0 .. n
      BY <1>1
    <3> QED
      BY <1>8, <3>1, Zenon
  <2>3. \A k \in 0 .. n : k \in S
    <3> HIDE DEF S, n
    <3> QED
      BY <1>1, <2>1, <2>2, Induction
  <2> QED
    BY <2>3
<1>11. FramesUpTo = F
  <2>1. FramesUpTo = [i \in 0 .. n |-> FramesUpTo[i]]
    <3>1. ASSUME NEW G, G = Step(G) PROVE G = [i \in 0 .. n |-> G[i]]
      <4>1. DOMAIN G = 0 .. n /\ G = [i \in DOMAIN Step(G) |-> Step(G)[i]] /\ DOMAIN Step(G) = 0 .. n
        BY <3>1, Zenon
      <4> HIDE DEF Step, n
      <4> QED
        BY <3>1, <4>1, Zenon
    <3> HIDE DEF Step
    <3> QED
      BY <1>7, <3>1, Zenon
  <2>2. F = [i \in 0 .. n |-> F[i]]
    BY <1>4 DEF Concatenates
  <2> HIDE DEF n
  <2> QED
    BY <1>10, <2>1, <2>2, Zenon
<1> QED
  BY <1>4, <1>11, Zenon

(* Two regions have no frame in common.                                      *)
LEMMA RegionsApart ==
    ASSUME regions \in MemoryMaps, NEW f \in Nat,
           NEW i \in 1 .. Len(regions), NEW j \in 1 .. Len(regions),
           Meets(f, i), Meets(f, j)
    PROVE  i = j
<1>1. i \in DOMAIN regions /\ j \in DOMAIN regions
  BY MemoryMapAssumption
<1> QED
  BY <1>1, MemoryMapAssumption DEF Meets

(* The frames of the first n regions, each once.                             *)
ListedUpTo(L, n) ==
    /\ L \in Seq(Nat)
    /\ \A j, k \in DOMAIN L : L[j] = L[k] => j = k
    /\ \A k \in DOMAIN L : \E i \in 1 .. n : Meets(L[k], i)
    /\ \A i \in 1 .. n : regions[i].usable =>
          \A f \in WholeFrames(i) : \E k \in DOMAIN L : L[k] = f

(* One more region.                                                          *)
LEMMA OneMoreRegion ==
    ASSUME regions \in MemoryMaps, NEW n \in 0 .. Len(regions), n < Len(regions),
           NEW L, ListedUpTo(L, n)
    PROVE  ListedUpTo(L \o Chunks[n + 1], n + 1)
<1> DEFINE C == Chunks[n + 1]
           M == L \o C
<1>1. n + 1 \in 1 .. Len(regions) /\ n \in Nat /\ Len(regions) \in Nat
  BY MemoryMapAssumption
<1>2. /\ C \in Seq(Nat)
      /\ \A j, k \in DOMAIN C : C[j] = C[k] => j = k
      /\ \A k \in DOMAIN C : Meets(C[k], n + 1)
      /\ regions[n + 1].usable =>
            \A f \in WholeFrames(n + 1) : \E k \in DOMAIN C : C[k] = f
  BY <1>1, ChunkFacts
<1>3. L \in Seq(Nat)
  BY DEF ListedUpTo
<1> HIDE DEF C
<1>4. /\ M \in Seq(Nat) /\ Len(L) \in Nat /\ Len(C) \in Nat
      /\ DOMAIN L = 1 .. Len(L) /\ DOMAIN C = 1 .. Len(C)
      /\ DOMAIN M = 1 .. Len(L) + Len(C)
      /\ \A k \in 1 .. Len(L) : M[k] = L[k]
      /\ \A k \in 1 .. Len(C) : M[Len(L) + k] = C[k]
  BY <1>2, <1>3
<1> HIDE DEF M
<1>5. \A k \in DOMAIN M : \/ k \in DOMAIN L /\ M[k] = L[k]
                          \/ k - Len(L) \in DOMAIN C /\ M[k] = C[k - Len(L)]
  <2> TAKE k \in DOMAIN M
  <2>1. k \in 1 .. Len(L) \/ k - Len(L) \in 1 .. Len(C)
    BY <1>4
  <2>2. k = Len(L) + (k - Len(L))
    BY <1>4
  <2> QED
    BY <1>4, <2>1, <2>2
<1>6. \A k \in DOMAIN L, l \in DOMAIN C : L[k] # C[l]
  <2> SUFFICES ASSUME NEW k \in DOMAIN L, NEW l \in DOMAIN C, L[k] = C[l] PROVE FALSE
    OBVIOUS
  <2>1. PICK i \in 1 .. n : Meets(L[k], i)
    BY DEF ListedUpTo
  <2>2. Meets(L[k], n + 1) /\ L[k] \in Nat
    BY <1>2, <1>3
  <2>3. i \in 1 .. Len(regions) /\ i # n + 1
    BY <1>1
  <2> QED
    BY <1>1, <2>1, <2>2, <2>3, RegionsApart
<1>7. ASSUME NEW j \in DOMAIN M, NEW k \in DOMAIN M, M[j] = M[k] PROVE j = k
  <2>1. \A a, b \in DOMAIN L : L[a] = L[b] => a = b
    BY DEF ListedUpTo
  <2>2. CASE j \in DOMAIN L /\ M[j] = L[j] /\ k \in DOMAIN L /\ M[k] = L[k]
    BY <1>7, <2>1, <2>2
  <2>3. CASE /\ j - Len(L) \in DOMAIN C /\ M[j] = C[j - Len(L)]
             /\ k - Len(L) \in DOMAIN C /\ M[k] = C[k - Len(L)]
    <3>1. j - Len(L) = k - Len(L)
      BY <1>2, <1>7, <2>3
    <3> QED
      BY <1>4, <3>1
  <2> QED
    BY <1>5, <1>6, <1>7, <2>2, <2>3
<1>8. ASSUME NEW k \in DOMAIN M PROVE \E i \in 1 .. n + 1 : Meets(M[k], i)
  <2>1. CASE k \in DOMAIN L /\ M[k] = L[k]
    <3>1. PICK i \in 1 .. n : Meets(L[k], i)
      BY <2>1 DEF ListedUpTo
    <3>2. i \in 1 .. n + 1
      BY <1>1
    <3> QED
      BY <2>1, <3>1, <3>2
  <2>2. CASE k - Len(L) \in DOMAIN C /\ M[k] = C[k - Len(L)]
    <3>1. n + 1 \in 1 .. n + 1
      BY <1>1
    <3> QED
      BY <1>2, <2>2, <3>1
  <2> QED
    BY <1>5, <2>1, <2>2
<1>9. ASSUME NEW i \in 1 .. n + 1, regions[i].usable, NEW f \in WholeFrames(i)
      PROVE  \E k \in DOMAIN M : M[k] = f
  <2>1. CASE i = n + 1
    <3>1. PICK k \in DOMAIN C : C[k] = f
      BY <1>2, <1>9, <2>1
    <3>2. Len(L) + k \in DOMAIN M /\ M[Len(L) + k] = f
      BY <1>4, <3>1, SMTT(60)
    <3> QED
      BY <3>2
  <2>2. CASE i # n + 1
    <3>1. i \in 1 .. n
      BY <1>1, <2>2
    <3>2. PICK k \in DOMAIN L : L[k] = f
      BY <1>9, <3>1 DEF ListedUpTo
    <3>3. k \in DOMAIN M /\ M[k] = f
      BY <1>4, <3>2
    <3> QED
      BY <3>3
  <2> QED
    BY <2>1, <2>2
<1> QED
  BY <1>4, <1>7, <1>8, <1>9 DEF ListedUpTo, M, C

(* A frame with an address of a usable region is acceptable: it lies wholly  *)
(* in the region if that consists of whole pages.                            *)
LEMMA MeetsIsAcceptable ==
    ASSUME regions \in MemoryMaps, NEW i \in 1 .. Len(regions), NEW f, Meets(f, i)
    PROVE  Acceptable(f)
<1> DEFINE P == PageSize
           r == regions[i]
           s == r.start
           e == r.end
<1>1. r \in Range(regions) /\ s \in Nat /\ e \in Nat /\ r.usable
  <2>1. regions \in Seq(MemoryRegion) /\ i \in DOMAIN regions
    BY MemoryMapAssumption
  <2>2. r \in MemoryRegion /\ r \in Range(regions)
    BY <2>1 DEF Range
  <2> QED
    BY <2>2 DEF MemoryRegion, Meets
<1>2. P \in Nat /\ P > 0
  BY SizeAssumption
<1>3. PICK x \in s .. e - 1 : PageOf(x) = f
  BY DEF Meets
<1>4. f \in Nat /\ P * f <= x /\ x < P * f + P
  <2>1. x \in Nat /\ x \in Int
    BY <1>1
  <2>2. f \in Nat
    BY <1>2, <1>3, <2>1 DEF PageOf
  <2> QED
    BY <1>3, <2>1, <2>2, PageNumber, Zenon
<1>5. f * P = P * f /\ (f + 1) * P = P * f + P /\ P * f \in Nat
  BY <1>2, <1>4
<1>6. x \in f * P .. (f + 1) * P - 1 /\ s <= x /\ x < e
  <2> DEFINE u == P * f
  <2>1. u \in Nat /\ u <= x /\ x < u + P /\ f * P = u /\ (f + 1) * P = u + P
    BY <1>4, <1>5
  <2> HIDE DEF u
  <2>2. x \in u .. (u + P) - 1 /\ s <= x /\ x < e
    BY <1>1, <1>2, <1>3, <2>1
  <2> QED
    BY <2>1, <2>2
<1>7. PartlyUsable(f)
  BY <1>1, <1>6 DEF PartlyUsable
<1>8. ASSUME WholePages PROVE s <= f * P /\ (f + 1) * P <= e
  <2> DEFINE a == PageOf(s)
             b == PageOf(e)
  <2>1. s % P = 0 /\ e % P = 0
    BY <1>1, <1>8 DEF WholePages
  <2>2. a \in Nat /\ b \in Nat
    <3>1. \A y \in Nat : PageOf(y) \in Nat
      BY <1>2 DEF PageOf
    <3> QED
      BY <1>1, <3>1, Zenon
  <2>3. s = P * a + (s % P) /\ e = P * b + (e % P)
    <3>1. s \in Int /\ e \in Int
      BY <1>1
    <3> QED
      BY <3>1, PageNumber, Zenon
  <2>4. a <= f
    <3>1. s \in Int /\ x \in Int /\ s <= x
      BY <1>1
    <3> QED
      BY <1>3, <3>1, PageOrder
  <2> HIDE DEF a, b
  <2>5. s = a * P /\ e = b * P
    BY <1>2, <2>1, <2>2, <2>3
  <2>6. f + 1 <= b
    <3> SUFFICES ASSUME b <= f PROVE FALSE
      BY <1>4, <2>2
    <3>1. b * P <= f * P
      BY <1>2, <1>4, <2>2, ProductOrder
    <3>2. x < e /\ f * P <= x /\ e = b * P
      BY <1>4, <1>5, <1>6, <2>5
    <3> DEFINE u == b * P
               v == f * P
    <3>3. u \in Int /\ v \in Int /\ u <= v /\ x < u /\ v <= x /\ x \in Int
      BY <1>1, <1>5, <2>5, <3>1, <3>2
    <3> HIDE DEF u, v
    <3> QED
      BY <3>3
  <2>7. a * P <= f * P /\ (f + 1) * P <= b * P
    BY <1>2, <1>4, <2>2, <2>4, <2>6, ProductOrder
  <2> QED
    BY <2>5, <2>7, Zenon
<1> QED
  BY <1>1, <1>7, <1>8 DEF Acceptable, InUsableRegion

(* usable_frames yields every whole frame of the usable regions, none twice  *)
(* and none without a usable address.                                        *)
LEMMA EveryMapIsListed ==
    ASSUME regions \in MemoryMaps
    PROVE  FramesListed
<1> DEFINE n == Len(regions)
           S == {k \in 0 .. n : ListedUpTo(FramesUpTo[k], k)}
<1>1. n \in Nat /\ Concatenates(FramesUpTo, Chunks, n) /\ DOMAIN regions = 1 .. n
  BY FramesUpToFacts, MemoryMapAssumption
<1>2. 0 \in S
  <2>1. FramesUpTo[0] = <<>>
    BY <1>1 DEF Concatenates
  <2>2. ListedUpTo(<<>>, 0)
    BY DEF ListedUpTo
  <2> QED
    BY <1>1, <2>1, <2>2
<1>3. ASSUME NEW k \in 0 .. n, k \in S, k < n PROVE k + 1 \in S
  <2>1. k + 1 \in 1 .. n /\ (k + 1) - 1 = k /\ k + 1 \in 0 .. n
    BY <1>1, <1>3
  <2>2. FramesUpTo[k + 1] = FramesUpTo[k] \o Chunks[k + 1]
    BY <1>1, <2>1, Zenon DEF Concatenates
  <2>3. ListedUpTo(FramesUpTo[k], k)
    BY <1>3
  <2>4. ListedUpTo(FramesUpTo[k] \o Chunks[k + 1], k + 1)
    BY <1>3, <2>3, OneMoreRegion
  <2> QED
    BY <2>1, <2>2, <2>4
<1>4. \A k \in 0 .. n : k \in S
  <2> HIDE DEF S, n
  <2> QED
    BY <1>1, <1>2, <1>3, Induction
<1>5. n \in 0 .. n
  BY <1>1
<1>6. ListedUpTo(UsableFrames, n)
  BY <1>4, <1>5 DEF UsableFrames
<1> DEFINE L == UsableFrames
<1>7. ListedUpTo(L, n)
  BY <1>6
<1> HIDE DEF L
<1>8. \A k \in DOMAIN L : Acceptable(L[k])
  <2> TAKE k \in DOMAIN L
  <2>1. PICK i \in 1 .. n : Meets(L[k], i)
    BY <1>7 DEF ListedUpTo
  <2>2. i \in 1 .. Len(regions)
    BY <1>1
  <2> QED
    BY <2>1, <2>2, MeetsIsAcceptable
<1>9. ASSUME NEW r \in Range(regions), r.usable
      PROVE  PageOf(r.start + PageSize - 1) .. PageOf(r.end) - 1 \subseteq Range(L)
  <2>1. PICK i \in 1 .. n : r = regions[i]
    BY <1>1 DEF Range
  <2> QED
    BY <1>7, <1>9, <2>1 DEF ListedUpTo, WholeFrames, Range
<1> QED
  BY <1>7, <1>8, <1>9 DEF ListedUpTo, FramesListed, L

--------------------------------------------------------------------------------
(* The loops of kernel_main run over ranges of pages.                        *)
LEMMA HeapRange ==
    /\ HeapStart \in Nat /\ HeapLast \in Int /\ HeapStart <= HeapLast + 1
    /\ HeapPages = PageRange(HeapStart, HeapLast)
<1> DEFINE start == HeapStart * PageSize
<1>1. PageSize \in Nat /\ PageSize > 0 /\ HeapStart \in Nat /\ HeapSize \in Nat
  BY SizeAssumption
<1>2. start \in Nat /\ start - 1 = (HeapStart - 1) * PageSize + (PageSize - 1)
  BY <1>1
<1>3. PageOf(start - 1) = HeapStart - 1
  <2>1. HeapStart - 1 \in Int /\ PageSize - 1 \in 0 .. PageSize - 1
    BY <1>1
  <2> QED
    BY <1>2, <2>1, PageNumberUnique
<1> HIDE DEF start
<1>4. start - 1 \in Int /\ start + HeapSize - 1 \in Int /\ start - 1 <= start + HeapSize - 1
  BY <1>1, <1>2
<1>5. PageOf(start - 1) <= PageOf(start + HeapSize - 1) /\ PageOf(start + HeapSize - 1) \in Int
  BY <1>4, PageOrder, PageNumber
<1>6. HeapLast = PageOf(start + HeapSize - 1)
  BY DEF HeapLast, start
<1> QED
  BY <1>1, <1>3, <1>5, <1>6 DEF HeapPages, HeapLast

(* load_segment's range: the pages of a segment that is not empty.           *)
LEMMA SegmentRange ==
    ASSUME image \in Images, NEW i \in 1 .. Len(image)
    PROVE  LET s     == image[i]
               first == PageOf(s.vaddr)
               last  == PageOf(s.vaddr + s.memsz - 1)
           IN  /\ image \in Seq(LoadSegment) /\ s \in LoadSegment
               /\ first \in Nat /\ last \in Int /\ first <= last
               /\ SegmentPages(s) = PageRange(first, last)
<1> DEFINE s == image[i]
<1>1. image \in Seq(LoadSegment) /\ s \in LoadSegment
  BY ImageAssumption
<1>2. /\ s.vaddr \in Nat /\ s.vaddr \in Int /\ s.vaddr + s.memsz - 1 \in Int
      /\ s.vaddr <= s.vaddr + s.memsz - 1
  <2> HIDE DEF s
  <2>1. s \in LoadSegment
    BY <1>1
  <2>2. s.vaddr \in Nat /\ s.memsz \in Nat \ {0}
    BY <2>1 DEF LoadSegment
  <2> QED
    BY <2>2
<1> HIDE DEF s
<1>3. PageOf(s.vaddr) \in Nat
  <2>1. PageSize \in Nat /\ PageSize > 0
    BY SizeAssumption
  <2> QED
    BY <1>2, <2>1 DEF PageOf
<1>4. PageOf(s.vaddr + s.memsz - 1) \in Int
  BY <1>2, PageNumber
<1>5. PageOf(s.vaddr) <= PageOf(s.vaddr + s.memsz - 1)
  BY <1>2, PageOrder
<1> QED
  BY <1>1, <1>3, <1>4, <1>5 DEF SegmentPages, s

(* setup_user_stack's range.                                                 *)
LEMMA StackPagesRange ==
    ASSUME NEW p \in 1 .. NumProcs
    PROVE  LET last == StackStart[p] + StackPages - 1
           IN  /\ StackStart[p] \in Nat /\ last \in Int /\ StackStart[p] <= last + 1
               /\ StackRange(p) = PageRange(StackStart[p], last)
               /\ (StackStart[p] + StackPages) * PageSize \in Nat
<1>1. StackStart \in Seq(Nat) /\ StackPages \in Nat /\ PageSize \in Nat
  BY SizeAssumption
<1>2. StackStart[p] \in Nat
  BY <1>1 DEF NumProcs
<1>3. StackStart[p] + StackPages - 1 \in Int /\ StackStart[p] <= StackStart[p] + StackPages - 1 + 1
  BY <1>1, <1>2
<1>4. StackStart[p] + StackPages \in Nat
  BY <1>1, <1>2
<1>5. (StackStart[p] + StackPages) * PageSize \in Nat
  <2> DEFINE top == StackStart[p] + StackPages
  <2>1. top \in Nat
    BY <1>4
  <2> HIDE DEF top
  <2>2. top * PageSize \in Nat
    BY <1>1, <2>1
  <2> QED
    BY <2>2 DEF top
<1> QED
  BY <1>2, <1>3, <1>5 DEF StackRange

(* Mapping a page takes new frames from the list: one for the page and one   *)
(* for each missing table, every one of them once.                           *)
LEMMA MapPageStep ==
    ASSUME PagingInv, UNCHANGED regions,
           NEW page \in Nat, NEW write \in BOOLEAN, NEW user \in BOOLEAN,
           MapPage(page, write, user)
    PROVE  PagingInv'
<1> DEFINE frames == UsableFrames
           missing == Path(page) \ (DOMAIN tables \cup BootTables)
           m == Cardinality(missing)
           entry == [frame |-> frames[next + 1], write |-> write, user |-> user]
           room == next + 1 + m <= Len(frames) /\ page \notin DOMAIN pt
<1>1. frames' = frames /\ FramesListed /\ FramesListed'
  BY FramesStay DEF PagingInv
<1>2. CASE ~room
  <2>1. UNCHANGED <<next, pt, tables>>
    BY <1>2 DEF MapPage, pagingVars
  <2> QED
    BY <1>1, <2>1 DEF PagingInv, Present, IsTree, FramesTaken, Taken, FramesExclusive
<1>3. CASE room
  <2>1. /\ next' = next + (1 + m)
        /\ pt' = Extend(pt, page, entry)
        /\ tables' = [t \in DOMAIN tables \cup missing |->
                         IF t \in DOMAIN tables THEN tables[t]
                         ELSE frames[next + 2 + m - t[1]]]
    BY <1>3 DEF MapPage, Advance
  <2>2. /\ m \in 0 .. 3
        /\ \A t \in missing : t[1] \in 1 .. m
        /\ \A s, t \in missing : s[1] = t[1] => s = t
        /\ IsTree((DOMAIN tables \cup BootTables) \cup missing)
    BY MissingTables DEF PagingInv, Present
  <2>3. /\ Len(frames) \in Nat
        /\ \A j, k \in 1 .. Len(frames) : frames[j] = frames[k] => j = k
        /\ \A k \in 1 .. Len(frames) : frames[k] \in Nat
    BY <1>1, ListFacts
  <2>4. /\ next \in 0 .. Len(frames)
        /\ next + 1 + m <= Len(frames)
        /\ page \notin DOMAIN pt
    BY <1>3 DEF PagingInv
  <2> HIDE DEF frames, missing, m, room, entry
  <2>5. /\ next' \in 0 .. Len(frames) /\ next <= next' /\ next + 1 \in 1 .. next'
        /\ \A t \in missing : next + 2 + m - t[1] \in next + 2 .. next'
    <3>1. next' \in Nat /\ next' = next + 1 + m
      BY <2>1, <2>2, <2>3, <2>4
    <3>2. \A l \in 1 .. m : next + 2 + m - l \in next + 2 .. next'
      BY <2>2, <2>3, <2>4, <3>1
    <3> QED
      BY <2>2, <2>3, <2>4, <3>1, <3>2
  <2>6. Taken = {frames[k] : k \in 1 .. next} /\ Taken' = {frames[k] : k \in 1 .. next'}
    BY <1>1 DEF Taken, frames
  <2>7. /\ \A f \in Taken : f \in Taken' /\ f # frames[next + 1]
        /\ \A f \in Taken, t \in missing : f # frames[next + 2 + m - t[1]]
        /\ frames[next + 1] \in Taken'
        /\ \A t \in missing : /\ frames[next + 2 + m - t[1]] \in Taken'
                              /\ frames[next + 2 + m - t[1]] # frames[next + 1]
        /\ \A s, t \in missing :
              frames[next + 2 + m - s[1]] = frames[next + 2 + m - t[1]] => s = t
    <3>1. 1 .. next \subseteq 1 .. Len(frames) /\ 1 .. next' \subseteq 1 .. Len(frames)
          /\ 1 .. next \subseteq 1 .. next' /\ next + 1 \notin 1 .. next
      BY <2>3, <2>4, <2>5
    <3> DEFINE idx(t) == next + 2 + m - t[1]
    <3>2. /\ \A t \in missing : /\ idx(t) \in 1 .. next' /\ idx(t) # next + 1
                                /\ idx(t) \notin 1 .. next
          /\ \A s, t \in missing : idx(s) = idx(t) => s = t
      <4>1. m \in Int /\ next \in Int
        BY <2>2, <2>4
      <4>2. ASSUME NEW t \in missing
            PROVE  idx(t) \in 1 .. next' /\ idx(t) # next + 1 /\ idx(t) \notin 1 .. next
        <5>1. idx(t) \in next + 2 .. next' /\ next \in Nat
          BY <2>4, <2>5
        <5> HIDE DEF idx
        <5> QED
          BY <5>1
      <4>3. ASSUME NEW s \in missing, NEW t \in missing, idx(s) = idx(t)
            PROVE  s = t
        <5>1. s[1] \in Int /\ t[1] \in Int
          BY <2>2
        <5>2. s[1] = t[1]
          BY <4>1, <4>3, <5>1
        <5> QED
          BY <2>2, <5>2
      <4> QED
        BY <4>2, <4>3
    <3> HIDE DEF idx
    <3>3. /\ \A f \in Taken : f \in Taken' /\ f # frames[next + 1]
          /\ frames[next + 1] \in Taken'
      BY <2>3, <2>5, <2>6, <3>1
    <3>4. \A f \in Taken, t \in missing : f # frames[idx(t)]
      BY <2>3, <2>6, <3>1, <3>2
    <3>5. \A t \in missing : frames[idx(t)] \in Taken' /\ frames[idx(t)] # frames[next + 1]
      BY <2>3, <2>5, <2>6, <3>1, <3>2
    <3>6. \A s, t \in missing : frames[idx(s)] = frames[idx(t)] => s = t
      BY <2>3, <3>1, <3>2
    <3> QED
      BY <3>3, <3>4, <3>5, <3>6 DEF idx
  <2>8. Taken \subseteq Nat /\ Taken' \subseteq Nat
    BY <2>3, <2>4, <2>5, <2>6
  <2>9. /\ DOMAIN pt' = DOMAIN pt \cup {page}
        /\ pt'[page] = entry
        /\ \A p \in DOMAIN pt : pt'[p] = pt[p]
    BY <2>1, <2>4 DEF Extend
  <2>10. /\ DOMAIN tables' = DOMAIN tables \cup missing
         /\ \A t \in DOMAIN tables : tables'[t] = tables[t]
         /\ \A t \in missing : tables'[t] = frames[next + 2 + m - t[1]]
    BY <2>1 DEF missing
  <2>11. pt' \in [DOMAIN pt' -> PageEntry] /\ entry.frame = frames[next + 1]
    BY <2>1, <2>3, <2>4, <2>5 DEF Extend, PageEntry, PagingInv, entry
  <2>12. tables' \in [DOMAIN tables' -> Nat]
    BY <2>1, <2>7, <2>8, <2>10 DEF PagingInv
  <2>13. IsTree(Present)'
    <3>1. Present' = (DOMAIN tables \cup BootTables) \cup missing
      BY <2>10 DEF Present
    <3> QED
      BY <2>2, <3>1 DEF IsTree, missing
  <2>14. FramesTaken'
    <3>1. ASSUME NEW p \in DOMAIN pt' PROVE pt'[p].frame \in Taken'
      BY <2>7, <2>9, <2>11 DEF PagingInv, FramesTaken
    <3>2. ASSUME NEW t \in DOMAIN tables' PROVE tables'[t] \in Taken'
      BY <2>7, <2>10 DEF PagingInv, FramesTaken
    <3> QED
      BY <3>1, <3>2 DEF FramesTaken
  <2>15. FramesExclusive'
    <3>0. FramesExclusive /\ FramesTaken
      BY DEF PagingInv
    <3>1. ASSUME NEW p \in DOMAIN pt', NEW q \in DOMAIN pt', pt'[p].frame = pt'[q].frame
          PROVE  p = q
      BY <2>7, <2>9, <2>11, <3>0, <3>1 DEF FramesExclusive, FramesTaken
    <3>2. ASSUME NEW s \in DOMAIN tables', NEW t \in DOMAIN tables', tables'[s] = tables'[t]
          PROVE  s = t
      BY <2>7, <2>10, <3>0, <3>2 DEF FramesExclusive, FramesTaken
    <3>3. ASSUME NEW p \in DOMAIN pt', NEW t \in DOMAIN tables'
          PROVE  pt'[p].frame # tables'[t]
      BY <2>7, <2>9, <2>10, <2>11, <3>0 DEF FramesExclusive, FramesTaken
    <3> QED
      BY <3>1, <3>2, <3>3 DEF FramesExclusive
  <2>16. next' \in 0 .. Len(UsableFrames')
    BY <1>1, <2>5 DEF frames
  <2> QED
    BY <1>1, <2>11, <2>12, <2>13, <2>14, <2>15, <2>16 DEF PagingInv
<1> QED
  BY <1>2, <1>3

(* What the loops run over are sequences of page numbers.                    *)
LEMMA LoopTypes ==
    /\ HeapPages \in Seq(Nat)
    /\ \A p \in 1 .. NumProcs : StackRange(p) \in Seq(Nat)
    /\ image \in Images => \A i \in 1 .. Len(image) : SegmentPages(image[i]) \in Seq(Nat)
    /\ image \in Images => image \in Seq(LoadSegment)
    /\ NumProcs \in Nat \ {0}
<1>1. HeapPages \in Seq(Nat)
  BY HeapRange, PageRangeFacts
<1>2. ASSUME NEW p \in 1 .. NumProcs
      PROVE  StackRange(p) \in Seq(Nat)
  <2> DEFINE last == StackStart[p] + StackPages - 1
  <2>1. /\ StackStart[p] \in Nat /\ last \in Int /\ StackStart[p] <= last + 1
        /\ StackRange(p) = PageRange(StackStart[p], last)
    BY StackPagesRange
  <2> HIDE DEF last
  <2> QED
    BY <2>1, PageRangeFacts
<1>3. ASSUME image \in Images, NEW i \in 1 .. Len(image)
      PROVE  SegmentPages(image[i]) \in Seq(Nat)
  <2> DEFINE first == PageOf(image[i].vaddr)
             last == PageOf(image[i].vaddr + image[i].memsz - 1)
  <2>1. /\ first \in Nat /\ last \in Int /\ first <= last
        /\ SegmentPages(image[i]) = PageRange(first, last)
    BY <1>3, SegmentRange
  <2> HIDE DEF first, last
  <2>2. first <= last + 1
    BY <2>1
  <2> QED
    BY <2>1, <2>2, PageRangeFacts
<1>4. NumProcs \in Nat \ {0}
  BY SizeAssumption DEF NumProcs
<1> QED
  BY <1>1, <1>2, <1>3, <1>4, ImageAssumption

(* The next thing load_elf does, or kernel_main after it.                    *)
LEMMA EnterSegmentStep ==
    ASSUME image \in Images, NEW i \in Nat \ {0}, EnterSegment(i)
    PROVE  /\ todo' \in Seq(Nat)
           /\ \/ /\ i \in 1 .. Len(image) /\ phase' = "segment" /\ item' = i
                 /\ todo' = SegmentPages(image[i])
              \/ /\ i > Len(image) /\ phase' = "stack" /\ item' = 1
                 /\ todo' = StackRange(1)
<1>1. image \in Seq(LoadSegment) /\ Len(image) \in Nat
  BY LoopTypes
<1>2. CASE i <= Len(image)
  <2>1. i \in 1 .. Len(image)
    BY <1>1, <1>2
  <2>2. phase' = "segment" /\ item' = i /\ todo' = SegmentPages(image[i])
    BY <1>2 DEF EnterSegment, Enter
  <2> QED
    BY <2>1, <2>2, LoopTypes
<1>3. CASE ~(i <= Len(image))
  <2>1. i > Len(image) /\ 1 \in 1 .. NumProcs
    BY <1>1, <1>3, LoopTypes
  <2>2. phase' = "stack" /\ item' = 1 /\ todo' = StackRange(1)
    BY <1>3 DEF EnterSegment, Enter
  <2> QED
    BY <2>1, <2>2, LoopTypes
<1> QED
  BY <1>2, <1>3

(* kernel_main starts with nothing allocated.                                *)
LEMMA FrameInit == MemInit => FrameInv
<1> SUFFICES ASSUME MemInit
             PROVE  FrameInv
  OBVIOUS
<1> USE DEF MemInit
<1>0. FramesListed
  BY EveryMapIsListed
<1>1. DOMAIN pt = {} /\ DOMAIN tables = {}
  OBVIOUS
<1>2. pt \in [DOMAIN pt -> PageEntry] /\ tables \in [DOMAIN tables -> Nat]
  OBVIOUS
<1>3. IsTree(Present)
  BY <1>1, BootTablesAssumption DEF Present, IsTree
<1>4. next \in 0 .. Len(UsableFrames)
  BY <1>0, ListFacts
<1>5. PagingInv
  BY <1>0, <1>1, <1>2, <1>3, <1>4 DEF PagingInv, FramesTaken, FramesExclusive
<1>6. MemTypeOK
  BY <1>1, <1>4, LoopTypes, SizeAssumption DEF MemTypeOK
<1>7. ItemInRange
  BY DEF ItemInRange
<1> QED
  BY <1>5, <1>6, <1>7 DEF FrameInv

(* A step that leaves the page tables alone.                                 *)
LEMMA PagingStays ==
    ASSUME PagingInv, UNCHANGED <<inputVars, pagingVars>>
    PROVE  PagingInv'
<1>1. UsableFrames' = UsableFrames /\ FramesListed'
  BY FramesStay DEF PagingInv, inputVars
<1> QED
  BY <1>1 DEF inputVars, pagingVars, PagingInv, Present, IsTree, FramesTaken, Taken,
              FramesExclusive

(* What MemTypeOK says beyond PagingInv.                                     *)
Bookkeeping ==
    /\ phase \in {"heap", "segment", "protect", "stack", "spawn", "running", "panic"}
    /\ todo \in Seq(Nat)
    /\ heap_used \in 0 .. HeapSize
    /\ user_rsp \in Seq(Nat)

(* With the page tables right, Bookkeeping is the rest of MemTypeOK.         *)
LEMMA MemTypeSplit == PagingInv => (MemTypeOK <=> Bookkeeping)
BY DEF PagingInv, MemTypeOK, Bookkeeping, PageEntry

(* A mapping loop of kernel_main.                                            *)
LEMMA MapNextStep ==
    ASSUME FrameInv, NEW ph, NEW write \in BOOLEAN, NEW user \in BOOLEAN,
           MapNext(ph, write, user)
    PROVE  FrameInv'
<1> USE DEF FrameInv
<1>1. todo \in Seq(Nat) /\ todo # <<>>
  BY DEF MapNext, MemTypeOK
<1>2. Head(todo) \in Nat /\ Tail(todo) \in Seq(Nat)
  BY <1>1
<1>3. PagingInv'
  BY <1>2, MapPageStep DEF MapNext, inputVars
<1>4. \/ phase' = phase /\ item' = item /\ todo' = Tail(todo)
      \/ phase' = "panic" /\ todo' = <<>>
  BY DEF MapNext, MapPage, Panic, Enter
<1>5. Bookkeeping'
  <2>1. Bookkeeping /\ UNCHANGED <<heap_used, user_rsp>>
    BY MemTypeSplit DEF MapNext
  <2>2. <<>> \in Seq(Nat)
    OBVIOUS
  <2>3. todo' \in Seq(Nat)
    BY <1>2, <1>4, <2>2, Zenon
  <2> QED
    BY <1>4, <2>1, <2>3 DEF Bookkeeping
<1>6. ItemInRange'
  BY <1>4 DEF ItemInRange, MapNext, inputVars
<1> QED
  BY <1>3, <1>5, <1>6, MemTypeSplit, PTL

(* The loader goes on to segment i, or to the stacks.                        *)
LEMMA NextSegmentStep ==
    ASSUME FrameInv, NEW i \in Nat \ {0}, EnterSegment(i),
           UNCHANGED <<inputVars, pagingVars, heap_used, user_rsp>>
    PROVE  FrameInv'
<1> USE DEF FrameInv
<1>1. PagingInv'
  BY PagingStays
<1>2. image \in Images
  BY DEF ItemInRange
<1>3. Bookkeeping'
  BY <1>2, EnterSegmentStep DEF MemTypeOK, Bookkeeping
<1>4. ItemInRange'
  BY <1>2, EnterSegmentStep, LoopTypes DEF ItemInRange, inputVars
<1> QED
  BY <1>1, <1>3, <1>4, MemTypeSplit, PTL

(* Every step of kernel_main preserves FrameInv.                             *)
LEMMA FrameInvStep == FrameInv /\ [MemNext]_memVars => FrameInv'
<1> SUFFICES ASSUME FrameInv, [MemNext]_memVars
             PROVE  FrameInv'
  OBVIOUS
<1>0. /\ PagingInv /\ MemTypeOK /\ ItemInRange /\ Bookkeeping
      /\ image \in Images /\ Len(image) \in Nat /\ NumProcs \in Nat \ {0}
  BY MemTypeSplit, LoopTypes DEF FrameInv, ItemInRange
<1>h. \A size \in Nat : ~HeapFull(size) /\ Allocate(size) => heap_used' \in 0 .. HeapSize
  BY <1>0, SizeAssumption DEF Bookkeeping, HeapFull, Allocate
<1>k. /\ UserKStack + SmallObjects \in Nat /\ TaskKStack + SmallObjects \in Nat
      /\ KStackSize = UserKStack /\ <<>> \in Seq(Nat)
  BY SizeAssumption DEF KStackSize
<1>1. CASE MapHeapPage
  BY <1>1, MapNextStep DEF MapHeapPage
<1>2. CASE HeapReady
  BY <1>2, NextSegmentStep DEF HeapReady
<1>3. CASE MapSegmentPage
  BY <1>3, MapNextStep DEF MapSegmentPage
<1>4. CASE CopySegment
  <2>1. UNCHANGED <<inputVars, pagingVars, heap_used, user_rsp>>
    BY <1>4 DEF CopySegment
  <2>2. item \in 1 .. Len(image) /\ item + 1 \in Nat \ {0}
    BY <1>0, <1>4 DEF CopySegment, LoopDone, ItemInRange
  <2>3. CASE EnterSegment(item + 1)
    BY <2>1, <2>2, <2>3, NextSegmentStep
  <2>4. CASE Enter("protect", item, SegmentPages(image[item]))
    <3>1. PagingInv'
      BY <1>0, <2>1, PagingStays
    <3>2. todo' \in Seq(Nat) /\ phase' = "protect" /\ item' = item
      BY <1>0, <2>2, <2>4, LoopTypes DEF Enter
    <3>3. Bookkeeping'
      BY <1>0, <2>1, <3>2 DEF Bookkeeping
    <3>4. ItemInRange'
      BY <1>0, <2>1, <2>2, <3>2 DEF ItemInRange, inputVars
    <3> QED
      BY <3>1, <3>3, <3>4, MemTypeSplit, PTL DEF FrameInv
  <2> QED
    BY <1>4, <2>3, <2>4 DEF CopySegment
<1>5. CASE ProtectPage
  <2>1. /\ pt' = [pt EXCEPT ![Head(todo)].write = FALSE]
        /\ UNCHANGED <<regions, image, next, tables, phase, item, heap_used, user_rsp>>
        /\ todo' = Tail(todo) /\ todo # <<>>
    BY <1>5 DEF ProtectPage, UpdateFlags, inputVars
  <2>2. /\ DOMAIN pt' = DOMAIN pt
        /\ \A p \in DOMAIN pt : pt'[p].frame = pt[p].frame
        /\ pt' \in [DOMAIN pt' -> PageEntry]
    BY <1>0, <2>1 DEF PagingInv, PageEntry
  <2>3. UsableFrames' = UsableFrames /\ FramesListed'
    BY <1>0, <2>1, FramesStay DEF PagingInv
  <2>4. PagingInv'
    <3>1. FramesTaken' /\ FramesExclusive'
      BY <1>0, <2>1, <2>2, <2>3 DEF PagingInv, FramesTaken, Taken, FramesExclusive
    <3> QED
      BY <1>0, <2>1, <2>2, <2>3, <3>1 DEF PagingInv, Present, IsTree
  <2>5. Bookkeeping'
    BY <1>0, <2>1 DEF Bookkeeping
  <2>6. ItemInRange'
    BY <1>0, <2>1 DEF ItemInRange
  <2> QED
    BY <2>4, <2>5, <2>6, MemTypeSplit, PTL DEF FrameInv
<1>6. CASE SegmentDone
  <2>1. item + 1 \in Nat \ {0}
    BY <1>0, <1>6 DEF SegmentDone, LoopDone, ItemInRange
  <2> QED
    BY <1>6, <2>1, NextSegmentStep DEF SegmentDone
<1>7. CASE MapStackPage
  BY <1>7, MapNextStep DEF MapStackPage
<1>8. CASE CreateUserProcess
  <2>1. PagingInv'
    BY <1>0, <1>8, PagingStays DEF CreateUserProcess
  <2>2. image' = image /\ item \in 1 .. NumProcs
    BY <1>0, <1>8 DEF CreateUserProcess, LoopDone, ItemInRange, inputVars
  <2>3. \/ phase' = "panic" /\ todo' = <<>> /\ UNCHANGED <<heap_used, user_rsp>>
        \/ /\ phase' = "stack" /\ item' = item + 1 /\ item < NumProcs
           /\ todo' = StackRange(item + 1)
           /\ heap_used' \in 0 .. HeapSize
           /\ user_rsp' = Append(user_rsp, (StackStart[item] + StackPages) * PageSize)
        \/ /\ phase' = "spawn" /\ todo' = <<>>
           /\ heap_used' \in 0 .. HeapSize
           /\ user_rsp' = Append(user_rsp, (StackStart[item] + StackPages) * PageSize)
    BY <1>8, <1>h, <1>k DEF CreateUserProcess, Panic, Enter
  <2>4. (StackStart[item] + StackPages) * PageSize \in Nat
    BY <2>2, StackPagesRange
  <2>5. user_rsp' \in Seq(Nat)
    <3>1. user_rsp \in Seq(Nat)
      BY <1>0 DEF Bookkeeping
    <3>2. Append(user_rsp, (StackStart[item] + StackPages) * PageSize) \in Seq(Nat)
      BY <2>4, <3>1
    <3> QED
      BY <2>3, <3>1, <3>2
  <2>6. todo' \in Seq(Nat)
    <3>1. item < NumProcs => item + 1 \in 1 .. NumProcs
      BY <1>0, <2>2
    <3> QED
      BY <1>k, <2>3, <3>1, LoopTypes
  <2>7. Bookkeeping'
    BY <1>0, <2>3, <2>5, <2>6 DEF Bookkeeping
  <2>8. ItemInRange'
    BY <1>0, <2>2, <2>3 DEF ItemInRange
  <2> QED
    BY <2>1, <2>7, <2>8, MemTypeSplit, PTL DEF FrameInv
<1>9. CASE SpawnKernelTask
  <2>1. PagingInv'
    BY <1>0, <1>9, PagingStays DEF SpawnKernelTask
  <2>2. /\ phase' \in {"panic", "running"} /\ todo' = <<>>
        /\ heap_used' \in 0 .. HeapSize
        /\ UNCHANGED <<image, user_rsp>>
    BY <1>0, <1>9, <1>h, <1>k DEF SpawnKernelTask, Panic, Enter, Bookkeeping, inputVars
  <2>3. Bookkeeping'
    BY <1>0, <1>k, <2>2 DEF Bookkeeping
  <2>4. ItemInRange'
    BY <1>0, <2>2 DEF ItemInRange
  <2> QED
    BY <2>1, <2>3, <2>4, MemTypeSplit, PTL DEF FrameInv
<1>10. CASE UNCHANGED memVars
  <2>1. PagingInv'
    BY <1>0, <1>10, PagingStays DEF memVars
  <2>2. Bookkeeping' /\ ItemInRange'
    BY <1>0, <1>10 DEF memVars, inputVars, Bookkeeping, ItemInRange
  <2> QED
    BY <2>1, <2>2, MemTypeSplit, PTL DEF FrameInv
<1> QED
  BY <1>1, <1>2, <1>3, <1>4, <1>5, <1>6, <1>7, <1>8, <1>9, <1>10 DEF MemNext

(* The frame allocator and the page tables of every boot.                    *)
THEOREM FrameInvInvariant == MemSpec => []FrameInv
BY FrameInit, FrameInvStep, PTL DEF MemSpec

(* Types of the allocator, the address space and the boot sequence.          *)
THEOREM MemTypeCorrect == MemSpec => []MemTypeOK
<1>1. FrameInv => MemTypeOK
  BY DEF FrameInv
<1> QED
  BY <1>1, FrameInvInvariant, PTL

(* usable_frames lists every whole frame of the usable regions, no frame     *)
(* twice and none without a usable address, wherever in a page the regions   *)
(* begin and end, as long as no page has addresses of two of them.           *)
THEOREM EveryUsableFrameIsListed == MemSpec => []FramesListed
<1>1. FrameInv => FramesListed
  BY DEF FrameInv, PagingInv
<1> QED
  BY <1>1, FrameInvInvariant, PTL

(* No frame is used twice, whatever map_to takes from the allocator between  *)
(* the pages of a loop.                                                      *)
THEOREM EveryFrameHasOneUse == MemSpec => []FramesExclusive
<1>1. FrameInv => FramesExclusive
  BY DEF FrameInv, PagingInv
<1> QED
  BY <1>1, FrameInvInvariant, PTL

(* No frame without a usable address is used, and none that is reserved in   *)
(* part if the usable regions consist of whole pages.                        *)
THEOREM FramesAreUsable == MemSpec => []FramesUsable
<1>1. FrameInv => FramesUsable
  <2> SUFFICES ASSUME FrameInv
               PROVE  FramesUsable
    OBVIOUS
  <2>1. \A f \in Taken : Acceptable(f)
    <3>1. FramesListed /\ next \in 0 .. Len(UsableFrames)
      BY DEF FrameInv, PagingInv
    <3> QED
      BY <3>1, ListFacts DEF Taken
  <2> QED
    BY <2>1 DEF FrameInv, PagingInv, FramesTaken, FramesUsable, Range
<1> QED
  BY <1>1, FrameInvInvariant, PTL

--------------------------------------------------------------------------------
(* A loop has its pages ahead of it; a turn takes the first one off.         *)
LEMMA LoopFacts ==
    ASSUME NEW first \in Nat, NEW last \in Int, first <= last + 1,
           NEW pages, InLoop(pages, first, last)
    PROVE  /\ Range(pages) \subseteq first .. last
           /\ pages = <<>> => Range(pages) = {}
           /\ pages # <<>> => /\ Head(pages) \in Range(pages)
                             /\ Range(Tail(pages)) = Range(pages) \ {Head(pages)}
                             /\ InLoop(Tail(pages), first, last)
<1>1. PICK f \in first .. last + 1 : pages = PageRange(f, last)
  BY DEF InLoop
<1>2. f \in Nat /\ f <= last + 1
  BY <1>1
<1>3. /\ Range(pages) = f .. last
      /\ pages = <<>> <=> f = last + 1
      /\ pages # <<>> => Head(pages) = f /\ Tail(pages) = PageRange(f + 1, last)
  BY <1>1, <1>2, PageRangeFacts
<1>4. ASSUME pages # <<>>
      PROVE  /\ Head(pages) \in Range(pages)
             /\ Range(Tail(pages)) = Range(pages) \ {Head(pages)}
             /\ InLoop(Tail(pages), first, last)
  <2>1. f <= last /\ f + 1 \in Nat /\ f + 1 <= last + 1 /\ f + 1 \in first .. last + 1
    BY <1>2, <1>3, <1>4
  <2>2. Range(Tail(pages)) = f + 1 .. last
    <3>1. Range(PageRange(f + 1, last)) = f + 1 .. last
      BY <2>1, PageRangeFacts
    <3> QED
      BY <1>3, <1>4, <3>1
  <2>3. InLoop(Tail(pages), first, last)
    BY <1>3, <1>4, <2>1 DEF InLoop
  <2> QED
    BY <1>2, <1>3, <1>4, <2>1, <2>2, <2>3
<1> QED
  BY <1>1, <1>2, <1>3, <1>4

(* At its start a loop has all its pages ahead of it.                        *)
LEMMA LoopStarts ==
    ASSUME NEW first \in Nat, NEW last \in Int, first <= last + 1
    PROVE  /\ InLoop(PageRange(first, last), first, last)
           /\ Range(PageRange(first, last)) = first .. last
<1>1. first \in first .. last + 1
  OBVIOUS
<1> QED
  BY <1>1, PageRangeFacts DEF InLoop

(* The addresses of a segment lie on its pages.                              *)
LEMMA AddressPages ==
    ASSUME image \in Images, NEW i \in 1 .. Len(image), NEW a \in Addresses(i)
    PROVE  a \in Int /\ PageOf(a) \in PagesOfSegment(i)
<1> DEFINE v == image[i].vaddr
           w == image[i].vaddr + image[i].memsz - 1
<1>1. v \in Int /\ w \in Int /\ a \in v .. w
  <2>1. image[i] \in LoadSegment
    BY SegmentRange
  <2> QED
    BY <2>1 DEF LoadSegment, Addresses
<1> HIDE DEF v, w
<1>2. a \in Int /\ v <= a /\ a <= w
  BY <1>1
<1>3. /\ PageOf(v) \in Int /\ PageOf(a) \in Int /\ PageOf(w) \in Int
      /\ PageOf(v) <= PageOf(a) /\ PageOf(a) <= PageOf(w)
  BY <1>1, <1>2, PageNumber, PageOrder
<1> QED
  BY <1>2, <1>3 DEF PagesOfSegment, v, w

(* Two addresses share a cell only if they are the same address.             *)
LEMMA CellsApart ==
    ASSUME FramesExclusive, NEW a \in Int, NEW b \in Int,
           PageOf(a) \in DOMAIN pt, PageOf(b) \in DOMAIN pt, Cell(a) = Cell(b)
    PROVE  a = b
<1>1. pt[PageOf(a)].frame = pt[PageOf(b)].frame /\ a % PageSize = b % PageSize
  BY DEF Cell
<1>2. PageOf(a) = PageOf(b)
  BY <1>1 DEF FramesExclusive
<1>3. a = PageSize * PageOf(a) + (a % PageSize) /\ b = PageSize * PageOf(b) + (b % PageSize)
  BY PageNumber
<1> QED
  BY <1>1, <1>2, <1>3

(* What was loaded stays as long as its pages keep their frames.             *)
LEMMA ContentsStay ==
    ASSUME image \in Images, NEW i \in 1 .. Len(image), UNCHANGED <<image, ram>>,
           \A page \in PagesOfSegment(i) : pt'[page].frame = pt[page].frame,
           Contents(i)
    PROVE  Contents(i)'
<1> SUFFICES ASSUME NEW a \in Addresses(i)
             PROVE  Cell(a)' \in DOMAIN ram /\ ram[Cell(a)'] = Loaded(image[i], a)
  BY DEF Contents, Addresses, Loaded
<1>1. Cell(a)' = Cell(a)
  BY AddressPages DEF Cell
<1> QED
  BY <1>1 DEF Contents

(* What is ready stays ready when pages are added to the page table.         *)
LEMMA GrowthKeeps ==
    ASSUME image \in Images, UNCHANGED <<image, ram, user_rsp>>,
           \A page \in DOMAIN pt : page \in DOMAIN pt' /\ pt'[page] = pt[page]
    PROVE  /\ \A page : UserPage(page) => UserPage(page)'
           /\ \A page : Writable(page) => Writable(page)'
           /\ \A page : ReadOnly(page) => ReadOnly(page)'
           /\ \A i \in 1 .. Len(image) : SegmentReady(i) => SegmentReady(i)'
           /\ \A p : StackReady(p) => StackReady(p)'
<1>1. /\ \A page : UserPage(page) => UserPage(page)'
      /\ \A page : Writable(page) => Writable(page)'
      /\ \A page : ReadOnly(page) => ReadOnly(page)'
  BY DEF UserPage, Writable, ReadOnly
<1>2. ASSUME NEW i \in 1 .. Len(image), SegmentReady(i)
      PROVE  SegmentReady(i)'
  <2>1. \A page \in PagesOfSegment(i) : page \in DOMAIN pt
    BY <1>2 DEF SegmentReady, Writable, ReadOnly, UserPage
  <2>2. Contents(i)'
    BY <1>2, <2>1, ContentsStay DEF SegmentReady
  <2>3. PagesOfSegment(i)' = PagesOfSegment(i)
    BY DEF PagesOfSegment
  <2> QED
    BY <1>1, <1>2, <2>2, <2>3 DEF SegmentReady
<1>3. ASSUME NEW p, StackReady(p)
      PROVE  StackReady(p)'
  BY <1>1, <1>3 DEF StackReady, PagesOfStack
<1> QED
  BY <1>1, <1>2, <1>3

(* What one turn of a mapping loop does to the page table.                   *)
LEMMA MapPageEffect ==
    ASSUME NEW page, NEW write \in BOOLEAN, NEW user \in BOOLEAN,
           MapPage(page, write, user)
    PROVE  \/ phase' = "panic" /\ todo' = <<>> /\ pt' = pt
           \/ /\ phase' = phase /\ item' = item /\ todo' = Tail(todo)
              /\ page \notin DOMAIN pt
              /\ DOMAIN pt' = DOMAIN pt \cup {page}
              /\ pt'[page].user = user /\ pt'[page].write = write
              /\ \A p \in DOMAIN pt : pt'[p] = pt[p]
<1> DEFINE missing == Path(page) \ (DOMAIN tables \cup BootTables)
           room == /\ next + 1 + Cardinality(missing) <= Len(UsableFrames)
                   /\ page \notin DOMAIN pt
           entry == [frame |-> UsableFrames[next + 1], write |-> write, user |-> user]
<1>1. CASE room
  <2>1. pt' = Extend(pt, page, entry) /\ phase' = phase /\ item' = item /\ todo' = Tail(todo)
    BY <1>1 DEF MapPage
  <2>2. page \notin DOMAIN pt
    BY <1>1
  <2>3. entry.user = user /\ entry.write = write
    OBVIOUS
  <2> HIDE DEF entry
  <2>4. /\ DOMAIN pt' = DOMAIN pt \cup {page} /\ pt'[page] = entry
        /\ \A p \in DOMAIN pt : pt'[p] = pt[p]
    BY <2>1, <2>2 DEF Extend
  <2> QED
    BY <2>1, <2>2, <2>3, <2>4
<1>2. CASE ~room
  BY <1>2 DEF MapPage, Panic, Enter, pagingVars
<1> QED
  BY <1>1, <1>2

(* After a panic nothing is promised but that the pages are as they were.    *)
LEMMA PanicStep ==
    ASSUME FrameInv, LoadInv, phase' = "panic",
           UNCHANGED <<pt, image, ram, user_rsp>>
    PROVE  LoadInv'
<1>1. HeapInv'
  BY DEF LoadInv, HeapInv, UserPage
<1>2. SegmentInv'
  BY DEF SegmentInv, Finished
<1>3. StackInv'
  <2>1. \A p : StackReady(p) => StackReady(p)'
    BY GrowthKeeps DEF FrameInv, ItemInRange
  <2> QED
    BY <2>1 DEF LoadInv, StackInv
<1> QED
  BY <1>1, <1>2, <1>3 DEF LoadInv

(* init_heap maps one more page, for the kernel only.                        *)
LEMMA MapHeapStep ==
    ASSUME FrameInv, LoadInv, MapHeapPage
    PROVE  LoadInv'
<1>1. /\ phase = "heap" /\ todo # <<>> /\ MapPage(Head(todo), TRUE, FALSE)
      /\ UNCHANGED <<image, ram, user_rsp>>
  BY DEF MapHeapPage, MapNext, inputVars
<1>2. CASE phase' = "panic" /\ pt' = pt
  BY <1>1, <1>2, PanicStep
<1>3. CASE /\ phase' = phase /\ todo' = Tail(todo)
           /\ DOMAIN pt' = DOMAIN pt \cup {Head(todo)}
           /\ pt'[Head(todo)].user = FALSE
           /\ \A p \in DOMAIN pt : pt'[p] = pt[p]
  <2>1. /\ Range(todo) \subseteq PagesOfHeap
        /\ Head(todo) \in Range(todo)
        /\ Range(Tail(todo)) = Range(todo) \ {Head(todo)}
        /\ InLoop(Tail(todo), HeapStart, HeapLast)
    <3>1. HeapStart \in Nat /\ HeapLast \in Int /\ HeapStart <= HeapLast + 1
      BY HeapRange
    <3>2. InLoop(todo, HeapStart, HeapLast)
      BY <1>1 DEF LoadInv, HeapInv
    <3>3. Range(todo) \subseteq HeapStart .. HeapLast
      BY <3>1, <3>2, LoopFacts
    <3>4. /\ Head(todo) \in Range(todo)
          /\ Range(Tail(todo)) = Range(todo) \ {Head(todo)}
          /\ InLoop(Tail(todo), HeapStart, HeapLast)
      BY <1>1, <3>1, <3>2, LoopFacts
    <3> QED
      BY <3>3, <3>4 DEF PagesOfHeap
  <2>2. DOMAIN pt = PagesOfHeap \ Range(todo)
    BY <1>1 DEF LoadInv, HeapInv
  <2>3. HeapInv'
    <3>1. InLoop(todo', HeapStart, HeapLast)
      BY <1>3, <2>1
    <3>2. DOMAIN pt' = PagesOfHeap \ Range(todo')
      BY <1>3, <2>1, <2>2
    <3>3. \A page \in PagesOfHeap : ~UserPage(page)'
      BY <1>3 DEF LoadInv, HeapInv, UserPage
    <3> QED
      BY <1>1, <1>3, <3>1, <3>2, <3>3 DEF HeapInv
  <2>4. SegmentInv'
    BY <1>1, <1>3 DEF SegmentInv, Finished
  <2>5. StackInv'
    BY <1>1, <1>3 DEF LoadInv, StackInv
  <2> QED
    BY <2>3, <2>4, <2>5 DEF LoadInv
<1> QED
  BY <1>1, <1>2, <1>3, MapPageEffect

(* The pages of the heap are not those of a later loop.                      *)
LEMMA HeapStays ==
    ASSUME HeapInv, phase \notin {"heap", "panic"}, phase' # "heap",
           NEW page, page \notin DOMAIN pt, DOMAIN pt' = DOMAIN pt \cup {page},
           \A p \in DOMAIN pt : pt'[p] = pt[p]
    PROVE  HeapInv'
BY DEF HeapInv, UserPage

(* load_segment maps one more page, which no earlier segment has.            *)
LEMMA MapSegmentStep ==
    ASSUME FrameInv, LoadInv, MapSegmentPage
    PROVE  LoadInv'
<1>1. /\ phase = "segment" /\ todo # <<>> /\ MapPage(Head(todo), TRUE, TRUE)
      /\ UNCHANGED <<image, ram, user_rsp>>
  BY DEF MapSegmentPage, MapNext, inputVars
<1>2. CASE phase' = "panic" /\ pt' = pt
  BY <1>1, <1>2, PanicStep
<1>3. CASE /\ phase' = phase /\ item' = item /\ todo' = Tail(todo)
           /\ Head(todo) \notin DOMAIN pt
           /\ DOMAIN pt' = DOMAIN pt \cup {Head(todo)}
           /\ pt'[Head(todo)].user = TRUE /\ pt'[Head(todo)].write = TRUE
           /\ \A p \in DOMAIN pt : pt'[p] = pt[p]
  <2> DEFINE first == PageOf(image[item].vaddr)
             last == PageOf(image[item].vaddr + image[item].memsz - 1)
  <2>1. item \in 1 .. Len(image) /\ image \in Images
    BY <1>1 DEF FrameInv, ItemInRange
  <2>2. first \in Nat /\ last \in Int /\ first <= last + 1
    BY <2>1, SegmentRange
  <2>3. PagesOfSegment(item) = first .. last /\ InLoop(todo, first, last)
    BY <1>1 DEF LoadInv, SegmentInv, PagesOfSegment
  <2>4. UNCHANGED <<first, last>> /\ PagesOfSegment(item)' = PagesOfSegment(item)
        /\ \A i : PagesOfSegment(i)' = PagesOfSegment(i)
    BY <1>1, <1>3 DEF PagesOfSegment
  <2> HIDE DEF first, last
  <2>5. /\ Head(todo) \in Range(todo)
        /\ Range(Tail(todo)) = Range(todo) \ {Head(todo)}
        /\ InLoop(Tail(todo), first, last)
    BY <1>1, <2>2, <2>3, LoopFacts
  <2>6. /\ \A page : Writable(page) => Writable(page)'
        /\ \A i \in 1 .. Len(image) : SegmentReady(i) => SegmentReady(i)'
    BY <1>1, <1>3, <2>1, GrowthKeeps
  <2>7. HeapInv'
    BY <1>1, <1>3, HeapStays DEF LoadInv
  <2>8. SegmentInv'
    <3>1. InLoop(todo', first', last')
      BY <1>3, <2>4, <2>5
    <3>2. ASSUME NEW page \in PagesOfSegment(item) \ Range(todo')
          PROVE  /\ Writable(page)'
                 /\ \A i \in 1 .. item - 1 : page \notin PagesOfSegment(i)
      <4>1. CASE page = Head(todo)
        <5>1. Writable(page)'
          BY <1>3, <4>1 DEF Writable, UserPage
        <5>2. ASSUME NEW i \in 1 .. item - 1
              PROVE  page \notin PagesOfSegment(i)
          <6>1. i \in 1 .. Len(image) /\ Finished(i)
            BY <1>1, <2>1 DEF Finished
          <6>2. \A p \in PagesOfSegment(i) : p \in DOMAIN pt
            BY <6>1 DEF LoadInv, SegmentInv, SegmentReady, Writable, ReadOnly, UserPage
          <6> QED
            BY <1>3, <4>1, <6>2
        <5> QED
          BY <5>1, <5>2
      <4>2. CASE page # Head(todo)
        BY <1>1, <1>3, <2>5, <2>6, <4>2 DEF LoadInv, SegmentInv
      <4> QED
        BY <4>1, <4>2
    <3>3. \A i \in 1 .. Len(image) : Finished(i)' => SegmentReady(i)'
      BY <1>3, <2>6 DEF LoadInv, SegmentInv, Finished
    <3> QED
      BY <1>1, <1>3, <2>4, <3>1, <3>2, <3>3 DEF SegmentInv, first, last
  <2>9. StackInv'
    BY <1>1, <1>3 DEF LoadInv, StackInv
  <2> QED
    BY <2>7, <2>8, <2>9 DEF LoadInv
<1> QED
  BY <1>1, <1>2, <1>3, MapPageEffect

(* setup_user_stack maps one more page.                                      *)
LEMMA MapStackStep ==
    ASSUME FrameInv, LoadInv, MapStackPage
    PROVE  LoadInv'
<1>1. /\ phase = "stack" /\ todo # <<>> /\ MapPage(Head(todo), TRUE, TRUE)
      /\ UNCHANGED <<image, ram, user_rsp>>
  BY DEF MapStackPage, MapNext, inputVars
<1>2. CASE phase' = "panic" /\ pt' = pt
  BY <1>1, <1>2, PanicStep
<1>3. CASE /\ phase' = phase /\ item' = item /\ todo' = Tail(todo)
           /\ Head(todo) \notin DOMAIN pt
           /\ DOMAIN pt' = DOMAIN pt \cup {Head(todo)}
           /\ pt'[Head(todo)].user = TRUE /\ pt'[Head(todo)].write = TRUE
           /\ \A p \in DOMAIN pt : pt'[p] = pt[p]
  <2> DEFINE first == StackStart[item]
             last == StackStart[item] + StackPages - 1
  <2>1. item \in 1 .. NumProcs /\ image \in Images
    BY <1>1 DEF FrameInv, ItemInRange
  <2>2. first \in Nat /\ last \in Int /\ first <= last + 1
    BY <2>1, StackPagesRange
  <2>3. InLoop(todo, first, last) /\ UNCHANGED <<first, last>>
    BY <1>1, <1>3 DEF LoadInv, StackInv
  <2> HIDE DEF first, last
  <2>5. /\ Head(todo) \in Range(todo)
        /\ Range(Tail(todo)) = Range(todo) \ {Head(todo)}
        /\ InLoop(Tail(todo), first, last)
    BY <1>1, <2>2, <2>3, LoopFacts
  <2>6. /\ \A page : Writable(page) => Writable(page)'
        /\ \A i \in 1 .. Len(image) : SegmentReady(i) => SegmentReady(i)'
        /\ \A p : StackReady(p) => StackReady(p)'
    BY <1>1, <1>3, <2>1, GrowthKeeps
  <2>7. HeapInv'
    BY <1>1, <1>3, HeapStays DEF LoadInv
  <2>8. SegmentInv'
    BY <1>1, <1>3, <2>6 DEF LoadInv, SegmentInv, Finished
  <2>9. StackInv'
    <3>1. InLoop(todo', first', last')
      BY <1>3, <2>3, <2>5
    <3>2. \A page : page = Head(todo) => Writable(page)'
      BY <1>3 DEF Writable, UserPage
    <3>3. \A page \in PagesOfStack(item) \ Range(todo') : Writable(page)'
      BY <1>1, <1>3, <2>5, <2>6, <3>2 DEF LoadInv, StackInv
    <3> QED
      BY <1>1, <1>3, <2>6, <3>1, <3>3 DEF LoadInv, StackInv, PagesOfStack, first, last
  <2> QED
    BY <2>7, <2>8, <2>9 DEF LoadInv
<1> QED
  BY <1>1, <1>2, <1>3, MapPageEffect

(* The loader goes on to segment i when the ones before it are ready.        *)
LEMMA EnterSegmentLoad ==
    ASSUME FrameInv, HeapInv, phase \notin {"heap", "panic"} \/ todo = <<>>, phase # "panic",
           NEW i \in Nat \ {0}, EnterSegment(i),
           UNCHANGED <<image, pt, user_rsp>>, user_rsp = <<>>,
           \A j \in 1 .. Len(image) : j < i => SegmentReady(j)'
    PROVE  LoadInv'
<1>0. image \in Images /\ Len(image) \in Nat /\ 1 \in 1 .. NumProcs
  BY LoopTypes DEF FrameInv, ItemInRange
<1>1. PagesOfHeap \subseteq DOMAIN pt
  <2>1. phase = "heap" /\ todo = <<>> => Range(todo) = {}
    BY DEF Range
  <2> QED
    BY <2>1 DEF HeapInv
<1>2. CASE /\ i \in 1 .. Len(image) /\ phase' = "segment" /\ item' = i
           /\ todo' = SegmentPages(image[i])
  <2> DEFINE first == PageOf(image[i].vaddr)
             last == PageOf(image[i].vaddr + image[i].memsz - 1)
  <2>1. /\ first \in Nat /\ last \in Int /\ first <= last + 1
        /\ todo' = PageRange(first, last)
    BY <1>0, <1>2, SegmentRange
  <2>2. PagesOfSegment(item)' = first .. last
    BY <1>2 DEF PagesOfSegment
  <2>3. /\ first = PageOf(image[item].vaddr)'
        /\ last = PageOf(image[item].vaddr + image[item].memsz - 1)'
    BY <1>2 DEF PageOf
  <2> HIDE DEF first, last
  <2>4. InLoop(todo', first, last) /\ Range(todo') = first .. last
    BY <2>1, LoopStarts
  <2>5. HeapInv'
    BY <1>1, <1>2 DEF HeapInv, UserPage
  <2>6. SegmentInv'
    <3>1. \A j \in 1 .. Len(image) : Finished(j)' => SegmentReady(j)'
      BY <1>2 DEF Finished
    <3>2. InLoop(todo, PageOf(image[item].vaddr),
                 PageOf(image[item].vaddr + image[item].memsz - 1))'
      BY <2>3, <2>4 DEF InLoop
    <3> QED
      BY <1>2, <2>2, <2>4, <3>1, <3>2 DEF SegmentInv
  <2>7. StackInv'
    BY <1>2 DEF StackInv
  <2> QED
    BY <2>5, <2>6, <2>7 DEF LoadInv
<1>3. CASE /\ i > Len(image) /\ phase' = "stack" /\ item' = 1 /\ todo' = StackRange(1)
  <2> DEFINE first == StackStart[1]
             last == StackStart[1] + StackPages - 1
  <2>1. /\ first \in Nat /\ last \in Int /\ first <= last + 1
        /\ todo' = PageRange(first, last)
    BY <1>0, <1>3, StackPagesRange
  <2> HIDE DEF first, last
  <2>2. InLoop(todo', first, last) /\ Range(todo') = first .. last
    BY <2>1, LoopStarts
  <2>3. HeapInv'
    BY <1>1, <1>3 DEF HeapInv, UserPage
  <2>4. SegmentInv'
    <3>1. \A j \in 1 .. Len(image) : SegmentReady(j)'
      BY <1>0, <1>3
    <3> QED
      BY <1>3, <3>1 DEF SegmentInv
  <2>5. StackInv'
    <3>1. user_rsp' = <<>> /\ Len(user_rsp') = 0
      OBVIOUS
    <3>2. InLoop(todo, StackStart[item], StackStart[item] + StackPages - 1)'
      BY <1>3, <2>2 DEF first, last, InLoop
    <3>3. PagesOfStack(item)' = first .. last
      BY <1>3 DEF first, last, PagesOfStack
    <3> QED
      BY <1>3, <2>2, <3>1, <3>2, <3>3 DEF StackInv
  <2> QED
    BY <2>3, <2>4, <2>5 DEF LoadInv
<1> QED
  BY <1>0, <1>2, <1>3, EnterSegmentStep

(* From the heap to the first segment.                                       *)
LEMMA HeapReadyStep ==
    ASSUME FrameInv, LoadInv, HeapReady
    PROVE  LoadInv'
<1>1. /\ phase = "heap" /\ todo = <<>> /\ EnterSegment(1)
      /\ UNCHANGED <<image, pt, user_rsp>>
  BY DEF HeapReady, LoopDone, inputVars, pagingVars
<1>2. \A j \in 1 .. Len(image) : ~(j < 1)
  BY LoopTypes DEF FrameInv, ItemInRange
<1>3. HeapInv /\ user_rsp = <<>>
  BY <1>1 DEF LoadInv, StackInv
<1> QED
  BY <1>1, <1>2, <1>3, EnterSegmentLoad

(* All pages of a read-only segment are protected.                           *)
LEMMA SegmentDoneStep ==
    ASSUME FrameInv, LoadInv, SegmentDone
    PROVE  LoadInv'
<1>1. /\ phase = "protect" /\ todo = <<>> /\ EnterSegment(item + 1)
      /\ UNCHANGED <<image, pt, ram, user_rsp>>
  BY DEF SegmentDone, LoopDone, inputVars, pagingVars
<1>2. item \in 1 .. Len(image) /\ image \in Images /\ item + 1 \in Nat \ {0}
  BY <1>1 DEF FrameInv, ItemInRange
<1>3. HeapInv /\ user_rsp = <<>>
  BY <1>1 DEF LoadInv, StackInv
<1>4. SegmentReady(item)
  <2>1. Range(todo) = {}
    BY <1>1 DEF Range
  <2> QED
    BY <1>1, <2>1 DEF LoadInv, SegmentInv, SegmentReady
<1>5. ASSUME NEW j \in 1 .. Len(image), j < item + 1
      PROVE  SegmentReady(j)'
  <2>1. j = item \/ j < item
    BY <1>2, <1>5
  <2>2. SegmentReady(j)
    BY <1>1, <1>4, <2>1 DEF LoadInv, SegmentInv, Finished
  <2> QED
    BY <1>1, <1>2, <2>2, GrowthKeeps
<1> QED
  BY <1>1, <1>2, <1>3, <1>5, EnterSegmentLoad

(* Copying fills the cells of the present segment and no cell of another.    *)
LEMMA CopySegmentStep ==
    ASSUME FrameInv, LoadInv, CopySegment
    PROVE  LoadInv'
<1>0. PICK k : k = item
  OBVIOUS
<1> DEFINE addrs == Addresses(k)
           written == {Cell(a) : a \in addrs}
<1>1. /\ phase = "segment" /\ todo = <<>>
      /\ UNCHANGED <<image, pt, user_rsp>>
      /\ ram' = [c \in DOMAIN ram \cup written |->
                    IF c \in written THEN Loaded(image[k], CHOOSE a \in addrs : Cell(a) = c)
                                     ELSE ram[c]]
      /\ IF image[k].write THEN EnterSegment(k + 1)
                           ELSE Enter("protect", k, SegmentPages(image[k]))
  BY <1>0 DEF CopySegment, LoopDone, inputVars, pagingVars, Addresses
<1>2. k \in 1 .. Len(image) /\ image \in Images /\ k + 1 \in Nat \ {0}
  BY <1>0, <1>1 DEF FrameInv, ItemInRange
<1>3. HeapInv /\ user_rsp = <<>> /\ FramesExclusive
  BY <1>1 DEF LoadInv, StackInv, FrameInv, PagingInv
<1>4. \A page \in PagesOfSegment(k) :
          Writable(page) /\ \A i \in 1 .. k - 1 : page \notin PagesOfSegment(i)
  <2>1. Range(todo) = {}
    BY <1>1 DEF Range
  <2> QED
    BY <1>0, <1>1, <2>1 DEF LoadInv, SegmentInv
<1>5. \A a \in addrs : a \in Int /\ PageOf(a) \in PagesOfSegment(k) /\ PageOf(a) \in DOMAIN pt
  BY <1>2, <1>4, AddressPages DEF Writable, UserPage
<1>6. /\ \A a : Cell(a)' = Cell(a)
      /\ \A i : PagesOfSegment(i)' = PagesOfSegment(i) /\ Addresses(i)' = Addresses(i)
      /\ \A i, a : Loaded(image[i], a)' = Loaded(image[i], a)
      /\ \A page : (Writable(page)' <=> Writable(page)) /\ (ReadOnly(page)' <=> ReadOnly(page))
      /\ \A page : UserPage(page)' <=> UserPage(page)
  BY <1>1 DEF Cell, PagesOfSegment, Addresses, Loaded, Writable, ReadOnly, UserPage
<1>7. Contents(k)'
  <2>1. ASSUME NEW a \in addrs
        PROVE  Cell(a) \in DOMAIN ram' /\ ram'[Cell(a)] = Loaded(image[k], a)
    <3>1. Cell(a) \in written
      OBVIOUS
    <3>2. \A b \in addrs : Cell(b) = Cell(a) => b = a
      BY <1>3, <1>5, CellsApart
    <3>3. (CHOOSE b \in addrs : Cell(b) = Cell(a)) = a
      BY <3>2
    <3> HIDE DEF written, addrs
    <3> QED
      BY <1>1, <3>1, <3>3
  <2> QED
    BY <1>6, <2>1 DEF Contents
<1>8. ASSUME NEW i \in 1 .. Len(image), i < k
      PROVE  SegmentReady(i)'
  <2>1. SegmentReady(i) /\ i \in 1 .. k - 1
    BY <1>0, <1>1, <1>2, <1>8 DEF LoadInv, SegmentInv, Finished
  <2>2. \A page \in PagesOfSegment(i) : page \in DOMAIN pt
    BY <2>1 DEF SegmentReady, Writable, ReadOnly, UserPage
  <2>3. ASSUME NEW a \in Addresses(i)
        PROVE  Cell(a) \in DOMAIN ram' /\ ram'[Cell(a)] = Loaded(image[i], a)
    <3>1. a \in Int /\ PageOf(a) \in PagesOfSegment(i) /\ PageOf(a) \in DOMAIN pt
      BY <1>2, <2>2, AddressPages
    <3>2. Cell(a) \notin written
      <4>1. ASSUME NEW b \in addrs, Cell(b) = Cell(a)
            PROVE  FALSE
        <5>1. b = a
          BY <1>3, <1>5, <3>1, <4>1, CellsApart
        <5> QED
          BY <1>4, <1>5, <2>1, <3>1, <5>1
      <4> QED
        BY <4>1
    <3>3. Cell(a) \in DOMAIN ram /\ ram[Cell(a)] = Loaded(image[i], a)
      BY <2>1 DEF SegmentReady, Contents
    <3> HIDE DEF written
    <3> QED
      BY <1>1, <3>2, <3>3
  <2>4. Contents(i)'
    BY <1>6, <2>3 DEF Contents
  <2> QED
    BY <1>1, <1>6, <2>1, <2>4 DEF SegmentReady
<1> HIDE DEF addrs, written
<1>9. CASE image[k].write
  <2>1. SegmentReady(k)'
    BY <1>1, <1>4, <1>6, <1>7, <1>9 DEF SegmentReady
  <2>2. \A j \in 1 .. Len(image) : j < k + 1 => j = k \/ j < k
    BY <1>2
  <2> QED
    BY <1>1, <1>2, <1>3, <1>8, <1>9, <2>1, <2>2, EnterSegmentLoad
<1>10. CASE ~image[k].write
  <2> DEFINE first == PageOf(image[k].vaddr)
             last == PageOf(image[k].vaddr + image[k].memsz - 1)
  <2>1. /\ first \in Nat /\ last \in Int /\ first <= last + 1
        /\ SegmentPages(image[k]) = PageRange(first, last)
    BY <1>2, SegmentRange
  <2>2. phase' = "protect" /\ item' = k /\ todo' = PageRange(first, last)
    BY <1>1, <1>10, <2>1 DEF Enter
  <2>3. PagesOfSegment(k) = first .. last
    BY DEF PagesOfSegment
  <2>4. /\ first = PageOf(image[item].vaddr)'
        /\ last = PageOf(image[item].vaddr + image[item].memsz - 1)'
    BY <1>1, <2>2 DEF PageOf
  <2> HIDE DEF first, last
  <2>5. InLoop(todo', first, last) /\ Range(todo') = first .. last
    BY <2>1, <2>2, LoopStarts
  <2>6. HeapInv'
    BY <1>1, <1>3, <1>6, <2>2 DEF HeapInv
  <2>7. SegmentInv'
    <3>1. InLoop(todo, PageOf(image[item].vaddr),
                 PageOf(image[item].vaddr + image[item].memsz - 1))'
      BY <2>4, <2>5 DEF InLoop
    <3>2. ~image'[item'].write /\ Contents(item)'
      <4>1. ~image'[item'].write
        BY <1>1, <1>10, <2>2
      <4>2. Contents(item)'
        BY <1>7, <2>2 DEF Contents, Addresses
      <4> QED
        BY <4>1, <4>2
    <3>3. \A page \in PagesOfSegment(item)' :
            /\ UserPage(page)'
            /\ page \in Range(todo')
            /\ \A i \in 1 .. item' - 1 : page \notin PagesOfSegment(i)'
      <4>1. PagesOfSegment(item)' = PagesOfSegment(k)
        BY <1>1, <2>2 DEF PagesOfSegment
      <4> QED
        BY <1>4, <1>6, <2>2, <2>3, <2>5, <4>1 DEF Writable
    <3>4. \A i \in 1 .. Len(image) : Finished(i)' => SegmentReady(i)'
      BY <1>8, <2>2 DEF Finished
    <3> QED
      BY <1>1, <2>2, <3>1, <3>2, <3>3, <3>4 DEF SegmentInv
  <2>8. StackInv'
    BY <1>1, <1>3, <2>2 DEF StackInv
  <2> QED
    BY <2>6, <2>7, <2>8 DEF LoadInv
<1> QED
  BY <1>9, <1>10

(* Protecting a page changes one flag of a page of the present segment.      *)
LEMMA ProtectStep ==
    ASSUME FrameInv, LoadInv, ProtectPage
    PROVE  LoadInv'
<1>1. /\ phase = "protect" /\ todo # <<>> /\ todo' = Tail(todo)
      /\ pt' = [pt EXCEPT ![Head(todo)].write = FALSE]
      /\ UNCHANGED <<image, phase, item, ram, user_rsp>>
  BY DEF ProtectPage, UpdateFlags, inputVars
<1> DEFINE first == PageOf(image[item].vaddr)
           last == PageOf(image[item].vaddr + image[item].memsz - 1)
<1>2. item \in 1 .. Len(image) /\ image \in Images
  BY <1>1 DEF FrameInv, ItemInRange
<1>3. first \in Nat /\ last \in Int /\ first <= last + 1
  BY <1>2, SegmentRange
<1>4. PagesOfSegment(item) = first .. last /\ InLoop(todo, first, last)
  BY <1>1 DEF LoadInv, SegmentInv, PagesOfSegment
<1>5. UNCHANGED <<first, last>> /\ \A i : PagesOfSegment(i)' = PagesOfSegment(i)
  BY <1>1 DEF PagesOfSegment
<1> HIDE DEF first, last
<1>6. /\ Range(todo) \subseteq PagesOfSegment(item)
      /\ Head(todo) \in Range(todo)
      /\ Range(Tail(todo)) = Range(todo) \ {Head(todo)}
      /\ InLoop(Tail(todo), first, last)
  BY <1>1, <1>3, <1>4, LoopFacts
<1>7. /\ ~image[item].write /\ Contents(item)
      /\ \A page \in PagesOfSegment(item) :
            /\ UserPage(page)
            /\ page \notin Range(todo) => ReadOnly(page)
            /\ \A i \in 1 .. item - 1 : page \notin PagesOfSegment(i)
  BY <1>1 DEF LoadInv, SegmentInv
<1>8. pt \in [DOMAIN pt -> PageEntry] /\ Head(todo) \in DOMAIN pt
  BY <1>6, <1>7 DEF FrameInv, PagingInv, UserPage
<1>9. /\ DOMAIN pt' = DOMAIN pt
      /\ \A page \in DOMAIN pt : /\ pt'[page].frame = pt[page].frame
                                 /\ pt'[page].user = pt[page].user
                                 /\ page # Head(todo) => pt'[page] = pt[page]
  BY <1>1, <1>8 DEF PageEntry
<1>10. \A page : page = Head(todo) => ~pt'[page].write
  BY <1>1, <1>8 DEF PageEntry
<1>11. /\ \A page : UserPage(page)' <=> UserPage(page)
       /\ \A page : page # Head(todo) => /\ Writable(page) => Writable(page)'
                                         /\ ReadOnly(page) => ReadOnly(page)'
       /\ \A page : page = Head(todo) => ReadOnly(page)'
  <2>1. \A page : UserPage(page)' <=> UserPage(page)
    BY <1>9 DEF UserPage
  <2>2. UserPage(Head(todo))
    BY <1>6, <1>7
  <2> QED
    BY <1>9, <1>10, <2>1, <2>2 DEF Writable, ReadOnly, UserPage
<1>12. HeapInv'
  BY <1>1, <1>9, <1>11 DEF LoadInv, HeapInv
<1>13. SegmentInv'
  <2>1. InLoop(todo', first', last')
    BY <1>1, <1>5, <1>6
  <2>2. Contents(item)'
    <3>1. \A page \in PagesOfSegment(item) : pt'[page].frame = pt[page].frame
      BY <1>7, <1>9 DEF UserPage
    <3>2. \A i : i = item => Contents(i)'
      BY <1>1, <1>2, <1>7, <3>1, ContentsStay
    <3> QED
      BY <1>1, <3>2 DEF Contents, Addresses
  <2>3. \A page \in PagesOfSegment(item) :
            /\ UserPage(page)'
            /\ page \notin Range(todo') => ReadOnly(page)'
    BY <1>1, <1>6, <1>7, <1>11
  <2>4. ASSUME NEW i \in 1 .. Len(image), i < item
        PROVE  SegmentReady(i)'
    <3>1. SegmentReady(i) /\ i \in 1 .. item - 1
      BY <1>1, <1>2, <2>4 DEF LoadInv, SegmentInv, Finished
    <3>2. \A page \in PagesOfSegment(i) : page # Head(todo) /\ page \in DOMAIN pt
      BY <1>6, <1>7, <3>1 DEF SegmentReady, Writable, ReadOnly, UserPage
    <3>3. Contents(i)'
      BY <1>1, <1>2, <1>9, <3>1, <3>2, ContentsStay DEF SegmentReady
    <3> QED
      BY <1>1, <1>5, <1>11, <3>1, <3>2, <3>3 DEF SegmentReady
  <2>5. \A i \in 1 .. Len(image) : Finished(i)' => SegmentReady(i)'
    BY <1>1, <2>4 DEF Finished
  <2> QED
    BY <1>1, <1>5, <1>7, <2>1, <2>2, <2>3, <2>5 DEF SegmentInv, first, last
<1>14. StackInv'
  BY <1>1 DEF LoadInv, StackInv
<1> QED
  BY <1>12, <1>13, <1>14 DEF LoadInv

(* What does not depend on the place in the boot sequence, when the page     *)
(* table stays and the segments are over.                                    *)
LEMMA SegmentsOver ==
    ASSUME FrameInv, LoadInv, phase \in {"stack", "spawn", "running"},
           phase' \in {"stack", "spawn", "running"}, UNCHANGED <<image, pt, ram>>
    PROVE  HeapInv' /\ SegmentInv'
<1>1. image \in Images
  BY DEF FrameInv, ItemInRange
<1>2. HeapInv'
  BY DEF LoadInv, HeapInv, UserPage
<1>3. \A i \in 1 .. Len(image) : SegmentReady(i) => SegmentReady(i)'
  BY DEF SegmentReady, Contents, Addresses, Cell, Loaded, PagesOfSegment, Writable, ReadOnly,
         UserPage
<1>4. SegmentInv'
  BY <1>3 DEF LoadInv, SegmentInv, Finished
<1> QED
  BY <1>2, <1>4

(* A process gets its stack pointer once its stack is mapped.                *)
LEMMA CreateProcessStep ==
    ASSUME FrameInv, LoadInv, CreateUserProcess
    PROVE  LoadInv'
<1>1. /\ phase = "stack" /\ todo = <<>> /\ item \in 1 .. NumProcs /\ NumProcs \in Nat
      /\ UNCHANGED <<image, pt, ram>>
  BY LoopTypes DEF CreateUserProcess, LoopDone, FrameInv, ItemInRange, inputVars, pagingVars
<1>2. CASE phase' = "panic" /\ user_rsp' = user_rsp
  BY <1>1, <1>2, PanicStep
<1> DEFINE top == (StackStart[item] + StackPages) * PageSize
<1>3. ASSUME user_rsp' = Append(user_rsp, top), phase' \in {"stack", "spawn"}
      PROVE  Len(user_rsp') = item /\ \A p \in 1 .. Len(user_rsp') : StackReady(p)'
  <2>1. Range(todo) = {}
    BY <1>1 DEF Range
  <2>2. /\ Len(user_rsp) = item - 1 /\ user_rsp \in Seq(Nat)
        /\ \A p \in 1 .. item - 1 : StackReady(p)
        /\ \A page \in PagesOfStack(item) : Writable(page)
    BY <1>1, <2>1 DEF LoadInv, StackInv, FrameInv, MemTypeOK
  <2>3. top \in Nat
    BY <1>1, StackPagesRange
  <2> HIDE DEF top
  <2>4. /\ Len(user_rsp') = item
        /\ user_rsp'[item] = top
        /\ \A p \in 1 .. item - 1 : user_rsp'[p] = user_rsp[p]
    BY <1>1, <1>3, <2>2, <2>3
  <2>5. \A page : Writable(page)' <=> Writable(page)
    BY <1>1 DEF Writable, UserPage
  <2>6. ASSUME NEW p \in 1 .. item
        PROVE  StackReady(p)'
    <3>1. CASE p = item
      BY <2>2, <2>4, <2>5, <3>1 DEF StackReady, PagesOfStack, top
    <3>2. CASE p # item
      <4>1. p \in 1 .. item - 1
        BY <1>1, <3>2
      <4> QED
        BY <2>2, <2>4, <2>5, <4>1 DEF StackReady, PagesOfStack
    <3> QED
      BY <3>1, <3>2
  <2> QED
    BY <2>4, <2>6
<1>4. CASE /\ user_rsp' = Append(user_rsp, top) /\ item < NumProcs
           /\ phase' = "stack" /\ item' = item + 1 /\ todo' = StackRange(item + 1)
  <2> DEFINE first == StackStart[item + 1]
             last == StackStart[item + 1] + StackPages - 1
  <2>1. item + 1 \in 1 .. NumProcs
    BY <1>1, <1>4
  <2>2. /\ first \in Nat /\ last \in Int /\ first <= last + 1
        /\ todo' = PageRange(first, last)
    BY <1>4, <2>1, StackPagesRange
  <2> HIDE DEF first, last
  <2>3. InLoop(todo', first, last) /\ Range(todo') = first .. last
    BY <2>2, LoopStarts
  <2>4. InLoop(todo, StackStart[item], StackStart[item] + StackPages - 1)'
    BY <1>4, <2>3 DEF InLoop, first, last
  <2>5. PagesOfStack(item)' = first .. last
    BY <1>4 DEF PagesOfStack, first, last
  <2>6. Len(user_rsp') = item' - 1
    BY <1>1, <1>3, <1>4
  <2>7. StackInv'
    BY <1>3, <1>4, <2>3, <2>4, <2>5, <2>6 DEF StackInv
  <2> QED
    BY <1>1, <1>4, <2>7, SegmentsOver DEF LoadInv
<1>5. CASE user_rsp' = Append(user_rsp, top) /\ ~(item < NumProcs) /\ phase' = "spawn"
  <2>1. item = NumProcs
    BY <1>1, <1>5
  <2>2. StackInv'
    BY <1>3, <1>5, <2>1 DEF StackInv
  <2> QED
    BY <1>1, <1>5, <2>2, SegmentsOver DEF LoadInv
<1> QED
  BY <1>2, <1>4, <1>5 DEF CreateUserProcess, Panic, Enter

(* The kernel task needs nothing of the page tables.                         *)
LEMMA SpawnTaskStep ==
    ASSUME FrameInv, LoadInv, SpawnKernelTask
    PROVE  LoadInv'
<1>1. /\ phase = "spawn" /\ phase' \in {"panic", "running"}
      /\ UNCHANGED <<image, pt, ram, user_rsp>>
  BY DEF SpawnKernelTask, Panic, Enter, inputVars, pagingVars
<1>2. CASE phase' = "panic"
  BY <1>1, <1>2, PanicStep
<1>3. CASE phase' = "running"
  <2>1. \A p : StackReady(p) => StackReady(p)'
    BY <1>1, GrowthKeeps DEF FrameInv, ItemInRange
  <2>2. StackInv'
    BY <1>1, <1>3, <2>1 DEF LoadInv, StackInv
  <2> QED
    BY <1>1, <1>3, <2>2, SegmentsOver DEF LoadInv
<1> QED
  BY <1>1, <1>2, <1>3

(* The heap's loop is at its start, and nothing else has begun.              *)
LEMMA LoadInit == MemInit => LoadInv
<1> SUFFICES ASSUME MemInit
             PROVE  LoadInv
  OBVIOUS
<1>1. /\ phase = "heap" /\ todo = PageRange(HeapStart, HeapLast)
      /\ DOMAIN pt = {} /\ user_rsp = <<>> /\ Len(user_rsp) = 0
  BY HeapRange DEF MemInit
<1>2. InLoop(todo, HeapStart, HeapLast) /\ Range(todo) = PagesOfHeap
  BY <1>1, HeapRange, LoopStarts DEF PagesOfHeap
<1>3. HeapInv
  BY <1>1, <1>2 DEF HeapInv, UserPage
<1>4. SegmentInv
  BY <1>1 DEF SegmentInv, Finished
<1>5. StackInv
  BY <1>1 DEF StackInv
<1> QED
  BY <1>3, <1>4, <1>5 DEF LoadInv

(* Every step of kernel_main preserves LoadInv.                              *)
LEMMA LoadInvStep == FrameInv /\ LoadInv /\ [MemNext]_memVars => LoadInv'
<1> SUFFICES ASSUME FrameInv, LoadInv, [MemNext]_memVars
             PROVE  LoadInv'
  OBVIOUS
<1>1. CASE MapHeapPage
  BY <1>1, MapHeapStep
<1>2. CASE HeapReady
  BY <1>2, HeapReadyStep
<1>3. CASE MapSegmentPage
  BY <1>3, MapSegmentStep
<1>4. CASE CopySegment
  BY <1>4, CopySegmentStep
<1>5. CASE ProtectPage
  BY <1>5, ProtectStep
<1>6. CASE SegmentDone
  BY <1>6, SegmentDoneStep
<1>7. CASE MapStackPage
  BY <1>7, MapStackStep
<1>8. CASE CreateUserProcess
  BY <1>8, CreateProcessStep
<1>9. CASE SpawnKernelTask
  BY <1>9, SpawnTaskStep
<1>10. CASE UNCHANGED memVars
  <2>1. UNCHANGED <<image, phase, item, todo, pt, ram, user_rsp>> /\ image \in Images
    BY <1>10 DEF memVars, inputVars, pagingVars, FrameInv, ItemInRange
  <2>2. /\ \A page : UserPage(page)' <=> UserPage(page)
        /\ \A page : Writable(page)' <=> Writable(page)
        /\ \A page : ReadOnly(page)' <=> ReadOnly(page)
        /\ \A i : PagesOfSegment(i)' = PagesOfSegment(i)
        /\ \A i : Contents(i)' <=> Contents(i)
        /\ \A p : StackReady(p)' <=> StackReady(p)
    BY <2>1 DEF UserPage, Writable, ReadOnly, PagesOfSegment, Contents, Addresses, Cell, Loaded,
                StackReady, PagesOfStack
  <2>3. HeapInv'
    BY <2>1, <2>2 DEF LoadInv, HeapInv
  <2>4. SegmentInv'
    BY <2>1, <2>2 DEF LoadInv, SegmentInv, SegmentReady, Finished
  <2>5. StackInv'
    BY <2>1, <2>2 DEF LoadInv, StackInv
  <2> QED
    BY <2>3, <2>4, <2>5 DEF LoadInv
<1> QED
  BY <1>1, <1>2, <1>3, <1>4, <1>5, <1>6, <1>7, <1>8, <1>9, <1>10 DEF MemNext

(* What the loops of kernel_main have done at every point of the boot.       *)
THEOREM LoadInvInvariant == MemSpec => []LoadInv
BY LoadInit, LoadInvStep, FrameInvInvariant, PTL DEF MemSpec

(* Every process finds the program as the ELF file says: bytes, zeros after  *)
(* them and write access only where a segment asks for it.                   *)
THEOREM ImageIsLoaded == MemSpec => []ImageLoaded
<1>1. FrameInv /\ LoadInv => ImageLoaded
  <2> SUFFICES ASSUME FrameInv, LoadInv, phase = "running",
                      NEW i \in DOMAIN image, NEW k \in 0 .. image[i].memsz - 1
               PROVE  LET s     == image[i]
                          entry == pt[PageOf(s.vaddr + k)]
                          cell  == <<entry.frame, (s.vaddr + k) % PageSize>>
                      IN  /\ ram[cell] = IF k < s.filesz THEN FileByte(s.offset + k) ELSE ZERO
                          /\ entry.user
                          /\ entry.write = s.write
    BY DEF ImageLoaded
  <2> DEFINE s == image[i]
             a == s.vaddr + k
             entry == pt[PageOf(a)]
  <2>1. i \in 1 .. Len(image) /\ image \in Images
    BY LoopTypes DEF FrameInv, ItemInRange
  <2>2. /\ s.vaddr \in Nat /\ s.memsz \in Nat /\ s.filesz \in Nat /\ s.offset \in Nat
        /\ s.write \in BOOLEAN
    <3>1. s \in LoadSegment
      BY <2>1, SegmentRange
    <3> QED
      BY <3>1 DEF LoadSegment
  <2>3. a \in Addresses(i)
    BY <2>2 DEF Addresses
  <2>4. SegmentReady(i)
    BY <2>1 DEF LoadInv, SegmentInv, Finished
  <2>5. ram[Cell(a)] = Loaded(s, a) /\ Cell(a) = <<entry.frame, a % PageSize>>
    BY <2>3, <2>4 DEF SegmentReady, Contents, Cell
  <2>6. Loaded(s, a) = IF k < s.filesz THEN FileByte(s.offset + k) ELSE ZERO
    <3>1. (a < s.vaddr + s.filesz <=> k < s.filesz) /\ s.offset + a - s.vaddr = s.offset + k
      BY <2>2
    <3> QED
      BY <3>1 DEF Loaded
  <2>7. PageOf(a) \in PagesOfSegment(i)
    BY <2>1, <2>3, AddressPages
  <2>8. /\ UserPage(PageOf(a))
        /\ s.write => entry.write
        /\ ~s.write => ~entry.write
    BY <2>4, <2>7 DEF SegmentReady, Writable, ReadOnly
  <2>9. entry.user /\ entry.write \in BOOLEAN
    BY <2>8 DEF UserPage, FrameInv, PagingInv, PageEntry
  <2>10. entry.write = s.write
    <3> HIDE DEF entry, s
    <3> QED
      BY <2>2, <2>8, <2>9
  <2> QED
    BY <2>5, <2>6, <2>9, <2>10
<1> QED
  BY <1>1, FrameInvInvariant, LoadInvInvariant, PTL

(* Every process has its whole stack below its first stack pointer, and no   *)
(* process reaches the kernel's heap.                                        *)
THEOREM StacksAreUsable == MemSpec => []StacksUsable
<1>1. FrameInv /\ LoadInv => StacksUsable
  <2> SUFFICES ASSUME FrameInv, LoadInv, phase = "running", NEW p \in 1 .. NumProcs
               PROVE  /\ \A addr \in user_rsp[p] - StackPages * PageSize .. user_rsp[p] - 1 :
                             PageOf(addr) \in Reach /\ pt[PageOf(addr)].write
                      /\ Range(HeapPages) \cap Reach = {}
    BY DEF StacksUsable
  <2>1. Range(HeapPages) \cap Reach = {}
    <3>1. Range(HeapPages) = PagesOfHeap
      BY HeapRange, LoopStarts DEF PagesOfHeap
    <3> QED
      BY <3>1 DEF LoadInv, HeapInv, UserPage, Reach
  <2>2. StackReady(p)
    BY DEF LoadInv, StackInv
  <2>3. /\ StackStart[p] \in Nat /\ StackPages \in Nat
        /\ PageSize \in Nat /\ PageSize > 0
    BY SizeAssumption DEF NumProcs
  <2> DEFINE low == StackStart[p]
             high == StackStart[p] + StackPages - 1
  <2>4. /\ user_rsp[p] - StackPages * PageSize = low * PageSize + 0
        /\ user_rsp[p] - 1 = high * PageSize + (PageSize - 1)
        /\ low \in Int /\ high \in Int
        /\ user_rsp[p] - 1 \in Int /\ low * PageSize + 0 \in Int
        /\ 0 \in 0 .. PageSize - 1 /\ PageSize - 1 \in 0 .. PageSize - 1
    BY <2>2, <2>3 DEF StackReady
  <2> HIDE DEF low, high
  <2>5. PageOf(user_rsp[p] - StackPages * PageSize) = low /\ PageOf(user_rsp[p] - 1) = high
    BY <2>4, PageNumberUnique
  <2>6. ASSUME NEW addr \in user_rsp[p] - StackPages * PageSize .. user_rsp[p] - 1
        PROVE  PageOf(addr) \in Reach /\ pt[PageOf(addr)].write
    <3>1. addr \in Int /\ low * PageSize + 0 <= addr /\ addr <= user_rsp[p] - 1
      BY <2>4
    <3>2. PageOf(addr) \in Int /\ low <= PageOf(addr) /\ PageOf(addr) <= high
      BY <2>4, <2>5, <3>1, PageOrder, PageNumber
    <3>3. PageOf(addr) \in PagesOfStack(p)
      BY <2>4, <3>2 DEF PagesOfStack, low, high
    <3> QED
      BY <2>2, <3>3 DEF StackReady, Writable, UserPage, Reach
  <2> QED
    BY <2>1, <2>6
<1> QED
  BY <1>1, FrameInvInvariant, LoadInvInvariant, PTL
================================================================================
