------------------------------ MODULE AddressSpace ------------------------------
(***************************************************************************)
(* Steps 2 to 5 of kernel_main, which run with interrupts disabled: the    *)
(* frame allocator (kernel/src/mem.rs), the kernel heap                    *)
(* (kernel/src/allocator.rs), the ELF loader (kernel/src/loader.rs), the   *)
(* user stacks (setup_user_stack) and the heap that the processes and the  *)
(* kernel task take up (kernel/src/task/mod.rs).                           *)
(*                                                                         *)
(* The memory map and the program image are inputs, chosen in the initial  *)
(* state.  Memory is counted in units, PageSize of them to a page; a unit  *)
(* holds one value.  Mapping one page is one step.  map_to is that of the  *)
(* x86_64 crate: it takes a frame from the same allocator for every page   *)
(* table that is missing on the way to the page.                           *)
(*                                                                         *)
(* A definition X_Word is definition X with a plausible bug; nothing uses  *)
(* it, it shows which property depends on X.                               *)
(***************************************************************************)
EXTENDS Integers, SequencesExt

CONSTANTS MemoryMaps,      \* memory maps the boot loader may report
          Images,          \* program images: the Load segments of an ELF file
          PageSize,        \* 4096
          FanOut,          \* entries of a page table (512)
          BootTables,      \* page tables the boot loader has set up
          HeapStart,       \* HEAP_START, in pages
          HeapSize,        \* HEAP_SIZE
          UserKStack,      \* KSTACK_SIZE of create_user_process
          TaskKStack,      \* KSTACK_SIZE of Task::new
          SmallObjects,    \* a bound on what else creating a task allocates
          StackStart,      \* the page at the base of each process's stack
          StackPages       \* pages of a user stack

NumProcs == Len(StackStart)

(* A Load segment is not empty (load_segment would map a page for an empty   *)
(* one that starts inside a page) and has no more in the file than in memory.*)
LoadSegment == [vaddr : Nat, memsz : Nat \ {0}, filesz : Nat, write : BOOLEAN, offset : Nat]

ASSUME ImageAssumption ==
    /\ Images \subseteq Seq(LoadSegment)
    /\ \A elf \in Images : \A s \in Range(elf) : s.filesz <= s.memsz

(* The constants of the code; there is a process.                            *)
ASSUME SizeAssumption ==
    /\ PageSize \in Nat \ {0}
    /\ FanOut \in Nat \ {0}
    /\ {HeapStart, HeapSize, UserKStack, TaskKStack, SmallObjects, StackPages} \subseteq Nat
    /\ StackStart \in Seq(Nat) \ {<<>>}

(* HEAP_SIZE is 100 KiB: room for the kernel stacks of two processes, of     *)
(* 32 KiB each, and of the kernel task, of 16 KiB, with what goes with them. *)
ASSUME HeapAssumption ==
    NumProcs * (UserKStack + SmallObjects) + TaskKStack + SmallObjects <= HeapSize

(* Page tables form a tree: below level 3 a table of the boot loader hangs   *)
(* in another one of them.                                                   *)
ASSUME BootTablesAssumption ==
    \A t \in BootTables : t[1] \in 1 .. 2 => <<t[1] + 1, t[2] \div FanOut>> \in BootTables

MemoryRegion == [start : Nat, end : Nat, usable : BOOLEAN]

PageOf(addr) == addr \div PageSize

(* All that the allocator needs of a memory map: no page has addresses of    *)
(* two usable regions.  A region may begin and end anywhere in a page.       *)
ASSUME MemoryMapAssumption ==
    /\ MemoryMaps \subseteq Seq(MemoryRegion)
    /\ \A map \in MemoryMaps : \A i, j \in DOMAIN map :
          i # j /\ map[i].usable /\ map[j].usable =>
              \A a \in map[i].start .. map[i].end - 1, b \in map[j].start .. map[j].end - 1 :
                  PageOf(a) # PageOf(b)

VARIABLES regions,         \* boot_info.memory_regions
          image,           \* INIT_ELF
          phase,           \* where kernel_main is
          item,            \* the segment or the process it is working on
          todo,            \* pages its present loop has not come to yet
          next,            \* BootInfoFrameAllocator.next
          pt,              \* leaf page table entries, by page
          tables,          \* the frames of the page tables map_to has created
          ram,             \* what has been written, by <<frame, offset>>
          heap_used,       \* allocated from the kernel heap
          user_rsp         \* the stack pointer each process starts with

inputVars == <<regions, image>>
pagingVars == <<next, pt, tables>>
memVars == <<inputVars, pagingVars, phase, item, todo, ram, heap_used, user_rsp>>

--------------------------------------------------------------------------------
ZERO == 0
JUNK == -1                             \* never written
FileByte(offset) == offset + 1         \* the unit at this offset of the ELF file

(* usable_frames: the frames at start, start + 4096, ... of usable regions.  *)
IsUsable_Any(r) == TRUE
IsUsable(r) == r.usable
RegionFrames_EndIncluded(r) ==
    [k \in 1 .. (r.end - r.start) \div PageSize + 1 |-> PageOf(r.start + (k - 1) * PageSize)]
RegionFrames(r) ==
    [k \in 1 .. (r.end - r.start + PageSize - 1) \div PageSize |->
        PageOf(r.start + (k - 1) * PageSize)]
FramesUpTo[n \in 0 .. Len(regions)] ==
    IF n = 0 THEN <<>>
    ELSE FramesUpTo[n - 1]
         \o IF IsUsable(regions[n]) THEN RegionFrames(regions[n]) ELSE <<>>
UsableFrames == FramesUpTo[Len(regions)]

(* Page::range_inclusive.                                                    *)
PageRange(first, last) == [k \in 1 .. last - first + 1 |-> first + k - 1]

HeapPages == PageRange(HeapStart, PageOf(HeapStart * PageSize + HeapSize - 1))
SegmentPages(s) == PageRange(PageOf(s.vaddr), PageOf(s.vaddr + s.memsz - 1))
StackRange_FromOne(p) == PageRange(StackStart[p] + 1, StackStart[p] + StackPages)
StackRange(p) == PageRange(StackStart[p], StackStart[p] + StackPages - 1)

(* The page tables of levels 3, 2 and 1 on the way to a page.                *)
Path(page) ==
    LET i1 == page \div FanOut
        i2 == i1 \div FanOut
        i3 == i2 \div FanOut
    IN  {<<1, i1>>, <<2, i2>>, <<3, i3>>}

--------------------------------------------------------------------------------
(* kernel_main goes on with the pages `pages` of segment or process `i`.     *)
Enter(ph, i, pages) == phase' = ph /\ item' = i /\ todo' = pages

(* load_elf: the next Load segment, or the end of the loop and then the      *)
(* stack of process A.                                                       *)
EnterSegment(i) ==
    IF i <= Len(image) THEN Enter("segment", i, SegmentPages(image[i]))
                       ELSE Enter("stack", 1, StackRange(1))

Panic == Enter("panic", item, <<>>)

MemInit ==
    /\ regions \in MemoryMaps
    /\ image \in Images
    /\ phase = "heap" /\ item = 1 /\ todo = HeapPages
    /\ next = 0
    /\ pt = <<>>
    /\ tables = <<>>
    /\ ram = <<>>
    /\ heap_used = 0
    /\ user_rsp = <<>>

Extend(f, key, value) ==
    [k \in DOMAIN f \cup {key} |-> IF k = key THEN value ELSE f[k]]

(* allocate_frame has been called n times.                                   *)
Advance_Once(n) == next' = next + 1
Advance_Twice(n) == next' = next + n + 1
Advance(n) == next' = next + n

(* allocate_frame, then map_to: the frame allocated first is the page's, the *)
(* next ones are for the missing tables from the top level down.  No frame   *)
(* left, or a page that is mapped already, is a panic of kernel_main.        *)
MapPage(page, write, user) ==
    LET missing == Path(page) \ (DOMAIN tables \cup BootTables)
        m       == Cardinality(missing)
        frames  == UsableFrames
    IN  IF next + 1 + m <= Len(frames) /\ page \notin DOMAIN pt
        THEN /\ Advance(1 + m)
             /\ pt' = Extend(pt, page, [frame |-> frames[next + 1],
                                        write |-> write, user |-> user])
             /\ tables' = [t \in DOMAIN tables \cup missing |->
                              IF t \in DOMAIN tables THEN tables[t]
                              ELSE frames[next + 2 + m - t[1]]]
             /\ todo' = Tail(todo)
             /\ UNCHANGED <<phase, item>>
        ELSE Panic /\ UNCHANGED pagingVars

(* The loop of the present phase maps its next page.                         *)
MapNext(ph, write, user) ==
    /\ phase = ph
    /\ todo # <<>>
    /\ MapPage(Head(todo), write, user)
    /\ UNCHANGED <<inputVars, ram, heap_used, user_rsp>>

LoopDone(ph) == phase = ph /\ todo = <<>>

(* init_heap.                                                                *)
MapHeapPage == MapNext("heap", TRUE, FALSE)

HeapReady ==
    /\ LoopDone("heap")
    /\ EnterSegment(1)
    /\ UNCHANGED <<inputVars, pagingVars, ram, heap_used, user_rsp>>

(* load_segment: every page is mapped writable first.                        *)
MapSegmentPage == MapNext("segment", TRUE, TRUE)

(* Memory at `addr`, through the page table.                                 *)
Cell(addr) == <<pt[PageOf(addr)].frame, addr % PageSize>>

(* write_bytes over mem_size, then copy_nonoverlapping of file_size.         *)
Loaded(s, addr) ==
    IF addr < s.vaddr + s.filesz THEN FileByte(s.offset + addr - s.vaddr) ELSE ZERO

CopySegment ==
    /\ LoopDone("segment")
    /\ LET s       == image[item]
           addrs   == s.vaddr .. s.vaddr + s.memsz - 1
           written == {Cell(a) : a \in addrs}
       IN  /\ ram' = [c \in DOMAIN ram \cup written |->
                         IF c \in written
                         THEN Loaded(s, CHOOSE a \in addrs : Cell(a) = c)
                         ELSE ram[c]]
           /\ IF s.write THEN EnterSegment(item + 1)
                         ELSE Enter("protect", item, SegmentPages(s))
    /\ UNCHANGED <<inputVars, pagingVars, heap_used, user_rsp>>

(* update_flags of one page of a read-only segment.                          *)
UpdateFlags_Forgotten(page) == UNCHANGED pt
UpdateFlags(page) == pt' = [pt EXCEPT ![page].write = FALSE]

ProtectPage ==
    /\ phase = "protect"
    /\ todo # <<>>
    /\ UpdateFlags(Head(todo))
    /\ todo' = Tail(todo)
    /\ UNCHANGED <<inputVars, phase, item, next, tables, ram, heap_used, user_rsp>>

SegmentDone ==
    /\ LoopDone("protect")
    /\ EnterSegment(item + 1)
    /\ UNCHANGED <<inputVars, pagingVars, ram, heap_used, user_rsp>>

(* setup_user_stack.                                                         *)
MapStackPage == MapNext("stack", TRUE, TRUE)

(* An allocation that the heap cannot serve is a panic; nothing is freed.    *)
Allocate(size) == heap_used' = heap_used + size
HeapFull(size) == heap_used + size > HeapSize

KStackSize_Double == 2 * UserKStack
KStackSize == UserKStack

(* create_user_process: leak a kernel stack, start at the stack's top.       *)
CreateUserProcess ==
    /\ LoopDone("stack")
    /\ IF HeapFull(KStackSize + SmallObjects)
       THEN Panic /\ UNCHANGED <<heap_used, user_rsp>>
       ELSE /\ Allocate(KStackSize + SmallObjects)
            /\ user_rsp' = Append(user_rsp, (StackStart[item] + StackPages) * PageSize)
            /\ IF item < NumProcs THEN Enter("stack", item + 1, StackRange(item + 1))
                                  ELSE Enter("spawn", item, <<>>)
    /\ UNCHANGED <<inputVars, pagingVars, ram>>

(* TASK_LIST.push, Task::new and executor.spawn; interrupts come next.       *)
SpawnKernelTask ==
    /\ phase = "spawn"
    /\ IF HeapFull(TaskKStack + SmallObjects)
       THEN Panic /\ UNCHANGED heap_used
       ELSE /\ Allocate(TaskKStack + SmallObjects)
            /\ Enter("running", item, <<>>)
    /\ UNCHANGED <<inputVars, pagingVars, ram, user_rsp>>

(* The pages accessible in ring 3.  schedule_next never loads CR3, so these  *)
(* are the same for every process: the one page table init_mapper found.     *)
Reach == {page \in DOMAIN pt : pt[page].user}

MemNext ==
    \/ MapHeapPage \/ HeapReady
    \/ MapSegmentPage \/ CopySegment \/ ProtectPage \/ SegmentDone
    \/ MapStackPage \/ CreateUserProcess
    \/ SpawnKernelTask

(* The CPU executes kernel_main: nothing else is running yet.                *)
MemSpec == MemInit /\ [][MemNext]_memVars /\ WF_memVars(MemNext)

--------------------------------------------------------------------------------
(* Type invariant of the allocator and of the address space.                 *)
MemTypeOK ==
    /\ phase \in {"heap", "segment", "protect", "stack", "spawn", "running", "panic"}
    /\ todo \in Seq(Nat)
    /\ next \in 0 .. Len(UsableFrames)
    /\ \A page \in DOMAIN pt : pt[page] \in [frame : Nat, write : BOOLEAN, user : BOOLEAN]
    /\ heap_used \in 0 .. HeapSize
    /\ user_rsp \in Seq(Nat)

(* Every physical frame has one use: no two pages, no two page tables and    *)
(* no page and page table share one, although allocate_frame is called by    *)
(* the mapping loops and, in between, by map_to itself.                      *)
FramesExclusive ==
    /\ \A p, q \in DOMAIN pt : pt[p].frame = pt[q].frame => p = q
    /\ \A s, t \in DOMAIN tables : tables[s] = tables[t] => s = t
    /\ \A p \in DOMAIN pt, t \in DOMAIN tables : pt[p].frame # tables[t]

(* The frame lies wholly, or at least in part, in a region the boot loader   *)
(* reported as usable.                                                       *)
InUsableRegion(f) ==
    \E r \in Range(regions) :
        r.usable /\ r.start <= f * PageSize /\ (f + 1) * PageSize <= r.end
PartlyUsable(f) ==
    \E r \in Range(regions) : \E a \in f * PageSize .. (f + 1) * PageSize - 1 :
        r.usable /\ r.start <= a /\ a < r.end

(* The usable regions begin and end at page boundaries, which is up to the   *)
(* firmware: the BIOS may report one that ends at 0x9fc00.                   *)
WholePages ==
    \A r \in Range(regions) :
        r.usable => r.start % PageSize = 0 /\ r.end % PageSize = 0

(* The comment in usable_frames asks for frames that "avoid the boot loader, *)
(* reserved areas".  The list meets that if the usable regions consist of    *)
(* whole pages.  If they do not, step_by(4096) also takes the page in which  *)
(* a region begins or ends, part of which is reserved.                       *)
Acceptable(f) == PartlyUsable(f) /\ (WholePages => InUsableRegion(f))

(* usable_frames, of which allocate_frame takes the next-th, for regions     *)
(* that may begin and end anywhere: every whole frame of a usable region is  *)
(* in the list, no frame is in it twice, and none without a usable address.  *)
FramesListed ==
    LET frames == UsableFrames
    IN  /\ frames \in Seq(Nat)
        /\ \A j, k \in DOMAIN frames : frames[j] = frames[k] => j = k
        /\ \A k \in DOMAIN frames : Acceptable(frames[k])
        /\ \A r \in Range(regions) : r.usable =>
              PageOf(r.start + PageSize - 1) .. PageOf(r.end) - 1 \subseteq Range(frames)

(* Every frame in use, for a page or for a page table, has usable addresses, *)
(* and only such if the usable regions consist of whole pages.               *)
FramesUsable ==
    \A f \in {pt[p].frame : p \in DOMAIN pt} \cup Range(tables) : Acceptable(f)

(* What the processes find when they start: through the page table, every    *)
(* segment shows the bytes of the file followed by zeros, on pages ring 3    *)
(* can read and can write only if the segment says so.                       *)
ImageLoaded ==
    phase = "running" =>
        \A i \in DOMAIN image :
            LET s == image[i]
            IN  \A k \in 0 .. s.memsz - 1 :
                    LET entry == pt[PageOf(s.vaddr + k)]
                        cell  == <<entry.frame, (s.vaddr + k) % PageSize>>
                    IN  /\ ram[cell] = IF k < s.filesz THEN FileByte(s.offset + k) ELSE ZERO
                        /\ entry.user
                        /\ entry.write = s.write

(* A process can use all of its stack from the pointer it starts with down,  *)
(* and nothing of the kernel's heap.                                         *)
StacksUsable ==
    phase = "running" =>
        \A p \in 1 .. NumProcs :
            /\ \A addr \in user_rsp[p] - StackPages * PageSize .. user_rsp[p] - 1 :
                  PageOf(addr) \in Reach /\ pt[PageOf(addr)].write
            /\ Range(HeapPages) \cap Reach = {}

(* Pages kernel_main needs for the heap, each segment and each stack.        *)
Covering(start, size) == {PageOf(addr) : addr \in start .. start + size - 1}
Demands ==
    <<Covering(HeapStart * PageSize, HeapSize)>>
    \o [i \in DOMAIN image |-> Covering(image[i].vaddr, image[i].memsz)]
    \o [p \in 1 .. NumProcs |-> Covering(StackStart[p] * PageSize, StackPages * PageSize)]

(* The boot can succeed: no page is needed twice, and there is a frame for   *)
(* every page and every page table.  Nothing is asked of the kernel heap.    *)
Fits ==
    LET pages == UNION Range(Demands)
        paths == (UNION {Path(p) : p \in pages}) \ BootTables
    IN  /\ \A i, j \in DOMAIN Demands : i # j => Demands[i] \cap Demands[j] = {}
        /\ Cardinality(pages) + Cardinality(paths) <= Len(UsableFrames)

(* kernel_main comes to its last step only if everything it mapped fits, and *)
(* panics (map_to's expect, allocate_frame's, the allocator's) only if it    *)
(* does not: no frame is lost on the way, and none is counted twice.         *)
BootVerdict == /\ phase = "running" => Fits
               /\ phase = "panic" => ~Fits

(* kernel_main reaches its last step whenever the machine has the frames and *)
(* the image no overlapping pages, and panics otherwise: 100 KiB of heap     *)
(* hold the kernel stacks of two processes and of the kernel task.           *)
BootOutcome == <>[](phase = IF Fits THEN "running" ELSE "panic")
================================================================================
