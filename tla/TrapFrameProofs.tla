---------------------------- MODULE TrapFrameProofs ----------------------------
(***************************************************************************)
(* Proofs about module TrapFrame, for any number of processes.             *)
(*                                                                         *)
(* The inductive invariant TrapInv says of the process on the CPU where it *)
(* is in its program or in the kernel and what its registers and its three *)
(* stacks then hold (Context), and of every other process that the frame   *)
(* kernel_rsp points at is on top of one of its own stacks and would bring *)
(* back such a context (Parked).  A trap turns a context into a frame      *)
(* (TrapParks), iretq turns a frame back into a context (ParkedResumes),   *)
(* and neither touches the stacks of a third process (ParkedStays).        *)
(***************************************************************************)
EXTENDS TrapFrame, SequenceTheorems, TLAPS

(* The words of the machine, the stacks and what lies on process p's.        *)
Names == Reg \cup {"", "user", "kernel", "boot", "hlt", "ret", "exit"}
Words == {"zero", "junk", "flags", "sel", "own", "result", "ip", "ptr"} \X Nat \X Names \X Nat
Kinds == {"kernel", "user", "boot"}
Stacks == Kinds \X Idx
StacksOf(p, m) == [k \in Kinds |-> m[<<k, p>>]]
(* Memory m with the words P on p's stack s.                                 *)
With(m, s, p, P) == [m EXCEPT ![<<s, p>>] = P]
SameStacks(p, m, mm) == \A k \in Kinds : mm[<<k, p>>] = m[<<k, p>>]
NoWords == [k \in Kinds |-> <<>>]
Refill(M, s, P) == [M EXCEPT ![s] = P]
Only(s, P) == Refill(NoWords, s, P)

(* What syscall_entry has to bring back in register r, and where it keeps it.*)
SysVal(p, r) ==
    IF r = "rcx" THEN Ip(p, "user", 2) ELSE IF r = "r11" THEN Flags ELSE Own(p, r)
Saved(p) == [i \in 1 .. 14 |-> SysVal(p, SyscallPush[i])]

(* The registers of a process before its first instruction, where it has     *)
(* filled them, and after a syscall.                                         *)
UserVal(p, k, r) ==
    IF k = 0 THEN Zero
    ELSE IF k = 1 THEN Own(p, r)
    ELSE IF r = "rax" THEN Result(p) ELSE SysVal(p, r)

(* What process p is when it is not in a handler: its instruction and stack  *)
(* pointers, its registers and the words on its stacks.  In ring 3:          *)
InUser(p, ip, sp, file, M) ==
    \E k \in 0 .. 2 :
        /\ ip = Ip(p, "user", k)
        /\ sp = Ptr(p, "user", 0)
        /\ M = NoWords
        /\ \A r \in Reg : file[r] = UserVal(p, k, r)

(* in SYS_YIELD, at its HLT or behind it;                                    *)
InCall(p, ip, sp, file, M) ==
    /\ ip \in {Ip(p, "hlt", 0), Ip(p, "ret", 0)}
    /\ sp = Ptr(p, "user", 15)
    /\ M = Only("user", Append(Saved(p), Ip(p, "exit", 1)))
    /\ file["rax"] = Result(p)

(* behind k - 1 of the pops of syscall_entry;                                *)
InExit(p, ip, sp, file, M) ==
    \E k \in 1 .. 15 :
        /\ ip = Ip(p, "exit", k)
        /\ sp = Ptr(p, "user", 15 - k)
        /\ M = Only("user", SubSeq(Saved(p), 1, 15 - k))
        /\ file["rax"] = Result(p)
        /\ \A i \in 1 .. k - 1 : file[SyscallPop[i]] = SysVal(p, SyscallPop[i])

(* in kernel_main, before `mov rsp` and behind k - 1 of its pops.            *)
InBoot(p, ip, sp, file, M) ==
    /\ p = 0
    /\ \/ /\ ip = Ip(0, "boot", 0)
          /\ sp = Ptr(0, "boot", 0)
          /\ M = Only("kernel", FirstFrame(0))
          /\ file["rax"] = Ptr(0, "kernel", 20)
       \/ \E k \in 1 .. 16 :
            /\ ip = Ip(0, "boot", k)
            /\ sp = Ptr(0, "kernel", 21 - k)
            /\ M = Only("kernel", SubSeq(FirstFrame(0), 1, 21 - k))
            /\ \A i \in 1 .. k - 1 : file[BootPop[i]] = Zero

Context(p, ip, sp, file, M) ==
    \/ InUser(p, ip, sp, file, M)
    \/ InCall(p, ip, sp, file, M)
    \/ InExit(p, ip, sp, file, M)
    \/ InBoot(p, ip, sp, file, M)

(* The selectors that belong to an instruction pointer.                      *)
CodeOf(ip) == Sel(IF ip[3] = "user" THEN UserCode ELSE KernelCode)
DataOf(ip) == Sel(IF ip[3] = "user" THEN UserData ELSE KernelData)

(* Where a trap pushes.                                                      *)
BaseOf(p, ip, sp) == IF CodeOf(ip)[4] % 4 = 3 THEN Ptr(p, "kernel", 0) ELSE sp

(* What handler_wrapper! and the CPU push.                                   *)
FrameOf(head, file) == head \o Gather(PushOrder, file)

(* A frame at ptr, on top of one of p's own stacks, from which iretq brings  *)
(* back a context of p.                                                      *)
Popped(m, ptr) == Scatter(PopOrder, [r \in Reg |-> Junk], m, ptr)
Parked(p, m, ptr) ==
    /\ \E s \in Kinds : ptr = Ptr(p, s, Len(m[<<s, p>>])) /\ Len(m[<<s, p>>]) >= 20
    /\ Context(p, Word(m, ptr, 15), Word(m, ptr, 18), Popped(m, ptr),
               StacksOf(p, Dropped(m, Down(ptr, -20))))
    /\ Word(m, ptr, 16) = CodeOf(Word(m, ptr, 15))
    /\ Word(m, ptr, 17) = Flags
    /\ Word(m, ptr, 19) = DataOf(Word(m, ptr, 15))

(* The inductive invariant.                                                  *)
TrapTypeOK ==
    /\ current \in Idx
    /\ regs \in [Reg -> Words]
    /\ mem \in [Stacks -> Seq(Words)]
    /\ kernel_rsp \in [Idx -> Words]
CurrentRuns ==
    /\ rsp0 = current
    /\ rflags = Flags
    /\ cs = CodeOf(rip)
    /\ ss = DataOf(rip)
    /\ Context(current, rip, rsp, regs, StacksOf(current, mem))
TrapInv ==
    /\ TrapTypeOK
    /\ CurrentRuns
    /\ \A p \in Idx \ {current} : Parked(p, mem, kernel_rsp[p])
    /\ ArgumentsArrive
--------------------------------------------------------------------------------
(* handler_wrapper! pushes each of the fifteen registers once ...            *)
LEMMA PushOrderFacts ==
    /\ PushOrder \in [1 .. 15 -> Reg] /\ Len(PushOrder) = 15
    /\ \A i, j \in 1 .. 15 : PushOrder[i] = PushOrder[j] => i = j
    /\ \A r \in Reg : \E i \in 1 .. 15 : PushOrder[i] = r
<1>1. DOMAIN PushOrder = 1 .. 15 /\ Len(PushOrder) = 15
  BY DEF PushOrder
<1>2. Reg = {PushOrder[i] : i \in 1 .. 15}
  BY <1>1 DEF Reg, Range
<1>3. \A i, j \in 1 .. 15 : PushOrder[i] = PushOrder[j] => i = j
  BY DEF PushOrder
<1>5. PushOrder \in [1 .. 15 -> Reg]
  BY <1>1, <1>2 DEF PushOrder
<1> QED
  BY <1>1, <1>2, <1>3, <1>5

(* ... and pops them, as kernel_main does, in the opposite order.            *)
LEMMA PopOrderFacts ==
    /\ DOMAIN PopOrder = 1 .. 15 /\ DOMAIN BootPop = 1 .. 15
    /\ Len(PopOrder) = 15 /\ Len(BootPop) = 15
    /\ \A i \in 1 .. 15 : PopOrder[i] = PushOrder[16 - i] /\ BootPop[i] = PushOrder[16 - i]
    /\ \A i, j \in 1 .. 15 : PopOrder[i] = PopOrder[j] => i = j
<1>1. DOMAIN PopOrder = 1 .. 15 /\ DOMAIN BootPop = 1 .. 15
      /\ Len(PopOrder) = 15 /\ Len(BootPop) = 15
  BY DEF PopOrder, BootPop
<1>2. \A i \in 1 .. 15 : PopOrder[i] = PushOrder[16 - i] /\ BootPop[i] = PushOrder[16 - i]
  BY DEF PopOrder, BootPop, PushOrder
<1>3. \A i, j \in 1 .. 15 : PopOrder[i] = PopOrder[j] => i = j
  BY DEF PopOrder
<1> QED
  BY <1>1, <1>2, <1>3

(* syscall_entry pushes every register but rax once, and pops them in the    *)
(* opposite order.                                                           *)
LEMMA SyscallOrderFacts ==
    /\ DOMAIN SyscallPush = 1 .. 14 /\ DOMAIN SyscallPop = 1 .. 14
    /\ Len(SyscallPush) = 14 /\ Len(SyscallPop) = 14
    /\ \A i \in 1 .. 14 : SyscallPop[i] = SyscallPush[15 - i]
    /\ \A i, j \in 1 .. 14 : SyscallPop[i] = SyscallPop[j] => i = j
    /\ \A r \in Reg : r # "rax" => \E i \in 1 .. 14 : SyscallPop[i] = r
    /\ \A i \in 1 .. 14 : SyscallPush[i] \in Reg /\ SyscallPush[i] # "rax"
    /\ {"rax", "rcx", "r11", "rdi", "rsi", "rdx"} \subseteq Reg
<1>1. DOMAIN SyscallPush = 1 .. 14 /\ DOMAIN SyscallPop = 1 .. 14
      /\ Len(SyscallPush) = 14 /\ Len(SyscallPop) = 14
  BY DEF SyscallPush, SyscallPop
<1>2. Reg = {"rax", "rbx", "rcx", "rdx", "rdi", "rsi", "rbp", "r8", "r9", "r10",
               "r11", "r12", "r13", "r14", "r15"}
  BY DEF Reg, Range, PushOrder
<1>3. \A i \in 1 .. 14 : SyscallPop[i] = SyscallPush[15 - i]
  BY DEF SyscallPush, SyscallPop
<1>4. \A i, j \in 1 .. 14 : SyscallPop[i] = SyscallPop[j] => i = j
  BY DEF SyscallPop
<1>5. \A i \in 1 .. 14 : SyscallPush[i] \in Reg /\ SyscallPush[i] # "rax"
  BY <1>2 DEF SyscallPush
<1>6. \A r \in Reg : r # "rax" => \E i \in 1 .. 14 : SyscallPop[i] = r
  BY <1>2 DEF SyscallPop
<1> QED
  BY <1>1, <1>2, <1>3, <1>4, <1>5, <1>6

(* The place of the k-th member of a sequence without repetitions is k.      *)
LEMMA PositionFacts ==
    ASSUME NEW order, NEW n \in Nat, DOMAIN order = 1 .. n,
           \A i, j \in 1 .. n : order[i] = order[j] => i = j, NEW k \in 1 .. n
    PROVE  Position(order, order[k]) = k
BY DEF Position

(* The selectors that the order of the GDT entries gives.                    *)
LEMMA Selectors ==
    KernelCode = 8 /\ KernelData = 16 /\ UserData = 43 /\ UserCode = 51 /\ StarBase = 35
<1>1. DOMAIN Gdt = 1 .. 7
  BY DEF Gdt
<1>2. /\ Position(Gdt, "kernel_code") = 2
      /\ Position(Gdt, "kernel_data") = 3
      /\ Position(Gdt, "user_data") = 6
      /\ Position(Gdt, "user_code") = 7
  BY <1>1 DEF Position, Gdt
<1> QED
  BY <1>2 DEF Selector, KernelCode, KernelData, UserData, UserCode, StarBase

(* Moving a pointer stays on its stack.                                      *)
LEMMA Pointers ==
    ASSUME NEW p, NEW s, NEW d \in Int, NEW n \in Int
    PROVE  /\ Down(Ptr(p, s, d), n) = Ptr(p, s, d + n)
           /\ StackOf(Ptr(p, s, d)) = <<s, p>>
           /\ [Ip(p, s, d) EXCEPT ![4] = n] = Ip(p, s, n)
BY DEF Down, Ptr, StackOf, Ip

(* The stack pointer at the top of a stack: what is pushed there, and taken  *)
(* off again.                                                                *)
LEMMA PushedWords ==
    ASSUME NEW m \in [Stacks -> Seq(Words)], NEW s \in Kinds, NEW p \in Idx,
           NEW words \in Seq(Words)
    PROVE  LET P  == m[<<s, p>>]
               mm == Pushed(m, Ptr(p, s, Len(P)), words)
           IN  mm = With(m, s, p, P \o words)
<1> DEFINE P == m[<<s, p>>]
<1>1. P \in Seq(Words) /\ Len(P) \in Nat /\ <<s, p>> \in Stacks
  BY DEF Stacks
<1>2. SubSeq(P, 1, Len(P)) = P
  BY <1>1, SubSeqFull
<1>3. StackOf(Ptr(p, s, Len(P))) = <<s, p>> /\ Ptr(p, s, Len(P))[4] = Len(P)
  BY DEF StackOf, Ptr
<1> QED
  BY <1>2, <1>3 DEF Pushed, With

(* The words on top of a stack are read from its stack pointer upwards.      *)
LEMMA TopWords ==
    ASSUME NEW m \in [Stacks -> Seq(Words)], NEW s \in Kinds, NEW p \in Idx,
           NEW P \in Seq(Words), NEW words \in Seq(Words), m[<<s, p>>] = P \o words,
           NEW k \in 1 .. Len(words), NEW n \in 0 .. k - 1
    PROVE  Word(m, Ptr(p, s, Len(P) + k), n) = words[k - n]
<1>1. Len(P) \in Nat /\ Len(words) \in Nat /\ Len(P \o words) = Len(P) + Len(words)
      /\ DOMAIN (P \o words) = 1 .. Len(P) + Len(words)
  OBVIOUS
<1>2. (P \o words)[Len(P) + k - n] = words[k - n]
  BY <1>1
<1> DEFINE ptr == Ptr(p, s, Len(P) + k)
<1>3. StackOf(ptr) = <<s, p>> /\ ptr[4] = Len(P) + k
  BY DEF StackOf, Ptr
<1> HIDE DEF ptr
<1>4. Len(P) + k - n \in DOMAIN (P \o words)
  BY <1>1
<1>5. m[StackOf(ptr)] = P \o words
  BY <1>3, Zenon
<1>7. ptr[4] - n = Len(P) + k - n
  <2>1. ASSUME NEW a PROVE a = Len(P) + k => a - n = Len(P) + k - n
    OBVIOUS
  <2> QED
    BY <1>3, <2>1, Zenon
<1>6. Word(m, ptr, n) = (P \o words)[Len(P) + k - n]
  BY <1>4, <1>5, <1>7, Zenon DEF Word
<1> QED
  BY <1>2, <1>6 DEF ptr

(* What lay below the words pushed.                                          *)
LEMMA PrefixOfConcat ==
    ASSUME NEW P \in Seq(Words), NEW words \in Seq(Words)
    PROVE  SubSeq(P \o words, 1, Len(P)) = P
BY SubSeqOfConcat1, SubSeqFull

(* Popping down to P.                                                        *)
LEMMA DroppedWords ==
    ASSUME NEW m, NEW s, NEW p, NEW P, SubSeq(m[<<s, p>>], 1, Len(P)) = P
    PROVE  Dropped(m, Ptr(p, s, Len(P))) = With(m, s, p, P)
<1>1. StackOf(Ptr(p, s, Len(P))) = <<s, p>> /\ Ptr(p, s, Len(P))[4] = Len(P)
  BY DEF StackOf, Ptr
<1> QED
  BY <1>1 DEF Dropped, With

--------------------------------------------------------------------------------
(* The words of the model are words.                                         *)
LEMMA WordTypes ==
    /\ Zero \in Words /\ Junk \in Words /\ Flags \in Words
    /\ \A n \in Nat : Sel(n) \in Words
    /\ \A p \in Idx : /\ \A r \in Reg : Own(p, r) \in Words
                      /\ Result(p) \in Words
                      /\ \A k \in Nat : \A n \in {"user", "boot", "hlt", "ret", "exit"} : Ip(p, n, k) \in Words
                      /\ \A k \in Nat : \A s \in Kinds : Ptr(p, s, k) \in Words
<1>1. Idx \subseteq Nat
  BY TrapFrameAssumption DEF Idx
<1> QED
  BY <1>1 DEF Zero, Junk, Flags, Sel, Own, Result, Ip, Ptr, Words, Names, Kinds

(* The parts of a word.                                                      *)
LEMMA WordParts ==
    ASSUME NEW p, NEW s, NEW k
    PROVE  /\ Ip(p, s, k)[2] = p /\ Ip(p, s, k)[3] = s /\ Ip(p, s, k)[4] = k
           /\ Ptr(p, s, k)[2] = p /\ Ptr(p, s, k)[3] = s /\ Ptr(p, s, k)[4] = k
           /\ Sel(k)[4] = k
BY DEF Ip, Ptr, Sel

(* What is read from typed memory is a word.                                 *)
LEMMA WordType ==
    ASSUME NEW m \in [Stacks -> Seq(Words)], NEW ptr, StackOf(ptr) \in Stacks, NEW n
    PROVE  Word(m, ptr, n) \in Words
<1>1. m[StackOf(ptr)] \in Seq(Words)
  OBVIOUS
<1>2. \A i \in DOMAIN m[StackOf(ptr)] : m[StackOf(ptr)][i] \in Words
  BY <1>1
<1> QED
  BY <1>2, WordTypes, Zenon DEF Word

(* Two sequences one behind the other.                                       *)
LEMMA ConcatParts ==
    ASSUME NEW H \in Seq(Words), NEW G \in Seq(Words)
    PROVE  /\ H \o G \in Seq(Words)
           /\ Len(H) \in Nat /\ Len(G) \in Nat /\ Len(H \o G) = Len(H) + Len(G)
           /\ \A i \in 1 .. Len(H) : (H \o G)[i] = H[i]
           /\ \A i \in 1 .. Len(G) : (H \o G)[Len(H) + i] = G[i]
OBVIOUS

(* The frame of handler_wrapper!: 5 words of the CPU, 15 registers.          *)
LEMMA FrameWords ==
    ASSUME NEW H \in Seq(Words), Len(H) = 5, NEW file \in [Reg -> Words]
    PROVE  LET Z == FrameOf(H, file)
           IN  /\ Z \in Seq(Words) /\ Len(Z) = 20
               /\ \A i \in 1 .. 5 : Z[i] = H[i]
               /\ \A i \in 1 .. 15 : Z[5 + i] = file[PushOrder[i]]
<1> DEFINE G == Gather(PushOrder, file)
           Z == FrameOf(H, file)
<1>2. /\ DOMAIN PushOrder = 1 .. 15
      /\ \A i \in 1 .. 15 : PushOrder[i] \in Reg
  BY PushOrderFacts
<1>3. /\ G = [i \in 1 .. 15 |-> file[PushOrder[i]]]
      /\ G \in [1 .. 15 -> Words]
  BY <1>2 DEF Gather
<1>4. G \in Seq(Words) /\ Len(G) = 15
  BY <1>3
<1>6. \A i \in 1 .. 15 : G[i] = file[PushOrder[i]]
  BY <1>3
<1>z. Z = H \o G
  BY DEF FrameOf
<1> HIDE DEF G, Z
<1>7. /\ Z \in Seq(Words) /\ Len(Z) = 20
      /\ \A i \in 1 .. 5 : Z[i] = H[i]
      /\ \A i \in 1 .. 15 : Z[5 + i] = G[i]
  <2>1. /\ Z \in Seq(Words) /\ Len(Z) = Len(H) + Len(G)
        /\ \A i \in 1 .. Len(H) : Z[i] = H[i]
        /\ \A i \in 1 .. Len(G) : Z[Len(H) + i] = G[i]
    BY <1>4, <1>z, ConcatParts, ZenonT(60)
  <2>2. 5 + 15 = 20
    OBVIOUS
  <2> QED
    BY <1>4, <2>1, <2>2, Zenon
<1>9. \A i \in 1 .. 15 : Z[5 + i] = file[PushOrder[i]]
  BY <1>6, <1>7, Zenon
<1> QED
  BY <1>7, <1>9, Zenon DEF Z

(* What handler_wrapper! pops from such a frame Z on top of a stack, and     *)
(* what is left on the stack.                                                *)
LEMMA FramePopped ==
    ASSUME NEW m \in [Stacks -> Seq(Words)], NEW s \in Kinds, NEW p \in Idx,
           NEW P \in Seq(Words), NEW Z \in Seq(Words), Len(Z) = 20, m[<<s, p>>] = P \o Z,
           NEW file \in [Reg -> Words],
           \A i \in 1 .. 15 : Z[5 + i] = file[PushOrder[i]]
    PROVE  LET ptr == Ptr(p, s, Len(P) + 20)
           IN  /\ Len(P) \in Nat /\ Len(m[<<s, p>>]) = Len(P) + 20
               /\ Word(m, ptr, 15) = Z[5] /\ Word(m, ptr, 16) = Z[4] /\ Word(m, ptr, 17) = Z[3]
               /\ Word(m, ptr, 18) = Z[2] /\ Word(m, ptr, 19) = Z[1]
               /\ \A old : Scatter(PopOrder, old, m, ptr) = file
               /\ Dropped(m, Down(ptr, -20)) = With(m, s, p, P)
<1> DEFINE ptr == Ptr(p, s, Len(P) + 20)
<1>3. \A n \in 0 .. 19 : Word(m, ptr, n) = Z[20 - n]
  <2> SUFFICES ASSUME NEW n \in 0 .. 19 PROVE Word(m, ptr, n) = Z[20 - n]
    OBVIOUS
  <2>1. 20 \in 1 .. Len(Z) /\ n \in 0 .. 20 - 1
    OBVIOUS
  <2> QED
    BY <2>1, TopWords, ZenonT(60)
<1>4. Len(P) \in Nat /\ Len(P \o Z) = Len(P) + 20
  <2>1. Len(P) \in Nat /\ Len(P \o Z) = Len(P) + Len(Z)
    BY ConcatParts, Zenon
  <2> QED
    BY <2>1, Zenon
<1>5. Dropped(m, Down(ptr, -20)) = With(m, s, p, P)
  <2>1. Down(ptr, -20) = Ptr(p, s, Len(P) + 20 + -20)
    BY <1>4, Pointers
  <2>2. Down(ptr, -20) = Ptr(p, s, Len(P))
    BY <1>4, <2>1
  <2>3. Dropped(m, Ptr(p, s, Len(P))) = With(m, s, p, P)
    <3>1. SubSeq(m[<<s, p>>], 1, Len(P)) = P
      BY PrefixOfConcat, Zenon
    <3> QED
      BY <3>1, DroppedWords, Zenon
  <2> QED
    BY <2>2, <2>3, Zenon
<1>6. ASSUME NEW old PROVE Scatter(PopOrder, old, m, ptr) = file
  <2>1. ASSUME NEW r \in Reg
        PROVE  r \in Range(PopOrder) /\ Word(m, ptr, Position(PopOrder, r) - 1) = file[r]
    <3>1. PICK i \in 1 .. 15 : PushOrder[i] = r
      BY PushOrderFacts
    <3>2. PopOrder[16 - i] = r /\ 16 - i \in 1 .. 15
      <4>1. 16 - i \in 1 .. 15 /\ 16 - (16 - i) = i
        OBVIOUS
      <4>2. PopOrder[16 - i] = PushOrder[16 - (16 - i)]
        BY <4>1, PopOrderFacts, Zenon
      <4> QED
        BY <3>1, <4>1, <4>2, Zenon
    <3>4. Position(PopOrder, r) = 16 - i
      BY <3>2, PopOrderFacts, PositionFacts
    <3>5. Word(m, ptr, 15 - i) = Z[5 + i]
      <4>1. 15 - i \in 0 .. 19 /\ 20 - (15 - i) = 5 + i
        OBVIOUS
      <4> QED
        BY <1>3, <4>1
    <3>6. Z[5 + i] = file[r]
      BY <3>1
    <3>7. (16 - i) - 1 = 15 - i
      OBVIOUS
    <3>8. r \in Range(PopOrder)
      BY <3>2, PopOrderFacts DEF Range
    <3> QED
      BY <3>4, <3>5, <3>6, <3>7, <3>8
  <2> QED
    BY <2>1, Zenon DEF Scatter
<1>7. /\ Word(m, ptr, 15) = Z[5] /\ Word(m, ptr, 16) = Z[4] /\ Word(m, ptr, 17) = Z[3]
      /\ Word(m, ptr, 18) = Z[2] /\ Word(m, ptr, 19) = Z[1]
  BY <1>3
<1> QED
  BY <1>4, <1>5, <1>6, <1>7

--------------------------------------------------------------------------------
(* A stack filled anew.                                                      *)
LEMMA WithFacts ==
    ASSUME NEW m \in [Stacks -> Seq(Words)], NEW s \in Kinds, NEW p \in Idx,
           NEW P \in Seq(Words)
    PROVE  /\ With(m, s, p, P) \in [Stacks -> Seq(Words)]
           /\ With(m, s, p, P)[<<s, p>>] = P
<1>1. <<s, p>> \in Stacks
  BY DEF Stacks
<1> QED
  BY <1>1 DEF With

(* The other stacks are left alone.                                          *)
LEMMA WithOthers ==
    ASSUME NEW m \in [Stacks -> Seq(Words)], NEW s \in Kinds, NEW p \in Idx,
           NEW P \in Seq(Words)
    PROVE  \A t \in Stacks : t # <<s, p>> => With(m, s, p, P)[t] = m[t]
<1>1. <<s, p>> \in Stacks
  BY DEF Stacks
<1> QED
  BY <1>1 DEF With

(* What the processes see of it, and the stack emptied again.                *)
LEMMA WithStacks ==
    ASSUME NEW m \in [Stacks -> Seq(Words)], NEW s \in Kinds, NEW p \in Idx,
           NEW P \in Seq(Words)
    PROVE  /\ StacksOf(p, With(m, s, p, P)) = Refill(StacksOf(p, m), s, P)
           /\ With(With(m, s, p, P), s, p, m[<<s, p>>]) = m
<1>1. <<s, p>> \in Stacks
  BY DEF Stacks
<1> DEFINE W == With(m, s, p, P)
<1>2. With(W, s, p, m[<<s, p>>]) = m
  BY <1>1 DEF With
<1> HIDE DEF W
<1>3. W[<<s, p>>] = P /\ \A k \in Kinds : k # s => W[<<k, p>>] = m[<<k, p>>]
  <2>1. W[<<s, p>>] = P /\ \A t \in Stacks : t # <<s, p>> => W[t] = m[t]
    BY WithFacts, WithOthers, ZenonT(60) DEF W
  <2>2. \A k \in Kinds : <<k, p>> \in Stacks
    BY DEF Stacks
  <2> QED
    BY <2>1, <2>2
<1>4. StacksOf(p, W) = Refill(StacksOf(p, m), s, P)
  BY <1>3 DEF StacksOf, Refill
<1> QED
  BY <1>2, <1>4 DEF W

(* A function on 1 .. n is a sequence.                                       *)
LEMMA FunctionIsSeq ==
    ASSUME NEW n \in Nat, NEW f \in [1 .. n -> Words]
    PROVE  f \in Seq(Words) /\ Len(f) = n
OBVIOUS

(* The words syscall_entry has pushed.                                       *)
LEMMA SavedFacts ==
    ASSUME NEW p \in Idx
    PROVE  /\ Saved(p) \in Seq(Words) /\ Len(Saved(p)) = 14
           /\ \A i \in 1 .. 14 : Saved(p)[i] = SysVal(p, SyscallPush[i])
           /\ \A r \in Reg : SysVal(p, r) \in Words
<1>1. ASSUME NEW r \in Reg PROVE SysVal(p, r) \in Words
  BY WordTypes DEF SysVal
<1>2. \A i \in 1 .. 14 : SysVal(p, SyscallPush[i]) \in Words
  BY <1>1, SyscallOrderFacts
<1>3. Saved(p) \in [1 .. 14 -> Words]
  BY <1>2, Zenon DEF Saved
<1>4. Saved(p) \in Seq(Words) /\ Len(Saved(p)) = 14
  <2>1. 14 \in Nat
    OBVIOUS
  <2> QED
    BY <1>3, <2>1, FunctionIsSeq, Zenon
<1> QED
  BY <1>1, <1>4 DEF Saved

(* The frame create_user_process prepares.                                   *)
LEMMA FirstFrameFacts ==
    ASSUME NEW p \in Idx
    PROVE  /\ FirstFrame(p) \in Seq(Words) /\ Len(FirstFrame(p)) = 20
           /\ FirstFrame(p)[1] = Sel(UserData) /\ FirstFrame(p)[2] = Ptr(p, "user", 0)
           /\ FirstFrame(p)[3] = Flags /\ FirstFrame(p)[4] = Sel(UserCode)
           /\ FirstFrame(p)[5] = Ip(p, "user", 0)
           /\ \A i \in 1 .. 15 : FirstFrame(p)[5 + i] = Zero
<1> DEFINE file == [r \in Reg |-> Zero]
<1>1. file \in [Reg -> Words]
  BY WordTypes, Zenon
<1>2. Gather(PushOrder, file) = [i \in 1 .. 15 |-> Zero]
  <2>1. DOMAIN PushOrder = 1 .. 15 /\ \A i \in 1 .. 15 : PushOrder[i] \in Reg
    BY PushOrderFacts
  <2> QED
    BY <2>1, Zenon DEF Gather
<1>3. /\ Sel(UserData) \in Words /\ Sel(UserCode) \in Words
      /\ Ptr(p, "user", 0) \in Words /\ Ip(p, "user", 0) \in Words /\ Flags \in Words
  BY WordTypes, Selectors DEF Kinds
<1>4. \A i \in 1 .. 15 : file[PushOrder[i]] = Zero
  BY PushOrderFacts
<1> HIDE DEF file
<1> DEFINE H == <<Sel(UserData), Ptr(p, "user", 0), Flags, Sel(UserCode), Ip(p, "user", 0)>>
           Z == FrameOf(H, file)
<1>5. FirstFrame(p) = Z
  BY <1>2, Zenon DEF FirstFrame, FrameOf
<1>6. /\ H \in Seq(Words) /\ Len(H) = 5
      /\ H[1] = Sel(UserData) /\ H[2] = Ptr(p, "user", 0) /\ H[3] = Flags
      /\ H[4] = Sel(UserCode) /\ H[5] = Ip(p, "user", 0)
  BY <1>3
<1> HIDE DEF H
<1>7. /\ Z \in Seq(Words) /\ Len(Z) = 20
      /\ \A i \in 1 .. 5 : Z[i] = H[i]
      /\ \A i \in 1 .. 15 : Z[5 + i] = file[PushOrder[i]]
  BY <1>1, <1>6, FrameWords, Zenon
<1> HIDE DEF Z
<1>8. Z[1] = H[1] /\ Z[2] = H[2] /\ Z[3] = H[3] /\ Z[4] = H[4] /\ Z[5] = H[5]
  BY <1>7
<1> QED
  BY <1>4, <1>5, <1>6, <1>7, <1>8, Zenon

(* A prefix of a sequence.                                                   *)
LEMMA PrefixFacts ==
    ASSUME NEW Z \in Seq(Words), NEW n \in 0 .. Len(Z)
    PROVE  /\ SubSeq(Z, 1, n) \in Seq(Words) /\ Len(SubSeq(Z, 1, n)) = n
           /\ \A i \in 1 .. n : SubSeq(Z, 1, n)[i] = Z[i]
           /\ \A k \in 0 .. n : SubSeq(SubSeq(Z, 1, n), 1, k) = SubSeq(Z, 1, k)
<1>1. SubSeq(Z, 1, n) \in Seq(Words) /\ Len(SubSeq(Z, 1, n)) = n
      /\ \A i \in 1 .. n : SubSeq(Z, 1, n)[i] = Z[i]
  BY SubSeqProperties
<1>2. \A k \in 0 .. n : SubSeq(SubSeq(Z, 1, n), 1, k) = SubSeq(Z, 1, k)
  OBVIOUS
<1> QED
  BY <1>1, <1>2

(* A sequence with a word behind it.                                         *)
LEMMA AppendFacts ==
    ASSUME NEW S \in Seq(Words), NEW x \in Words
    PROVE  /\ Append(S, x) \in Seq(Words)
           /\ Len(S) \in Nat /\ Len(Append(S, x)) = Len(S) + 1
           /\ Append(S, x)[Len(S) + 1] = x
           /\ SubSeq(Append(S, x), 1, Len(S)) = S /\ SubSeq(S, 1, Len(S)) = S
<1>1. /\ Append(S, x) \in Seq(Words)
      /\ Len(S) \in Nat /\ Len(Append(S, x)) = Len(S) + 1
      /\ Append(S, x)[Len(S) + 1] = x
  BY AppendProperties
<1>2. SubSeq(S, 1, Len(S)) = S
  BY SubSeqFull
<1>3. Append(S, x) = S \o <<x>> /\ <<x>> \in Seq(Words)
  BY AppendIsConcat
<1> QED
  BY <1>1, <1>2, <1>3, PrefixOfConcat, Zenon

(* Stacks of which at most one has words on it.                              *)
LEMMA OnlyFacts ==
    ASSUME NEW s \in Kinds, NEW P
    PROVE  /\ Only(s, P)[s] = P
           /\ \A k \in Kinds : k # s => Only(s, P)[k] = <<>>
           /\ Only(s, <<>>) = NoWords
BY DEF Only, Refill, NoWords

(* The words pushed for a syscall that halts, with the return address.       *)
LEMMA CallFacts ==
    ASSUME NEW p \in Idx
    PROVE  LET Z == Append(Saved(p), Ip(p, "exit", 1))
           IN  /\ Z \in Seq(Words) /\ Len(Z) = 15 /\ Z[15] = Ip(p, "exit", 1)
               /\ SubSeq(Z, 1, 14) = Saved(p) /\ SubSeq(Saved(p), 1, 14) = Saved(p)
<1>1. Saved(p) \in Seq(Words) /\ Len(Saved(p)) = 14
  BY SavedFacts
<1>2. Ip(p, "exit", 1) \in Words
  BY WordTypes
<1>3. 14 + 1 = 15
  OBVIOUS
<1> DEFINE Z == Append(Saved(p), Ip(p, "exit", 1))
<1>4. /\ Z \in Seq(Words) /\ Len(Z) = Len(Saved(p)) + 1 /\ Z[Len(Saved(p)) + 1] = Ip(p, "exit", 1)
      /\ SubSeq(Z, 1, Len(Saved(p))) = Saved(p) /\ SubSeq(Saved(p), 1, Len(Saved(p))) = Saved(p)
  BY <1>1, <1>2, AppendFacts, Zenon
<1> HIDE DEF Z
<1>5. /\ Z \in Seq(Words) /\ Len(Z) = 15 /\ Z[15] = Ip(p, "exit", 1)
      /\ SubSeq(Z, 1, 14) = Saved(p) /\ SubSeq(Saved(p), 1, 14) = Saved(p)
  BY <1>1, <1>3, <1>4, Zenon
<1> QED
  BY <1>5 DEF Z

(* What follows from being a context: the pointers are words, the next trap  *)
(* pushes on top of one of the process's own stacks, and a HLT may be left   *)
(* behind.                                                                   *)
LEMMA ContextFacts ==
    ASSUME NEW p \in Idx, NEW m \in [Stacks -> Seq(Words)], NEW ip, NEW sp, NEW file,
           Context(p, ip, sp, file, StacksOf(p, m))
    PROVE  /\ ip \in Words /\ sp \in Words /\ CodeOf(ip) \in Words /\ DataOf(ip) \in Words
           /\ ip = Ip(p, ip[3], ip[4])
           /\ \E s \in Kinds : BaseOf(p, ip, sp) = Ptr(p, s, Len(m[<<s, p>>]))
           /\ ip[3] = "hlt" => Context(p, Ip(p, "ret", 0), sp, file, StacksOf(p, m))
           /\ ip[3] = "user" => InUser(p, ip, sp, file, StacksOf(p, m))
<1> DEFINE M == StacksOf(p, m)
<1>0. \A k \in Kinds : M[k] = m[<<k, p>>]
  BY DEF StacksOf
<1>a. /\ "kernel" \in Kinds /\ "user" \in Kinds /\ "boot" \in Kinds
      /\ NoWords = [k \in Kinds |-> <<>>] /\ Len(<<>>) = 0
  BY DEF Kinds, NoWords
<1>b. CodeOf(ip) \in Words /\ DataOf(ip) \in Words
  BY WordTypes, Selectors DEF CodeOf, DataOf
<1>c. /\ ip[3] = "user" => BaseOf(p, ip, sp) = Ptr(p, "kernel", 0)
      /\ ip[3] # "user" => BaseOf(p, ip, sp) = sp
  <2>1. /\ ip[3] = "user" => CodeOf(ip)[4] % 4 = 3
        /\ ip[3] # "user" => CodeOf(ip)[4] % 4 # 3
    BY Selectors, WordParts DEF CodeOf
  <2> QED
    BY <2>1, Zenon DEF BaseOf
<1> HIDE DEF M
<1>1. CASE InUser(p, ip, sp, file, M)
  <2>1. PICK k \in 0 .. 2 : ip = Ip(p, "user", k) /\ sp = Ptr(p, "user", 0) /\ M = NoWords
    BY <1>1 DEF InUser
  <2>2. ip[3] = "user" /\ ip[4] = k
    BY <2>1, WordParts
  <2>3. Ptr(p, "kernel", 0) = Ptr(p, "kernel", Len(m[<<"kernel", p>>]))
    BY <1>0, <1>a, <2>1
  <2>4. ip \in Words /\ sp \in Words
    BY <1>a, <2>1, WordTypes
  <2> QED
    BY <1>1, <1>a, <1>b, <1>c, <2>1, <2>2, <2>3, <2>4 DEF M
<1>2. CASE InCall(p, ip, sp, file, M)
  <2>1. /\ ip \in {Ip(p, "hlt", 0), Ip(p, "ret", 0)}
        /\ sp = Ptr(p, "user", 15) /\ Len(M["user"]) = 15
    <3>1. M["user"] = Append(Saved(p), Ip(p, "exit", 1))
      BY <1>2, <1>a, OnlyFacts DEF InCall
    <3> QED
      BY <1>2, <3>1, CallFacts DEF InCall
  <2>2. ip[3] \in {"hlt", "ret"} /\ ip = Ip(p, ip[3], ip[4])
    BY <2>1, WordParts
  <2>3. sp = Ptr(p, "user", Len(m[<<"user", p>>]))
    BY <1>0, <1>a, <2>1
  <2>4. ip \in Words /\ sp \in Words
    BY <1>a, <2>1, WordTypes
  <2>5. Context(p, Ip(p, "ret", 0), sp, file, M)
    BY <1>2 DEF InCall, Context
  <2> QED
    BY <1>a, <1>b, <1>c, <2>2, <2>3, <2>4, <2>5 DEF M
<1>3. CASE InExit(p, ip, sp, file, M)
  <2>1. PICK k \in 1 .. 15 : /\ ip = Ip(p, "exit", k) /\ sp = Ptr(p, "user", 15 - k)
                             /\ M = Only("user", SubSeq(Saved(p), 1, 15 - k))
    BY <1>3 DEF InExit
  <2>2. ip[3] = "exit" /\ ip[4] = k
    BY <2>1, WordParts
  <2>3. Len(SubSeq(Saved(p), 1, 15 - k)) = 15 - k
    <3>1. 15 - k \in 0 .. 14
      OBVIOUS
    <3>2. Len(Saved(p)) = 14 /\ Saved(p) \in Seq(Words)
      BY SavedFacts
    <3> QED
      BY <3>1, <3>2, PrefixFacts, Zenon
  <2>4. sp = Ptr(p, "user", Len(m[<<"user", p>>]))
    BY <1>0, <1>a, <2>1, <2>3, OnlyFacts, ZenonT(60)
  <2>5. ip \in Words /\ sp \in Words
    <3>1. 15 - k \in Nat /\ k \in Nat
      OBVIOUS
    <3> QED
      BY <1>a, <2>1, <3>1, WordTypes
  <2> QED
    BY <1>a, <1>b, <1>c, <2>1, <2>2, <2>4, <2>5
<1>4. CASE InBoot(p, ip, sp, file, M)
  <2>1. p = 0 /\ FirstFrame(p) \in Seq(Words) /\ Len(FirstFrame(p)) = 20
    BY <1>4, FirstFrameFacts DEF InBoot
  <2>2. CASE /\ ip = Ip(0, "boot", 0)
             /\ sp = Ptr(0, "boot", 0)
             /\ M = Only("kernel", FirstFrame(0))
    <3>1. ip[3] = "boot" /\ ip[4] = 0
      BY <2>2, WordParts
    <3>2. sp = Ptr(p, "boot", Len(m[<<"boot", p>>]))
      <4>2. M["boot"] = <<>>
        BY <2>2 DEF Only, Refill, NoWords, Kinds
      <4> QED
        BY <1>0, <1>a, <2>1, <2>2, <4>2, Zenon
    <3>3. ip \in Words /\ sp \in Words
      BY <1>a, <2>1, <2>2, WordTypes
    <3> QED
      BY <1>a, <1>b, <1>c, <2>1, <2>2, <3>1, <3>2, <3>3
  <2>3. ASSUME NEW k \in 1 .. 16, ip = Ip(0, "boot", k), sp = Ptr(0, "kernel", 21 - k),
               M = Only("kernel", SubSeq(FirstFrame(0), 1, 21 - k))
        PROVE  /\ ip[3] = "boot" /\ ip[4] = k /\ ip \in Words /\ sp \in Words
               /\ sp = Ptr(p, "kernel", Len(m[<<"kernel", p>>]))
    <3>1. ip[3] = "boot" /\ ip[4] = k
      BY <2>3, WordParts
    <3>2. Len(SubSeq(FirstFrame(p), 1, 21 - k)) = 21 - k
      <4>1. 21 - k \in 0 .. 20
        OBVIOUS
      <4> QED
        BY <2>1, <4>1, PrefixFacts, ZenonT(60)
    <3>3. sp = Ptr(p, "kernel", Len(m[<<"kernel", p>>]))
      BY <1>0, <1>a, <2>1, <2>3, <3>2, OnlyFacts, ZenonT(60)
    <3>4. 21 - k \in Nat /\ k \in Nat
      OBVIOUS
    <3>5. ip \in Words /\ sp \in Words
      BY <1>a, <2>1, <2>3, <3>4, WordTypes
    <3> QED
      BY <3>1, <3>3, <3>5
  <2>4. CASE \E k \in 1 .. 16 :
                /\ ip = Ip(0, "boot", k)
                /\ sp = Ptr(0, "kernel", 21 - k)
                /\ M = Only("kernel", SubSeq(FirstFrame(0), 1, 21 - k))
    <3>1. PICK k \in 1 .. 16 :
                /\ ip = Ip(0, "boot", k)
                /\ sp = Ptr(0, "kernel", 21 - k)
                /\ M = Only("kernel", SubSeq(FirstFrame(0), 1, 21 - k))
      BY <2>4
    <3>2. /\ ip[3] = "boot" /\ ip[4] = k /\ ip \in Words /\ sp \in Words
          /\ sp = Ptr(p, "kernel", Len(m[<<"kernel", p>>]))
      BY <2>3, <3>1
    <3> QED
      BY <1>a, <1>b, <1>c, <2>1, <3>1, <3>2
  <2> QED
    BY <1>4, <2>2, <2>4 DEF InBoot
<1> QED
  BY <1>1, <1>2, <1>3, <1>4 DEF Context, M

--------------------------------------------------------------------------------
(* handler_wrapper! pops every register.                                     *)
LEMMA AllPopped ==
    ASSUME NEW m, NEW ptr, NEW old
    PROVE  Scatter(PopOrder, old, m, ptr) = Popped(m, ptr)
<1>1. ASSUME NEW r \in Reg PROVE r \in Range(PopOrder)
  <2>1. PICK i \in 1 .. 15 : PushOrder[i] = r
    BY PushOrderFacts
  <2>2. 16 - i \in 1 .. 15 /\ 16 - (16 - i) = i
    OBVIOUS
  <2>3. PopOrder[16 - i] = PushOrder[16 - (16 - i)]
    BY <2>2, PopOrderFacts, Zenon
  <2>4. PopOrder[16 - i] = r /\ 16 - i \in DOMAIN PopOrder
    BY <2>1, <2>2, <2>3, PopOrderFacts, Zenon
  <2> QED
    BY <2>4 DEF Range
<1> QED
  BY <1>1, Zenon DEF Scatter, Popped

(* Whatever happens on other stacks, a parked process stays parked.          *)
LEMMA ParkedStays ==
    ASSUME NEW p \in Idx, NEW ptr,
           NEW m \in [Stacks -> Seq(Words)], NEW mm \in [Stacks -> Seq(Words)],
           Parked(p, m, ptr), SameStacks(p, m, mm)
    PROVE  Parked(p, mm, ptr) /\ Word(mm, ptr, 15) = Word(m, ptr, 15)
<1>0. \A k \in Kinds : mm[<<k, p>>] = m[<<k, p>>]
  BY DEF SameStacks
<1>1. PICK s \in Kinds : ptr = Ptr(p, s, Len(m[<<s, p>>])) /\ Len(m[<<s, p>>]) >= 20
  BY DEF Parked
<1> DEFINE d == Len(m[<<s, p>>])
<1>2. StackOf(ptr) = <<s, p>> /\ Down(ptr, -20) = Ptr(p, s, d + -20) /\ d \in Nat
  <2>1. d \in Nat
    BY DEF Stacks
  <2> QED
    BY <1>1, <2>1, Pointers
<1>3. mm[StackOf(ptr)] = m[StackOf(ptr)]
  BY <1>0, <1>2
<1>4. \A n : Word(mm, ptr, n) = Word(m, ptr, n)
  BY <1>3, Zenon DEF Word
<1>5. Popped(mm, ptr) = Popped(m, ptr)
  BY <1>4, Zenon DEF Popped, Scatter
<1>6. StacksOf(p, Dropped(mm, Down(ptr, -20))) = StacksOf(p, Dropped(m, Down(ptr, -20)))
  <2> DEFINE q == Down(ptr, -20)
  <2>1. StackOf(q) = <<s, p>>
    BY <1>2, Pointers
  <2>2. ASSUME NEW k \in Kinds
        PROVE  Dropped(mm, q)[<<k, p>>] = Dropped(m, q)[<<k, p>>]
    <3>1. <<k, p>> \in Stacks /\ <<s, p>> \in Stacks
      BY DEF Stacks
    <3> HIDE DEF q
    <3>2. mm[<<k, p>>] = m[<<k, p>>] /\ mm[<<s, p>>] = m[<<s, p>>]
      BY <1>0, Zenon
    <3> QED
      BY <2>1, <3>1, <3>2 DEF Dropped
  <2> HIDE DEF q
  <2>3. StacksOf(p, Dropped(mm, q)) = StacksOf(p, Dropped(m, q))
    BY <2>2, Zenon DEF StacksOf
  <2> QED
    BY <2>3 DEF q
<1>7. ptr = Ptr(p, s, Len(mm[<<s, p>>])) /\ Len(mm[<<s, p>>]) >= 20
  BY <1>0, <1>1
<1>8. Context(p, Word(mm, ptr, 15), Word(mm, ptr, 18), Popped(mm, ptr),
              StacksOf(p, Dropped(mm, Down(ptr, -20))))
  BY <1>4, <1>5, <1>6, Zenon DEF Parked
<1>9. /\ Word(mm, ptr, 16) = CodeOf(Word(mm, ptr, 15))
      /\ Word(mm, ptr, 17) = Flags
      /\ Word(mm, ptr, 19) = DataOf(Word(mm, ptr, 15))
  BY <1>4, Zenon DEF Parked
<1> QED
  BY <1>4, <1>7, <1>8, <1>9, Zenon DEF Parked

(* A frame of handler_wrapper! with a context of p in it parks p.            *)
LEMMA FrameParks ==
    ASSUME NEW m \in [Stacks -> Seq(Words)], NEW s \in Kinds, NEW p \in Idx,
           NEW P \in Seq(Words), NEW Z \in Seq(Words), Len(Z) = 20, m[<<s, p>>] = P \o Z,
           NEW file \in [Reg -> Words],
           \A i \in 1 .. 15 : Z[5 + i] = file[PushOrder[i]],
           Context(p, Z[5], Z[2], file, StacksOf(p, With(m, s, p, P))),
           Z[4] = CodeOf(Z[5]), Z[3] = Flags, Z[1] = DataOf(Z[5])
    PROVE  /\ Parked(p, m, Ptr(p, s, Len(P) + 20))
           /\ Word(m, Ptr(p, s, Len(P) + 20), 15) = Z[5]
<1> DEFINE ptr == Ptr(p, s, Len(P) + 20)
<1>1. /\ Len(P) \in Nat /\ Len(m[<<s, p>>]) = Len(P) + 20
      /\ Word(m, ptr, 15) = Z[5] /\ Word(m, ptr, 16) = Z[4] /\ Word(m, ptr, 17) = Z[3]
      /\ Word(m, ptr, 18) = Z[2] /\ Word(m, ptr, 19) = Z[1]
      /\ \A old : Scatter(PopOrder, old, m, ptr) = file
      /\ Dropped(m, Down(ptr, -20)) = With(m, s, p, P)
  BY FramePopped, ZenonT(60)
<1>2. ptr = Ptr(p, s, Len(m[<<s, p>>]))
  BY <1>1, Zenon
<1>3. Len(m[<<s, p>>]) >= 20
  <2>1. ASSUME NEW a \in Nat, NEW b, b = a + 20 PROVE b >= 20
    BY <2>1
  <2> QED
    BY <1>1, <2>1, Zenon
<1>4. Popped(m, ptr) = file
  BY <1>1, Zenon DEF Popped
<1> HIDE DEF ptr
<1>5. Context(p, Word(m, ptr, 15), Word(m, ptr, 18), Popped(m, ptr),
              StacksOf(p, Dropped(m, Down(ptr, -20))))
  BY <1>1, <1>4, Zenon
<1>6. /\ Word(m, ptr, 16) = CodeOf(Word(m, ptr, 15))
      /\ Word(m, ptr, 17) = Flags
      /\ Word(m, ptr, 19) = DataOf(Word(m, ptr, 15))
  BY <1>1, Zenon
<1>7. Parked(p, m, ptr)
  BY <1>2, <1>3, <1>5, <1>6, Zenon DEF Parked
<1> QED
  BY <1>1, <1>7, Zenon DEF ptr

(* The pops and the iretq bring a parked context back and leave the other    *)
(* processes' stacks alone.                                                  *)
LEMMA ParkedResumes ==
    ASSUME NEW p \in Idx, NEW m \in [Stacks -> Seq(Words)], NEW ptr, Parked(p, m, ptr)
    PROVE  /\ Popped(m, ptr) \in [Reg -> Words]
           /\ Dropped(m, Down(ptr, -20)) \in [Stacks -> Seq(Words)]
           /\ \A q \in Idx : \A k \in Kinds : q # p =>
                 Dropped(m, Down(ptr, -20))[<<k, q>>] = m[<<k, q>>]
           /\ \A n \in 0 .. 4 : Word(m, Down(ptr, -15), n) = Word(m, ptr, 15 + n)
           /\ Down(Down(ptr, -15), -5) = Down(ptr, -20)
<1>1. PICK s \in Kinds : ptr = Ptr(p, s, Len(m[<<s, p>>])) /\ Len(m[<<s, p>>]) >= 20
  BY DEF Parked
<1> DEFINE d == Len(m[<<s, p>>])
<1>2. d \in Nat /\ d >= 20 /\ <<s, p>> \in Stacks /\ m[<<s, p>>] \in Seq(Words)
  BY <1>1 DEF Stacks
<1>3. ptr = Ptr(p, s, d)
  BY <1>1
<1> HIDE DEF d
<1>4. /\ StackOf(ptr) = <<s, p>>
      /\ Down(ptr, -15) = Ptr(p, s, d + -15) /\ Down(ptr, -20) = Ptr(p, s, d + -20)
      /\ Down(Ptr(p, s, d + -15), -5) = Ptr(p, s, (d + -15) + -5)
  <2>1. d \in Int /\ -15 \in Int /\ -20 \in Int /\ -5 \in Int /\ d + -15 \in Int
    BY <1>2
  <2>2. StackOf(Ptr(p, s, d)) = <<s, p>> /\ Down(Ptr(p, s, d), -15) = Ptr(p, s, d + -15)
    BY <2>1, Pointers
  <2>3. Down(Ptr(p, s, d), -20) = Ptr(p, s, d + -20)
    BY <2>1, Pointers
  <2>4. Down(Ptr(p, s, d + -15), -5) = Ptr(p, s, (d + -15) + -5)
    BY <2>1, Pointers
  <2> QED
    BY <1>3, <2>2, <2>3, <2>4, Zenon
<1>5. (d + -15) + -5 = d + -20 /\ d + -20 = d - 20 /\ d - 20 \in 0 .. d
  BY <1>2
<1>6. Down(Down(ptr, -15), -5) = Down(ptr, -20)
  BY <1>4, <1>5, Zenon
<1>7. Popped(m, ptr) \in [Reg -> Words]
  <2>1. \A n : Word(m, ptr, n) \in Words
    BY <1>2, <1>4, WordType
  <2>2. ASSUME NEW r \in Reg
        PROVE  (IF r \in Range(PopOrder) THEN Word(m, ptr, Position(PopOrder, r) - 1)
                                         ELSE [x \in Reg |-> Junk][r]) \in Words
    BY <2>1, WordTypes
  <2> QED
    BY <2>2, Zenon DEF Popped, Scatter
<1>8. \A n \in 0 .. 4 : Word(m, Down(ptr, -15), n) = Word(m, ptr, 15 + n)
  <2> SUFFICES ASSUME NEW n \in 0 .. 4
               PROVE  Word(m, Down(ptr, -15), n) = Word(m, ptr, 15 + n)
    OBVIOUS
  <2> DEFINE q == Down(ptr, -15)
  <2>1. StackOf(q) = <<s, p>> /\ q[4] = d + -15 /\ ptr[4] = d
    BY <1>3, <1>4 DEF StackOf, Ptr
  <2>2. (d + -15) - n = d - (15 + n)
    BY <1>2
  <2> HIDE DEF q
  <2>3. q[4] - n = ptr[4] - (15 + n)
    BY <1>2, <2>1
  <2>4. Word(m, q, n) = Word(m, ptr, 15 + n)
    BY <1>4, <2>1, <2>3, Zenon DEF Word
  <2> QED
    BY <2>4 DEF q
<1>9. Dropped(m, Down(ptr, -20)) = With(m, s, p, SubSeq(m[<<s, p>>], 1, d - 20))
  <2>1. /\ StackOf(Ptr(p, s, d - 20)) = <<s, p>> /\ Ptr(p, s, d - 20)[4] = d - 20
    BY DEF StackOf, Ptr
  <2>2. Down(ptr, -20) = Ptr(p, s, d - 20)
    BY <1>4, <1>5, Zenon
  <2>3. Dropped(m, Ptr(p, s, d - 20)) = With(m, s, p, SubSeq(m[<<s, p>>], 1, d - 20))
    BY <2>1 DEF Dropped, With
  <2> QED
    BY <2>2, <2>3, Zenon
<1>10. SubSeq(m[<<s, p>>], 1, d - 20) \in Seq(Words)
  BY <1>2, <1>5, PrefixFacts, Zenon DEF d
<1>11. /\ Dropped(m, Down(ptr, -20)) \in [Stacks -> Seq(Words)]
       /\ \A q \in Idx : \A k \in Kinds : k # s \/ q # p =>
             Dropped(m, Down(ptr, -20))[<<k, q>>] = m[<<k, q>>]
  <2> DEFINE Q == SubSeq(m[<<s, p>>], 1, d - 20)
  <2>1. Dropped(m, Down(ptr, -20)) = With(m, s, p, Q)
    BY <1>9
  <2>3. Q \in Seq(Words)
    BY <1>10
  <2> HIDE DEF Q
  <2>2. With(m, s, p, Q) \in [Stacks -> Seq(Words)]
    BY <2>3, WithFacts, Zenon
  <2>4. \A q \in Idx : \A k \in Kinds :
              k # s \/ q # p => With(m, s, p, Q)[<<k, q>>] = m[<<k, q>>]
    <3>1. \A t \in Stacks : t # <<s, p>> => With(m, s, p, Q)[t] = m[t]
      BY <2>3, WithOthers, Zenon
    <3>2. \A q \in Idx : \A k \in Kinds : <<k, q>> \in Stacks
      BY DEF Stacks
    <3> QED
      BY <3>1, <3>2
  <2> QED
    BY <2>1, <2>2, <2>4, Zenon
<1> QED
  BY <1>6, <1>7, <1>8, <1>11, Zenon

--------------------------------------------------------------------------------
(* Where a process is, by its instruction pointer.                           *)
PointAt(ip) ==
    <<ip[2], CASE ip[3] = "user" -> ip[4] [] ip[3] = "boot" -> 0 [] OTHER -> 2>>

(* A process that runs is where rip is, any other where its frame returns to.*)
LEMMA PointOfIs ==
    ASSUME NEW p
    PROVE  PointOf(p) = PointAt(IF p = current THEN rip ELSE Word(mem, kernel_rsp[p], 15))
BY Zenon DEF PointOf, PointAt

(* A context of p stands for a point of p's program.                         *)
LEMMA ContextPoint ==
    ASSUME NEW p, NEW ip, NEW sp, NEW file, NEW M, Context(p, ip, sp, file, M)
    PROVE  \E v \in 0 .. 2 : PointAt(ip) = <<p, v>>
<1>1. CASE InUser(p, ip, sp, file, M)
  <2>1. PICK k \in 0 .. 2 : ip = Ip(p, "user", k)
    BY <1>1 DEF InUser
  <2> QED
    BY <2>1, WordParts DEF PointAt
<1>2. CASE InCall(p, ip, sp, file, M)
  <2>1. ip = Ip(p, "hlt", 0) \/ ip = Ip(p, "ret", 0)
    BY <1>2 DEF InCall
  <2> QED
    BY <2>1, WordParts DEF PointAt
<1>3. CASE InExit(p, ip, sp, file, M)
  <2>1. PICK k \in 1 .. 15 : ip = Ip(p, "exit", k)
    BY <1>3 DEF InExit
  <2> QED
    BY <2>1, WordParts DEF PointAt
<1>4. CASE InBoot(p, ip, sp, file, M)
  <2>1. PICK k \in 0 .. 16 : ip = Ip(p, "boot", k)
    BY <1>4 DEF InBoot
  <2> QED
    BY <2>1, WordParts DEF PointAt
<1> QED
  BY <1>1, <1>2, <1>3, <1>4 DEF Context

(* A trap pushes a frame that parks the interrupted process: SavedRip is the *)
(* instruction pointer, TrapBase the top of one of the process's own stacks. *)
LEMMA TrapParks ==
    ASSUME TrapInv
    PROVE  LET Z == <<ss, rsp, rflags, cs, SavedRip>> \o Gather(PushOrder, regs)
               m == Pushed(mem, TrapBase, Z)
           IN  /\ m \in [Stacks -> Seq(Words)]
               /\ \A q \in Idx : \A k \in Kinds :
                     q # current => m[<<k, q>>] = mem[<<k, q>>]
               /\ Parked(current, m, Down(TrapBase, 20))
               /\ PointAt(Word(m, Down(TrapBase, 20), 15)) = PointAt(rip)
               /\ Down(TrapBase, 20) \in Words
<1> DEFINE p == current
           H == <<ss, rsp, rflags, cs, SavedRip>>
           Z == FrameOf(H, regs)
           m == Pushed(mem, TrapBase, Z)
<1>1. /\ p \in Idx /\ mem \in [Stacks -> Seq(Words)] /\ regs \in [Reg -> Words]
      /\ rsp0 = p /\ rflags = Flags /\ cs = CodeOf(rip) /\ ss = DataOf(rip)
      /\ Context(p, rip, rsp, regs, StacksOf(p, mem))
  BY DEF TrapInv, TrapTypeOK, CurrentRuns
<1> HIDE DEF p
<1>2. /\ rip \in Words /\ rsp \in Words /\ cs \in Words /\ ss \in Words
      /\ rip = Ip(p, rip[3], rip[4])
      /\ \E s \in Kinds : BaseOf(p, rip, rsp) = Ptr(p, s, Len(mem[<<s, p>>]))
      /\ rip[3] = "hlt" => Context(p, Ip(p, "ret", 0), rsp, regs, StacksOf(p, mem))
  <2>1. CodeOf(rip) \in Words /\ DataOf(rip) \in Words /\ rip \in Words /\ rsp \in Words
    BY <1>1, ContextFacts, Zenon
  <2>2. /\ rip = Ip(p, rip[3], rip[4])
        /\ \E s \in Kinds : BaseOf(p, rip, rsp) = Ptr(p, s, Len(mem[<<s, p>>]))
    BY <1>1, ContextFacts, ZenonT(60)
  <2>3. rip[3] = "hlt" => Context(p, Ip(p, "ret", 0), rsp, regs, StacksOf(p, mem))
    BY <1>1, ContextFacts, Zenon
  <2> QED
    BY <1>1, <2>1, <2>2, <2>3, Zenon
<1>3. PICK s \in Kinds : TrapBase = Ptr(p, s, Len(mem[<<s, p>>]))
  BY <1>1, <1>2, Zenon DEF TrapBase, BaseOf
<1>4. /\ SavedRip \in Words
      /\ Context(p, SavedRip, rsp, regs, StacksOf(p, mem))
      /\ CodeOf(SavedRip) = cs /\ DataOf(SavedRip) = ss /\ PointAt(SavedRip) = PointAt(rip)
  <2>1. CASE rip[3] = "hlt"
    <3>1. SavedRip = Ip(p, "ret", 0)
      BY <2>1, Zenon DEF SavedRip, At, p
    <3>2. Ip(p, "ret", 0) \in Words
      BY <1>1, WordTypes
    <3>3. Ip(p, "ret", 0)[3] = "ret" /\ Ip(p, "ret", 0)[2] = p /\ rip[2] = p
      BY <1>2, WordParts
    <3>4. CodeOf(Ip(p, "ret", 0)) = CodeOf(rip) /\ DataOf(Ip(p, "ret", 0)) = DataOf(rip)
      BY <2>1, <3>3 DEF CodeOf, DataOf
    <3>5. PointAt(Ip(p, "ret", 0)) = PointAt(rip)
      BY <2>1, <3>3 DEF PointAt
    <3> QED
      BY <1>1, <1>2, <2>1, <3>1, <3>2, <3>4, <3>5, Zenon
  <2>2. CASE rip[3] # "hlt"
    <3>1. SavedRip = rip
      BY <2>2, Zenon DEF SavedRip, At
    <3> QED
      BY <1>1, <1>2, <3>1, Zenon
  <2> QED
    BY <2>1, <2>2, Zenon
<1>5. /\ H \in Seq(Words) /\ Len(H) = 5
      /\ H[1] = ss /\ H[2] = rsp /\ H[3] = Flags /\ H[4] = cs /\ H[5] = SavedRip
  <2>1. rflags \in Words
    BY <1>1, WordTypes
  <2> QED
    BY <1>1, <1>2, <1>4, <2>1
<1> HIDE DEF H
<1>6. /\ Z \in Seq(Words) /\ Len(Z) = 20
      /\ \A i \in 1 .. 5 : Z[i] = H[i]
      /\ \A i \in 1 .. 15 : Z[5 + i] = regs[PushOrder[i]]
  BY <1>1, <1>5, FrameWords, Zenon
<1> HIDE DEF Z
<1>7. Z[1] = ss /\ Z[2] = rsp /\ Z[3] = Flags /\ Z[4] = cs /\ Z[5] = SavedRip
  <2>1. Z[1] = H[1] /\ Z[2] = H[2] /\ Z[3] = H[3] /\ Z[4] = H[4] /\ Z[5] = H[5]
    BY <1>6
  <2> QED
    BY <1>5, <2>1, Zenon
<1> DEFINE P == mem[<<s, p>>]
<1>8. P \in Seq(Words) /\ Len(P) \in Nat
  BY <1>1 DEF Stacks
<1>9. P \o Z \in Seq(Words)
  BY <1>6, <1>8, ConcatParts, Zenon
<1>10. m = With(mem, s, p, P \o Z)
  BY <1>1, <1>3, <1>6, PushedWords, Zenon
<1>11. /\ m \in [Stacks -> Seq(Words)] /\ m[<<s, p>>] = P \o Z
       /\ \A t \in Stacks : t # <<s, p>> => m[t] = mem[t]
  <2> HIDE DEF m
  <2>1. /\ With(mem, s, p, P \o Z) \in [Stacks -> Seq(Words)]
        /\ With(mem, s, p, P \o Z)[<<s, p>>] = P \o Z
    BY <1>1, <1>9, WithFacts, Zenon
  <2>2. \A t \in Stacks : t # <<s, p>> => With(mem, s, p, P \o Z)[t] = mem[t]
    BY <1>1, <1>9, WithOthers, Zenon
  <2> QED
    BY <1>10, <2>1, <2>2, Zenon
<1>12. With(m, s, p, P) = mem
  <2> HIDE DEF m
  <2>1. With(With(mem, s, p, P \o Z), s, p, mem[<<s, p>>]) = mem
    BY <1>1, <1>9, WithStacks
  <2> QED
    BY <1>10, <2>1, Zenon
<1>13. Down(TrapBase, 20) = Ptr(p, s, Len(P) + 20)
  BY <1>3, <1>8, Pointers
<1> HIDE DEF m, P
<1>14. Context(p, Z[5], Z[2], regs, StacksOf(p, With(m, s, p, P)))
  BY <1>4, <1>7, <1>12, Zenon
<1>15. Z[4] = CodeOf(Z[5]) /\ Z[1] = DataOf(Z[5])
  BY <1>4, <1>7, Zenon
<1>16. /\ Parked(p, m, Ptr(p, s, Len(P) + 20))
       /\ Word(m, Ptr(p, s, Len(P) + 20), 15) = Z[5]
  BY <1>1, <1>6, <1>7, <1>8, <1>11, <1>14, <1>15, FrameParks, ZenonT(60)
<1>17. \A q \in Idx : \A k \in Kinds : q # p => m[<<k, q>>] = mem[<<k, q>>]
  <2>1. \A q \in Idx : \A k \in Kinds : <<k, q>> \in Stacks
    BY DEF Stacks
  <2> QED
    BY <1>11, <2>1
<1>18. Ptr(p, s, Len(P) + 20) \in Words
  <2>1. Len(P) + 20 \in Nat
    BY <1>8
  <2> QED
    BY <1>1, <2>1, WordTypes, Zenon
<1>19. PointAt(Word(m, Down(TrapBase, 20), 15)) = PointAt(rip)
  BY <1>4, <1>7, <1>13, <1>16, Zenon
<1>20. /\ m \in [Stacks -> Seq(Words)]
       /\ \A q \in Idx : \A k \in Kinds : q # p => m[<<k, q>>] = mem[<<k, q>>]
       /\ Parked(p, m, Down(TrapBase, 20))
       /\ PointAt(Word(m, Down(TrapBase, 20), 15)) = PointAt(rip)
       /\ Down(TrapBase, 20) \in Words
  BY <1>11, <1>13, <1>16, <1>17, <1>18, <1>19, Zenon
<1>21. m = Pushed(mem, TrapBase, <<ss, rsp, rflags, cs, SavedRip>> \o Gather(PushOrder, regs))
  BY Zenon DEF m, Z, H, FrameOf
<1> QED
  BY <1>20, <1>21, Zenon DEF p

(* An interrupt keeps the invariant and moves no process.                    *)
LEMMA InterruptStep ==
    ASSUME TrapInv, NEW nxt \in Idx, Interrupt(nxt)
    PROVE  /\ TrapInv' /\ current' = nxt
           /\ \A p \in Idx : PointOf(p)' = PointOf(p)
<1> DEFINE m == Pushed(mem, TrapBase, <<ss, rsp, rflags, cs, SavedRip>>
                                          \o Gather(PushOrder, regs))
           frame == Down(TrapBase, 20)
           saved == SaveContext(frame)
           back == saved[nxt]
<1>1. /\ current \in Idx /\ mem \in [Stacks -> Seq(Words)] /\ kernel_rsp \in [Idx -> Words]
      /\ \A q \in Idx : q # current => Parked(q, mem, kernel_rsp[q])
  BY DEF TrapInv, TrapTypeOK
<1>2. /\ m \in [Stacks -> Seq(Words)]
      /\ \A q \in Idx : \A k \in Kinds : q # current => m[<<k, q>>] = mem[<<k, q>>]
      /\ Parked(current, m, frame)
      /\ PointAt(Word(m, frame, 15)) = PointAt(rip)
      /\ frame \in Words
  BY TrapParks, Zenon
<1>3. /\ kernel_rsp' = IF nxt = current THEN kernel_rsp ELSE saved
      /\ rsp0' = nxt /\ current' = nxt /\ args' = args
      /\ regs' = Scatter(PopOrder, regs, m, IF nxt = current THEN frame ELSE back)
      /\ Iretq(m, Down(IF nxt = current THEN frame ELSE back, -15))
  BY Zenon DEF Interrupt, SetInterruptStack
<1> HIDE DEF m, frame
<1>4. /\ saved \in [Idx -> Words] /\ saved[current] = frame
      /\ \A q \in Idx : q # current => saved[q] = kernel_rsp[q]
  BY <1>1, <1>2 DEF SaveContext
<1> HIDE DEF saved
<1>5. (IF nxt = current THEN frame ELSE back) = back
  BY <1>4, Zenon
<1>6. ASSUME NEW q \in Idx
      PROVE  /\ Parked(q, m, saved[q])
             /\ PointAt(Word(m, saved[q], 15)) = PointOf(q)
  <2>1. CASE q = current
    <3>1. PointOf(q) = PointAt(rip)
      BY <2>1, PointOfIs, Zenon
    <3> QED
      BY <1>2, <1>4, <2>1, <3>1, Zenon
  <2>2. CASE q # current
    <3>1. /\ Parked(q, m, kernel_rsp[q])
          /\ Word(m, kernel_rsp[q], 15) = Word(mem, kernel_rsp[q], 15)
      <4>1. \A k \in Kinds : m[<<k, q>>] = mem[<<k, q>>]
        BY <1>2, <2>2, Zenon
      <4>2. SameStacks(q, mem, m)
        BY <4>1, Zenon DEF SameStacks
      <4>3. Parked(q, mem, kernel_rsp[q]) /\ m \in [Stacks -> Seq(Words)]
        BY <1>1, <1>2, <2>2, Zenon
      <4> QED
        BY <1>1, <4>2, <4>3, ParkedStays, ZenonT(60)
    <3>2. PointOf(q) = PointAt(Word(mem, kernel_rsp[q], 15))
      BY <2>2, PointOfIs, Zenon
    <3> QED
      BY <1>4, <2>2, <3>1, <3>2, Zenon
  <2> QED
    BY <2>1, <2>2
<1>7. Parked(nxt, m, back) /\ PointAt(Word(m, back, 15)) = PointOf(nxt)
  BY <1>6, Zenon
<1> HIDE DEF back
<1> DEFINE mm == Dropped(m, Down(back, -20))
<1>8. /\ Popped(m, back) \in [Reg -> Words]
      /\ mm \in [Stacks -> Seq(Words)]
      /\ \A q \in Idx : \A k \in Kinds : q # nxt => mm[<<k, q>>] = m[<<k, q>>]
      /\ \A n \in 0 .. 4 : Word(m, Down(back, -15), n) = Word(m, back, 15 + n)
      /\ Down(Down(back, -15), -5) = Down(back, -20)
  BY <1>2, <1>7, ParkedResumes, Zenon
<1>9. /\ regs' = Popped(m, back) /\ mem' = mm
      /\ rip' = Word(m, back, 15) /\ cs' = Word(m, back, 16)
      /\ rflags' = Word(m, back, 17) /\ rsp' = Word(m, back, 18) /\ ss' = Word(m, back, 19)
  <2>1. regs' = Scatter(PopOrder, regs, m, back) /\ Iretq(m, Down(back, -15))
    BY <1>3, <1>5, Zenon
  <2>2. regs' = Popped(m, back)
    BY <2>1, AllPopped, Zenon
  <2> DEFINE b == Down(back, -15)
  <2>3. /\ Word(m, b, 0) = Word(m, back, 15) /\ Word(m, b, 1) = Word(m, back, 16)
        /\ Word(m, b, 2) = Word(m, back, 17) /\ Word(m, b, 3) = Word(m, back, 18)
        /\ Word(m, b, 4) = Word(m, back, 19)
    <3>1. \A n \in 0 .. 4 : Word(m, b, n) = Word(m, back, 15 + n)
      BY <1>8
    <3> HIDE DEF b
    <3> QED
      BY <3>1
  <2>4. /\ rip' = Word(m, b, 0) /\ cs' = Word(m, b, 1) /\ rflags' = Word(m, b, 2)
        /\ rsp' = Word(m, b, 3) /\ ss' = Word(m, b, 4) /\ mem' = Dropped(m, Down(b, -5))
    BY <2>1, Zenon DEF Iretq
  <2> QED
    BY <1>8, <2>2, <2>3, <2>4, Zenon
<1>10. /\ Context(nxt, rip', rsp', regs', StacksOf(nxt, mem'))
       /\ cs' = CodeOf(rip') /\ rflags' = Flags /\ ss' = DataOf(rip')
  BY <1>7, <1>9, Zenon DEF Parked
<1> HIDE DEF mm
<1>11. ASSUME NEW q \in Idx, q # nxt
       PROVE  /\ Parked(q, mem', kernel_rsp'[q])
              /\ PointAt(Word(mem', kernel_rsp'[q], 15)) = PointOf(q)
  <2>1. kernel_rsp'[q] = saved[q]
    BY <1>3, <1>4, <1>11, Zenon
  <2>2. \A k \in Kinds : mm[<<k, q>>] = m[<<k, q>>]
    BY <1>8, <1>11, Zenon
  <2>3. Parked(q, mm, saved[q]) /\ Word(mm, saved[q], 15) = Word(m, saved[q], 15)
    <3>1. SameStacks(q, m, mm)
      BY <2>2, Zenon DEF SameStacks
    <3>2. Parked(q, m, saved[q]) /\ m \in [Stacks -> Seq(Words)] /\ mm \in [Stacks -> Seq(Words)]
      BY <1>2, <1>6, <1>8, Zenon
    <3> QED
      BY <3>1, <3>2, ParkedStays, Zenon
  <2> QED
    BY <1>6, <1>9, <2>1, <2>3, Zenon
<1>12. kernel_rsp' \in [Idx -> Words] /\ mem' \in [Stacks -> Seq(Words)] /\ regs' \in [Reg -> Words]
  BY <1>1, <1>3, <1>4, <1>8, <1>9, Zenon
<1>13. TrapTypeOK' /\ CurrentRuns'
  BY <1>3, <1>10, <1>12 DEF TrapTypeOK, CurrentRuns
<1>14. ArgumentsArrive'
  BY <1>3 DEF TrapInv, ArgumentsArrive
<1>15. \A p \in Idx \ {current'} : Parked(p, mem', kernel_rsp'[p])
  BY <1>3, <1>11
<1>16. TrapInv'
  BY <1>13, <1>14, <1>15 DEF TrapInv
<1>17. ASSUME NEW p \in Idx PROVE PointOf(p)' = PointOf(p)
  <2>1. PointOf(p)' = PointAt(IF p = current' THEN rip' ELSE Word(mem', kernel_rsp'[p], 15))
    BY Zenon DEF PointOf, PointAt
  <2>2. CASE p = nxt
    BY <1>3, <1>7, <1>9, <2>1, <2>2, Zenon
  <2>3. CASE p # nxt
    BY <1>3, <1>11, <2>1, <2>3, Zenon
  <2> QED
    BY <2>2, <2>3
<1> QED
  BY <1>3, <1>16, <1>17

--------------------------------------------------------------------------------
(* An instruction of the process on the CPU, whatever it does to its own     *)
(* registers and stacks, leaves the parked ones as they are.                 *)
LEMMA OwnStep ==
    ASSUME TrapInv, UNCHANGED <<kernel_rsp, rsp0, current>>,
           mem' \in [Stacks -> Seq(Words)], regs' \in [Reg -> Words],
           \A q \in Idx : q # current => SameStacks(q, mem, mem'),
           Context(current, rip', rsp', regs', StacksOf(current, mem')),
           rflags' = Flags, cs' = CodeOf(rip'), ss' = DataOf(rip'),
           ArgumentsArrive'
    PROVE  TrapInv' /\ \E v \in 0 .. 2 : Virtual!Step(v)
<1>1. /\ current \in Idx /\ mem \in [Stacks -> Seq(Words)] /\ kernel_rsp \in [Idx -> Words]
      /\ \A q \in Idx : q # current => Parked(q, mem, kernel_rsp[q])
      /\ rsp0 = current
  BY DEF TrapInv, TrapTypeOK, CurrentRuns
<1>2. ASSUME NEW q \in Idx, q # current
      PROVE  /\ Parked(q, mem', kernel_rsp[q])
             /\ Word(mem', kernel_rsp[q], 15) = Word(mem, kernel_rsp[q], 15)
  <2>1. Parked(q, mem, kernel_rsp[q]) /\ SameStacks(q, mem, mem')
    BY <1>1, <1>2, Zenon
  <2> QED
    BY <1>1, <2>1, ParkedStays, ZenonT(60)
<1>3. kernel_rsp' = kernel_rsp /\ rsp0' = rsp0 /\ current' = current
  OBVIOUS
<1>4. TrapTypeOK' /\ CurrentRuns'
  BY <1>1, <1>3 DEF TrapTypeOK, CurrentRuns
<1>5. \A p \in Idx \ {current'} : Parked(p, mem', kernel_rsp'[p])
  BY <1>2, <1>3
<1>6. TrapInv'
  BY <1>4, <1>5 DEF TrapInv
<1>7. PICK v \in 0 .. 2 : PointAt(rip') = <<current, v>>
  BY ContextPoint, Zenon
<1>8. ASSUME NEW p \in Idx
      PROVE  PointOf(p)' = IF p = current THEN <<current, v>> ELSE PointOf(p)
  <2>1. PointOf(p)' = PointAt(IF p = current' THEN rip' ELSE Word(mem', kernel_rsp'[p], 15))
    BY Zenon DEF PointOf, PointAt
  <2>2. PointOf(p) = PointAt(IF p = current THEN rip ELSE Word(mem, kernel_rsp[p], 15))
    BY PointOfIs, Zenon
  <2>3. CASE p = current
    BY <1>3, <1>7, <2>1, <2>3, Zenon
  <2>4. CASE p # current
    BY <1>2, <1>3, <2>1, <2>2, <2>4, Zenon
  <2> QED
    BY <2>3, <2>4, Zenon
<1>9. [p \in Idx |-> PointOf(p)'] = [[p \in Idx |-> PointOf(p)] EXCEPT ![current] = <<current, v>>]
  BY <1>1, <1>8
<1>10. Virtual!Step(v)
  BY <1>1, <1>3, <1>9 DEF Virtual!Step
<1> QED
  BY <1>6, <1>10

(* A step that leaves all stacks alone.                                      *)
LEMMA SameMemory ==
    ASSUME TrapInv, mem' = mem
    PROVE  /\ mem' \in [Stacks -> Seq(Words)]
           /\ \A q \in Idx : q # current => SameStacks(q, mem, mem')
           /\ StacksOf(current, mem') = StacksOf(current, mem)
BY Zenon DEF TrapInv, TrapTypeOK, SameStacks

(* A step that fills one stack of the running process anew.                  *)
LEMMA OwnMemory ==
    ASSUME TrapInv, NEW s \in Kinds, NEW P \in Seq(Words), mem' = With(mem, s, current, P)
    PROVE  /\ mem' \in [Stacks -> Seq(Words)]
           /\ \A q \in Idx : q # current => SameStacks(q, mem, mem')
           /\ \A Q : StacksOf(current, mem) = Only(s, Q) =>
                        StacksOf(current, mem') = Only(s, P)
           /\ StacksOf(current, mem) = NoWords => StacksOf(current, mem') = Only(s, P)
<1>1. current \in Idx /\ mem \in [Stacks -> Seq(Words)]
  BY DEF TrapInv, TrapTypeOK
<1>2. mem' \in [Stacks -> Seq(Words)]
  BY <1>1, WithFacts, Zenon
<1>3. ASSUME NEW q \in Idx, q # current PROVE SameStacks(q, mem, mem')
  <2>1. \A t \in Stacks : t # <<s, current>> => With(mem, s, current, P)[t] = mem[t]
    BY <1>1, WithOthers, Zenon
  <2>2. \A k \in Kinds : <<k, q>> \in Stacks /\ <<k, q>> # <<s, current>>
    BY <1>3 DEF Stacks
  <2> QED
    BY <2>1, <2>2, Zenon DEF SameStacks
<1>4. StacksOf(current, mem') = Refill(StacksOf(current, mem), s, P)
  <2>1. StacksOf(current, With(mem, s, current, P)) = Refill(StacksOf(current, mem), s, P)
    BY <1>1, WithStacks, Zenon
  <2> QED
    BY <2>1, Zenon
<1>5. \A Q : Refill(Only(s, Q), s, P) = Only(s, P)
  BY DEF Only, Refill, NoWords
<1>6. Refill(NoWords, s, P) = Only(s, P)
  BY DEF Only
<1> QED
  BY <1>2, <1>3, <1>4, <1>5, <1>6, Zenon

(* One pop from a stack that holds the first d words of Z.                   *)
LEMMA PopWord ==
    ASSUME NEW m \in [Stacks -> Seq(Words)], NEW s \in Kinds, NEW p \in Idx,
           NEW Z \in Seq(Words), NEW d \in 1 .. Len(Z), m[<<s, p>>] = SubSeq(Z, 1, d)
    PROVE  /\ Word(m, Ptr(p, s, d), 0) = Z[d] /\ Z[d] \in Words
           /\ Down(Ptr(p, s, d), -1) = Ptr(p, s, d - 1)
           /\ Dropped(m, Ptr(p, s, d - 1)) = With(m, s, p, SubSeq(Z, 1, d - 1))
           /\ SubSeq(Z, 1, d - 1) \in Seq(Words)
<1>1. d \in 0 .. Len(Z) /\ d - 1 \in 0 .. Len(Z) /\ d - 1 \in 0 .. d /\ d \in 1 .. d /\ d - 0 = d
      /\ d + -1 = d - 1 /\ d \in Int /\ Z[d] \in Words
  OBVIOUS
<1> DEFINE S == SubSeq(Z, 1, d)
<1>2. /\ S \in Seq(Words) /\ Len(S) = d /\ S[d] = Z[d]
      /\ SubSeq(S, 1, d - 1) = SubSeq(Z, 1, d - 1) /\ SubSeq(Z, 1, d - 1) \in Seq(Words)
  BY <1>1, PrefixFacts, Zenon
<1> HIDE DEF S
<1>3. d \in DOMAIN S
  BY <1>1, <1>2
<1>4. StackOf(Ptr(p, s, d)) = <<s, p>> /\ Ptr(p, s, d)[4] = d
      /\ StackOf(Ptr(p, s, d - 1)) = <<s, p>> /\ Ptr(p, s, d - 1)[4] = d - 1
  BY DEF StackOf, Ptr
<1>5. m[<<s, p>>] = S
  BY DEF S
<1>6. Word(m, Ptr(p, s, d), 0) = S[d]
  BY <1>1, <1>3, <1>4, <1>5, Zenon DEF Word
<1>7. Dropped(m, Ptr(p, s, d - 1)) = With(m, s, p, SubSeq(m[<<s, p>>], 1, d - 1))
  BY <1>4 DEF Dropped, With
<1>8. Down(Ptr(p, s, d), -1) = Ptr(p, s, d + -1)
  BY <1>1, Pointers
<1> QED
  BY <1>1, <1>2, <1>5, <1>6, <1>7, <1>8, Zenon

--------------------------------------------------------------------------------
(* What the invariant says of the process on the CPU in ring 3.              *)
LEMMA UserFacts ==
    ASSUME TrapInv, At("user")
    PROVE  /\ current \in Idx /\ mem \in [Stacks -> Seq(Words)] /\ regs \in [Reg -> Words]
           /\ rflags = Flags /\ cs = CodeOf(rip) /\ ss = DataOf(rip)
           /\ rsp = Ptr(current, "user", 0) /\ StacksOf(current, mem) = NoWords
           /\ \E k \in 0 .. 2 : /\ rip = Ip(current, "user", k) /\ rip[4] = k
                                /\ \A r \in Reg : regs[r] = UserVal(current, k, r)
<1>1. /\ current \in Idx /\ mem \in [Stacks -> Seq(Words)] /\ regs \in [Reg -> Words]
      /\ rflags = Flags /\ cs = CodeOf(rip) /\ ss = DataOf(rip)
      /\ Context(current, rip, rsp, regs, StacksOf(current, mem))
  BY DEF TrapInv, TrapTypeOK, CurrentRuns
<1>2. InUser(current, rip, rsp, regs, StacksOf(current, mem))
  <2>1. rip[3] = "user"
    BY DEF At
  <2> QED
    BY <1>1, <2>1, ContextFacts, Zenon
<1>3. PICK k \in 0 .. 2 : /\ rip = Ip(current, "user", k)
                          /\ rsp = Ptr(current, "user", 0)
                          /\ StacksOf(current, mem) = NoWords
                          /\ \A r \in Reg : regs[r] = UserVal(current, k, r)
  BY <1>2, Zenon DEF InUser
<1>4. rip[4] = k
  BY <1>3, WordParts
<1> QED
  BY <1>1, <1>3, <1>4, Zenon

(* A process's own code keeps the invariant and moves it only.               *)
LEMMA RunStep ==
    ASSUME TrapInv, Run
    PROVE  TrapInv' /\ \E v \in 0 .. 2 : Virtual!Step(v)
<1> DEFINE p == current
<1>1. At("user") /\ regs' = [r \in Reg |-> Own(p, r)] /\ rip' = [rip EXCEPT ![4] = 1]
      /\ rsp' = rsp /\ rflags' = rflags /\ cs' = cs /\ ss' = ss /\ mem' = mem
      /\ UNCHANGED <<kernel_rsp, rsp0, current>> /\ args' = args
  BY DEF Run, Goto
<1>2. /\ p \in Idx /\ rflags = Flags /\ cs = CodeOf(rip) /\ ss = DataOf(rip)
      /\ rsp = Ptr(p, "user", 0) /\ StacksOf(p, mem) = NoWords
  BY <1>1, UserFacts, Zenon
<1>3. PICK k \in 0 .. 2 : rip = Ip(p, "user", k)
  BY <1>1, UserFacts, Zenon
<1> HIDE DEF p
<1>4. rip' = Ip(p, "user", 1)
  BY <1>1, <1>3 DEF Ip
<1>5. rip[3] = "user" /\ rip'[3] = "user"
  BY <1>3, <1>4, WordParts
<1>6. CodeOf(rip') = CodeOf(rip) /\ DataOf(rip') = DataOf(rip)
  BY <1>5, Zenon DEF CodeOf, DataOf
<1>7. regs' \in [Reg -> Words]
  BY <1>1, <1>2, WordTypes, Zenon
<1>8. /\ mem' \in [Stacks -> Seq(Words)]
      /\ \A q \in Idx : q # p => SameStacks(q, mem, mem')
      /\ StacksOf(p, mem') = StacksOf(p, mem)
  BY <1>1, SameMemory, Zenon DEF p
<1>9. Context(p, rip', rsp', regs', StacksOf(p, mem'))
  <2>1. \A r \in Reg : regs'[r] = UserVal(p, 1, r)
    BY <1>1 DEF UserVal
  <2>2. 1 \in 0 .. 2 /\ rsp' = Ptr(p, "user", 0) /\ StacksOf(p, mem') = NoWords
    BY <1>1, <1>2, <1>8
  <2> QED
    BY <1>4, <2>1, <2>2, Zenon DEF Context, InUser
<1>10. ArgumentsArrive'
  BY <1>1 DEF TrapInv, ArgumentsArrive
<1> QED
  BY <1>1, <1>2, <1>6, <1>7, <1>8, <1>9, <1>10, OwnStep, Zenon DEF p

(* The state in which syscall_entry has pushed the registers, seen from the  *)
(* SYSCALL instruction.                                                      *)
LEMMA EntryFacts ==
    ASSUME TrapInv, CanCall
    PROVE  /\ \A r \in Reg : AtEntry[r] = SysVal(current, r)
           /\ AtEntry \in [Reg -> Words]
           /\ Gather(SyscallPush, AtEntry) = Saved(current)
           /\ ToCAbi(AtEntry)["rdi"] = Own(current, "rax")
           /\ ToCAbi(AtEntry)["rsi"] = Own(current, "rdi")
           /\ ToCAbi(AtEntry)["rdx"] = Own(current, "rsi")
           /\ ToCAbi(AtEntry) \in [Reg -> Words]
<1> DEFINE p == current
<1>0. At("user") /\ rip[4] \in {1, 2}
  BY DEF CanCall
<1>1. p \in Idx /\ regs \in [Reg -> Words] /\ rflags = Flags
  BY <1>0, UserFacts
<1>2. PICK k \in 0 .. 2 : rip = Ip(p, "user", k) /\ rip[4] = k
                          /\ \A r \in Reg : regs[r] = UserVal(p, k, r)
  BY <1>0, UserFacts, Zenon
<1> HIDE DEF p
<1>3. \A r \in Reg : r \notin {"rax", "rcx", "r11"} => regs[r] = Own(p, r)
  BY <1>0, <1>2 DEF UserVal, SysVal
<1>4. [rip EXCEPT ![4] = 2] = Ip(p, "user", 2)
  BY <1>2 DEF Ip
<1>5. \A r \in Reg : AtEntry[r] = SysVal(p, r)
  <2>1. AtEntry = [regs EXCEPT !["rax"] = Own(p, "rax"), !["rcx"] = Ip(p, "user", 2),
                               !["r11"] = Flags]
    BY <1>1, <1>4, Zenon DEF AtEntry, p
  <2> QED
    BY <1>1, <1>3, <2>1, SyscallOrderFacts DEF SysVal
<1>6. AtEntry \in [Reg -> Words]
  <2>1. DOMAIN AtEntry = Reg /\ AtEntry = [r \in Reg |-> AtEntry[r]]
    BY <1>1 DEF AtEntry
  <2>2. \A r \in Reg : AtEntry[r] \in Words
    BY <1>1, <1>5, SavedFacts, Zenon
  <2> HIDE DEF AtEntry
  <2> QED
    BY <2>1, <2>2
<1>7. Gather(SyscallPush, AtEntry) = Saved(p)
  <2>1. \A i \in 1 .. 14 : AtEntry[SyscallPush[i]] = SysVal(p, SyscallPush[i])
    BY <1>5, SyscallOrderFacts, Zenon
  <2>2. DOMAIN SyscallPush = 1 .. 14
    BY SyscallOrderFacts
  <2> QED
    BY <2>1, <2>2, Zenon DEF Gather, Saved
<1>8. /\ AtEntry["rax"] = Own(p, "rax") /\ AtEntry["rdi"] = Own(p, "rdi")
      /\ AtEntry["rsi"] = Own(p, "rsi")
  BY <1>5, SyscallOrderFacts DEF SysVal
<1> DEFINE f == AtEntry
<1> HIDE DEF f
<1>9. /\ ToCAbi(f)["rdi"] = f["rax"] /\ ToCAbi(f)["rsi"] = f["rdi"]
      /\ ToCAbi(f)["rdx"] = f["rsi"] /\ ToCAbi(f) \in [Reg -> Words]
  <2>1. f \in [Reg -> Words]
    BY <1>6 DEF f
  <2> DEFINE g == Mov(f, "rdx", "rsi")
             h == Mov(g, "rsi", "rdi")
  <2>2. g \in [Reg -> Words] /\ g["rdx"] = f["rsi"] /\ g["rdi"] = f["rdi"]
        /\ g["rax"] = f["rax"]
    BY <2>1, SyscallOrderFacts DEF Mov
  <2> HIDE DEF g
  <2>3. h \in [Reg -> Words] /\ h["rdx"] = g["rdx"] /\ h["rsi"] = g["rdi"]
        /\ h["rax"] = g["rax"]
    BY <2>2, SyscallOrderFacts DEF Mov
  <2>4. ToCAbi(f) = Mov(h, "rdi", "rax")
    BY Zenon DEF ToCAbi, g
  <2> HIDE DEF h
  <2> QED
    BY <2>2, <2>3, <2>4, SyscallOrderFacts DEF Mov
<1> QED
  BY <1>5, <1>6, <1>7, <1>8, <1>9, Zenon DEF f, p

(* handle_syscall gets the caller's arguments.                               *)
LEMMA CalledArguments ==
    ASSUME TrapInv, CanCall, Called
    PROVE  ArgumentsArrive'
<1> DEFINE f == ToCAbi(AtEntry)
           three == <<"rdi", "rsi", "rdx">>
<1>1. /\ f["rdi"] = Own(current, "rax") /\ f["rsi"] = Own(current, "rdi")
      /\ f["rdx"] = Own(current, "rsi") /\ current \in Idx
  BY EntryFacts, UserFacts, Zenon DEF CanCall
<1>2. args' = <<current>> \o Gather(three, f)
  BY DEF Called
<1> HIDE DEF f
<1>3. Gather(three, f) = <<Own(current, "rax"), Own(current, "rdi"), Own(current, "rsi")>>
  BY <1>1 DEF Gather
<1>4. args' = <<current, Own(current, "rax"), Own(current, "rdi"), Own(current, "rsi")>>
  <2>1. ASSUME NEW p, NEW a, NEW b, NEW c PROVE <<p>> \o <<a, b, c>> = <<p, a, b, c>>
    <3> DEFINE S == {p, a, b, c}
               X == <<p>>
               Y == <<a, b, c>>
               Z == <<p, a, b, c>>
    <3>1. /\ X \in Seq(S) /\ Len(X) = 1 /\ X[1] = p
          /\ Y \in Seq(S) /\ Len(Y) = 3 /\ Y[1] = a /\ Y[2] = b /\ Y[3] = c
          /\ Z \in Seq(S) /\ Len(Z) = 4 /\ Z[1] = p /\ Z[2] = a /\ Z[3] = b /\ Z[4] = c
      OBVIOUS
    <3> HIDE DEF S, X, Y, Z
    <3>2. /\ X \o Y \in Seq(S) /\ Len(X \o Y) = 4 /\ (X \o Y)[1] = X[1]
          /\ (X \o Y)[2] = Y[1] /\ (X \o Y)[3] = Y[2] /\ (X \o Y)[4] = Y[3]
      <4>1. /\ X \o Y \in Seq(S) /\ Len(X \o Y) = Len(X) + Len(Y)
            /\ \A i \in 1 .. Len(X) + Len(Y) :
                  (X \o Y)[i] = IF i <= Len(X) THEN X[i] ELSE Y[i - Len(X)]
        BY <3>1, ConcatProperties, Zenon
      <4> QED
        BY <3>1, <4>1
    <3>3. \A i \in 1 .. 4 : (X \o Y)[i] = Z[i]
      BY <3>1, <3>2
    <3>4. X \o Y = Z
      BY <3>1, <3>2, <3>3, SeqEqual
    <3> QED
      BY <3>4 DEF X, Y, Z
  <2> QED
    BY <1>2, <1>3, <2>1, Zenon
<1> QED
  BY <1>1, <1>4, Zenon DEF ArgumentsArrive, Own

(* SyscallPop brings back what SyscallPush has saved, and only RAX is left   *)
(* to handle_syscall.                                                        *)
LEMMA SyscallRestores ==
    ASSUME NEW m \in [Stacks -> Seq(Words)], NEW p \in Idx, m[<<"user", p>>] = Saved(p),
           NEW old \in [Reg -> Words]
    PROVE  LET file == Scatter(SyscallPop, old, m, Ptr(p, "user", 14))
           IN  /\ file \in [Reg -> Words] /\ file["rax"] = old["rax"]
               /\ \A r \in Reg : r # "rax" => file[r] = SysVal(p, r)
<1> DEFINE ptr == Ptr(p, "user", 14)
           file == Scatter(SyscallPop, old, m, ptr)
<1>1. /\ Saved(p) \in Seq(Words) /\ Len(Saved(p)) = 14
      /\ \A i \in 1 .. 14 : Saved(p)[i] = SysVal(p, SyscallPush[i])
      /\ \A r \in Reg : SysVal(p, r) \in Words
  BY SavedFacts, Zenon
<1>2. StackOf(ptr) = <<"user", p>> /\ ptr[4] = 14
  BY DEF StackOf, Ptr
<1> HIDE DEF ptr
<1>3. DOMAIN Saved(p) = 1 .. 14
  BY <1>1
<1>4. ASSUME NEW r \in Reg, r # "rax" PROVE file[r] = SysVal(p, r)
  <2>1. PICK i \in 1 .. 14 : SyscallPop[i] = r
    BY <1>4, SyscallOrderFacts, Zenon
  <2>2. Position(SyscallPop, r) = i /\ r \in Range(SyscallPop)
    <3>1. r \in Range(SyscallPop)
      BY <2>1, SyscallOrderFacts DEF Range
    <3> QED
      BY <2>1, <3>1, SyscallOrderFacts, PositionFacts
  <2>3. 14 - (i - 1) = 15 - i /\ 15 - i \in 1 .. 14
    OBVIOUS
  <2>4. Word(m, ptr, i - 1) = Saved(p)[15 - i]
    BY <1>2, <1>3, <2>3, Zenon DEF Word
  <2>5. SyscallPush[15 - i] = r
    BY <2>1, SyscallOrderFacts, Zenon
  <2>6. Saved(p)[15 - i] = SysVal(p, r)
    BY <1>1, <2>3, <2>5, Zenon
  <2>7. file[r] = Word(m, ptr, i - 1)
    BY <2>2, Zenon DEF Scatter
  <2> QED
    BY <2>4, <2>6, <2>7, Zenon
<1>5. file["rax"] = old["rax"] /\ "rax" \in Reg
  <2>1. "rax" \in Reg
    BY SyscallOrderFacts
  <2>2. "rax" \notin Range(SyscallPop)
    <3>2. \A i \in 1 .. 14 : SyscallPop[i] # "rax"
      BY DEF SyscallPop
    <3> QED
      BY <3>2, SyscallOrderFacts DEF Range
  <2> QED
    BY <2>1, <2>2, Zenon DEF Scatter
<1>6. file \in [Reg -> Words]
  <2>1. file = [r \in Reg |-> file[r]]
    BY Zenon DEF Scatter
  <2> HIDE DEF file
  <2>2. \A r \in Reg : file[r] \in Words
    BY <1>1, <1>4, <1>5, Zenon
  <2> QED
    BY <2>1, <2>2, Zenon
<1> QED
  BY <1>4, <1>5, <1>6, Zenon DEF ptr

(* The registers after handle_syscall.                                       *)
LEMMA CallReturns ==
    ASSUME current \in Idx, NEW file \in [Reg -> Words]
    PROVE  AfterCall(file) \in [Reg -> Words] /\ AfterCall(file)["rax"] = Result(current)
<1>1. Result(current) \in Words /\ Junk \in Words /\ \A r \in Reg : file[r] \in Words
  BY WordTypes, Zenon
<1>2. "rax" \in Reg
  BY SyscallOrderFacts
<1> QED
  BY <1>1, <1>2 DEF AfterCall

(* Pushing on the empty user stack.                                          *)
LEMMA UserPush ==
    ASSUME TrapInv, At("user"), NEW words \in Seq(Words)
    PROVE  /\ Pushed(mem, rsp, words) = With(mem, "user", current, words)
           /\ \A n \in Nat : Down(rsp, n) = Ptr(current, "user", n)
<1>1. /\ current \in Idx /\ mem \in [Stacks -> Seq(Words)]
      /\ rsp = Ptr(current, "user", 0) /\ StacksOf(current, mem) = NoWords
  BY UserFacts, Zenon
<1>2. mem[<<"user", current>>] = <<>> /\ "user" \in Kinds
  <2>1. StacksOf(current, mem)["user"] = mem[<<"user", current>>] /\ NoWords["user"] = <<>>
    BY DEF StacksOf, NoWords, Kinds
  <2> QED
    BY <1>1, <2>1 DEF Kinds
<1>3. <<>> \o words = words /\ Len(<<>>) = 0
  BY ConcatEmptySeq
<1>4. Pushed(mem, Ptr(current, "user", Len(mem[<<"user", current>>])), words)
        = With(mem, "user", current, mem[<<"user", current>>] \o words)
  BY <1>1, <1>2, PushedWords, Zenon
<1>5. \A n \in Nat : Down(Ptr(current, "user", 0), n) = Ptr(current, "user", n)
  <2> SUFFICES ASSUME NEW n \in Nat PROVE Down(Ptr(current, "user", 0), n) = Ptr(current, "user", n)
    OBVIOUS
  <2>1. Down(Ptr(current, "user", 0), n) = Ptr(current, "user", 0 + n) /\ 0 + n = n
    BY Pointers
  <2> QED
    BY <2>1, Zenon
<1> QED
  BY <1>1, <1>2, <1>3, <1>4, <1>5, Zenon

(* A syscall from SYSCALL to SYSRET.                                         *)
LEMMA SyscallStep ==
    ASSUME TrapInv, Syscall
    PROVE  TrapInv' /\ \E v \in 0 .. 2 : Virtual!Step(v)
<1> DEFINE p == current
           m == Pushed(mem, rsp, Gather(SyscallPush, AtEntry))
           old == AfterCall(ToCAbi(AtEntry))
           file == Scatter(SyscallPop, old, m, Down(rsp, Len(SyscallPush)))
<1>1. /\ CanCall /\ At("user") /\ regs' = file /\ Sysretq(file) /\ Called
      /\ rsp' = rsp /\ mem' = mem /\ UNCHANGED <<kernel_rsp, rsp0, current>>
  BY DEF Syscall, CanCall
<1>2. /\ p \in Idx /\ mem \in [Stacks -> Seq(Words)]
      /\ rsp = Ptr(p, "user", 0) /\ StacksOf(p, mem) = NoWords
  BY <1>1, UserFacts, Zenon
<1>3. /\ Gather(SyscallPush, AtEntry) = Saved(p) /\ ToCAbi(AtEntry) \in [Reg -> Words]
  BY <1>1, EntryFacts, Zenon
<1>4. Saved(p) \in Seq(Words) /\ Len(SyscallPush) = 14 /\ 14 \in Nat /\ "user" \in Kinds
  BY <1>2, SavedFacts, SyscallOrderFacts DEF Kinds
<1>5. m = With(mem, "user", p, Saved(p)) /\ Down(rsp, 14) = Ptr(p, "user", 14)
  BY <1>1, <1>3, <1>4, UserPush, Zenon
<1>6. m \in [Stacks -> Seq(Words)] /\ m[<<"user", p>>] = Saved(p)
  <2>1. /\ With(mem, "user", p, Saved(p)) \in [Stacks -> Seq(Words)]
        /\ With(mem, "user", p, Saved(p))[<<"user", p>>] = Saved(p)
    BY <1>2, <1>4, WithFacts, Zenon
  <2> HIDE DEF m
  <2> QED
    BY <1>5, <2>1, Zenon
<1>7. old \in [Reg -> Words] /\ old["rax"] = Result(p)
  BY <1>2, <1>3, CallReturns, Zenon
<1> HIDE DEF m, old
<1>8. /\ file \in [Reg -> Words] /\ file["rax"] = old["rax"]
      /\ \A r \in Reg : r # "rax" => file[r] = SysVal(p, r)
  <2> DEFINE g == Scatter(SyscallPop, old, m, Ptr(p, "user", 14))
  <2>1. /\ g \in [Reg -> Words] /\ g["rax"] = old["rax"]
        /\ \A r \in Reg : r # "rax" => g[r] = SysVal(p, r)
    BY <1>2, <1>6, <1>7, SyscallRestores, Zenon
  <2>2. file = g
    BY <1>4, <1>5, Zenon
  <2> HIDE DEF file, g
  <2> QED
    BY <2>1, <2>2, Zenon
<1> HIDE DEF file, p
<1>9. file["rcx"] = Ip(p, "user", 2) /\ file["r11"] = Flags
  BY <1>8, SyscallOrderFacts DEF SysVal
<1>10. /\ rip' = Ip(p, "user", 2) /\ rflags' = Flags
       /\ cs' = Sel(UserCode) /\ ss' = Sel(UserData)
  BY <1>1, <1>9, Selectors DEF Sysretq
<1>11. cs' = CodeOf(rip') /\ ss' = DataOf(rip')
  <2>1. rip'[3] = "user"
    BY <1>10, WordParts
  <2> QED
    BY <1>10, <2>1, Zenon DEF CodeOf, DataOf
<1>12. /\ mem' \in [Stacks -> Seq(Words)]
       /\ \A q \in Idx : q # p => SameStacks(q, mem, mem')
       /\ StacksOf(p, mem') = StacksOf(p, mem)
  BY <1>1, SameMemory, Zenon DEF p
<1>13. Context(p, rip', rsp', regs', StacksOf(p, mem'))
  <2>1. \A r \in Reg : regs'[r] = UserVal(p, 2, r)
    BY <1>1, <1>7, <1>8 DEF UserVal
  <2>2. 2 \in 0 .. 2 /\ rsp' = Ptr(p, "user", 0) /\ StacksOf(p, mem') = NoWords
    BY <1>1, <1>2, <1>12
  <2> QED
    BY <1>10, <2>1, <2>2, Zenon DEF Context, InUser
<1>14. ArgumentsArrive'
  BY <1>1, CalledArguments
<1> QED
  BY <1>1, <1>8, <1>10, <1>11, <1>12, <1>13, <1>14, OwnStep, Zenon DEF p

(* SYS_YIELD down to its HLT.                                                *)
LEMMA YieldStep ==
    ASSUME TrapInv, Yield
    PROVE  TrapInv' /\ \E v \in 0 .. 2 : Virtual!Step(v)
<1> DEFINE p == current
           Z == Append(Saved(p), Ip(p, "exit", 1))
<1>1. /\ CanCall /\ At("user") /\ Called
      /\ mem' = Pushed(mem, rsp, Append(Gather(SyscallPush, AtEntry), Ip(p, "exit", 1)))
      /\ rsp' = Down(rsp, Len(SyscallPush) + 1)
      /\ regs' = AfterCall(ToCAbi(AtEntry))
      /\ rip' = Ip(p, "hlt", 0) /\ cs' = Sel(KernelCode) /\ ss' = Sel(KernelData)
      /\ rflags' = rflags /\ UNCHANGED <<kernel_rsp, rsp0, current>>
  BY DEF Yield, CanCall
<1>2. p \in Idx /\ rflags = Flags /\ StacksOf(p, mem) = NoWords
  BY <1>1, UserFacts, Zenon
<1>3. /\ Gather(SyscallPush, AtEntry) = Saved(p) /\ ToCAbi(AtEntry) \in [Reg -> Words]
  BY <1>1, EntryFacts, Zenon
<1>4. Z \in Seq(Words) /\ 15 \in Nat /\ "user" \in Kinds /\ Len(SyscallPush) + 1 = 15
  BY <1>2, CallFacts, SyscallOrderFacts DEF Kinds
<1> HIDE DEF Z
<1>5. mem' = With(mem, "user", p, Z) /\ rsp' = Ptr(p, "user", 15)
  <2>1. mem' = Pushed(mem, rsp, Z)
    BY <1>1, <1>3, Zenon DEF Z
  <2>2. Pushed(mem, rsp, Z) = With(mem, "user", p, Z) /\ Down(rsp, 15) = Ptr(p, "user", 15)
    BY <1>1, <1>4, UserPush, Zenon
  <2> QED
    BY <1>1, <1>4, <2>1, <2>2, Zenon
<1>6. /\ mem' \in [Stacks -> Seq(Words)]
      /\ \A q \in Idx : q # p => SameStacks(q, mem, mem')
      /\ StacksOf(p, mem') = Only("user", Z)
  BY <1>2, <1>4, <1>5, OwnMemory, Zenon
<1>7. regs' \in [Reg -> Words] /\ regs'["rax"] = Result(p)
  BY <1>1, <1>2, <1>3, CallReturns, Zenon
<1> HIDE DEF p
<1>8. Context(p, rip', rsp', regs', StacksOf(p, mem'))
  <2>1. rip' \in {Ip(p, "hlt", 0), Ip(p, "ret", 0)}
    BY <1>1
  <2> QED
    BY <1>5, <1>6, <1>7, <2>1, Zenon DEF Context, InCall, Z
<1>9. cs' = CodeOf(rip') /\ ss' = DataOf(rip')
  <2>1. rip'[3] = "hlt"
    BY <1>1, WordParts
  <2> QED
    BY <1>1, <2>1 DEF CodeOf, DataOf
<1>10. ArgumentsArrive'
  BY <1>1, CalledArguments
<1> QED
  BY <1>1, <1>2, <1>6, <1>7, <1>8, <1>9, <1>10, OwnStep, Zenon DEF p

(* Where the process on the CPU is when it is not in ring 3.                 *)
LEMMA KernelFacts ==
    ASSUME TrapInv
    PROVE  /\ current \in Idx /\ mem \in [Stacks -> Seq(Words)] /\ regs \in [Reg -> Words]
           /\ rflags = Flags /\ cs = CodeOf(rip) /\ ss = DataOf(rip)
           /\ At("ret") => InCall(current, rip, rsp, regs, StacksOf(current, mem))
           /\ At("exit") => InExit(current, rip, rsp, regs, StacksOf(current, mem))
           /\ At("boot") => InBoot(current, rip, rsp, regs, StacksOf(current, mem))
<1> DEFINE p == current
           M == StacksOf(p, mem)
<1>1. /\ p \in Idx /\ mem \in [Stacks -> Seq(Words)] /\ regs \in [Reg -> Words]
      /\ rflags = Flags /\ cs = CodeOf(rip) /\ ss = DataOf(rip)
      /\ Context(p, rip, rsp, regs, M)
  BY DEF TrapInv, TrapTypeOK, CurrentRuns
<1> HIDE DEF p, M
<1>2. InUser(p, rip, rsp, regs, M) => rip[3] = "user"
  BY WordParts DEF InUser
<1>3. InCall(p, rip, rsp, regs, M) => rip[3] \in {"hlt", "ret"}
  BY WordParts DEF InCall
<1>4. InExit(p, rip, rsp, regs, M) => rip[3] = "exit"
  BY WordParts DEF InExit
<1>5. InBoot(p, rip, rsp, regs, M) => rip[3] = "boot"
  BY WordParts DEF InBoot
<1> QED
  BY <1>1, <1>2, <1>3, <1>4, <1>5 DEF Context, At, p, M

(* A pop between two instructions of the running process, from a stack of    *)
(* its own that holds the first d words of Z.                                *)
LEMMA PopStep ==
    ASSUME TrapInv, NEW s \in Kinds, NEW Z \in Seq(Words), NEW d \in 1 .. Len(Z),
           StacksOf(current, mem) = Only(s, SubSeq(Z, 1, d)), rsp = Ptr(current, s, d),
           rsp' = Down(rsp, -1), mem' = Dropped(mem, rsp')
    PROVE  /\ Word(mem, rsp, 0) = Z[d] /\ Z[d] \in Words
           /\ rsp' = Ptr(current, s, d - 1)
           /\ mem' \in [Stacks -> Seq(Words)]
           /\ \A q \in Idx : q # current => SameStacks(q, mem, mem')
           /\ StacksOf(current, mem') = Only(s, SubSeq(Z, 1, d - 1))
<1>1. current \in Idx /\ mem \in [Stacks -> Seq(Words)]
  BY DEF TrapInv, TrapTypeOK
<1>2. mem[<<s, current>>] = SubSeq(Z, 1, d)
  <2>1. StacksOf(current, mem)[s] = mem[<<s, current>>]
    BY Zenon DEF StacksOf
  <2> QED
    BY <2>1, OnlyFacts, Zenon
<1>3. /\ Word(mem, Ptr(current, s, d), 0) = Z[d] /\ Z[d] \in Words
      /\ Down(Ptr(current, s, d), -1) = Ptr(current, s, d - 1)
      /\ Dropped(mem, Ptr(current, s, d - 1)) = With(mem, s, current, SubSeq(Z, 1, d - 1))
      /\ SubSeq(Z, 1, d - 1) \in Seq(Words)
  BY <1>1, <1>2, PopWord, Zenon
<1>4. rsp' = Ptr(current, s, d - 1) /\ mem' = With(mem, s, current, SubSeq(Z, 1, d - 1))
  BY <1>3, Zenon
<1> QED
  BY <1>3, <1>4, OwnMemory, Zenon

(* The way out of a syscall, one instruction at a time.                      *)
LEMMA ExitStep ==
    ASSUME TrapInv, SyscallExit
    PROVE  TrapInv' /\ \E v \in 0 .. 2 : Virtual!Step(v)
<1> DEFINE p == current
<1>1. /\ p \in Idx /\ regs \in [Reg -> Words] /\ rflags = Flags
      /\ cs = CodeOf(rip) /\ ss = DataOf(rip)
      /\ Saved(p) \in Seq(Words) /\ Len(Saved(p)) = 14 /\ "user" \in Kinds
  BY KernelFacts, SavedFacts, Zenon DEF Kinds
<1>2. UNCHANGED <<kernel_rsp, rsp0, current>> /\ args' = args
  BY DEF SyscallExit
<1>3. ArgumentsArrive'
  BY <1>2 DEF TrapInv, ArgumentsArrive
<1>4. ASSUME rip[3] # "user", rip'[3] # "user"
      PROVE  CodeOf(rip') = CodeOf(rip) /\ DataOf(rip') = DataOf(rip)
  BY <1>4, Zenon DEF CodeOf, DataOf
<1>5. CASE /\ At("ret")
           /\ rip' = Word(mem, rsp, 0)
           /\ rsp' = Down(rsp, -1)
           /\ mem' = Dropped(mem, rsp')
           /\ UNCHANGED <<regs, rflags, cs, ss>>
  <2> DEFINE Z == Append(Saved(p), Ip(p, "exit", 1))
  <2>1. /\ rsp = Ptr(p, "user", 15) /\ StacksOf(p, mem) = Only("user", Z)
        /\ regs["rax"] = Result(p)
    BY <1>5, KernelFacts, Zenon DEF InCall
  <2>2. /\ Z \in Seq(Words) /\ Len(Z) = 15 /\ Z[15] = Ip(p, "exit", 1)
        /\ SubSeq(Z, 1, 14) = Saved(p) /\ SubSeq(Saved(p), 1, 14) = Saved(p)
    BY <1>1, CallFacts, Zenon
  <2> HIDE DEF Z
  <2>3. 15 \in 1 .. Len(Z) /\ SubSeq(Z, 1, 15) = Z /\ 15 - 1 = 14
    <3>1. SubSeq(Z, 1, Len(Z)) = Z
      BY <2>2, SubSeqFull, Zenon
    <3>2. 15 \in 1 .. 15 /\ 15 - 1 = 14
      OBVIOUS
    <3> QED
      BY <2>2, <3>1, <3>2, Zenon
  <2>4. /\ Word(mem, rsp, 0) = Z[15] /\ rsp' = Ptr(p, "user", 15 - 1)
        /\ mem' \in [Stacks -> Seq(Words)]
        /\ \A q \in Idx : q # p => SameStacks(q, mem, mem')
        /\ StacksOf(p, mem') = Only("user", SubSeq(Z, 1, 15 - 1))
    <3>1. StacksOf(p, mem) = Only("user", SubSeq(Z, 1, 15))
      BY <2>1, <2>3, Zenon
    <3> QED
      BY <1>1, <1>5, <2>1, <2>2, <2>3, <3>1, PopStep, Zenon
  <2>5. rip' = Ip(p, "exit", 1) /\ rsp' = Ptr(p, "user", 14)
        /\ StacksOf(p, mem') = Only("user", SubSeq(Saved(p), 1, 14))
    BY <1>5, <2>2, <2>3, <2>4, Zenon
  <2> HIDE DEF p
  <2>6. Context(p, rip', rsp', regs', StacksOf(p, mem'))
    <3>1. 1 \in 1 .. 15 /\ 15 - 1 = 14 /\ regs' = regs
          /\ \A i \in 1 .. 1 - 1 : regs'[SyscallPop[i]] = SysVal(p, SyscallPop[i])
      BY <1>5
    <3>2. InExit(p, rip', rsp', regs', StacksOf(p, mem'))
      BY <2>1, <2>5, <3>1, Zenon DEF InExit
    <3> QED
      BY <3>2, Zenon DEF Context
  <2>7. rip[3] # "user" /\ rip'[3] # "user"
    BY <1>5, <2>5, WordParts DEF At
  <2>8. rflags' = Flags /\ cs' = CodeOf(rip') /\ ss' = DataOf(rip') /\ regs' \in [Reg -> Words]
    BY <1>1, <1>4, <1>5, <2>7, Zenon
  <2> QED
    BY <1>2, <1>3, <2>4, <2>6, <2>8, OwnStep, Zenon DEF p
<1>6. CASE At("exit") /\ PopInstr(SyscallPop)
  <2>1. InExit(p, rip, rsp, regs, StacksOf(p, mem))
    BY <1>6, KernelFacts, Zenon
  <2> HIDE DEF p
  <2>2. PICK k \in 1 .. 15 :
        /\ rip = Ip(p, "exit", k)
        /\ rsp = Ptr(p, "user", 15 - k)
        /\ StacksOf(p, mem) = Only("user", SubSeq(Saved(p), 1, 15 - k))
        /\ regs["rax"] = Result(p)
        /\ \A i \in 1 .. k - 1 : regs[SyscallPop[i]] = SysVal(p, SyscallPop[i])
    BY <2>1, Zenon DEF InExit
  <2>3. rip[3] = "exit" /\ rip[4] = k
    BY <2>2, WordParts
  <2>4. /\ k \in 1 .. 14
        /\ regs' = [regs EXCEPT ![SyscallPop[k]] = Word(mem, rsp, 0)]
        /\ rsp' = Down(rsp, -1) /\ mem' = Dropped(mem, rsp')
        /\ rip' = [rip EXCEPT ![4] = k + 1] /\ UNCHANGED <<rflags, cs, ss>>
    BY <1>6, <2>3, SyscallOrderFacts, Zenon DEF PopInstr, Goto
  <2>5. /\ 15 - k \in 1 .. 14 /\ (15 - k) - 1 = 15 - (k + 1) /\ k + 1 \in 1 .. 15
        /\ (k + 1) - 1 = k /\ 15 - (15 - k) = k
    BY <2>4
  <2>6. /\ Word(mem, rsp, 0) = Saved(p)[15 - k] /\ Saved(p)[15 - k] \in Words
        /\ rsp' = Ptr(p, "user", (15 - k) - 1)
        /\ mem' \in [Stacks -> Seq(Words)]
        /\ \A q \in Idx : q # p => SameStacks(q, mem, mem')
        /\ StacksOf(p, mem') = Only("user", SubSeq(Saved(p), 1, (15 - k) - 1))
    BY <1>1, <2>2, <2>4, <2>5, PopStep, Zenon DEF p
  <2>7. Saved(p)[15 - k] = SysVal(p, SyscallPop[k])
    <3>1. SyscallPop[k] = SyscallPush[15 - k]
      BY <2>4, SyscallOrderFacts, Zenon
    <3> QED
      BY <1>1, <2>5, <3>1, SavedFacts, Zenon DEF p
  <2>8. rip' = Ip(p, "exit", k + 1)
    BY <2>2, <2>4 DEF Ip
  <2>9. SyscallPop[k] \in Reg /\ SyscallPop[k] # "rax"
    <3>1. SyscallPop[k] = SyscallPush[15 - k]
      BY <2>4, SyscallOrderFacts, Zenon
    <3> QED
      BY <2>5, <3>1, SyscallOrderFacts, ZenonT(60)
  <2>10. /\ regs' \in [Reg -> Words] /\ regs'[SyscallPop[k]] = SysVal(p, SyscallPop[k])
         /\ \A r \in Reg : r # SyscallPop[k] => regs'[r] = regs[r]
    BY <1>1, <2>4, <2>6, <2>7, <2>9
  <2>11. ASSUME NEW i \in 1 .. (k + 1) - 1 PROVE regs'[SyscallPop[i]] = SysVal(p, SyscallPop[i])
    <3>1. CASE i = k
      BY <2>10, <3>1
    <3>2. CASE i # k
      <4>1. i \in 1 .. k - 1 /\ i \in 1 .. 14 /\ 15 - i \in 1 .. 14
        BY <2>4, <3>2
      <4>2. SyscallPop[i] # SyscallPop[k]
        BY <2>4, <3>2, <4>1, SyscallOrderFacts, Zenon
      <4>3. SyscallPop[i] \in Reg
        <5>1. SyscallPop[i] = SyscallPush[15 - i]
          BY <4>1, SyscallOrderFacts, Zenon
        <5> QED
          BY <4>1, <5>1, SyscallOrderFacts, Zenon
      <4> QED
        BY <2>2, <2>10, <4>1, <4>2, <4>3, Zenon
    <3> QED
      BY <3>1, <3>2
  <2>12. regs'["rax"] = Result(p)
    <3>1. "rax" \in Reg
      BY SyscallOrderFacts
    <3> QED
      BY <2>2, <2>9, <2>10, <3>1, Zenon
  <2>13. Context(p, rip', rsp', regs', StacksOf(p, mem'))
    <3>1. rsp' = Ptr(p, "user", 15 - (k + 1))
          /\ StacksOf(p, mem') = Only("user", SubSeq(Saved(p), 1, 15 - (k + 1)))
      BY <2>5, <2>6, Zenon
    <3>2. InExit(p, rip', rsp', regs', StacksOf(p, mem'))
      BY <2>5, <2>8, <2>11, <2>12, <3>1, Zenon DEF InExit
    <3> QED
      BY <3>2, Zenon DEF Context
  <2>14. rip[3] # "user" /\ rip'[3] # "user"
    BY <2>3, <2>8, WordParts
  <2>15. rflags' = Flags /\ cs' = CodeOf(rip') /\ ss' = DataOf(rip')
    BY <1>1, <1>4, <2>4, <2>14, Zenon
  <2> QED
    BY <1>2, <1>3, <2>6, <2>10, <2>13, <2>15, OwnStep, Zenon DEF p
<1>7. CASE /\ At("exit") /\ rip[4] = Len(SyscallPop) + 1
           /\ Sysretq(regs)
           /\ UNCHANGED <<regs, rsp, mem>>
  <2>1. InExit(p, rip, rsp, regs, StacksOf(p, mem))
    BY <1>7, KernelFacts, Zenon
  <2> HIDE DEF p
  <2>2. PICK k \in 1 .. 15 :
        /\ rip = Ip(p, "exit", k)
        /\ rsp = Ptr(p, "user", 15 - k)
        /\ StacksOf(p, mem) = Only("user", SubSeq(Saved(p), 1, 15 - k))
        /\ regs["rax"] = Result(p)
        /\ \A i \in 1 .. k - 1 : regs[SyscallPop[i]] = SysVal(p, SyscallPop[i])
    BY <2>1, Zenon DEF InExit
  <2>3. k = 15
    <3>1. rip[4] = k /\ Len(SyscallPop) = 14
      BY <2>2, WordParts, SyscallOrderFacts
    <3> QED
      BY <1>7, <3>1
  <2>4. rsp = Ptr(p, "user", 0) /\ StacksOf(p, mem) = NoWords
    <3>1. 15 - k = 0 /\ SubSeq(Saved(p), 1, 0) = <<>>
      BY <1>1, <2>3, SubSeqEmpty
    <3>2. StacksOf(p, mem) = Only("user", <<>>)
      BY <2>2, <3>1, Zenon
    <3> QED
      BY <1>1, <2>2, <3>1, <3>2, OnlyFacts, Zenon
  <2>5. ASSUME NEW r \in Reg, r # "rax" PROVE regs[r] = SysVal(p, r)
    <3>1. PICK i \in 1 .. 14 : SyscallPop[i] = r
      BY <2>5, SyscallOrderFacts, Zenon
    <3>2. i \in 1 .. k - 1
      BY <2>3
    <3> QED
      BY <2>2, <3>1, <3>2, Zenon
  <2>6. regs["rcx"] = Ip(p, "user", 2) /\ regs["r11"] = Flags
    BY <2>5, SyscallOrderFacts DEF SysVal
  <2>7. /\ rip' = Ip(p, "user", 2) /\ rflags' = Flags
        /\ cs' = Sel(UserCode) /\ ss' = Sel(UserData) /\ regs' = regs /\ rsp' = rsp /\ mem' = mem
    BY <1>7, <2>6, Selectors DEF Sysretq
  <2>8. cs' = CodeOf(rip') /\ ss' = DataOf(rip')
    <3>1. rip'[3] = "user"
      BY <2>7, WordParts
    <3> QED
      BY <2>7, <3>1, Zenon DEF CodeOf, DataOf
  <2>9. /\ mem' \in [Stacks -> Seq(Words)]
        /\ \A q \in Idx : q # p => SameStacks(q, mem, mem')
        /\ StacksOf(p, mem') = StacksOf(p, mem)
    BY <2>7, SameMemory, Zenon DEF p
  <2>10. Context(p, rip', rsp', regs', StacksOf(p, mem'))
    <3>1. \A r \in Reg : regs'[r] = UserVal(p, 2, r)
      BY <2>2, <2>5, <2>7 DEF UserVal
    <3>2. 2 \in 0 .. 2 /\ rsp' = Ptr(p, "user", 0) /\ StacksOf(p, mem') = NoWords
      BY <2>4, <2>7, <2>9
    <3> QED
      BY <2>7, <3>1, <3>2, Zenon DEF Context, InUser
  <2> QED
    BY <1>1, <1>2, <1>3, <2>7, <2>8, <2>9, <2>10, OwnStep, Zenon DEF p
<1> QED
  BY <1>5, <1>6, <1>7 DEF SyscallExit

(* What a pop of the ignition finds: after all but the last five words the   *)
(* frame of create_user_process holds zeros.                                 *)
LEMMA IgnitePop ==
    ASSUME TrapInv, At("boot"), PopInstr(BootPop),
           UNCHANGED <<kernel_rsp, rsp0, current, args>>
    PROVE  TrapInv' /\ \E v \in 0 .. 2 : Virtual!Step(v)
<1> DEFINE p == current
           Z == FirstFrame(0)
<1>1. /\ p \in Idx /\ regs \in [Reg -> Words] /\ rflags = Flags
      /\ cs = CodeOf(rip) /\ ss = DataOf(rip)
      /\ InBoot(p, rip, rsp, regs, StacksOf(p, mem))
  BY KernelFacts, Zenon
<1>2. p = 0
  BY <1>1 DEF InBoot
<1> HIDE DEF p
<1>3. /\ Z \in Seq(Words) /\ Len(Z) = 20 /\ "kernel" \in Kinds
      /\ \A i \in 1 .. 15 : Z[5 + i] = Zero
  BY <1>1, <1>2, FirstFrameFacts, Zenon DEF Kinds
<1> HIDE DEF Z
<1>4. rip[4] \in 1 .. 15
  BY PopOrderFacts, Zenon DEF PopInstr
<1>5. PICK k \in 1 .. 16 :
        /\ rip = Ip(0, "boot", k)
        /\ rsp = Ptr(0, "kernel", 21 - k)
        /\ StacksOf(p, mem) = Only("kernel", SubSeq(Z, 1, 21 - k))
        /\ \A i \in 1 .. k - 1 : regs[BootPop[i]] = Zero
  <2>1. rip # Ip(0, "boot", 0)
    BY <1>4, WordParts
  <2> QED
    BY <1>1, <2>1, Zenon DEF InBoot, Z
<1>6. rip[3] = "boot" /\ rip[4] = k
  BY <1>5, WordParts
<1>7. /\ k \in 1 .. 15
      /\ regs' = [regs EXCEPT ![BootPop[k]] = Word(mem, rsp, 0)]
      /\ rsp' = Down(rsp, -1) /\ mem' = Dropped(mem, rsp')
      /\ rip' = [rip EXCEPT ![4] = k + 1] /\ UNCHANGED <<rflags, cs, ss>>
  BY <1>4, <1>6, Zenon DEF PopInstr, Goto
<1>8. /\ 21 - k \in 1 .. 20 /\ (21 - k) - 1 = 21 - (k + 1) /\ k + 1 \in 1 .. 16
      /\ (k + 1) - 1 = k /\ 16 - k \in 1 .. 15 /\ 5 + (16 - k) = 21 - k
  BY <1>7
<1>9. /\ Word(mem, rsp, 0) = Z[21 - k] /\ Z[21 - k] \in Words
      /\ rsp' = Ptr(0, "kernel", (21 - k) - 1)
      /\ mem' \in [Stacks -> Seq(Words)]
      /\ \A q \in Idx : q # p => SameStacks(q, mem, mem')
      /\ StacksOf(p, mem') = Only("kernel", SubSeq(Z, 1, (21 - k) - 1))
  <2>1. current = 0
    BY <1>2 DEF p
  <2>2. rsp = Ptr(current, "kernel", 21 - k)
        /\ StacksOf(current, mem) = Only("kernel", SubSeq(Z, 1, 21 - k))
    BY <1>5, <2>1, Zenon DEF p
  <2>3. 21 - k \in 1 .. Len(Z)
    BY <1>3, <1>8, Zenon
  <2>4. /\ Word(mem, rsp, 0) = Z[21 - k] /\ Z[21 - k] \in Words
        /\ rsp' = Ptr(current, "kernel", (21 - k) - 1)
        /\ mem' \in [Stacks -> Seq(Words)]
        /\ \A q \in Idx : q # current => SameStacks(q, mem, mem')
        /\ StacksOf(current, mem') = Only("kernel", SubSeq(Z, 1, (21 - k) - 1))
    BY <1>3, <1>7, <2>2, <2>3, PopStep, Zenon
  <2> QED
    BY <2>1, <2>4, Zenon DEF p
<1>10. Word(mem, rsp, 0) = Zero
  BY <1>3, <1>8, <1>9, Zenon
<1>11. BootPop[k] \in Reg
  <2>1. BootPop[k] = PushOrder[16 - k]
    BY <1>7, PopOrderFacts, Zenon
  <2> QED
    BY <1>8, <2>1, PushOrderFacts
<1>12. /\ regs' \in [Reg -> Words] /\ regs'[BootPop[k]] = Zero
       /\ \A r \in Reg : regs[r] = Zero => regs'[r] = Zero
  BY <1>1, <1>7, <1>9, <1>10, <1>11
<1>13. ASSUME NEW i \in 1 .. (k + 1) - 1 PROVE regs'[BootPop[i]] = Zero
  <2>1. CASE i = k
    BY <1>12, <2>1
  <2>2. CASE i # k
    <3>1. i \in 1 .. k - 1 /\ i \in 1 .. 15 /\ 16 - i \in 1 .. 15
      BY <1>7, <2>2
    <3>2. BootPop[i] = PushOrder[16 - i]
      BY <3>1, PopOrderFacts, Zenon
    <3>3. BootPop[i] \in Reg
      BY <3>1, <3>2, PushOrderFacts
    <3> QED
      BY <1>5, <1>12, <3>1, <3>3, Zenon
  <2> QED
    BY <2>1, <2>2
<1>14. rip' = Ip(0, "boot", k + 1)
  BY <1>5, <1>7 DEF Ip
<1>15. Context(p, rip', rsp', regs', StacksOf(p, mem'))
  <2>1. rsp' = Ptr(0, "kernel", 21 - (k + 1))
        /\ StacksOf(p, mem') = Only("kernel", SubSeq(FirstFrame(0), 1, 21 - (k + 1)))
    BY <1>8, <1>9, Zenon DEF Z
  <2>2. InBoot(p, rip', rsp', regs', StacksOf(p, mem'))
    BY <1>2, <1>8, <1>13, <1>14, <2>1, Zenon DEF InBoot
  <2> QED
    BY <2>2, Zenon DEF Context
<1>16. cs' = CodeOf(rip') /\ ss' = DataOf(rip') /\ rflags' = Flags
  <2>1. rip'[3] = "boot"
    BY <1>14, WordParts
  <2>2. CodeOf(rip') = CodeOf(rip) /\ DataOf(rip') = DataOf(rip)
    BY <1>6, <2>1, Zenon DEF CodeOf, DataOf
  <2> QED
    BY <1>1, <1>7, <2>2, Zenon
<1>17. ArgumentsArrive'
  BY DEF TrapInv, ArgumentsArrive
<1> QED
  BY <1>9, <1>12, <1>15, <1>16, <1>17, OwnStep, Zenon DEF p

(* The iretq that enters the first process.                                  *)
LEMMA IgniteIretq ==
    ASSUME TrapInv, At("boot"), rip[4] = Len(BootPop) + 1, Iretq(mem, rsp),
           UNCHANGED <<regs, kernel_rsp, rsp0, current, args>>
    PROVE  TrapInv' /\ \E v \in 0 .. 2 : Virtual!Step(v)
<1> DEFINE p == current
           Z == FirstFrame(0)
<1>1. /\ p \in Idx /\ mem \in [Stacks -> Seq(Words)] /\ regs \in [Reg -> Words]
      /\ InBoot(p, rip, rsp, regs, StacksOf(p, mem))
  BY KernelFacts, Zenon
<1>2. p = 0
  BY <1>1 DEF InBoot
<1> HIDE DEF p
<1>3. /\ Z \in Seq(Words) /\ Len(Z) = 20 /\ "kernel" \in Kinds
      /\ Z[1] = Sel(UserData) /\ Z[2] = Ptr(p, "user", 0) /\ Z[3] = Flags
      /\ Z[4] = Sel(UserCode) /\ Z[5] = Ip(p, "user", 0)
  BY <1>1, <1>2, FirstFrameFacts, Zenon DEF Kinds
<1> HIDE DEF Z
<1>4. rip[4] = 16
  BY PopOrderFacts
<1>5. PICK k \in 1 .. 16 :
        /\ rip = Ip(0, "boot", k)
        /\ rsp = Ptr(0, "kernel", 21 - k)
        /\ StacksOf(p, mem) = Only("kernel", SubSeq(Z, 1, 21 - k))
        /\ \A i \in 1 .. k - 1 : regs[BootPop[i]] = Zero
  <2>1. rip # Ip(0, "boot", 0)
    BY <1>4, WordParts
  <2> QED
    BY <1>1, <2>1, Zenon DEF InBoot, Z
<1>6. k = 16
  BY <1>4, <1>5, WordParts
<1> DEFINE S == SubSeq(Z, 1, 5)
<1>7. rsp = Ptr(p, "kernel", 5) /\ StacksOf(p, mem) = Only("kernel", S)
  <2>1. 21 - k = 5
    BY <1>6
  <2> QED
    BY <1>2, <1>5, <2>1, Zenon
<1>8. /\ S \in Seq(Words) /\ Len(S) = 5 /\ SubSeq(S, 1, 0) = <<>>
      /\ \A i \in 1 .. 5 : S[i] = Z[i]
  <2>1. 5 \in 0 .. 20
    OBVIOUS
  <2>2. /\ S \in Seq(Words) /\ Len(S) = 5
        /\ \A i \in 1 .. 5 : S[i] = Z[i]
    BY <1>3, <2>1, PrefixFacts, ZenonT(60)
  <2> HIDE DEF S
  <2>3. SubSeq(S, 1, 0) = <<>>
    BY <2>2, SubSeqEmpty
  <2> QED
    BY <2>2, <2>3
<1> HIDE DEF S
<1>9. mem[<<"kernel", p>>] = S
  <2>1. StacksOf(p, mem)["kernel"] = mem[<<"kernel", p>>]
    BY <1>3, Zenon DEF StacksOf
  <2> QED
    <3>1. Only("kernel", S)["kernel"] = S
      BY <1>3, OnlyFacts, Zenon
    <3>2. StacksOf(p, mem) = Only("kernel", S)
      BY <1>7
    <3> QED
      BY <2>1, <3>1, <3>2, Zenon
<1>10. \A n \in 0 .. 4 : Word(mem, rsp, n) = Z[5 - n]
  <2> SUFFICES ASSUME NEW n \in 0 .. 4 PROVE Word(mem, rsp, n) = Z[5 - n]
    OBVIOUS
  <2>1. StackOf(rsp) = <<"kernel", p>> /\ rsp[4] = 5
    BY <1>7 DEF StackOf, Ptr
  <2>2. 5 - n \in DOMAIN S /\ 5 - n \in 1 .. 5
    BY <1>8
  <2> QED
    <3>1. Word(mem, rsp, n) = S[5 - n]
      BY <1>9, <2>1, <2>2, Zenon DEF Word
    <3>2. \A i \in 1 .. 5 : S[i] = Z[i]
      BY <1>8
    <3> QED
      BY <2>2, <3>1, <3>2, Zenon
<1>11. /\ rip' = Ip(p, "user", 0) /\ cs' = Sel(UserCode) /\ rflags' = Flags
       /\ rsp' = Ptr(p, "user", 0) /\ ss' = Sel(UserData)
  <2>1. /\ Word(mem, rsp, 0) = Z[5] /\ Word(mem, rsp, 1) = Z[4] /\ Word(mem, rsp, 2) = Z[3]
        /\ Word(mem, rsp, 3) = Z[2] /\ Word(mem, rsp, 4) = Z[1]
    BY <1>10
  <2> QED
    BY <1>3, <2>1, Zenon DEF Iretq
<1>12. mem' = With(mem, "kernel", p, <<>>)
  <2>1. Down(rsp, -5) = Ptr(p, "kernel", 5 + -5) /\ 5 + -5 = 0
    BY <1>7, Pointers
  <2>2. Down(rsp, -5) = Ptr(p, "kernel", Len(<<>>))
    BY <2>1
  <2>3. SubSeq(mem[<<"kernel", p>>], 1, Len(<<>>)) = <<>>
    BY <1>8, <1>9
  <2>4. Dropped(mem, Ptr(p, "kernel", Len(<<>>))) = With(mem, "kernel", p, <<>>)
    BY <2>3, DroppedWords, Zenon
  <2> QED
    BY <2>2, <2>4, Zenon DEF Iretq
<1>13. /\ mem' \in [Stacks -> Seq(Words)]
       /\ \A q \in Idx : q # p => SameStacks(q, mem, mem')
       /\ StacksOf(p, mem') = NoWords
  <2>1. <<>> \in Seq(Words)
    OBVIOUS
  <2>2. StacksOf(p, mem') = Only("kernel", <<>>)
    BY <1>3, <1>7, <1>12, <2>1, OwnMemory, Zenon DEF p
  <2> QED
    BY <1>3, <1>12, <2>1, <2>2, OwnMemory, OnlyFacts, Zenon DEF p
<1>14. ASSUME NEW r \in Reg PROVE regs'[r] = UserVal(p, 0, r)
  <2>1. PICK i \in 1 .. 15 : PushOrder[i] = r
    BY PushOrderFacts
  <2>2. 16 - i \in 1 .. 15 /\ 16 - (16 - i) = i /\ 16 - i \in 1 .. k - 1
    BY <1>6
  <2>3. BootPop[16 - i] = PushOrder[16 - (16 - i)]
    BY <2>2, PopOrderFacts, Zenon
  <2>4. regs[r] = Zero
    BY <1>5, <2>1, <2>2, <2>3, Zenon
  <2> QED
    BY <2>4 DEF UserVal
<1>15. Context(p, rip', rsp', regs', StacksOf(p, mem'))
  <2>1. 0 \in 0 .. 2
    OBVIOUS
  <2> QED
    BY <1>11, <1>13, <1>14, <2>1, Zenon DEF Context, InUser
<1>16. cs' = CodeOf(rip') /\ ss' = DataOf(rip')
  <2>1. rip'[3] = "user"
    BY <1>11, WordParts
  <2> QED
    BY <1>11, <2>1, Zenon DEF CodeOf, DataOf
<1>17. ArgumentsArrive' /\ regs' \in [Reg -> Words]
  BY <1>1 DEF TrapInv, ArgumentsArrive
<1> QED
  BY <1>11, <1>13, <1>15, <1>16, <1>17, OwnStep, Zenon DEF p

(* The ignition of kernel_main, one instruction at a time.                   *)
LEMMA IgniteStep ==
    ASSUME TrapInv, Ignite
    PROVE  TrapInv' /\ \E v \in 0 .. 2 : Virtual!Step(v)
<1>1. At("boot") /\ UNCHANGED <<kernel_rsp, rsp0, current, args>>
  BY DEF Ignite
<1>2. CASE /\ rip[4] = 0
           /\ rsp' = regs["rax"]
           /\ Goto(1)
           /\ UNCHANGED <<regs, rflags, cs, ss, mem>>
  <2> DEFINE p == current
  <2>1. /\ p \in Idx /\ regs \in [Reg -> Words] /\ rflags = Flags
        /\ cs = CodeOf(rip) /\ ss = DataOf(rip)
        /\ InBoot(p, rip, rsp, regs, StacksOf(p, mem))
    BY <1>1, KernelFacts, Zenon
  <2> HIDE DEF p
  <2>2. /\ p = 0 /\ rip = Ip(0, "boot", 0)
        /\ StacksOf(p, mem) = Only("kernel", FirstFrame(0))
        /\ regs["rax"] = Ptr(0, "kernel", 20)
    <3>1. \A k \in 1 .. 16 : rip # Ip(0, "boot", k)
      BY <1>2, WordParts
    <3> QED
      BY <2>1, <3>1, Zenon DEF InBoot
  <2>3. rip' = Ip(0, "boot", 1) /\ rsp' = Ptr(0, "kernel", 20) /\ regs' = regs /\ mem' = mem
        /\ rflags' = rflags /\ cs' = cs /\ ss' = ss
    BY <1>2, <2>2 DEF Goto, Ip
  <2>4. SubSeq(FirstFrame(0), 1, 20) = FirstFrame(0)
    <3>1. FirstFrame(0) \in Seq(Words) /\ Len(FirstFrame(0)) = 20
      BY <2>1, <2>2, FirstFrameFacts, Zenon
    <3>2. SubSeq(FirstFrame(0), 1, Len(FirstFrame(0))) = FirstFrame(0)
      BY <3>1, SubSeqFull, Zenon
    <3> QED
      BY <3>1, <3>2, Zenon
  <2>5. /\ mem' \in [Stacks -> Seq(Words)]
        /\ \A q \in Idx : q # p => SameStacks(q, mem, mem')
        /\ StacksOf(p, mem') = StacksOf(p, mem)
    BY <2>3, SameMemory, Zenon DEF p
  <2>6. Context(p, rip', rsp', regs', StacksOf(p, mem'))
    <3>1. 1 \in 1 .. 16 /\ 21 - 1 = 20 /\ \A i \in 1 .. 1 - 1 : regs'[BootPop[i]] = Zero
      OBVIOUS
    <3>2. InBoot(p, rip', rsp', regs', StacksOf(p, mem'))
      BY <2>2, <2>3, <2>4, <2>5, <3>1, Zenon DEF InBoot
    <3> QED
      BY <3>2, Zenon DEF Context
  <2>7. CodeOf(rip') = CodeOf(rip) /\ DataOf(rip') = DataOf(rip)
    <3>1. rip[3] = "boot" /\ rip'[3] = "boot"
      BY <2>2, <2>3, WordParts
    <3> QED
      BY <3>1, Zenon DEF CodeOf, DataOf
  <2>8. ArgumentsArrive'
    BY <1>1 DEF TrapInv, ArgumentsArrive
  <2>9. UNCHANGED <<kernel_rsp, rsp0, current>>
    BY <1>1
  <2> QED
    BY <2>1, <2>3, <2>5, <2>6, <2>7, <2>8, <2>9, OwnStep, Zenon DEF p
<1>3. CASE PopInstr(BootPop)
  BY <1>1, <1>3, IgnitePop
<1>4. CASE /\ rip[4] = Len(BootPop) + 1
           /\ Iretq(mem, rsp)
           /\ UNCHANGED regs
  BY <1>1, <1>4, IgniteIretq
<1> QED
  BY <1>2, <1>3, <1>4 DEF Ignite

--------------------------------------------------------------------------------
(* kernel_main leaves every process parked on the frame create_user_process  *)
(* prepared.                                                                 *)
LEMMA FirstFrameParks ==
    ASSUME TrapInit, NEW p \in Idx
    PROVE  /\ mem \in [Stacks -> Seq(Words)]
           /\ Parked(p, mem, kernel_rsp[p])
           /\ Word(mem, kernel_rsp[p], 15) = Ip(p, "user", 0)
<1> DEFINE Z == FirstFrame(p)
           file == [r \in Reg |-> Zero]
<1>1. /\ Z \in Seq(Words) /\ Len(Z) = 20
      /\ Z[1] = Sel(UserData) /\ Z[2] = Ptr(p, "user", 0)
      /\ Z[3] = Flags /\ Z[4] = Sel(UserCode) /\ Z[5] = Ip(p, "user", 0)
      /\ \A i \in 1 .. 15 : Z[5 + i] = Zero
  BY FirstFrameFacts, Zenon
<1>2. /\ mem = [s \in Stacks |-> IF s[1] = "kernel" THEN FirstFrame(s[2]) ELSE <<>>]
      /\ kernel_rsp[p] = Ptr(p, "kernel", 20)
  BY DEF TrapInit, Stacks, Kinds
<1>3. /\ \A q \in Idx : FirstFrame(q) \in Seq(Words)
      /\ <<>> \in Seq(Words)
  BY FirstFrameFacts
<1>4. mem \in [Stacks -> Seq(Words)]
  <2>1. ASSUME NEW s \in Stacks
        PROVE  (IF s[1] = "kernel" THEN FirstFrame(s[2]) ELSE <<>>) \in Seq(Words)
    BY <1>3 DEF Stacks
  <2> QED
    BY <1>2, <2>1, Zenon
<1>5. /\ mem[<<"kernel", p>>] = Z /\ mem[<<"user", p>>] = <<>> /\ mem[<<"boot", p>>] = <<>>
  <2>1. <<"kernel", p>> \in Stacks /\ <<"user", p>> \in Stacks /\ <<"boot", p>> \in Stacks
    BY DEF Stacks, Kinds
  <2> QED
    BY <1>2, <2>1
<1> HIDE DEF Z
<1>6. file \in [Reg -> Words] /\ \A r \in Reg : file[r] = Zero
  BY WordTypes, Zenon
<1> HIDE DEF file
<1>7. \A i \in 1 .. 15 : Z[5 + i] = file[PushOrder[i]]
  <2>1. \A i \in 1 .. 15 : PushOrder[i] \in Reg
    BY PushOrderFacts
  <2> QED
    BY <1>1, <1>6, <2>1, Zenon
<1>8. "kernel" \in Kinds /\ <<>> \in Seq(Words) /\ Len(<<>>) = 0 /\ <<>> \o Z = Z /\ 0 + 20 = 20
  BY <1>1, ConcatEmptySeq DEF Kinds
<1>9. StacksOf(p, With(mem, "kernel", p, <<>>)) = NoWords
  <2>1. StacksOf(p, With(mem, "kernel", p, <<>>)) = Refill(StacksOf(p, mem), "kernel", <<>>)
    BY <1>4, <1>8, WithStacks, Zenon
  <2>2. Refill(StacksOf(p, mem), "kernel", <<>>) = NoWords
    BY <1>5 DEF Refill, StacksOf, NoWords, Kinds
  <2> QED
    BY <2>1, <2>2, Zenon
<1>10. Context(p, Z[5], Z[2], file, StacksOf(p, With(mem, "kernel", p, <<>>)))
  <2>1. \A r \in Reg : file[r] = UserVal(p, 0, r)
    BY <1>6 DEF UserVal
  <2>2. 0 \in 0 .. 2
    OBVIOUS
  <2> QED
    BY <1>1, <1>9, <2>1, <2>2, Zenon DEF Context, InUser
<1>11. Z[4] = CodeOf(Z[5]) /\ Z[1] = DataOf(Z[5])
  <2>1. Z[5][3] = "user"
    BY <1>1, WordParts
  <2> QED
    BY <1>1, <2>1, Zenon DEF CodeOf, DataOf
<1>12. mem[<<"kernel", p>>] = <<>> \o Z
  BY <1>5, <1>8, Zenon
<1>13. /\ Parked(p, mem, Ptr(p, "kernel", Len(<<>>) + 20))
       /\ Word(mem, Ptr(p, "kernel", Len(<<>>) + 20), 15) = Z[5]
  BY <1>1, <1>4, <1>6, <1>7, <1>8, <1>10, <1>11, <1>12, FrameParks, ZenonT(60)
<1>14. kernel_rsp[p] = Ptr(p, "kernel", Len(<<>>) + 20)
  BY <1>2, <1>8, Zenon
<1> QED
  BY <1>1, <1>4, <1>13, <1>14, Zenon

(* The invariant holds where kernel_main enables interrupts.                 *)
LEMMA TrapInvInit == TrapInit => TrapInv
<1> SUFFICES ASSUME TrapInit PROVE TrapInv
  OBVIOUS
<1>1. /\ current = 0 /\ rsp0 = 0 /\ rsp = Ptr(0, "boot", 0) /\ rip = Ip(0, "boot", 0)
      /\ rflags = Flags /\ cs = Sel(KernelCode) /\ ss = Sel(KernelData) /\ args = <<>>
      /\ regs = [r \in Reg |-> IF r = "rax" THEN Ptr(0, "kernel", 20) ELSE Junk]
      /\ kernel_rsp = [p \in Idx |-> Ptr(p, "kernel", 20)]
      /\ mem = [s \in Stacks |-> IF s[1] = "kernel" THEN FirstFrame(s[2]) ELSE <<>>]
  BY DEF TrapInit, SegmentsLoaded, Stacks, Kinds
<1>2. 0 \in Idx /\ "kernel" \in Kinds /\ "boot" \in Kinds /\ 20 \in Nat
  BY TrapFrameAssumption DEF Idx, Kinds
<1>3. mem \in [Stacks -> Seq(Words)] /\ \A p \in Idx : Parked(p, mem, kernel_rsp[p])
  BY <1>2, FirstFrameParks, Zenon
<1>4. kernel_rsp \in [Idx -> Words]
  BY <1>1, <1>2, WordTypes, Zenon
<1>5. regs \in [Reg -> Words] /\ regs["rax"] = Ptr(0, "kernel", 20)
  <2>1. Ptr(0, "kernel", 20) \in Words /\ Junk \in Words
    BY <1>2, WordTypes, Zenon
  <2>2. "rax" \in Reg
    BY SyscallOrderFacts
  <2> QED
    BY <1>1, <2>1, <2>2
<1>6. StacksOf(0, mem) = Only("kernel", FirstFrame(0))
  <2>1. <<"kernel", 0>> \in Stacks /\ <<"user", 0>> \in Stacks /\ <<"boot", 0>> \in Stacks
    BY <1>2 DEF Stacks, Kinds
  <2>2. mem[<<"kernel", 0>>] = FirstFrame(0) /\ mem[<<"user", 0>>] = <<>> /\ mem[<<"boot", 0>>] = <<>>
    BY <1>1, <2>1
  <2> QED
    BY <2>2 DEF StacksOf, Only, Refill, NoWords, Kinds
<1>7. Context(current, rip, rsp, regs, StacksOf(current, mem))
  <2>1. InBoot(0, rip, rsp, regs, StacksOf(0, mem))
    BY <1>1, <1>5, <1>6, Zenon DEF InBoot
  <2> QED
    BY <1>1, <2>1, Zenon DEF Context
<1>8. cs = CodeOf(rip) /\ ss = DataOf(rip)
  <2>1. rip[3] = "boot"
    BY <1>1, WordParts
  <2> QED
    BY <1>1, <2>1 DEF CodeOf, DataOf
<1>9. ArgumentsArrive
  BY <1>1, Zenon DEF ArgumentsArrive
<1>10. TrapTypeOK /\ CurrentRuns
  BY <1>1, <1>2, <1>3, <1>4, <1>5, <1>7, <1>8, Zenon DEF TrapTypeOK, CurrentRuns
<1> QED
  BY <1>3, <1>9, <1>10 DEF TrapInv

(* Every step keeps the invariant and is one of the virtual CPUs' steps.     *)
LEMMA TrapStep ==
    ASSUME TrapInv, [TrapNext]_trapVars
    PROVE  TrapInv' /\ [Virtual!VcpuNext]_(Virtual!vcpuVars)
<1>1. ASSUME \E v \in 0 .. 2 : Virtual!Step(v) PROVE Virtual!VcpuNext
  BY <1>1 DEF Virtual!VcpuNext
<1>2. CASE Ignite
  BY <1>1, <1>2, IgniteStep
<1>3. CASE Run
  BY <1>1, <1>3, RunStep
<1>4. CASE Syscall
  BY <1>1, <1>4, SyscallStep
<1>5. CASE Yield
  BY <1>1, <1>5, YieldStep
<1>6. CASE SyscallExit
  BY <1>1, <1>6, ExitStep
<1>7. ASSUME NEW nxt \in Idx, Interrupt(nxt)
      PROVE  TrapInv' /\ Virtual!VcpuNext
  <2>1. TrapInv' /\ current' = nxt /\ \A p \in Idx : PointOf(p)' = PointOf(p)
    BY <1>7, InterruptStep
  <2>2. [p \in Idx |-> PointOf(p)'] = [p \in Idx |-> PointOf(p)]
    BY <2>1, Zenon
  <2>3. Virtual!Dispatch(nxt)
    BY <2>1, <2>2 DEF Virtual!Dispatch
  <2> QED
    BY <2>1, <2>3 DEF Virtual!VcpuNext
<1>8. CASE UNCHANGED trapVars
  <2>1. /\ regs' = regs /\ rsp' = rsp /\ rip' = rip /\ rflags' = rflags /\ cs' = cs /\ ss' = ss
        /\ mem' = mem /\ kernel_rsp' = kernel_rsp /\ rsp0' = rsp0 /\ current' = current
        /\ args' = args
    BY <1>8 DEF trapVars, cpuVars
  <2>2. TrapInv'
    BY <2>1 DEF TrapInv, TrapTypeOK, CurrentRuns, ArgumentsArrive
  <2>3. \A p \in Idx : PointOf(p)' = PointOf(p)
    BY <2>1 DEF PointOf
  <2>4. UNCHANGED Virtual!vcpuVars
    BY <2>1, <2>3 DEF Virtual!vcpuVars
  <2> QED
    BY <2>2, <2>4
<1> QED
  BY <1>2, <1>3, <1>4, <1>5, <1>6, <1>7, <1>8 DEF TrapNext

(* Whichever instruction an interrupt strikes, the process on the CPU is in  *)
(* a context of its own and every other one can be brought back from its     *)
(* frame.                                                                    *)
THEOREM TrapInvInvariant == TrapSpec => []TrapInv
<1>1. TrapInv /\ [TrapNext]_trapVars => TrapInv'
  BY TrapStep
<1> QED
  BY <1>1, TrapInvInit, PTL DEF TrapSpec

(* Every register comes back: the pushes and pops of handler_wrapper!, of    *)
(* syscall_entry and of kernel_main mirror each other, wherever they are     *)
(* interrupted.                                                              *)
THEOREM RegistersComeBack == TrapSpec => []UserContextExact
<1>1. TrapInv => UserContextExact
  <2> SUFFICES ASSUME TrapInv, At("user")
               PROVE  /\ rip[2] = current /\ rsp = Ptr(current, "user", 0) /\ rflags = Flags
                      /\ \A r \in Reg : regs[r] \in Expected(current, r)
    BY DEF UserContextExact
  <2>1. rsp = Ptr(current, "user", 0) /\ rflags = Flags
    BY UserFacts, Zenon
  <2>2. PICK k \in 0 .. 2 : /\ rip = Ip(current, "user", k) /\ rip[4] = k
                            /\ \A r \in Reg : regs[r] = UserVal(current, k, r)
    BY UserFacts, Zenon
  <2>3. rip[2] = current
    BY <2>2, WordParts
  <2>4. ASSUME NEW r \in Reg PROVE regs[r] \in Expected(current, r)
    BY <2>2 DEF UserVal, SysVal, Expected
  <2> QED
    BY <2>1, <2>3, <2>4
<1> QED
  BY <1>1, TrapInvInvariant, PTL

(* The selectors match the code that runs, so the next trap finds the right  *)
(* stack.                                                                    *)
THEOREM SegmentsMatchCode == TrapSpec => []SelectorsRight
<1>1. TrapInv => SelectorsRight
  BY DEF TrapInv, CurrentRuns, CodeOf, DataOf, SelectorsRight, At
<1> QED
  BY <1>1, TrapInvInvariant, PTL

(* handle_syscall is called with the caller's RAX, RDI and RSI.              *)
THEOREM ArgumentsAreTheCallers == TrapSpec => []ArgumentsArrive
<1>1. TrapInv => ArgumentsArrive
  BY DEF TrapInv
<1> QED
  BY <1>1, TrapInvInvariant, PTL

(* Frames are parked on the process's own stacks and a trap from ring 3      *)
(* starts on an empty one.                                                   *)
THEOREM FramesStayApart == TrapSpec => []FramesApart
<1>1. TrapInv => FramesApart
  <2> SUFFICES ASSUME TrapInv PROVE FramesApart
    OBVIOUS
  <2>1. ASSUME NEW p \in Idx \ {current}
        PROVE  /\ kernel_rsp[p][2] = p
               /\ Len(mem[StackOf(kernel_rsp[p])]) = kernel_rsp[p][4]
               /\ kernel_rsp[p][4] >= 20
    <3>1. Parked(p, mem, kernel_rsp[p])
      BY DEF TrapInv
    <3>2. PICK s \in Kinds : /\ kernel_rsp[p] = Ptr(p, s, Len(mem[<<s, p>>]))
                             /\ Len(mem[<<s, p>>]) >= 20
      BY <3>1, Zenon DEF Parked
    <3>3. /\ kernel_rsp[p][2] = p /\ kernel_rsp[p][4] = Len(mem[<<s, p>>])
          /\ StackOf(kernel_rsp[p]) = <<s, p>>
      BY <3>2 DEF Ptr, StackOf
    <3> QED
      BY <3>2, <3>3, Zenon
  <2>2. ASSUME At("user") PROVE mem[<<"kernel", rsp0>>] = <<>>
    <3>1. StacksOf(current, mem) = NoWords /\ rsp0 = current
      BY <2>2, UserFacts, Zenon DEF TrapInv, CurrentRuns
    <3>2. StacksOf(current, mem)["kernel"] = mem[<<"kernel", current>>] /\ NoWords["kernel"] = <<>>
      BY DEF StacksOf, NoWords, Kinds
    <3> QED
      BY <3>1, <3>2, Zenon
  <2> QED
    BY <2>1, <2>2 DEF FramesApart
<1> QED
  BY <1>1, TrapInvInvariant, PTL

(* Register by register, every process has a CPU of its own: only its own    *)
(* instructions move it.                                                     *)
THEOREM TrapFrameImplementsVirtualCpus == TrapSpec => ImplementsVirtualCpus
<1>1. TrapInit => Virtual!VcpuInit
  <2> SUFFICES ASSUME TrapInit PROVE Virtual!VcpuInit
    OBVIOUS
  <2>1. current = 0 /\ rip = Ip(0, "boot", 0)
    BY DEF TrapInit
  <2>2. ASSUME NEW p \in Idx PROVE PointOf(p) = <<p, 0>>
    <3>1. PointOf(p) = PointAt(IF p = current THEN rip ELSE Word(mem, kernel_rsp[p], 15))
      BY PointOfIs, Zenon
    <3>2. CASE p = current
      <4>1. PointOf(p) = PointAt(Ip(0, "boot", 0))
        BY <2>1, <3>1, <3>2, Zenon
      <4> QED
        BY <2>1, <3>2, <4>1, WordParts DEF PointAt
    <3>3. CASE p # current
      <4>1. PointOf(p) = PointAt(Ip(p, "user", 0))
        BY <3>1, <3>3, FirstFrameParks, Zenon
      <4> QED
        BY <4>1, WordParts DEF PointAt
    <3> QED
      BY <3>2, <3>3
  <2> QED
    BY <2>1, <2>2 DEF Virtual!VcpuInit
<1>2. TrapInv /\ [TrapNext]_trapVars => [Virtual!VcpuNext]_(Virtual!vcpuVars)
  BY TrapStep
<1> QED
  BY <1>1, <1>2, TrapInvInvariant, PTL
  DEF TrapSpec, ImplementsVirtualCpus, Virtual!VcpuSpec

================================================================================
