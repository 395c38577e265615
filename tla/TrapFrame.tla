-------------------------------- MODULE TrapFrame --------------------------------
(***************************************************************************)
(* The assembly that enters and leaves the kernel, register by register:   *)
(* handler_wrapper! of kernel/src/interrupts.rs, syscall_entry of          *)
(* kernel/src/syscall/mod.rs, the ignition at the end of kernel_main and   *)
(* the frame create_user_process prepares, with the selectors of           *)
(* kernel/src/gdt.rs.  Module Scheduler treats a saved context as one      *)
(* atomic value; this module shows that the pushes and pops it stands for  *)
(* bring every register back, wherever an interrupt strikes.               *)
(*                                                                         *)
(* A stretch of code that runs with IF clear is one step; where IF is set, *)
(* in kernel_main and behind the HLT of SYS_YIELD, every instruction is    *)
(* one.  Which process an interrupt hands the CPU to is left open: the     *)
(* policy is Scheduler's.  Stack memory beyond the stack pointer is not    *)
(* kept, as an interrupt may overwrite it at any time.                     *)
(*                                                                         *)
(* A definition X_Word is definition X with a plausible bug; nothing uses  *)
(* it, it shows which property depends on X.                               *)
(***************************************************************************)
EXTENDS Integers, SequencesExt

CONSTANT NumTasks          \* the user processes

ASSUME TrapFrameAssumption == NumTasks \in Nat \ {0}

VARIABLES regs,            \* the general purpose registers
          rsp, rip, rflags, cs, ss,
          mem,             \* the words on each stack
          kernel_rsp,      \* Task.kernel_rsp, by index
          rsp0,            \* the process whose kernel stack is in TSS.RSP0
          current,         \* CURRENT_TASK_IDX
          args             \* history: the last caller and what handle_syscall got

cpuVars == <<regs, rsp, rip, rflags, cs, ss>>
trapVars == <<cpuVars, mem, kernel_rsp, rsp0, current, args>>

--------------------------------------------------------------------------------
Idx == 0 .. NumTasks - 1

(* handler_wrapper!: what it pushes and pops, in order.                      *)
PushOrder == <<"rax", "rbx", "rcx", "rdx", "rdi", "rsi", "rbp", "r8", "r9", "r10",
               "r11", "r12", "r13", "r14", "r15">>
PopOrder_RsiRdi == <<"r15", "r14", "r13", "r12", "r11", "r10", "r9", "r8", "rbp", "rdi",
                     "rsi", "rdx", "rcx", "rbx", "rax">>
PopOrder == <<"r15", "r14", "r13", "r12", "r11", "r10", "r9", "r8", "rbp", "rsi",
              "rdi", "rdx", "rcx", "rbx", "rax">>

(* The ignition of kernel_main.                                              *)
BootPop == <<"r15", "r14", "r13", "r12", "r11", "r10", "r9", "r8", "rbp", "rsi",
             "rdi", "rdx", "rcx", "rbx", "rax">>

(* syscall_entry.                                                            *)
SyscallPush == <<"r11", "rcx", "rbp", "rbx", "rdi", "rsi", "rdx", "r10", "r8", "r9",
                 "r12", "r13", "r14", "r15">>
SyscallPop == <<"r15", "r14", "r13", "r12", "r9", "r8", "r10", "rdx", "rsi", "rdi",
                "rbx", "rbp", "rcx", "r11">>

Reg == Range(PushOrder)

(* What the C calling convention lets handle_syscall and the handlers        *)
(* overwrite.                                                                *)
CallerSaved == {"rax", "rcx", "rdx", "rsi", "rdi", "r8", "r9", "r10", "r11"}

--------------------------------------------------------------------------------
(* A machine word is <<kind, process, name, number>>.                        *)
Zero == <<"zero", 0, "", 0>>
Junk == <<"junk", 0, "", 0>>
Flags == <<"flags", 0, "", 1>>              \* RFLAGS with IF set
Sel(n) == <<"sel", 0, "", n>>               \* a segment selector
Own(p, r) == <<"own", p, r, 0>>             \* what p's code has put in register r
Result(p) == <<"result", p, "", 0>>         \* what a syscall of p returned
Ip(p, routine, k) == <<"ip", p, routine, k>>
Ptr(p, stack, depth) == <<"ptr", p, stack, depth>>   \* depth words below the top

(* The place of x, which occurs once, in a sequence.                         *)
Position(seq, x) == CHOOSE i \in DOMAIN seq : seq[i] = x

(* The GDT in the order of add_entry; the TSS descriptor takes two slots.  A *)
(* selector is the offset of its descriptor with the privilege level added.  *)
Gdt_CodeFirst ==
    <<"null", "kernel_code", "kernel_data", "tss", "tss", "user_code", "user_data">>
Gdt == <<"null", "kernel_code", "kernel_data", "tss", "tss", "user_data", "user_code">>
Selector(d, rpl) == 8 * (Position(Gdt, d) - 1) + rpl
KernelCode == Selector("kernel_code", 0)
KernelData == Selector("kernel_data", 0)
UserData == Selector("user_data", 3)
UserCode == Selector("user_code", 3)

(* Star::write: the base to which SYSRET adds 16 for CS and 8 for SS.        *)
StarBase == UserCode - 16

StackOf(ptr) == <<ptr[3], ptr[2]>>
Down(ptr, n) == [ptr EXCEPT ![4] = @ + n]

(* Memory `m` after pushing `words` at `ptr`; the word n places above it,    *)
(* which can be anything beyond the stack pointer.                           *)
Pushed(m, ptr, words) ==
    [m EXCEPT ![StackOf(ptr)] = SubSeq(@, 1, ptr[4]) \o words]
Word(m, ptr, n) ==
    LET words == m[StackOf(ptr)]
    IN  IF ptr[4] - n \in DOMAIN words THEN words[ptr[4] - n] ELSE Junk
Dropped(m, ptr) == [m EXCEPT ![StackOf(ptr)] = SubSeq(@, 1, ptr[4])]

Gather(order, file) == [i \in DOMAIN order |-> file[order[i]]]

(* The registers after popping `order` from `ptr`.                           *)
Scatter(order, file, m, ptr) ==
    [r \in Reg |-> IF r \in Range(order)
                   THEN Word(m, ptr, Position(order, r) - 1)
                   ELSE file[r]]

(* iretq at `ptr`.                                                           *)
Iretq(m, ptr) ==
    /\ rip' = Word(m, ptr, 0)
    /\ cs' = Word(m, ptr, 1)
    /\ rflags' = Word(m, ptr, 2)
    /\ rsp' = Word(m, ptr, 3)
    /\ ss' = Word(m, ptr, 4)
    /\ mem' = Dropped(m, Down(ptr, -5))

--------------------------------------------------------------------------------
(* create_user_process: SS, RSP, RFLAGS, CS, RIP and 15 zeros.               *)
FirstFrame(p) ==
    <<Sel(UserData), Ptr(p, "user", 0), Flags, Sel(UserCode), Ip(p, "user", 0)>>
        \o [i \in 1 .. 15 |-> Zero]

(* gdt::init loads the kernel's segments.                                    *)
SegmentsLoaded == cs = Sel(KernelCode) /\ ss = Sel(KernelData)

(* kernel_main after interrupts::enable(): first_rsp is in a register.       *)
TrapInit ==
    /\ mem = [s \in {"kernel", "user", "boot"} \X Idx |->
                 IF s[1] = "kernel" THEN FirstFrame(s[2]) ELSE <<>>]
    /\ kernel_rsp = [p \in Idx |-> Ptr(p, "kernel", 20)]
    /\ current = 0
    /\ rsp0 = 0
    /\ regs = [r \in Reg |-> IF r = "rax" THEN Ptr(0, "kernel", 20) ELSE Junk]
    /\ rsp = Ptr(0, "boot", 0)
    /\ rip = Ip(0, "boot", 0)
    /\ rflags = Flags
    /\ SegmentsLoaded
    /\ args = <<>>

At(routine) == rip[3] = routine
Goto(k) == rip' = [rip EXCEPT ![4] = k]

(* The pops between `mov rsp` and the last instruction of a routine.         *)
PopInstr(order) ==
    /\ rip[4] \in 1 .. Len(order)
    /\ regs' = [regs EXCEPT ![order[rip[4]]] = Word(mem, rsp, 0)]
    /\ rsp' = Down(rsp, -1)
    /\ mem' = Dropped(mem, rsp')
    /\ Goto(rip[4] + 1)
    /\ UNCHANGED <<rflags, cs, ss>>

(* The ignition, one instruction at a time.                                  *)
Ignite ==
    /\ At("boot")
    /\ \/ /\ rip[4] = 0
          /\ rsp' = regs["rax"]
          /\ Goto(1)
          /\ UNCHANGED <<regs, rflags, cs, ss, mem>>
       \/ PopInstr(BootPop)
       \/ /\ rip[4] = Len(BootPop) + 1
          /\ Iretq(mem, rsp)
          /\ UNCHANGED regs
    /\ UNCHANGED <<kernel_rsp, rsp0, current, args>>

(* The process's code fills all its registers.                               *)
Run ==
    /\ At("user")
    /\ regs' = [r \in Reg |-> Own(current, r)]
    /\ Goto(1)
    /\ UNCHANGED <<rsp, rflags, cs, ss, mem, kernel_rsp, rsp0, current, args>>

(* The process can make a call: it has filled its registers, or it is back   *)
(* from a call and, as its asm! blocks name only RAX, RCX and R11 as         *)
(* changed, still relies on the others.                                      *)
CanCall == At("user") /\ rip[4] \in {1, 2}

(* The registers SYSCALL hands to syscall_entry; the number of the call is   *)
(* loaded right before it.                                                   *)
AtEntry ==
    [regs EXCEPT !["rax"] = Own(current, "rax"),
                 !["rcx"] = [rip EXCEPT ![4] = 2],
                 !["r11"] = rflags]

(* mov dst, src.                                                             *)
Mov(file, dst, src) == [file EXCEPT ![dst] = file[src]]

(* The three MOVs that turn the registers of the caller into the arguments   *)
(* of handle_syscall, one after the other.                                   *)
ToCAbi_RsiFirst(file) ==
    Mov(Mov(Mov(file, "rsi", "rdi"), "rdx", "rsi"), "rdi", "rax")
ToCAbi(file) ==
    Mov(Mov(Mov(file, "rdx", "rsi"), "rsi", "rdi"), "rdi", "rax")

(* sysretq, with the registers `file`.                                       *)
Sysretq(file) ==
    /\ rip' = file["rcx"]
    /\ rflags' = file["r11"]
    /\ cs' = Sel(StarBase + 16)
    /\ ss' = Sel(StarBase + 8)

(* A call of handle_syscall overwrites what it may and returns in RAX.       *)
AfterCall(file) ==
    [r \in Reg |-> IF r = "rax" THEN Result(current)
                   ELSE IF r \in CallerSaved THEN Junk ELSE file[r]]

Called == args' = <<current>> \o Gather(<<"rdi", "rsi", "rdx">>, ToCAbi(AtEntry))

(* A syscall other than SYS_YIELD, from SYSCALL to SYSRET.                   *)
Syscall ==
    /\ CanCall
    /\ LET m    == Pushed(mem, rsp, Gather(SyscallPush, AtEntry))
           file == Scatter(SyscallPop, AfterCall(ToCAbi(AtEntry)), m,
                           Down(rsp, Len(SyscallPush)))
       IN  regs' = file /\ Sysretq(file)
    /\ Called
    /\ UNCHANGED <<rsp, mem, kernel_rsp, rsp0, current>>

(* SYS_YIELD up to its HLT, with the return address of the call pushed too.  *)
Yield ==
    /\ CanCall
    /\ mem' = Pushed(mem, rsp, Append(Gather(SyscallPush, AtEntry), Ip(current, "exit", 1)))
    /\ rsp' = Down(rsp, Len(SyscallPush) + 1)
    /\ regs' = AfterCall(ToCAbi(AtEntry))
    /\ rip' = Ip(current, "hlt", 0)
    /\ cs' = Sel(KernelCode)
    /\ ss' = Sel(KernelData)
    /\ Called
    /\ UNCHANGED <<rflags, kernel_rsp, rsp0, current>>

(* Behind the HLT: `ret` out of handle_syscall, the pops and SYSRET.         *)
SyscallExit ==
    /\ \/ /\ At("ret")
          /\ rip' = Word(mem, rsp, 0)
          /\ rsp' = Down(rsp, -1)
          /\ mem' = Dropped(mem, rsp')
          /\ UNCHANGED <<regs, rflags, cs, ss>>
       \/ At("exit") /\ PopInstr(SyscallPop)
       \/ /\ At("exit") /\ rip[4] = Len(SyscallPop) + 1
          /\ Sysretq(regs)
          /\ UNCHANGED <<regs, rsp, mem>>
    /\ UNCHANGED <<kernel_rsp, rsp0, current, args>>

--------------------------------------------------------------------------------
(* The hardware saves RSP etc. on RSP0's stack when it comes from ring 3, on *)
(* the current stack otherwise; a HLT has been passed.                       *)
TrapBase == IF cs[4] % 4 = 3 THEN Ptr(rsp0, "kernel", 0) ELSE rsp
SavedRip == IF At("hlt") THEN Ip(current, "ret", 0) ELSE rip

(* gdt::set_interrupt_stack.                                                 *)
SetInterruptStack_Forgotten(p) == UNCHANGED rsp0
SetInterruptStack(p) == rsp0' = p

(* old_task.kernel_rsp.store(current_rsp).                                   *)
SaveContext_Forgotten(frame) == kernel_rsp
SaveContext(frame) == [kernel_rsp EXCEPT ![current] = frame]

(* An interrupt through handler_wrapper!; its handler goes back to the       *)
(* interrupted context (next = current) or switches as schedule_next does.   *)
Interrupt(nxt) ==
    LET m     == Pushed(mem, TrapBase, <<ss, rsp, rflags, cs, SavedRip>>
                                           \o Gather(PushOrder, regs))
        frame == Down(TrapBase, 20)
        saved == SaveContext(frame)
        back  == IF nxt = current THEN frame ELSE saved[nxt]
    IN  /\ rflags = Flags
        /\ kernel_rsp' = IF nxt = current THEN kernel_rsp ELSE saved
        /\ SetInterruptStack(nxt)
        /\ current' = nxt
        /\ regs' = Scatter(PopOrder, regs, m, back)
        /\ Iretq(m, Down(back, -15))
        /\ UNCHANGED args

TrapNext ==
    \/ Ignite
    \/ Run
    \/ Syscall
    \/ Yield
    \/ SyscallExit
    \/ \E nxt \in Idx : Interrupt(nxt)

TrapSpec == TrapInit /\ [][TrapNext]_trapVars

--------------------------------------------------------------------------------
(* In ring 3 a process finds itself as it was: its own registers and stack   *)
(* pointer, after a syscall all but RCX and R11 and with the result in RAX,  *)
(* after its creation zeros; whichever way and however often it was          *)
(* interrupted, in ring 3, in the HLT of SYS_YIELD, between any two of the   *)
(* pops behind it or between those of kernel_main.                           *)
Expected(p, r) ==
    CASE rip[4] = 0 -> {Zero}
      [] rip[4] = 1 -> {Own(p, r)}
      [] OTHER -> IF r = "rax" THEN {Result(p)}
                  ELSE IF r \in {"rcx", "r11"} THEN {regs[r]} ELSE {Own(p, r)}

UserContextExact ==
    At("user") =>
        /\ rip[2] = current
        /\ rsp = Ptr(current, "user", 0)
        /\ rflags = Flags
        /\ \A r \in Reg : regs[r] \in Expected(current, r)

(* User code runs in ring 3 on the user segments whether it was entered by   *)
(* iretq (first frame, interrupts) or by SYSRET, and kernel code never does: *)
(* otherwise the next trap would not switch to RSP0.                         *)
SelectorsRight ==
    IF At("user") THEN cs = Sel(UserCode) /\ ss = Sel(UserData)
                  ELSE cs = Sel(KernelCode) /\ ss = Sel(KernelData)

(* handle_syscall(id, arg1, arg2) gets what the caller's code has put in     *)
(* RAX, RDI and RSI: none of the three MOVs reads what an earlier one has    *)
(* overwritten, and arguments the caller has not loaded again have survived  *)
(* its earlier calls, the pops behind a HLT and every interrupt since.       *)
ArgumentsArrive ==
    args # <<>> => \E p \in Idx : args = <<p, Own(p, "rax"), Own(p, "rdi"), Own(p, "rsi")>>

(* A suspended process is parked on a stack of its own with a whole frame on *)
(* top, and the kernel stack TSS.RSP0 names is empty while ring 3 runs: the  *)
(* next trap overwrites nothing.                                             *)
FramesApart ==
    /\ \A p \in Idx \ {current} :
          /\ kernel_rsp[p][2] = p
          /\ Len(mem[StackOf(kernel_rsp[p])]) = kernel_rsp[p][4]
          /\ kernel_rsp[p][4] >= 20
    /\ At("user") => mem[<<"kernel", rsp0>>] = <<>>

(* Register by register, the kernel still gives every process a CPU of its   *)
(* own: a process's own instructions move it, no interrupt does.  Where a    *)
(* process is can be read off RIP, or off the frame its kernel_rsp points    *)
(* at; inside a syscall it is where it will return to.                       *)
PointOf(p) ==
    LET w == IF p = current THEN rip ELSE Word(mem, kernel_rsp[p], 15)
    IN  <<w[2], CASE w[3] = "user" -> w[4] [] w[3] = "boot" -> 0 [] OTHER -> 2>>

Virtual == INSTANCE VirtualCpus WITH
    Proc <- Idx, First <- 0, Entry <- 0, Point <- 0 .. 2,
    run <- current,
    at <- [p \in Idx |-> PointOf(p)],
    alive <- [p \in Idx |-> TRUE]

ImplementsVirtualCpus == Virtual!VcpuSpec
================================================================================
