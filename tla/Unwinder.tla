------------------------------ MODULE Unwinder ------------------------------
(***************************************************************************)
(* The stack unwinder at the level of registers and bytes: a chain of      *)
(* calls builds a stack, the innermost function panics, and unwind.rs goes *)
(* back through the frames.  It looks the program counter up in the index  *)
(* by binary search, decodes the unwind instructions, applies them one by  *)
(* one to the registers, steps over stacklet boundaries, and looks for a   *)
(* landing pad in the call-site table, until a pad catches the panic.      *)
(*                                                                         *)
(* The compiled code (prologues, landing pads, the hardware's trap frame)  *)
(* is external; so are the tables, which Assembler writes.  Who owns the   *)
(* stacklets, and forced unwinding, are in TaskLifecycle.                  *)
(***************************************************************************)
EXTENDS Assembler, TLC

CONSTANTS
    Images,      \* programs, assembled; the first function of each is the bottom
    MaxDepth,    \* bound: how many functions are active at most
    StackTop,    \* the stack pointer of a task that starts,
    StackletGap, \* and how far the next stacklet is from it
    LessStack    \* the address of svc_less_stack

ASSUME ImageAssumption ==
    /\ MaxDepth \in Nat \ {0} /\ StackTop % 8 = 0
    /\ \A image \in Images : Size(image.exidx) = 8 * Len(image.fns)

VARIABLES
    image,            \* the program
    phase,            \* what the code is doing
    gp_regs,          \* UnwindState::gp_regs, before the panic those of the CPU
    dpfp_regs,        \* UnwindState::dpfp_regs, each as <<low, high>>
    mem,              \* the words on the stacklets
    prev_sp,          \* StackletMeta::prev_sp of the stacklets beyond the first
    stklet_boundary,  \* how many of those the unwinder has yet to leave
    is_initial,       \* UnwindState::is_initial
    unw_ability,      \* UnwindState::unw_ability
    first, last,      \* the binary search of get_for_pc, in entries
    instrs,           \* the unwind instructions that are left
    sites,            \* the iterator over the call-site table
    calls,            \* history: the active functions when they made a call
    level,            \* history: the frame the unwinder is at
    visited           \* history: the landing pads that ran

machine == <<gp_regs, dpfp_regs, mem, prev_sp>>
search == <<first, last>>
history == <<calls, level, visited>>
vars == <<image, phase, machine, stklet_boundary, is_initial, unw_ability, search,
          instrs, sites, history>>

R0 == 0
SP == 13
LR == 14
PC == 15
Undefined == -1
\* ARMGPReg and ARMDPFPReg: the registers the unwinder knows.
ARMGPReg == {R0, SP, LR, PC} \union (4 .. 11)
ARMDPFPReg == 8 .. 15
CalleeSaved == 4 .. 11
None == [tag |-> "none"]

-----------------------------------------------------------------------------
(***************************************************************************)
(* Faults: what a plausible mistake in unwind.rs would make of an operator *)
(* below.  No specification uses them.                                     *)
(***************************************************************************)
\* the return address itself is looked up
CallOf_return_address(lr) == lr
\* the loop goes on while the two ends differ
Searching_until_equal == first < last
\* the padding of the trap frame is not looked at
TrapFrameSize_no_padding(tf) == 104
-----------------------------------------------------------------------------
\* External: the prologue of fn, entered with the stack pointer sp and the
\* return address link, and the values it then keeps in what it saved.
Enter(fn, sp, link, depth) ==
    LET regs == [gp_regs EXCEPT ![LR] = link]
        pushed == sp - 4 * Cardinality(fn.save)
        floats == pushed - 8 * fn.vfp
        saved == [r \in fn.save |-> pushed + 4 * Below(fn.save, r)]
        words == {saved[r] : r \in fn.save}
    IN  /\ gp_regs' = [r \in ARMGPReg |->
               CASE r = SP -> floats - 4 * fn.locals
                 [] r = 7 /\ fn.fp -> saved[7]
                 [] r \in fn.save \ {LR} -> 100 * depth + r
                 [] OTHER -> regs[r]]
        /\ dpfp_regs' = [d \in ARMDPFPReg |->
               IF d < 8 + fn.vfp THEN <<100 * depth + d, 100 * depth + 50 + d>>
               ELSE dpfp_regs[d]]
        /\ mem' = [a \in words |-> regs[CHOOSE r \in fn.save : saved[r] = a]]
                  @@ [a \in {floats + 4 * i : i \in 0 .. 2 * fn.vfp - 1} |->
                         dpfp_regs[8 + ((a - floats) \div 8)][1 + (((a - floats) \div 4) % 2)]]
                  @@ mem

Fn(i) == image.fns[i]
\* The function that runs is the one that the last call entered.
Running == IF calls = <<>> THEN 1 ELSE calls[Len(calls)].callee
CallAt(offset, callee) ==
    [fn |-> Running, at |-> Fn(Running).addr + offset, callee |-> callee,
     gp |-> gp_regs, dp |-> dpfp_regs]
\* The lowest bit of a return address says Thumb.
ReturnTo(offset) == Fn(Running).addr + offset + 4 + 1

\* External: a call.  If the callee does not fit into the stacklet, the
\* hardware pushes a trap frame, aligned to 8 bytes, and more_stack enters the
\* callee on a new stacklet with svc_less_stack as its return address.
call(offset, callee, split) ==
    LET pad == gp_regs[SP] % 8 # 0
        frame == gp_regs[SP] - (IF pad THEN 4 ELSE 0) - 104
    IN  /\ phase = "running"
        /\ Len(calls) + 1 < MaxDepth
        /\ calls' = Append(calls, CallAt(offset, callee))
        /\ IF split
           THEN LET s == stklet_boundary + 1
                IN  /\ Enter(Fn(callee), StackTop - s * StackletGap, LessStack,
                             Len(calls) + 2)
                    /\ prev_sp' = Append(prev_sp, [at |-> frame, lr |-> ReturnTo(offset),
                                                   xpsr_bit9 |-> pad])
                    /\ stklet_boundary' = s
           ELSE /\ Enter(Fn(callee), gp_regs[SP], ReturnTo(offset), Len(calls) + 2)
                /\ UNCHANGED <<prev_sp, stklet_boundary>>
        /\ UNCHANGED <<image, phase, is_initial, unw_ability, search, instrs, sites,
                       level, visited>>

-----------------------------------------------------------------------------
\* See step: the address inside the call that a return address belongs to.
CallOf(lr) == lr - 2

\* start_unwind_entry and create_unwind_state: the context of the call that
\* panics becomes the state to start from, and its function is looked up.
create_unwind_state(offset) ==
    /\ phase = "running"
    /\ calls' = Append(calls, CallAt(offset, 0))
    /\ level' = Len(calls) + 1
    /\ is_initial' = TRUE
    /\ unw_ability' = [tag |-> "cant_unwind"]
    /\ gp_regs' = [gp_regs EXCEPT ![R0] = 0, ![LR] = ReturnTo(offset),
                                  ![PC] = CallOf(ReturnTo(offset))]
    /\ phase' = "get_for_pc"
    /\ UNCHANGED <<image, dpfp_regs, mem, prev_sp, stklet_boundary, search, instrs,
                   sites, visited>>

Entry(i) == Slice(image.exidx, 8 * i, 8 * i + 8)
func_addr(i) == value(Slice(image.exidx, 8 * i, 8 * i + 4))

\* UnwindAbility::from_bytes: what entry i says of its function.
from_bytes(i) ==
    LET entry == ExIdxEntry(Entry(i))
        content == entry.content
        extab == ExTabEntry(image.extab, content.addr - image.extab.addr)
    IN  CASE entry.tag = "err" -> Err
          [] entry.tag = "ok" /\ content.tag = "cant_unwind" -> [tag |-> "cant_unwind"]
          [] entry.tag = "ok" /\ content.tag = "compact" ->
                 [tag |-> "can_unwind", instrs |-> content.instrs, has_lsda |-> FALSE]
          [] entry.tag = "ok" /\ content.tag = "extab" ->
                 IF extab.tag = "err" THEN Err
                 ELSE [tag |-> "can_unwind", instrs |-> extab.instrs, has_lsda |-> TRUE,
                       lsda |-> extab.lsda, func_addr |-> entry.func_addr]

\* get_for_pc ends with an entry, and create_unwind_state or step with it.  An
\* error halts the system.
Found(i) ==
    /\ unw_ability' = from_bytes(i)
    /\ phase' = IF from_bytes(i).tag = "err" THEN "dead"
                ELSE IF is_initial THEN "next_function" ELSE "find_pad"

\* The entries at both ends are tried before the search begins.
get_for_pc ==
    LET pc == gp_regs[PC]
        n == Size(image.exidx) \div 8
    IN  /\ phase = "get_for_pc"
        /\ IF Size(image.exidx) % 8 # 0 \/ n = 0 \/ pc < func_addr(0)
           THEN phase' = "dead" /\ UNCHANGED <<unw_ability, search>>
           ELSE IF pc >= func_addr(n - 1)
           THEN Found(n - 1) /\ UNCHANGED search
           ELSE /\ first' = 0 /\ last' = n - 1
                /\ phase' = "search"
                /\ UNCHANGED unw_ability
        /\ UNCHANGED <<image, machine, stklet_boundary, is_initial, instrs, sites, history>>

Searching == first < last - 1
bisect ==
    LET mid == first + ((last - first + 1) \div 2)
    IN  /\ phase = "search"
        /\ IF Searching
           THEN /\ IF gp_regs[PC] < func_addr(mid)
                   THEN last' = mid /\ first' = first
                   ELSE first' = mid /\ last' = last
                /\ UNCHANGED <<phase, unw_ability>>
           ELSE Found(first) /\ UNCHANGED search
        /\ UNCHANGED <<image, machine, stklet_boundary, is_initial, instrs, sites, history>>

-----------------------------------------------------------------------------
\* unwind_next_function, which works on the first frame as it is and steps to
\* the caller of any other.  Stepping from a finished state is an error.
unwind_next_function ==
    /\ phase = "next_function"
    /\ is_initial' = FALSE
    /\ IF is_initial
       THEN phase' = "find_pad" /\ UNCHANGED <<gp_regs, instrs>>
       ELSE IF gp_regs[PC] = 0 \/ unw_ability.tag = "cant_unwind"
       THEN phase' = "dead" /\ UNCHANGED <<gp_regs, instrs>>
       ELSE /\ phase' = "step"
            /\ gp_regs' = [gp_regs EXCEPT ![PC] = Undefined]
            /\ instrs' = unw_ability.instrs
    /\ UNCHANGED <<image, dpfp_regs, mem, prev_sp, stklet_boundary, unw_ability, search,
                   sites, history>>

Read(a) == IF a \in DOMAIN mem THEN mem[a] ELSE Undefined

\* RegPop: the lowest register is at the stack pointer.  The test for the
\* stack pointer in the mask is of bits 0, 2 and 3.
reg_pop(mask) ==
    LET addr(r) == gp_regs[SP] + 4 * Below(mask, r)
        popped == [r \in ARMGPReg |-> IF r \in mask THEN Read(addr(r)) ELSE gp_regs[r]]
    IN  IF mask \intersect {0, 2, 3} = {}
        THEN [popped EXCEPT ![SP] = gp_regs[SP] + 4 * Cardinality(mask)]
        ELSE popped
\* VfpPop: two words, the low one first.
vfp_pop(start, count) ==
    [d \in ARMDPFPReg |->
        LET a == gp_regs[SP] + 8 * (d - start)
        IN  IF d \in start .. start + count - 1 THEN <<Read(a), Read(a + 4)>>
            ELSE dpfp_regs[d]]

\* What an instruction needs: registers that the state has.
Known(instr) ==
    CASE instr.tag = "RegPop" -> instr.mask \subseteq ARMGPReg
      [] instr.tag = "RegToSp" -> instr.reg_num \in ARMGPReg
      [] instr.tag = "VfpPop" ->
             instr.start_reg_num .. instr.start_reg_num + instr.count - 1 \subseteq ARMDPFPReg
      [] OTHER -> instr.tag \in {"DataPop", "DataPush", "Finish"}

\* step: one unwind instruction.  Finish is skipped over like any other.
apply ==
    LET next == step_iter(instrs)
        instr == next[1]
    IN  /\ phase = "step"
        /\ instrs # <<>>
        /\ instrs' = Skip(next[2], instrs)
        /\ IF ~Known(instr)
           THEN phase' = "dead" /\ UNCHANGED <<gp_regs, dpfp_regs>>
           ELSE /\ phase' = phase
                /\ gp_regs' =
                     CASE instr.tag = "DataPop" -> [gp_regs EXCEPT ![SP] = @ + instr.size]
                       [] instr.tag = "DataPush" -> [gp_regs EXCEPT ![SP] = @ - instr.size]
                       [] instr.tag = "RegToSp" ->
                              [gp_regs EXCEPT ![SP] = gp_regs[instr.reg_num]]
                       [] instr.tag = "RegPop" -> reg_pop(instr.mask)
                       [] instr.tag = "VfpPop" ->
                              [gp_regs EXCEPT ![SP] = @ + 8 * instr.count]
                       [] instr.tag = "Finish" -> gp_regs
                /\ dpfp_regs' = IF instr.tag = "VfpPop"
                                THEN vfp_pop(instr.start_reg_num, instr.count)
                                ELSE dpfp_regs
        /\ UNCHANGED <<image, mem, prev_sp, stklet_boundary, is_initial, unw_ability,
                       search, sites, history>>

\* The trap frame, and the padding that a bit of xPSR tells of.
TrapFrameSize(tf) == 104 + (IF tf.xpsr_bit9 THEN 4 ELSE 0)

\* step, after the instructions: the program counter comes from LR, and from
\* the trap frame on the previous stacklet if the function was entered on a
\* new one.  There is nothing to look up when the outermost frame was left.
step_return ==
    LET pc == IF gp_regs[PC] = Undefined THEN gp_regs[LR] ELSE gp_regs[PC]
        tf == prev_sp[stklet_boundary]
    IN  /\ phase = "step"
        /\ instrs = <<>>
        /\ level' = level - 1
        /\ phase' = IF pc = 0 THEN "find_pad" ELSE "get_for_pc"
        /\ IF pc = LessStack
           THEN /\ gp_regs' = [gp_regs EXCEPT ![PC] = CallOf(tf.lr),
                                              ![SP] = tf.at + TrapFrameSize(tf)]
                /\ stklet_boundary' = stklet_boundary - 1
           ELSE /\ gp_regs' = [gp_regs EXCEPT ![PC] = IF pc = 0 THEN 0 ELSE CallOf(pc)]
                /\ UNCHANGED stklet_boundary
        /\ UNCHANGED <<image, dpfp_regs, mem, prev_sp, is_initial, unw_ability, search,
                       instrs, sites, calls, visited>>

-----------------------------------------------------------------------------
\* unwind_next_function, from the unwind information to the iterator over the
\* call sites.  A function without a data area, or with one that cannot be
\* read, has no pad, and one that cannot be unwound halts the system.
find_pad ==
    LET iter == call_site_table_entries(unw_ability.lsda, unw_ability.func_addr)
    IN  /\ phase = "find_pad"
        /\ \/ /\ unw_ability.tag = "cant_unwind"
              /\ phase' = "dead"
              /\ UNCHANGED sites
           \/ /\ unw_ability.tag = "can_unwind"
              /\ IF unw_ability.has_lsda /\ iter.ok
                 THEN phase' = "sites" /\ sites' = iter
                 ELSE phase' = "next_function" /\ UNCHANGED sites
        /\ UNCHANGED <<image, machine, stklet_boundary, is_initial, unw_ability, search,
                       instrs, history>>

\* call_site_table_entry_for_address: the first entry that covers the address,
\* and its pad if it has one.  Landing passes the state in R0.
next_call_site ==
    LET entry == parse_entry(sites)
        pad == landing_pad_address(entry)
    IN  /\ phase = "sites"
        /\ IF AtEnd(sites) \/ ~entry.ok
           THEN phase' = "next_function" /\ UNCHANGED <<gp_regs, sites, visited>>
           ELSE IF ~Covers(entry, gp_regs[PC])
           THEN sites' = entry.iter /\ UNCHANGED <<phase, gp_regs, visited>>
           ELSE IF ~HasLandingPad(entry)
           THEN phase' = "next_function" /\ UNCHANGED <<gp_regs, sites, visited>>
           ELSE /\ phase' = "pad"
                /\ visited' = Append(visited, pad)
                /\ gp_regs' = [gp_regs EXCEPT ![R0] = 1]
                /\ UNCHANGED sites
        /\ UNCHANGED <<image, dpfp_regs, mem, prev_sp, stklet_boundary, is_initial,
                       unw_ability, search, instrs, calls, level>>

\* External: a pad that cleans up ends in _Unwind_Resume, and one that catches
\* goes on with the function (panic_callback).
PadFunction(pad) ==
    CHOOSE i \in 1 .. Len(image.fns) : pad \in Fn(i).addr .. Fn(i).addr + Fn(i).size - 1
landing_pad ==
    /\ phase = "pad"
    /\ phase' = IF Fn(PadFunction(visited[Len(visited)])).catch
                THEN "caught" ELSE "next_function"
    /\ UNCHANGED <<image, machine, stklet_boundary, is_initial, unw_ability, search,
                   instrs, sites, history>>

\* The task goes on, or the system has halted.
ended ==
    /\ phase \in {"caught", "dead"}
    /\ UNCHANGED vars

-----------------------------------------------------------------------------
\* The bottom function has been entered with no return address.
Init ==
    /\ image \in Images
    /\ phase = "running"
    /\ gp_regs = [r \in ARMGPReg |-> IF r = SP THEN StackTop - 4 * image.fns[1].locals
                                     ELSE 0]
    /\ dpfp_regs = [d \in ARMDPFPReg |-> <<0, 0>>]
    /\ mem = <<>> /\ prev_sp = <<>> /\ stklet_boundary = 0
    /\ is_initial = TRUE /\ unw_ability = None
    /\ first = 0 /\ last = 0
    /\ instrs = <<>> /\ sites = None
    /\ calls = <<>> /\ level = 0 /\ visited = <<>>

compiled_code ==
    \E offset \in Fn(Running).calls :
        \/ \E callee \in 2 .. Len(image.fns), split \in BOOLEAN : call(offset, callee, split)
        \/ create_unwind_state(offset)

unwind ==
    \/ get_for_pc \/ bisect \/ unwind_next_function \/ apply \/ step_return
    \/ find_pad \/ next_call_site \/ landing_pad

Next ==
    \/ /\ phase = "running"
       /\ compiled_code
    \/ unwind
    \/ ended

Spec == Init /\ [][Next]_vars
\* The unwinder runs whenever its task does, and the task runs eventually: its
\* priority is low but it is never blocked.  Nothing has to panic.
FairSpec == Spec /\ WF_vars(unwind)

-----------------------------------------------------------------------------
\* Between two frames: whenever instructions are not being applied, the
\* callee-saved registers, the stack pointer and the floating-point registers
\* are those the frame had when it made its call, and the program counter is
\* inside that call.  It is about step, step_iter and the byte orders: one
\* wrong frame and every pad below runs on a corrupt stack.
RestoresCaller ==
    phase \notin {"running", "step", "dead"} /\ level > 0 =>
        /\ \A r \in CalleeSaved \union {SP} : gp_regs[r] = calls[level].gp[r]
        /\ dpfp_regs = calls[level].dp
        /\ gp_regs[PC] \in calls[level].at .. calls[level].at + 3

\* The pads that the program's own call sites ask for, the innermost first.
PadOf(c) ==
    LET covers == {i \in 1 .. Len(Fn(c.fn).sites) :
            LET s == Fn(c.fn).sites[i]
            IN  c.at \in Fn(c.fn).addr + s.start .. Fn(c.fn).addr + s.start + s.len - 1}
    IN  IF covers = {} THEN 0
        ELSE LET s == Fn(c.fn).sites[CHOOSE i \in covers : TRUE]
             IN  IF s.pad = 0 THEN 0 ELSE Fn(c.fn).addr + s.pad
PadsDownTo(k) ==
    LET pads[n \in 0 .. Len(calls)] ==
            IF n = 0 THEN <<>>
            ELSE LET c == calls[Len(calls) + 1 - n]
                 IN  IF PadOf(c) = 0 THEN pads[n - 1] ELSE Append(pads[n - 1], PadOf(c))
    IN  pads[Len(calls) + 1 - k]

\* Whatever is dropped is dropped once and in order: when the unwinder leaves a
\* frame (and when the panic is caught) the pads that ran are exactly those of
\* the frames it has left, the innermost first.  It is about get_for_pc,
\* call_site_table_entry_for_address and unwind_next_function.
RunsPadsInOrder ==
    phase \in {"step", "caught"} /\ level > 0 => visited = PadsDownTo(level)

\* Every panic is caught at the bottom of the stack, unless a function that
\* cannot be unwound is in between; then, and only then, the system halts.
\* It is about every error path of the unwinder and the end of the search.
CannotUnwind == \E i \in 1 .. Len(calls) : Fn(calls[i].fn).form = "cant"
PanicIsCaught ==
    phase = "get_for_pc" ~> phase = (IF CannotUnwind THEN "dead" ELSE "caught")
=============================================================================
