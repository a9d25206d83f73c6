----------------------------- MODULE MCPipeline -----------------------------
(***************************************************************************)
(* Programs for the pipeline: every sequence of four instructions of       *)
(* a pool, followed by an epilogue that stores what they left, every       *)
(* arithmetic opcode on every pair of operands, every branch on every      *)
(* operand and immediate, and loops.                                       *)
(***************************************************************************)
EXTENDS PipelineOrder

I(opcode, rd, rs, rt, imm) ==
    [opcode |-> opcode, rd |-> rd, rs |-> rs, rt |-> rt, imm |-> imm]

CountingMemory == [a \in Word |-> (a + 3) % 2 ^ WordBits]

Nop  == ZeroInstruction
Halt == I(Op.HALT, 0, 0, 0, 0)

(* Registers 2 and 3 are general, register 1 is the immediate.             *)
Pool ==
    { Nop, Halt,
      I(Op.ADD, 2, 2, 1, 5),
      I(Op.ADD, 3, 2, 2, 0),
      I(Op.LW, 2, 0, 1, 4),
      I(Op.LW, 3, 2, 0, 0),
      I(Op.SW, 2, 0, 1, 7),
      I(Op.SW, 3, 2, 0, 0),
      I(Op.BEQ, 1, 2, 0, 6),
      I(Op.BNE, 1, 3, 2, 6),
      I(Op.JAL, 1, 0, 0, 5) }

(* What follows a mix: it stores what the mix left in the registers.       *)
Epilogue ==
    << I(Op.ADD, 3, 3, 1, 1), I(Op.SW, 2, 3, 0, 0), I(Op.ADD, 2, 3, 2, 0), Halt, Halt >>

Mixes == { body \o Epilogue : body \in [1 .. 4 -> Pool] }

(* A word is put into register r in two halves: immediates are narrower.      *)
Set(r, w) ==
    << I(Op.ADD, r, 0, 1, w \div 2), I(Op.ADD, r, r, r, 0), I(Op.ADD, r, r, 1, w % 2) >>

(* Two operands and an operation on them; what a shift gives is stored.    *)
Sums ==
    { Set(2, a) \o Set(3, b) \o << I(opcode, 3, 2, 3, 0), Halt >> :
        opcode \in Op.ADD .. Op.MUL, a \in Word, b \in Word }
    \union
    { Set(2, a) \o << I(opcode, 3, 2, 1, b), I(Op.SW, 3, 0, 1, 6), Halt >> :
        opcode \in Op.SLL .. Op.SRL, a \in Word, b \in 0 .. WordBits - 1 }

(* A branch over an addition that compares a register and an immediate,    *)
(* its target in a register, and the use of the link.                      *)
JumpsComparing(rs, rt) ==
    { Set(2, a) \o
      << I(Op.ADD, 3, 0, 1, 7), I(opcode, 3, rs, rt, b), Nop,
         I(Op.ADD, 2, 2, 1, 1), Nop, I(Op.ADD, 3, PC_REG, 2, 0), Halt >> :
        opcode \in Op.BEQ .. Op.JAL, a \in Word, b \in Immediate }

Jumps == JumpsComparing(2, 1) \union JumpsComparing(1, 2)

LinkingJumps == {p \in Jumps : \E i \in DOMAIN p : p[i].opcode = Op.JAL}

(* A word of memory is counted up n times, as in the test counter.         *)
Loops ==
    { << I(Op.ADD, 2, 0, 1, n), Nop,
         I(Op.LW, 3, 0, 1, 4), I(Op.ADD, 3, 3, 1, 1), I(Op.SW, 3, 0, 1, 4),
         I(Op.SUB, 2, 2, 1, 1), I(Op.BNE, 1, 2, 0, 2), Nop, Halt >> : n \in 1 .. 4 }

-----------------------------------------------------------------------------
(* What a program must avoid for the pipeline to run it right (findings    *)
(* hidden_stall and store_after_store).                                    *)

(* The places of the instructions that may run right after the one at i:   *)
(* the next, and if i is the slot after a branch, the target.              *)
Followers(p, i) ==
    ({i + 1} \intersect DOMAIN p)
    \union IF i > 1 /\ IsOpcodeBranch(p[i - 1].opcode) THEN {p[i - 1].imm + 1} ELSE {}

Second(p, i) == UNION {Followers(p, j) : j \in Followers(p, i)}

Sources(i)      == {i.rs, i.rt}
AllSources(i)   == IF i.opcode <= Op.SRL \/ i.opcode = Op.LW
                       THEN Sources(i) ELSE Sources(i) \union {i.rd}
Destinations(i) == {i.rd} \ {ZERO_REG, IMM_REG}

(* The instruction behind a load or store, or the one behind that, does    *)
(* not wait only for the instruction in front of it.                       *)
Spaced(p) ==
    LET overlooked(i, k) == Destinations(p[i]) \intersect AllSources(p[k]) # {}
        seen(j, k)       == Destinations(p[j]) \intersect Sources(p[k]) # {}
    IN  \A i \in DOMAIN p : \A j \in Followers(p, i) :
            IsOpcodeMemory(p[j].opcode) =>
                \A k \in Followers(p, j) :
                    /\ overlooked(i, k) => seen(j, k)
                    /\ \A l \in Followers(p, k) :
                           overlooked(i, l) => seen(j, l) \/ seen(k, l)

(* A store whose data the instruction before it writes does not come       *)
(* shortly after another store.                                            *)
StoresApart(p) ==
    \A i \in DOMAIN p : p[i].opcode = Op.SW =>
        \A j \in Followers(p, i) \union Second(p, i) :
            p[j].opcode \notin (Op.BEQ .. Op.JAL) \union {Op.SW} =>
                \A k \in Followers(p, j) :
                    p[k].opcode = Op.SW => p[k].rd \notin Destinations(p[j])

(* No program writes register 0 anything but zero, and the operations are  *)
(* those of the instruction set.                                           *)
ASSUME ProgramsFit == ProgramsKeepRegisterZero /\ OperationsAgree

(* Every branch stays within the reach of Target.                          *)
SafePrograms ==
    Sums \union Jumps \union Loops \union {p \in Mixes : Spaced(p) /\ StoresApart(p)}

CrowdedLoads  == {p \in Mixes : ~ Spaced(p) /\ StoresApart(p)}
CrowdedStores == {p \in Mixes : Spaced(p) /\ ~ StoresApart(p)}
=============================================================================
