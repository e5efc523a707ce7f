------------------------------ MODULE Programs ------------------------------
(***************************************************************************)
(* Running the game's programs: QuakeC functions, whose locals are at      *)
(* fixed places and saved by whoever steps on them (pr_exec.c), or those   *)
(* of a QVM, whose frames are in its memory (pr2_vm.c).  A builtin they    *)
(* call may bring the engine to run programs again, before it returns.     *)
(*                                                                         *)
(* Every function has one local and one parameter, which to QuakeC are the *)
(* same.  A word of the QVM is 1; where it goes on is the number of the    *)
(* function it goes on in, vmMain being 1.                                 *)
(***************************************************************************)
EXTENDS Integers, SequencesExt

CONSTANTS
    Func,               \* 1..n
    Value,
    MaxDepth,           \* MAX_STACK_DEPTH
    LocalStack,         \* LOCALSTACK_SIZE
    Memory,             \* words of the QVM's stack
    MaxReenter,         \* MAX_vmMain_Call
    Files,              \* files of programs there are: "native", "qvm", "dat"
    MaxSteps            \* bound

VARIABLES
    machine,    \* sv_vm: its type, and what the interpreter of that type keeps
    engine,     \* calls of the interpreter and of builtins under way
    self,       \* pr_global_struct->self
    error,      \* SV_Error: "none", the server "ends", it has "ended"
    frames,     \* history: what every function under way has in its local
    steps       \* bound

vars == <<machine, engine, self, error, frames, steps>>

(* OP_ENTER's frame: where a call returns to, the size, what is passed to  *)
(* the called, the local.  QVM_Exec's own has no local.                    *)
FrameSize == 4
ExecSize == 3

Quake == [type |-> "none", globals |-> [f \in Func |-> 0], parm |-> 0,
          stack |-> <<>>, localstack |-> <<>>, xfunction |-> 0]
Qvm == [type |-> "bytecode", ds |-> [i \in 0..(Memory - 1) |-> 0],
        LP |-> Memory - 1, PC |-> 0, reenter |-> 0]

-----------------------------------------------------------------------------
(* VM_Load: what sv_progtype asks for, or the next kind there is.          *)
Loaded(progtype) ==
    IF progtype = "native" /\ "native" \in Files THEN {[type |-> "native"]}
    ELSE IF progtype # "none" /\ "qvm" \in Files THEN {Qvm}
    ELSE IF "dat" \in Files THEN {Quake} ELSE {}

(* PR2_LoadProgs, which SV_SpawnServer calls, never a program.             *)
PR2_LoadProgs ==
    /\ engine = <<>>
    /\ \E progtype \in {"none", "native", "bytecode"} :
          \/ machine' \in Loaded(progtype) /\ UNCHANGED error
          \/ Loaded(progtype) = {} /\ error' = "ended" /\ UNCHANGED machine
    /\ UNCHANGED <<engine, self, frames>>

Init ==
    /\ machine \in UNION {Loaded(t) : t \in {"none", "bytecode"}}
    /\ engine = <<>> /\ self = 0 /\ error = "none" /\ frames = <<>> /\ steps = 0

QuakeC == machine.type = "none"
Bytecode == machine.type = "bytecode"
Running == engine # <<>> /\ Last(engine).op = "program"

(* What the function that runs finds in its local. *)
Local(m) == IF m.type = "none" THEN m.globals[m.xfunction] ELSE m.ds[m.LP + 3]
Argument(m) == IF m.type = "none" THEN Local(m) ELSE m.ds[m.LP + FrameSize + 2]

-----------------------------------------------------------------------------
(* Mutant: the parameters first. *)
PR_EnterFunctionParmsFirst(m, f) ==
    [m EXCEPT !.stack = Append(@, m.xfunction),
              !.localstack = Append(@, m.parm),
              !.globals[f] = m.parm,
              !.xfunction = f]

(* The new function's locals are saved, then get its parameters. *)
PR_EnterFunction(m, f) ==
    [m EXCEPT !.stack = Append(@, m.xfunction),
              !.localstack = Append(@, m.globals[f]),
              !.globals[f] = m.parm,
              !.xfunction = f]
StackOverflow(m) == Len(m.stack) + 1 >= MaxDepth \/ Len(m.localstack) + 1 > LocalStack

PR_LeaveFunction(m) ==
    [m EXCEPT !.localstack = Front(@),
              !.globals[m.xfunction] = Last(m.localstack),
              !.stack = Front(@),
              !.xfunction = Last(m.stack)]

(* OP_CALL stores where to go on in the caller's frame, OP_ENTER makes the *)
(* frame of f; the checks come with the next instruction.                  *)
Entered(m, f) ==
    [m EXCEPT !.ds = [@ EXCEPT ![m.LP] = m.PC, ![m.LP - FrameSize + 1] = FrameSize],
              !.LP = @ - FrameSize, !.PC = f]
Fits(m) == m.LP >= FrameSize

(* Mutant: from the top, as if nothing ran. *)
ExecFrameOnTop(m) == Memory - 1 - ExecSize

(* QVM_Exec's frame: from the top if nothing ran, or below what does.      *)
ExecFrame(m) == (IF m.reenter = 0 THEN Memory - 1 ELSE m.LP) - ExecSize

(* QVM_Exec up to vmMain's OP_ENTER. *)
QVM_Exec(m, v) ==
    LET lp == ExecFrame(m)
        m1 == [m EXCEPT !.reenter = @ + 1, !.PC = 0, !.LP = lp,
                        !.ds = [@ EXCEPT ![lp] = 0, ![lp + 1] = ExecSize, ![lp + 2] = v]]
    IN [m1 EXCEPT !.LP = lp - FrameSize, !.PC = 1,
                  !.ds[lp - FrameSize + 1] = FrameSize]
ExecFails(m) ==
    m.reenter > MaxReenter \/ ExecFrame(m) < FrameSize

(* PR_RunError and QVM_RunError: what runs never goes on.  The server ends *)
(* when it has told a mod of its own kind to shut down, within what ran     *)
(* (SV_Shutdown: QuakeC is not told); at once when that fails, too.         *)
Fails ==
    /\ error' = IF error = "none" /\ Bytecode THEN "ends" ELSE "ended"
    /\ engine' = Append(engine, [op |-> "error"])
    /\ UNCHANGED <<machine, self, frames>>

-----------------------------------------------------------------------------
(* The engine runs a program, a QuakeC function or vmMain, for an entity   *)
(* (PR2_EdictTouch and the like): on its own or inside a builtin.          *)
Begin ==
    /\ ~Running /\ machine.type # "native"
    /\ \E f \in IF QuakeC THEN Func ELSE {1}, v \in Value, s \in Value :
          IF IF QuakeC THEN StackOverflow(machine) ELSE ExecFails(machine) THEN Fails
          ELSE /\ machine' = IF QuakeC
                             THEN PR_EnterFunction([machine EXCEPT !.parm = v], f)
                             ELSE QVM_Exec(machine, v)
               /\ self' = s
               /\ engine' = Append(engine, [op |-> "program", self |-> s,
                                            exitdepth |-> IF QuakeC THEN Len(machine.stack)
                                                          ELSE 0,
                                            saved |-> IF QuakeC THEN <<>>
                                                      ELSE <<machine.PC, machine.LP>>])
               /\ frames' = Append(frames, [parm |-> v, local |-> Local(machine')])
               /\ UNCHANGED error

(* OP_CALL0 and after, OP_ARG and OP_CALL. *)
Call ==
    /\ Running
    /\ \E f \in Func, v \in Value :
          IF IF QuakeC THEN StackOverflow(machine) ELSE ~Fits(machine) THEN Fails
          ELSE /\ machine' = IF QuakeC
                             THEN PR_EnterFunction([machine EXCEPT !.parm = v], f)
                             ELSE Entered([machine EXCEPT !.ds[machine.LP + 2] = v], f)
               /\ frames' = Append(frames, [parm |-> v, local |-> Local(machine')])
               /\ UNCHANGED <<engine, self, error>>

(* What an instruction computes goes to a local, which may be a parameter. *)
StoreQuakeC ==
    /\ Running /\ QuakeC
    /\ \E v \in Value :
          /\ machine' = [machine EXCEPT !.globals[machine.xfunction] = v]
          /\ frames' = [frames EXCEPT ![Len(frames)] = [local |-> v, parm |-> v]]
    /\ UNCHANGED <<engine, self, error>>

StoreBytecode ==
    /\ Running /\ Bytecode
    /\ \E v \in Value :
          /\ machine' = [machine EXCEPT !.ds[machine.LP + 3] = v]
          /\ frames' = [frames EXCEPT ![Len(frames)].local = v]
    /\ UNCHANGED <<engine, self, error>>

(* self = other, which programs do themselves. *)
SetSelf ==
    /\ Running
    /\ \E v \in Value :
          /\ self' = v
          /\ engine' = [engine EXCEPT ![Len(engine)].self = v]
    /\ UNCHANGED <<machine, error, frames>>

(* A builtin like walkmove, which may make entities touch.                 *)
CallBuiltin ==
    /\ Running
    /\ engine' = Append(engine, [op |-> "builtin", self |-> self])
    /\ UNCHANGED <<machine, self, error, frames>>

(* Mutant: it is only put back by who changed it first. *)
RestoredAtTop(saved) == IF Len(engine) = 2 THEN saved ELSE self

(* PF_walkmove, SV_TouchLinks, SV_Impact, PF2_executecmd. *)
Restored(saved) == saved

BuiltinReturns ==
    /\ engine # <<>> /\ Last(engine).op = "builtin"
    /\ self' = Restored(Last(engine).self)
    /\ engine' = Front(engine)
    /\ UNCHANGED <<machine, error, frames>>

(* OP_RETURN; PR_ExecuteProgram ends at the depth it began.                *)
ReturnQuakeC ==
    /\ Running /\ QuakeC
    /\ machine' = PR_LeaveFunction(machine)
    /\ engine' = IF Len(machine'.stack) = Last(engine).exitdepth THEN Front(engine)
                 ELSE engine
    /\ frames' = Front(frames)
    /\ UNCHANGED <<self, error>>

(* OP_LEAVE; QVM_Exec ends when it goes on at 0, with the registers it     *)
(* found; the server, when that was GAME_SHUTDOWN.                         *)
ReturnBytecode ==
    /\ Running /\ Bytecode
    /\ \E lp \in {machine.LP + FrameSize} :
          IF machine.ds[lp] > 0
          THEN /\ machine' = [machine EXCEPT !.LP = lp, !.PC = machine.ds[lp]]
               /\ UNCHANGED engine
          ELSE /\ machine' = [machine EXCEPT !.PC = Last(engine).saved[1],
                                             !.LP = Last(engine).saved[2],
                                             !.reenter = @ - 1]
               /\ engine' = Front(engine)
    /\ error' = IF engine' # engine /\ Last(<<[op |-> "none"]>> \o engine').op = "error"
                THEN "ended" ELSE error
    /\ frames' = Front(frames)
    /\ UNCHANGED self

(* What a program does may be an error: of its own, or of a builtin.       *)
ProgramError == engine # <<>> /\ Last(engine).op # "error" /\ Fails

Next ==
    /\ error # "ended"
    /\ steps < MaxSteps         \* bound
    /\ steps' = steps + 1
    /\ \/ PR2_LoadProgs
       \/ Begin \/ Call \/ StoreQuakeC \/ StoreBytecode \/ SetSelf \/ CallBuiltin \/ BuiltinReturns
       \/ ReturnQuakeC \/ ReturnBytecode \/ ProgramError

Spec == Init /\ [][Next]_vars

-----------------------------------------------------------------------------
(* A function finds its local, its parameter and self as it left them,     *)
(* whatever it called and whatever programs its builtins made the engine   *)
(* run: the same function again, to any depth, and in the middle of one    *)
(* that an error has ended (pr_exec.c 305, pr2_vm.c 667-675, 1138, world.c *)
(* 322, sv_main.c 284).                                                    *)
LocalsKept ==
    Running =>
        /\ Local(machine) = Last(frames).local
        /\ Argument(machine) = Last(frames).parm
        /\ self = Last(engine).self
=============================================================================
