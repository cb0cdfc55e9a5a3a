----------------------------- MODULE TryFinally -----------------------------
(***************************************************************************)
(* Statements that leave other statements: how js_EmitTree (jsemit.c)      *)
(* compiles break, continue, return and throw out of loops, with, catch    *)
(* and finally blocks, and how js_Interpret (jsinterp.c) runs the code.    *)
(*                                                                         *)
(* A finally block is a subroutine: whatever leaves its try statement calls *)
(* it with a gosub, which pushes the pending exception, if any, and the    *)
(* way back.  with and catch blocks have an object on the operand stack    *)
(* that is also on the scope chain.  Every jump must first undo, in order, *)
(* what the statements it leaves have done; an exception lets a setsp do   *)
(* it.                                                                     *)
(*                                                                         *)
(* Meaning is the reference: what the language says of the same program.   *)
(* Expressions are calls, conditions of loops and guards of catch blocks.  *)
(***************************************************************************)
EXTENDS Integers, Sequences, SequencesExt, FiniteSets

CONSTANTS
  Programs,  \* the function bodies that are compiled and run
  Extended   \* scripts so long that jumps need 32 bits: JSOP_GOSUBX

VARIABLES
  program, code, notes,  \* what is run, and what it is compiled to
  pc, stack,
  scope,                 \* the With objects on the scope chain, outermost first
  throwing, exception,   \* cx->throwing, cx->exception
  rval,                  \* fp->rval
  trace,                 \* history: the expressions evaluated, each in its scope
  outcome                \* "running", or how the function has ended

vars == <<program, code, notes, pc, stack, scope, throwing, exception, rval, trace, outcome>>
given == <<program, code, notes>>

(***************************************************************************)
(* Statements: [type, ...] with                                            *)
(*   block    list   in sequence                                           *)
(*   call     name   an expression                                         *)
(*   throw    name                                                         *)
(*   return   name                                                         *)
(*   break    label  ("": the innermost loop)                              *)
(*   continue        the innermost loop                                    *)
(*   label    label, body                                                  *)
(*   do       body   do body while (condition)                             *)
(*   forin    body   for (x in o) body, where o has one property           *)
(*   with     body                                                         *)
(*   try      body, catches (each [guard, body], guard "" if none),        *)
(*            fin (<< >>, or <<body>>)                                     *)
(***************************************************************************)

\* A condition is true the first time one is evaluated.
Holds(tr) == \A i \in DOMAIN tr : tr[i].what # "condition"

\* Of guards and calls: what the expression named so does.
GuardHolds(name) == name = "yes"
Throws(name)     == name = "throws"

-----------------------------------------------------------------------------
(* The compiler.                                                           *)

\* jump and stmt: the backpatch chain the instruction is in, until it is patched.
Instr(op)       == [op |-> op, name |-> "", to |-> 0, jump |-> "", stmt |-> 0]
Named(op, name) == [Instr(op) EXCEPT !.name = name]
Jump(op, to)    == [Instr(op) EXCEPT !.to = to]

\* EmitBackPatchOp
BackPatchOp(op, jump, stmt) == [Instr(op) EXCEPT !.jump = jump, !.stmt = stmt]

Emit(cg, instrs) == [cg EXCEPT !.code = @ \o instrs]
CG_OFFSET(cg) == Len(cg.code) + 1

BackPatch(cg, jump, stmt, target) ==
  [cg EXCEPT !.code = [i \in DOMAIN cg.code |->
     IF cg.code[i].jump = jump /\ cg.code[i].stmt = stmt /\ cg.code[i].to = 0
     THEN [cg.code[i] EXCEPT !.to = target] ELSE cg.code[i]]]

NewTryNote(cg, start, end, catchStart) ==
  [cg EXCEPT !.notes = Append(@, [start |-> start, end |-> end, catchStart |-> catchStart])]

\* cg->treeContext: the statements around this one, and the stack depth.  A
\* statement goes by its position in the list.
Within(tc, type, label, deeper) ==
  [stmts |-> Append(tc.stmts, [type |-> type, label |-> label]), depth |-> tc.depth + deeper]

PopStatementCG(cg, stmt, update) ==
  BackPatch(BackPatch(cg, "break", stmt, CG_OFFSET(cg)), "continue", stmt, update)

\* What leaving statement s takes.
Leaves(tc, s) ==
  CASE tc.stmts[s].type = "finally"               -> <<BackPatchOp("gosub", "gosub", s)>>
    [] tc.stmts[s].type \in {"with", "catch"}     -> <<Instr("leavewith")>>
    [] tc.stmts[s].type \in {"forin", "subroutine"} -> <<Instr("pop2")>>
    [] OTHER                                      -> << >>

\* From the innermost statement to the one just inside toStmt.
EmitNonLocalJumpFixup(cg, tc, toStmt) ==
  Emit(cg, FlattenSeq([i \in 1..Len(tc.stmts) - toStmt |-> Leaves(tc, Len(tc.stmts) + 1 - i)]))

EmitGoto(cg, tc, toStmt, jump) ==
  Emit(EmitNonLocalJumpFixup(cg, tc, toStmt), <<BackPatchOp("goto", jump, toStmt)>>)

Innermost(tc, Test(_)) ==
  CHOOSE s \in DOMAIN tc.stmts :
    Test(tc.stmts[s]) /\ \A t \in s + 1..Len(tc.stmts) : ~Test(tc.stmts[t])

StmtIsLoop(s) == s.type \in {"do", "forin"}

EmitReturn(cg, tc, n) ==
  LET pushed == Emit(cg, <<Named("push", n.name)>>) IN
  IF \E s \in DOMAIN tc.stmts : tc.stmts[s].type = "finally"
  THEN Emit(EmitNonLocalJumpFixup(Emit(pushed, <<Instr("setrval")>>), tc, 0), <<Instr("retrval")>>)
  ELSE Emit(pushed, <<Instr("return")>>)

RECURSIVE EmitTree(_, _, _), EmitList(_, _, _), EmitCatches(_, _, _, _, _)

EmitList(cg, tc, list) ==
  IF list = << >> THEN cg ELSE EmitList(EmitTree(cg, tc, Head(list)), tc, Tail(list))

(***************************************************************************)
(* The catch blocks of a try statement.  guard: the position of the jump   *)
(* that skips the previous block, 0 if there was none.                     *)
(***************************************************************************)
EmitCatches(cg, tc, catches, fin, guard) ==
  IF catches = << >> THEN [cg |-> cg, guard |-> guard] ELSE
  LET c      == Head(catches)
      stmt   == Len(tc.stmts)
      first  == IF guard = 0
                THEN Emit(cg, <<Jump("setsp", tc.depth)>>)
                ELSE Emit([cg EXCEPT !.code[guard].to = CG_OFFSET(cg)],
                          <<Instr("throwing"), Instr("leavewith")>>)
      bound  == Emit(first, <<Instr("newinit"), Instr("exception"),
                              Instr("initcatchvar"), Instr("enterwith")>>)
      tested == IF c.guard = "" THEN bound
                ELSE Emit(bound, <<Named("guard", c.guard), Instr("ifeq")>>)
      body   == EmitTree(tested, Within(tc, "catch", "", 1), c.body)
      done   == Emit(body, <<Instr("leavewith")>>
                             \o (IF fin THEN <<BackPatchOp("gosub", "gosub", stmt)>> ELSE << >>)
                             \o <<BackPatchOp("goto", "catchJump", stmt)>>)
  IN  EmitCatches(done, tc, Tail(catches), fin,
                  IF c.guard = "" THEN guard ELSE CG_OFFSET(tested) - 1)

EmitTry(cg, tc0, n) ==
  LET fin     == n.fin # << >>
      tc      == Within(tc0, IF fin THEN "finally" ELSE "block", "", 0)
      stmt    == Len(tc.stmts)
      gosub   == IF fin THEN <<BackPatchOp("gosub", "gosub", stmt)>> ELSE << >>
      start   == CG_OFFSET(cg) + 1
      body    == Emit(EmitTree(Emit(cg, <<Instr("try")>>), tc, n.body),
                      gosub \o <<BackPatchOp("goto", "catchJump", stmt)>>)
      end     == CG_OFFSET(body)
      caught  == EmitCatches(body, tc, n.catches, fin, 0)
      guarded == n.catches # << >> /\ Last(n.catches).guard # ""
      missed  == IF ~guarded THEN caught.cg
                 ELSE Emit([caught.cg EXCEPT !.code[caught.guard].to = CG_OFFSET(caught.cg)],
                           IF fin THEN <<Instr("throwing")>> ELSE << >>)
      finallyCatch == CG_OFFSET(missed)
      rethrow == IF ~fin /\ ~guarded THEN missed
                 ELSE Emit(missed, <<Jump("setsp", tc.depth)>>
                             \o (IF fin THEN gosub ELSE <<Instr("exception"), Instr("throw")>>))
      sub     == IF ~fin THEN rethrow
                 ELSE Emit(EmitTree(Emit(BackPatch(rethrow, "gosub", stmt, CG_OFFSET(rethrow)),
                                         <<Instr("finally")>>),
                                    Within(tc0, "subroutine", "", 2), n.fin[1]),
                           <<Instr("retsub")>>)
      popped  == Emit(PopStatementCG(sub, stmt, 0), <<Instr("nop")>>)
      patched == BackPatch(popped, "catchJump", stmt, CG_OFFSET(popped))
      noted   == IF n.catches = << >> THEN patched ELSE NewTryNote(patched, start, end, end)
  IN  IF fin THEN NewTryNote(noted, start, finallyCatch, finallyCatch) ELSE noted

EmitTree(cg, tc, n) ==
  LET stmt == Len(tc.stmts) + 1  \* its own position, if it is pushed
      top  == CG_OFFSET(cg)
  IN
  CASE n.type = "call"   -> Emit(cg, <<Named("call", n.name)>>)
    [] n.type = "throw"  -> Emit(cg, <<Named("push", n.name), Instr("throw")>>)
    [] n.type = "return" -> EmitReturn(cg, tc, n)
    [] n.type = "block"  ->
         PopStatementCG(EmitList(cg, Within(tc, "block", "", 0), n.list), stmt, top)
    [] n.type = "break"  ->
         EmitGoto(cg, tc, Innermost(tc, LAMBDA s : IF n.label = "" THEN StmtIsLoop(s)
                                                   ELSE s.type = "label" /\ s.label = n.label),
                  "break")
    [] n.type = "continue" -> EmitGoto(cg, tc, Innermost(tc, StmtIsLoop), "continue")
    [] n.type = "label"  ->
         PopStatementCG(EmitTree(Emit(cg, <<Instr("nop")>>), Within(tc, "label", n.label, 0), n.body),
                        stmt, top)
    [] n.type = "do"     ->
         LET body == EmitTree(Emit(cg, <<Instr("nop")>>), Within(tc, "do", "", 0), n.body)
         IN  PopStatementCG(Emit(body, <<Instr("condition"), Jump("ifne", top + 1)>>),
                            stmt, CG_OFFSET(body))
    [] n.type = "forin"  ->
         LET head == Emit(cg, <<Named("push", "start"), Named("push", "object"),
                                Instr("forname"), Instr("ifeq")>>)
             body == Emit(EmitTree(head, Within(tc, "forin", "", 2), n.body), <<Jump("goto", top + 2)>>)
             exit == [body EXCEPT !.code[top + 3].to = CG_OFFSET(body)]
         IN  Emit(PopStatementCG(exit, stmt, top + 2), <<Instr("pop2")>>)
    [] n.type = "with"   ->
         LET body == EmitTree(Emit(cg, <<Named("push", "with"), Instr("enterwith")>>),
                              Within(tc, "with", "", 1), n.body)
         IN  PopStatementCG(Emit(body, <<Instr("leavewith")>>), stmt, top)
    [] n.type = "try"    -> EmitTry(cg, tc, n)

Compiled(p) ==
  Emit(EmitTree([code |-> << >>, notes |-> << >>], [stmts |-> << >>, depth |-> 0], p),
       <<Instr("stop")>>)

-----------------------------------------------------------------------------
(* The interpreter.                                                        *)

Slot == [is : {"value", "with", "hole", "exception", "pc"}, name : STRING, at : Nat]
Value(name) == [is |-> "value", name |-> name, at |-> 0]
Hole        == [is |-> "hole", name |-> "", at |-> 0]

Init ==
  /\ program \in Programs
  /\ code = Compiled(program).code
  /\ notes = Compiled(program).notes
  /\ pc = 1
  /\ stack = << >>
  /\ scope = << >>
  /\ throwing = FALSE
  /\ exception = ""
  /\ rval = ""
  /\ trace = << >>
  /\ outcome = "running"

At(op) == outcome = "running" /\ code[pc].op = op
Arg    == code[pc]

Advance == pc' = pc + 1
Pushed(v) == Append(stack, v)
PopN(k)   == SubSeq(stack, 1, Len(stack) - k)

ScopeHolds == [i \in DOMAIN scope |-> scope[i].holds]
Evaluated(what) == Append(trace, [what |-> what, scope |-> ScopeHolds])

\* Variant: the last note that covers pc, the outermost one.
FindLastCatchStart ==
  LET covering == {i \in DOMAIN notes : pc \in notes[i].start..notes[i].end - 1}
  IN  IF covering = {} THEN 0
      ELSE notes[CHOOSE i \in covering : \A j \in covering : i >= j].catchStart

\* SCRIPT_FIND_CATCH_START: the first note that covers pc.
FindCatchStart ==
  LET covering == {i \in DOMAIN notes : pc \in notes[i].start..notes[i].end - 1}
  IN  IF covering = {} THEN 0
      ELSE notes[CHOOSE i \in covering : \A j \in covering : i <= j].catchStart

\* The label "out": the exception is caught, or leaves the function.
Throw(e) ==
  /\ throwing' = TRUE
  /\ exception' = e
  /\ \/ FindCatchStart # 0 /\ pc' = FindCatchStart /\ UNCHANGED outcome
     \/ FindCatchStart = 0 /\ outcome' = "throw" /\ UNCHANGED pc

NoEffect ==
  /\ \E op \in {"try", "finally", "nop"} : At(op)
  /\ Advance
  /\ UNCHANGED <<given, stack, scope, throwing, exception, rval, trace, outcome>>

Push ==
  /\ At("push")
  /\ stack' = Pushed(Value(Arg.name))
  /\ Advance
  /\ UNCHANGED <<given, scope, throwing, exception, rval, trace, outcome>>

Pop2 ==
  /\ At("pop2")
  /\ stack' = PopN(2)
  /\ Advance
  /\ UNCHANGED <<given, scope, throwing, exception, rval, trace, outcome>>

\* A call.  One named "inner" throws and catches an exception of its own.  One
\* named "host" is JSUnit.events() or System.include(): a callback in it has
\* thrown, or the file has, and what it has thrown is still pending.
Call ==
  /\ At("call")
  /\ trace' = Evaluated(Arg.name)
  /\ \/ Throws(Arg.name) /\ Throw("thrown")
     \/ /\ ~Throws(Arg.name)
        /\ Advance
        /\ exception' = IF Arg.name \in {"inner", "host"} THEN Arg.name ELSE exception
        /\ throwing' = (throwing \/ Arg.name = "host")
        /\ UNCHANGED outcome
  /\ UNCHANGED <<given, stack, scope, rval>>

Condition ==
  /\ At("condition")
  /\ trace' = Evaluated("condition")
  /\ stack' = Pushed(Value(IF Holds(trace) THEN "true" ELSE "false"))
  /\ Advance
  /\ UNCHANGED <<given, scope, throwing, exception, rval, outcome>>

\* The guard "inner" is a call like the one above, and does not hold.
Guard ==
  /\ At("guard")
  /\ trace' = Evaluated(Arg.name)
  /\ \/ Throws(Arg.name) /\ Throw("thrown") /\ UNCHANGED stack
     \/ /\ ~Throws(Arg.name)
        /\ stack' = Pushed(Value(IF GuardHolds(Arg.name) THEN "true" ELSE "false"))
        /\ exception' = IF Arg.name = "inner" THEN "inner" ELSE exception
        /\ Advance
        /\ UNCHANGED <<throwing, outcome>>
  /\ UNCHANGED <<given, scope, rval>>

\* The iterator is below the object.
Forname ==
  /\ At("forname")
  /\ LET i == Len(stack) - 1 IN
     stack' = Append([stack EXCEPT ![i] = Value("end")],
                     Value(IF stack[i].name = "start" THEN "true" ELSE "false"))
  /\ Advance
  /\ UNCHANGED <<given, scope, throwing, exception, rval, trace, outcome>>

Goto ==
  /\ At("goto")
  /\ pc' = Arg.to
  /\ UNCHANGED <<given, stack, scope, throwing, exception, rval, trace, outcome>>

Branch ==
  /\ At("ifeq") \/ At("ifne")
  /\ pc' = IF (Last(stack).name = "true") = (Arg.op = "ifne") THEN Arg.to ELSE pc + 1
  /\ stack' = PopN(1)
  /\ UNCHANGED <<given, scope, throwing, exception, rval, trace, outcome>>

EnterWith ==
  /\ At("enterwith")
  /\ stack' = [stack EXCEPT ![Len(stack)].is = "with"]
  /\ scope' = Append(scope, [depth |-> Len(stack) - 1, holds |-> Last(stack).name])
  /\ Advance
  /\ UNCHANGED <<given, throwing, exception, rval, trace, outcome>>

LeaveWith ==
  /\ At("leavewith")
  /\ stack' = PopN(1)
  /\ scope' = Front(scope)
  /\ Advance
  /\ UNCHANGED <<given, throwing, exception, rval, trace, outcome>>

\* Variant: the objects above the new top stay on the scope chain.
ScopeKept(depth) == scope

ScopeBelow(depth) == SelectSeq(scope, LAMBDA w : w.depth < depth)

Setsp ==
  /\ At("setsp")
  /\ stack' = SubSeq(stack, 1, Arg.to)
  /\ scope' = ScopeBelow(Arg.to)
  /\ Advance
  /\ UNCHANGED <<given, throwing, exception, rval, trace, outcome>>

\* Variant: back to the gosub itself.
ToGosub == pc

ToAfterGosub == pc + 1

AfterGosub == IF Extended THEN throwing ELSE FALSE

Gosub ==
  /\ At("gosub")
  /\ stack' = stack \o <<IF throwing THEN [is |-> "exception", name |-> exception, at |-> 0] ELSE Hole,
                         [is |-> "pc", name |-> "", at |-> ToAfterGosub]>>
  /\ throwing' = AfterGosub
  /\ pc' = Arg.to
  /\ UNCHANGED <<given, scope, exception, rval, trace, outcome>>

Retsub ==
  /\ At("retsub")
  /\ stack' = PopN(2)
  /\ LET lval == stack[Len(stack) - 1] IN
     \/ lval.is # "hole" /\ Throw(lval.name)
     \/ lval.is = "hole" /\ pc' = Last(stack).at /\ UNCHANGED <<throwing, exception, outcome>>
  /\ UNCHANGED <<given, scope, rval, trace>>

NewInit ==
  /\ At("newinit")
  /\ stack' = Pushed(Value(""))
  /\ Advance
  /\ UNCHANGED <<given, scope, throwing, exception, rval, trace, outcome>>

Exception ==
  /\ At("exception")
  /\ stack' = Pushed(Value(exception))
  /\ throwing' = FALSE
  /\ Advance
  /\ UNCHANGED <<given, scope, exception, rval, trace, outcome>>

\* The object below gets the catch variable.
InitCatchVar ==
  /\ At("initcatchvar")
  /\ stack' = [PopN(1) EXCEPT ![Len(stack) - 1].name = Last(stack).name]
  /\ Advance
  /\ UNCHANGED <<given, scope, throwing, exception, rval, trace, outcome>>

Throwing ==
  /\ At("throwing")
  /\ throwing' = TRUE
  /\ Advance
  /\ UNCHANGED <<given, stack, scope, exception, rval, trace, outcome>>

ThrowOp ==
  /\ At("throw")
  /\ Throw(Last(stack).name)
  /\ stack' = PopN(1)
  /\ UNCHANGED <<given, scope, rval, trace>>

SetRval ==
  /\ At("setrval")
  /\ rval' = Last(stack).name
  /\ stack' = PopN(1)
  /\ Advance
  /\ UNCHANGED <<given, scope, throwing, exception, trace, outcome>>

Return ==
  /\ At("return") \/ At("retrval")
  /\ rval' = IF At("return") THEN Last(stack).name ELSE rval
  /\ outcome' = "return"
  /\ UNCHANGED <<given, pc, stack, scope, throwing, exception, trace>>

Stop ==
  /\ At("stop")
  /\ outcome' = "normal"
  /\ UNCHANGED <<given, pc, stack, scope, throwing, exception, rval, trace>>

Ended == outcome # "running" /\ UNCHANGED vars

Next ==
  \/ NoEffect \/ Push \/ Pop2
  \/ Call \/ Condition \/ Guard \/ Forname
  \/ Goto \/ Branch
  \/ EnterWith \/ LeaveWith \/ Setsp
  \/ Gosub \/ Retsub
  \/ NewInit \/ Exception \/ InitCatchVar \/ Throwing \/ ThrowOp
  \/ SetRval \/ Return \/ Stop
  \/ Ended

Spec == Init /\ [][Next]_vars
FairSpec == Spec /\ WF_vars(Next)

-----------------------------------------------------------------------------
(* What the language says: statements have completions.                    *)

Completion(tr, how, what) == [trace |-> tr, how |-> how, what |-> what]

RECURSIVE Meaning(_, _, _), MeaningOfList(_, _, _), MeaningOfCatches(_, _, _, _), Loop(_, _, _)

MeaningOfList(list, tr, sc) ==
  IF list = << >> THEN Completion(tr, "normal", "")
  ELSE LET c == Meaning(Head(list), tr, sc)
       IN  IF c.how = "normal" THEN MeaningOfList(Tail(list), c.trace, sc) ELSE c

\* c: the completion of the try block, which has thrown.
MeaningOfCatches(catches, c, tr, sc) ==
  IF catches = << >> THEN [c EXCEPT !.trace = tr] ELSE
  LET h     == Head(catches)
      inner == Append(sc, c.what)
      asked == IF h.guard = "" THEN tr ELSE Append(tr, [what |-> h.guard, scope |-> inner])
  IN  IF Throws(h.guard) THEN Completion(asked, "throw", "thrown")
      ELSE IF h.guard = "" \/ GuardHolds(h.guard) THEN Meaning(h.body, asked, inner)
      ELSE MeaningOfCatches(Tail(catches), c, asked, sc)

Loop(n, tr, sc) ==
  LET c == Meaning(n.body, tr, sc)
      t == Append(c.trace, [what |-> "condition", scope |-> sc])
  IN  IF c.how \in {"normal", "continue"}
      THEN IF n.type = "do" /\ Holds(c.trace) THEN Loop(n, t, sc)
           ELSE Completion(IF n.type = "do" THEN t ELSE c.trace, "normal", "")
      ELSE IF c.how = "break" /\ c.what = "" THEN Completion(c.trace, "normal", "")
      ELSE c

Meaning(n, tr, sc) ==
  CASE n.type = "call" ->
         LET t == Append(tr, [what |-> n.name, scope |-> sc])
         IN  IF Throws(n.name) THEN Completion(t, "throw", "thrown") ELSE Completion(t, "normal", "")
    [] n.type \in {"throw", "return"} -> Completion(tr, n.type, n.name)
    [] n.type = "break"    -> Completion(tr, "break", n.label)
    [] n.type = "continue" -> Completion(tr, "continue", "")
    [] n.type = "block"    -> MeaningOfList(n.list, tr, sc)
    [] n.type = "label"    ->
         LET c == Meaning(n.body, tr, sc)
         IN  IF c.how = "break" /\ c.what = n.label THEN Completion(c.trace, "normal", "") ELSE c
    [] n.type \in {"do", "forin"} -> Loop(n, tr, sc)
    [] n.type = "with"     -> Meaning(n.body, tr, Append(sc, "with"))
    [] n.type = "try"      ->
         LET b == Meaning(n.body, tr, sc)
             c == IF b.how = "throw" THEN MeaningOfCatches(n.catches, b, b.trace, sc) ELSE b
             f == IF n.fin = << >> THEN Completion(c.trace, "normal", "")
                  ELSE Meaning(n.fin[1], c.trace, sc)
         IN  IF f.how = "normal" THEN [c EXCEPT !.trace = f.trace] ELSE f

-----------------------------------------------------------------------------
(* Properties.                                                             *)

TypeOK ==
  /\ pc \in DOMAIN code
  /\ stack \in Seq(Slot)
  /\ \A i \in DOMAIN scope : scope[i].depth \in Nat
  /\ throwing \in BOOLEAN
  /\ outcome \in {"running", "normal", "return", "throw"}

\* The function evaluates what the program says it should, in that order and
\* each in the scope it is written in, and ends as it should: with what it throws
\* pending, and with nothing pending if it does not throw.
RunsAsWritten ==
  outcome # "running" =>
    LET m == Meaning(program, << >>, << >>) IN
    /\ trace = m.trace
    /\ outcome = m.how
    /\ outcome = "return" => rval = m.what
    /\ outcome = "throw" => exception = m.what
    /\ throwing = (outcome = "throw")

\* Wherever control goes, the objects on the scope chain are those on the stack,
\* in the same order.
ScopeIsOnStack ==
  outcome = "running" =>
    [i \in DOMAIN scope |-> scope[i].depth + 1]
      = SelectSeq([i \in DOMAIN stack |-> i], LAMBDA i : stack[i].is = "with")

\* The operand stack and the scope chain go together.
StackSound == TypeOK /\ ScopeIsOnStack

\* Every program comes to its end: no way back leads into the same subroutine.
Ends == <>(outcome # "running")
=============================================================================
