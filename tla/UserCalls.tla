------------------------------ MODULE UserCalls ------------------------------
(***************************************************************************)
(* How a program's calls come to the kernel: the stubs of libsyscall, the  *)
(* way a thread is made and the way a program ends, up to the handler that *)
(* reads the arguments.  A processor c is its registers, its stack (a      *)
(* function of word addresses) and the traps it has taken.                 *)
(***************************************************************************)
EXTENDS Boot

Push(c, w) == [c EXCEPT !.esp = @ - 1, !.mem[c.esp - 1] = w]

Pop(c, r) == [c EXCEPT ![r] = c.mem[c.esp], !.esp = @ + 1]

PushAll(c, rs) == FoldLeft(LAMBDA s, r : Push(s, c[r]), c, rs)

PopAll(c, rs) == FoldLeft(Pop, c, rs)

\* What the kernel answers a call with.
Answer(int) == [answer |-> int]

\* int: the kernel gives everything back but eax (FramesKept).
TrapInt(c, int) ==
  [c EXCEPT !.eax = Answer(int), !.traps = Append(@, [int |-> int, esi |-> c.esi, mem |-> c.mem])]

\* _trap_instruction
TrapInstruction(c, int) ==
  PopAll(TrapInt(PushAll(c, <<"ebx", "ecx", "edx", "ebp", "esi", "edi">>), int),
         <<"edi", "esi", "ebp", "edx", "ecx", "ebx">>)

\* Mutant: the parameters are copied in the order of their addresses.
CpParamsUp(c, nr) ==
  FoldLeft(LAMBDA s, k : [Push(s, s.mem[s.ebp + 1 + k]) EXCEPT !.ecx = @ - 1],
           [c EXCEPT !.ecx = nr, !.edx = nr], [k \in 1..nr |-> k])

\* _trap_str_0 and _trap_str_1: the loop from the last parameter down.
CpParams(c, nr) ==
  FoldLeft(LAMBDA s, k : [Push(s, s.mem[s.ebp + 1 + s.ecx]) EXCEPT !.eax = s.mem[s.ebp + 1 + s.ecx], !.ecx = @ - 1],
           [c EXCEPT !.ecx = nr, !.edx = nr], [k \in 1..nr |-> k])

\* trap_str
TrapStr(c, int, nr) ==
  IF nr = 0 THEN TrapInstruction(c, int)
  ELSE IF nr = 1 THEN TrapInstruction([c EXCEPT !.esi = c.mem[c.ebp + 2]], int)
  ELSE LET s == CpParams(c, nr)
           t == TrapInstruction([s EXCEPT !.esi = s.esp], int)
       IN  [t EXCEPT !.esp = @ + t.edx]

----------------------------------------------------------------------------
(* The frame of a function: the caller pushes the arguments, last one      *)
(* first, and takes them off again; the function saves what it must keep.  *)

Kept == <<"ebp", "ebx", "esi", "edi">>

PushArgs(c, args) == FoldLeft(Push, c, Reverse(args) \o <<"return">>)

Enter(c) == LET s == Push(c, c.ebp) IN PushAll([s EXCEPT !.ebp = s.esp], <<"esi", "eax">>)

Leave(c) ==
  LET s == [c EXCEPT !.esi = c.mem[c.ebp - 1], !.esp = c.ebp]
  IN  [Pop(s, "ebp") EXCEPT !.esp = @ + 1]

Called(c, f(_), args) ==
  LET s == Leave(f(Enter(PushArgs(c, args)))) IN [s EXCEPT !.esp = @ + Len(args)]

fork(c)           == TrapStr(c, \h41, 0)
exec(c)           == TrapStr(c, \h42, 2)
wait(c)           == TrapStr(c, \h44, 1)
yield(c)          == TrapStr(c, \h45, 1)
gettid(c)         == TrapStr(c, \h48, 0)
new_pages(c)      == TrapStr(c, \h49, 2)
remove_pages(c)   == TrapStr(c, \h4A, 1)
sleep(c)          == TrapStr(c, \h4B, 1)
getchar(c)        == [TrapStr(c, \h4C, 0) EXCEPT !.eax = [char |-> @]]
readline(c)       == TrapStr(c, \h4D, 2)
print(c)          == TrapStr(c, \h4E, 2)
set_term_color(c) == TrapStr(c, \h4F, 1)
set_cursor_pos(c) == TrapStr(c, \h50, 2)
get_cursor_pos(c) == TrapStr(c, \h51, 2)
get_ticks(c)      == TrapStr(c, \h53, 0)
misbehave(c)      == TrapStr(c, \h54, 1)
halt(c)           == TrapStr(c, \h55, 0)
ls(c)             == TrapStr(c, \h56, 2)
task_vanish(c)    == TrapStr(c, \h57, 1)
set_status(c)     == TrapStr(c, \h59, 1)
vanish(c)         == TrapStr(c, \h60, 0)
cas2i_runflag(c)  == TrapStr(c, \h61, 6)

\* What the handlers of the table take out of the parameter packet: esi itself
\* (-1), or this many words from where it points.  Those of task_vanish and
\* misbehave take nothing.
ParamsRead(fn) ==
  CASE fn \in {"wait", "yield", "removepages", "sleep", "settermcolor", "set_status"} -> -1
    [] fn \in {"exec", "newpages", "readline", "print", "setcursorpos", "getcursorpos", "ls"} -> 2
    [] fn = "cas2irunflag" -> 6
    [] OTHER -> 0

\* GET_NTH_PARAM_FROM_PACKET
NthParam(user_param_packet, n) == user_param_packet + n

Params(trap, fn) ==
  IF ParamsRead(fn) = -1 THEN <<trap.esi>>
  ELSE [n \in 1..ParamsRead(fn) |-> trap.mem[NthParam(trap.esi, n - 1)]]

----------------------------------------------------------------------------

\* __thr_create up to its trap; its compiler knows nothing of the registers.
ThrForks(c) ==
  LET s == PushAll(c, <<"ebx", "edx", "ecx">>)
  IN  [s EXCEPT !.ebx = s.mem[s.ebp + 2], !.ecx = s.mem[s.ebp + 3], !.edx = s.mem[s.ebp + 4]]

ThrParent(c, tid) == PopAll([c EXCEPT !.eax = tid], <<"ecx", "edx", "ebx">>)

\* child: the call of func, and what thr_exit finds when it has returned.
ThrChild(c) == [Push(Push([c EXCEPT !.esp = c.edx], c.ecx), "return") EXCEPT !.ebp = 0, !.calls = c.ebx]

ThrReturned(c, value) == [Push(Push([c EXCEPT !.eax = value, !.esp = @ + 1], value), "return") EXCEPT !.calls = "thr_exit"]

\* exit; nothing comes after vanish.
Exit(c, status) == Called(Called(c, set_status, <<status>>), vanish, <<>>)

\* _main, entered with argc and argv on the stack.
Main(c) ==
  LET s == Enter(c)
  IN  Exit(s, [main |-> <<s.mem[s.ebp + 2], s.mem[s.ebp + 3]>>])

----------------------------------------------------------------------------

Anew == [mem |-> [a \in 1..40 |-> [old |-> a]], esp |-> 30, traps |-> <<>>, calls |-> "none"]
         @@ [r \in {"eax", "ebx", "ecx", "edx", "esi", "edi", "ebp"} |-> [reg |-> r]]

\* c is as before for the caller: its registers and its part of the stack.
Undisturbed(c, before) ==
  /\ c.esp = before.esp
  /\ \A r \in ToSet(Kept) : c[r] = before[r]
  /\ \A a \in before.esp..40 : c.mem[a] = before.mem[a]

Args(n) == [k \in 1..n |-> [arg |-> k]]

\* The handler behind an entry of the machine m's table.
HandlerOf(m, int) == SyscallEnter(Calls(m, Gate(m.idt[int])).idx).fn

\* The processor c is back from a call with n arguments whose only trap has
\* brought it to the handler fn, with all of them in their order if it looks.
IsBack(c, trap, n, fn) ==
  /\ Params(trap, fn) = IF ParamsRead(fn) = 0 THEN <<>> ELSE Args(n)
  /\ n # 0 => ParamsRead(fn) # 0 \/ fn \in {"unimpl", "taskvanish"}
  /\ c.eax = IF fn = "getchar" THEN [char |-> Answer(trap.int)] ELSE Answer(trap.int)
  /\ Undisturbed(c, Anew)

\* A call of f with n arguments comes to the handler fn, and its answer comes
\* back.
ComesTo(m, f(_), n, fn) ==
  \A c \in {Called(Anew, f, Args(n))} :
    Len(c.traps) = 1 /\ HandlerOf(m, c.traps[1].int) = fn /\ IsBack(c, c.traps[1], n, fn)

\* Every stub of libsyscall reaches its handler with its arguments.
StubsArrive ==
  \A m \in {KernelMain({})} :
    /\ ComesTo(m, fork, 0, "fork")                  /\ ComesTo(m, exec, 2, "exec")
    /\ ComesTo(m, wait, 1, "wait")                  /\ ComesTo(m, yield, 1, "yield")
    /\ ComesTo(m, gettid, 0, "gettid")              /\ ComesTo(m, new_pages, 2, "newpages")
    /\ ComesTo(m, remove_pages, 1, "removepages")   /\ ComesTo(m, sleep, 1, "sleep")
    /\ ComesTo(m, getchar, 0, "getchar")            /\ ComesTo(m, readline, 2, "readline")
    /\ ComesTo(m, print, 2, "print")                /\ ComesTo(m, set_term_color, 1, "settermcolor")
    /\ ComesTo(m, set_cursor_pos, 2, "setcursorpos") /\ ComesTo(m, get_cursor_pos, 2, "getcursorpos")
    /\ ComesTo(m, get_ticks, 0, "getticks")         /\ ComesTo(m, misbehave, 1, "unimpl")
    /\ ComesTo(m, halt, 0, "halt")                  /\ ComesTo(m, ls, 2, "ls")
    /\ ComesTo(m, task_vanish, 1, "taskvanish")     /\ ComesTo(m, set_status, 1, "set_status")
    /\ ComesTo(m, vanish, 0, "vanish")              /\ ComesTo(m, cas2i_runflag, 6, "cas2irunflag")

\* A new thread calls its function with its argument and thr_exit with the
\* value it returns, on its own stack and not a word above; its creator gets
\* the child's number and finds everything as it was (thread_lib.c:141).
ThreadsBegin ==
  LET top == 12
      c == PushArgs(Anew, <<"func", "args", top>>)
  IN \A made \in {ThrForks(Enter(c))} : \A parent \in {Leave(ThrParent(made, "tid"))},
        child \in {ThrChild([made EXCEPT !.eax = 0])} : \A done \in {ThrReturned(child, "value")} :
      /\ child.calls = "func" /\ child.mem[child.esp + 1] = "args"
      /\ done.calls = "thr_exit" /\ done.mem[done.esp + 1] = "value"
      /\ \A a \in top..40 : done.mem[a] = made.mem[a]
      /\ parent.eax = "tid" /\ Undisturbed([parent EXCEPT !.esp = @ + 3], Anew)
      /\ parent.ecx = Anew.ecx /\ parent.edx = Anew.edx

\* A program's status is what main returns, and then it goes (crt0.c:14).
ProgramsEnd ==
  \A c \in {Main(PushArgs(Anew, <<"argc", "argv">>))} :
      /\ Len(c.traps) = 2
      /\ c.traps[1].int = \h59 /\ c.traps[1].esi = [main |-> <<"argc", "argv">>]
      /\ c.traps[2].int = \h60

CallsArrive == StubsArrive /\ ThreadsBegin /\ ProgramsEnd
=============================================================================
