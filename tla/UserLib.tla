------------------------------ MODULE UserLib -------------------------------
(***************************************************************************)
(* User programs as data, and the functions of the user library            *)
(* (user/src/lib.rs, console.rs) that do more than one system call.        *)
(*                                                                         *)
(* A program is a sequence of statements, which a process executes from    *)
(* the front.  Only a system call is visible to the rest of the system,    *)
(* because the memory of a process is private: the statements between two  *)
(* calls are executed together by Run.  This notation is not a model of    *)
(* code; the library below and UserPrograms use it to say what the code    *)
(* under user/src does.                                                    *)
(***************************************************************************)
EXTENDS Integers, Sequences, SequencesExt

(* Expressions: a variable, a constant, or a named function applied to     *)
(* expressions.                                                            *)
V(x) == [var |-> x]
K(v) == [const |-> v]
Fn(f, args) == [fn |-> f, args |-> args]

Eq(a, b) == Fn("=", <<a, b>>)
Ne(a, b) == Fn("#", <<a, b>>)
Lt(a, b) == Fn("<", <<a, b>>)
Le(a, b) == Fn("<=", <<a, b>>)
And(a, b) == Fn("and", <<a, b>>)
Or(a, b) == Fn("or", <<a, b>>)
Not(a) == Fn("not", <<a>>)
Plus(a, b) == Fn("+", <<a, b>>)
Minus(a, b) == Fn("-", <<a, b>>)
Item(s, i) == Fn("item", <<s, i>>)      \* element i of s, from 0
Length(s) == Fn("len", <<s>>)
Push(s, x) == Fn("push", <<s, x>>)
Concat(s, t) == Fn("concat", <<s, t>>)
Slice(s, i, j) == Fn("slice", <<s, i, j>>) \* s[i..j]
Index(s, x) == Fn("index", <<s, x>>)       \* of the first x in s, or -1
Cut(s, i, j) == Fn("cut", <<s, i, j>>)     \* s without s[i..j]
Split(s, x) == Fn("split", <<s, x>>)       \* the parts of s between the x
Total(s) == Fn("total", <<s>>)

SumOf(s) == LET f[i \in 0 .. Len(s)] == IF i = 0 THEN 0 ELSE f[i - 1] + s[i] IN f[Len(s)]

(* The parts of s between the elements x. *)
SplitAt(s, x) ==
  FoldLeft(LAMBDA parts, e :
             IF e = x THEN Append(parts, << >>)
             ELSE [parts EXCEPT ![Len(parts)] = Append(@, e)],
           <<<< >>>>, s)

Apply(f, a) ==
  CASE f = "=" -> a[1] = a[2]
    [] f = "#" -> a[1] # a[2]
    [] f = "<" -> a[1] < a[2]
    [] f = "<=" -> a[1] <= a[2]
    [] f = "and" -> a[1] /\ a[2]
    [] f = "or" -> a[1] \/ a[2]
    [] f = "not" -> ~a[1]
    [] f = "+" -> a[1] + a[2]
    [] f = "-" -> a[1] - a[2]
    [] f = "*" -> a[1] * a[2]
    [] f = "mod" -> a[1] % a[2]
    [] f = "min" -> IF a[1] < a[2] THEN a[1] ELSE a[2]
    [] f = "max" -> IF a[1] < a[2] THEN a[2] ELSE a[1]
    [] f = "item" -> a[1][a[2] + 1]
    [] f = "first" -> IF a[1] = << >> THEN a[2] ELSE Head(a[1])
    [] f = "put" -> [a[1] EXCEPT ![a[2] + 1] = a[3]]
    [] f = "len" -> Len(a[1])
    [] f = "push" -> Append(a[1], a[2])
    [] f = "concat" -> a[1] \o a[2]
    [] f = "slice" -> SubSeq(a[1], a[2] + 1, a[3])
    [] f = "index" -> SelectInSeq(a[1], LAMBDA e : e = a[2]) - 1
    [] f = "cut" -> SubSeq(a[1], 1, a[2]) \o SubSeq(a[1], a[3] + 1, Len(a[1]))
    [] f = "split" -> SplitAt(a[1], a[2])
    [] f = "total" -> SumOf(a[1])

RECURSIVE Eval(_, _)
Eval(env, e) ==
  CASE "var" \in DOMAIN e -> env[e.var]
    [] "const" \in DOMAIN e -> e.const
    [] "fn" \in DOMAIN e -> Apply(e.fn, [i \in DOMAIN e.args |-> Eval(env, e.args[i])])

(* Statements.  A system call may have a result, put in a variable, and    *)
(* may write memory, another variable; "_" is ignored.                     *)
SysMem(name, args, result, mem) ==
  [is |-> "sys", name |-> name, args |-> args, result |-> result, mem |-> mem]
Sys(name, args, result) == SysMem(name, args, result, "_")
Set(x, e) == [is |-> "set", var |-> x, e |-> e]
If(c, then, else) == [is |-> "if", cond |-> c, then |-> then, else |-> else]
While(c, body) == [is |-> "while", cond |-> c, body |-> body]
Check(c) == [is |-> "check", cond |-> c]
Return(n) == Sys("exit", <<n>>, "_")
Loop(body) == While(K(TRUE), body)

(* for x in 0..n *)
For(x, n, body) ==
  While(Lt(V(x), n), body \o <<Set(x, Plus(V(x), K(1)))>>)
ForRange(x, n, body) == <<Set(x, K(0)), For(x, n, body)>>

(* x := v *)
Put(env, x, v) == IF x = "_" THEN env ELSE (x :> v) @@ env

(* Execute up to the next system call.  A failed assertion panics: the     *)
(* panic handler exits with -1.                                            *)
RECURSIVE Run(_)
Run(s) ==
  LET st == Head(s.code)
      rest == Tail(s.code)
      Then(code) == Run([s EXCEPT !.code = code]) IN
  CASE st.is = "sys" -> s
    [] st.is = "set" ->
         Run([s EXCEPT !.code = rest, !.env = Put(@, st.var, Eval(s.env, st.e))])
    [] st.is = "if" -> Then((IF Eval(s.env, st.cond) THEN st.then ELSE st.else) \o rest)
    [] st.is = "while" -> Then(IF Eval(s.env, st.cond) THEN st.body \o s.code ELSE rest)
    [] st.is = "check" ->
         IF Eval(s.env, st.cond) THEN Then(rest)
         ELSE [s EXCEPT !.code = <<Return(K(-1))>>, !.failed = TRUE]

(* A program started with arguments, and one whose call has returned. *)
Started(program, args) ==
  Run([code |-> program, env |-> [args |-> args], failed |-> FALSE])
ResumedWith(s, result, mem) ==
  LET st == Head(s.code) IN
  Run([s EXCEPT !.code = Tail(@),
                !.env = Put(Put(@, st.mem, mem), st.result, result)])
Resumed(s, result) ==
  Run([s EXCEPT !.code = Tail(@), !.env = Put(@, Head(s.code).result, result)])

Called(s) == Head(s.code).name
Arg(s, i) == Eval(s.env, Head(s.code).args[i])

-----------------------------------------------------------------------------
(* The library.  What it prints is left out: the console is written        *)
(* through a buffer that is flushed at the end of each line and before a   *)
(* process exits or closes its standard output.                            *)

CONSTANT Second  \* units of the clock in a second

STDIN == 0
STDOUT == 1

OpenFlags == [rdonly |-> {}, wronly |-> {"WRONLY"}, rdwr |-> {"RDWR"},
              create |-> {"CREATE", "WRONLY"}, trunc |-> {"TRUNC"}]

-----------------------------------------------------------------------------
open(path, flags, result) == Sys("open", <<path, K(flags)>>, result)
close(fd) == Sys("close", <<fd>>, "_")
read(fd, len, result, buf) == SysMem("read", <<fd, len>>, result, buf)
write(fd, buf, result) == Sys("write", <<fd, buf>>, result)
dup(fd, result) == Sys("dup", <<fd>>, result)
pipe(fds) == SysMem("pipe", << >>, "_", fds)
fork(result) == Sys("fork", << >>, result)
exec(path, args, result) == Sys("exec", <<path, args>>, result)
getpid(result) == Sys("getpid", << >>, result)
yield_ == Sys("yield", << >>, "_")
exit(n) == Sys("exit", <<n>>, "_")

(* Print a line, given as one item: the console buffer is written at its   *)
(* end.                                                                    *)
println(x) == write(K(STDOUT), Push(K(<< >>), x), "_")

(* waitpid yields and tries again while the child is running. *)
waitpid(pid, result, code) ==
  <<SysMem("waitpid", <<pid>>, result, code),
    While(Eq(V(result), K(-2)),
          <<yield_, SysMem("waitpid", <<pid>>, result, code)>>)>>

wait(result, code) == waitpid(K(-1), result, code)

(* One byte from standard input.  The result of read is ignored: without a *)
(* byte the buffer still holds its initial 0.                              *)
getchar(c) ==
  <<SysMem("read", <<K(STDIN), K(1)>>, "_", c), Set(c, Fn("first", <<V(c), K("NUL")>>))>>

(* The TimeVal that sys_get_time fills is a pair of seconds, of which the  *)
(* low 16 bits count, and a rest.                                          *)
get_time(result) ==
  <<SysMem("get_time", << >>, "_", "tv"),
    Set("sec", Fn("mod", <<Item(V("tv"), K(0)), K(2 ^ 16)>>)),
    Set(result, Plus(Fn("*", <<V("sec"), K(Second)>>), Item(V("tv"), K(1))))>>

(* sleep polls the clock, yielding in between. *)
sleep(period) ==
  get_time("start") \o get_time("time")
  \o <<While(Lt(V("time"), Plus(V("start"), period)), <<yield_>> \o get_time("time"))>>

(* waittid yields and tries again while the thread is running. *)
waittid(tid, result) ==
  <<Sys("waittid", <<tid>>, result),
    While(Eq(V(result), K(-2)), <<yield_, Sys("waittid", <<tid>>, result)>>)>>

=============================================================================
