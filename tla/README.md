# MakeKit in TLA+

MakeKit is a build system made of two halves. `mkdash/` is a shell, derived from
dash, with a few builtins added; it runs every script and every command that
make executes. `mk/` is the build system proper, shell scripts that read the
`MakeKitBuild` files of a project, check the machine and write a Makefile.

This directory models both: what the shell promises its scripts (how a text is
read and expanded, which command runs with which descriptors and parameters,
children, signals, traps, local variables), and what `configure` promises a
project (modules in order, variables per directory, files that match). TLC checks the
models on small instances, TLAPS proves the central facts for all.

## The system

### The shell, `mkdash/`

| part | state it keeps | operations | what is hard | what makes it correct |
|---|---|---|---|---|
| jobs (`jobs.c`) | table of jobs, list from `curjob`, `jobless`, `gotsigchld` | fork, dowait, waitproc, wait, jobs, fg, bg, set -m | children end and stop at any time; pids come back | no status lost or credited to another job; wait never sleeps through a wakeup; the list matches the table |
| traps, signals, errors (`trap.c`, `error.c`, `main.c`) | `trap`, `sigmode`, `gotsig`, `pendingsigs`, `suppressint`, `intpending`, `evalskip` | trap, handlers, dotrap, INTOFF/INTON, exceptions, exitshell | signals between any two steps, nested traps, subshells | SIGINT acted upon, `$?` kept, dispositions match traps, EXIT trap once and in its own process |
| evaluator (`eval.c`) | `exitstatus`, `evalskip`, `funcline` | lists, pipes, functions, commands, return, break | recursion with longjmp out of it | return and break end what they should |
| variables (`var.c`) | hash table, `localvar_stack` | assignment, export, unset, local | ownership of texts across calls | values of callers restored, texts freed once |
| builtins for MakeKit (`mkbltin.c`) | none | `_mk_push_vars`, quoting, parameters | must do what the shell functions do | same results as `mk.sh` |
| redirections (`redir.c`) | stack of saved descriptors | redirect, push, pop, unwind | exec, errors in the middle | a command sees what was redirected for it, its caller what it saw before |
| command lookup (`exec.c`) | hash table of commands, reference counts of functions | find_command, hash, PATH, cd, defun, unset -f | stale entries; functions that go while they run | what runs is what a fresh search finds; a function lives as long as it runs |
| parser (`parser.c`), input and aliases (`input.c`, `alias.c`) | pushed-back token, `checkkwd`, here document list, stack of inputs | parse, here documents, alias, unalias | one token ahead; aliases that end anywhere; errors that leave an input | a command is taken as written; what is read next is the rest of the innermost text |
| expansion (`expand.c`) | the text under construction, regions of it to be split, substitutions to come | tilde, parameters, trims, arithmetic, splitting, files, `case` | quotes are characters of the text, written by one pass and removed by another | the fields of POSIX; quoted text is neither split nor a pattern |
| arithmetic (`arith_yacc.c`) | the token ahead, `noeval` | binary operators, assignment, `&&`, `?:` | evaluates while it parses | the value and the assignments of C |
| positional parameters (`options.c`) | `shellparam`, `optind`, `optoff` | set, shift, getopts, functions | errors unwind several owners | each list freed once; options read once, in order |
| options, cd, output, memory | option list; `curdir`; buffers; stack blocks | set, cd, stalloc | moves of the stack block | |
| others (`test.c`, `printf.c`, `histedit.c`, ...) and generators (`mkinit.c`, ...) | none that outlives a command | | | |

### The build system, `mk/`

| part | state it keeps | operations | what is hard | what makes it correct |
|---|---|---|---|---|
| runtime (`mk.sh`) | shadow variables, `_MK_VAR_SP` | mk_push_vars, quoting, paths, mk_parse_params | three implementations of one interface | same values in every shell |
| configure (`command/configure.sh`) | `MK_MODULE_LIST`, inherited variables by depth, exports, hooks, `SUBDIRS` | order modules, walk directories, configure and make functions | global variables in a recursion | order, restored variables, complete output |
| core module (`module/core.sh`) | target lists, stamps, cache | mk_declare, mk_target, mk_multi_target, regeneration | make -j, crashes, stale files | files and rules match what was configured |
| build script (`build.sh`) | the context of a directory | _mk_restore_context | | actions see what make() saw |
| platform, compiler, chains, fetch, packages, checks | variables per system | format rules for make | stale caches, partial builds | |
| scripts (`script/*.sh`) | dependency files, .la groups | compile, link, group, clean, install | a stop between two files written | the headers make knows are those compiled |

The halves meet in three places: `mk.sh` runs in mkdash and uses its builtins
when they are there; configure writes `.MakeKitBuild` and the exports, which
mkdash reads as make's shell; and `wait`, traps and functions of scripts are
those of mkdash. Inside mkdash a line goes from the parser to the evaluator,
which expands each word, sets up assignments and redirections, looks the command
up and undoes all of it, on the normal way or in the handlers of errors, which
longjmp across any number of open commands. The parts share global variables: the handler
`onsig` of `trap.c` sets `gotsigchld` for `jobs.c` and `pendingsigs` for the
evaluator, which calls `dotrap`; `evalfun` and `evalcommand` push and pop lists
of local variables in `var.c`. Inside `mk/`, modules hang hooks into configure.

`PROJECT.json` lists every part with its status, and the hazards with the line
where each bites and the property that would notice.

## The modules

| module | models | its counterpart of the code |
|---|---|---|
| `Processes` | the kernel as jobs.c sees it: children that run, stop, end; SIGCHLD and trapped signals, blocked or not; wait3 | `onsig`; the rest is external |
| `Jobs` | `jobs.c` | `jobtab`, `njobs`, `curjob` (a sequence), `jobless`, `jobctl`. `pc`, `cmd` and `ret` hold where the shell is and the locals of the builtin it runs. waitproc is five steps (`Wait3Reaps`/`Wait3Empty`, `MaskSignals`, `Suspend`, `Wake`, `UnmaskSignals`), with the kernel between any two |
| `MCJobs` | instances of Jobs | |
| `Lists` | a list without some of its elements | the unlinking of `set_curjob`, `freejob`; `mk_skip_subdir` |
| `JobsProofs`, `JobTableProofs` | proofs about Jobs: waitproc; the table, the list and the children | |
| `ListsProofs` | lemmas about sequences that have no element twice | |
| `Trap` | `trap.c`, `error.c`, and evalstring, evalfun, evalsubshell, the forks of evalcommand and cmdloop | variables have the names of the code. `stack` is the C stack: a list being run (top level, function, subshell, action of a trap or EXIT trap) or a scan of dotrap. One process is followed; a fork goes on as the parent or as the child |
| `TrapProofs` | proofs about Trap | |
| `Commands` | `evalcommand`, `evalfun`, `evalbltin`, `evalloop`, groups, `evalskip`, `dotcmd`, `evalstring`, set, shift, `main`'s handler | `stack` holds the commands that run, each with what it has to undo (`stop`, `lstop`, saved parameters, `input`); an operator for each way out: `Ends`, `Skip`, `raise` |
| `Redir` | `redir.c`, as operators on [open, list] | `redirlist` with EMPTY, CLOSED and REALLY_CLOSED marks |
| `Lookup` | `exec.c`, and local PATH of `var.c`, as operators | `cmdtable` with index and rehash, `builtinloc`, function reference counts |
| `Getopts` | `getopts` of `options.c` | `optind`, `optoff` |
| `CommandsLemmas`, `CommandsProofs` | lemmas on Redir, Lookup and the stack of Commands; proofs about Commands | |
| `MCCommands` | worlds: which commands a script is made of, and what redirections, PATHs, parameters and files they meet | |
| `Arith` | `arith_yacc.c`: primary, do_binop, binop2, binop, and_, or_, cond, assignment | tokens; `noeval` is a parameter as in the code |
| `Words` | `readtoken1`, parsesub, the syntax tables of `mksyntax.c` | a word as the characters and control characters the parser stores |
| `Expand` | `expand.c`: argstr, exptilde, evalvar, subevalvar, varvalue, expari, expbackq, the regions, ifsbreakup, expandmeta, casematch | `x` holds expdest, ifsfirst's list, argbackq and the variables |
| `Patterns` | rmescapes, preglob, pmatch, ccmatch, scanleft, scanright | sequences of characters |
| `Grammar` | `parser.c` from list to simplecmd, readtoken, parseheredoc; pushstring and popstring with aliases | `c` holds lasttoken, tokpushback, checkkwd, heredoclist and the stack of strings |
| `ArithMeaning`, `WordMeaning`, `GrammarMeaning` | reference definitions, not the code: trees, how a tree is written, what it means by C or POSIX | |
| `MCTexts` | generates trees step by step, writes each, and compares what the code makes of the text with the tree | |
| `Scope` | abstract: what mk_push_vars and mk_pop_vars promise | values and, per open call, those of its caller |
| `ShadowVars` | mk_push_vars and mk_pop_vars of `mk.sh` for any POSIX shell | the shadow variables, as operators on a record |
| `LocalVars` | `var.c`'s table and `localvar_stack`, `_mk_push_vars`, and the calls in evalcommand and evalfun | operators on a record; texts have addresses, to see who owns them |
| `Scoping`, `MCScoping` | one script in both shells, in lockstep; `ShadowIsScope` and `LocalIsScope` map each to `Scope` | calls, assignments, unset, export, `n=v command` |
| `Modules` | `_mk_module_list`, `_mk_modules_rec` | a frame per open call, `MK_MODULE_LIST` |
| `ModulesProofs` | proofs about Modules | |
| `Configure`, `MCConfigure` | a run of configure, with Modules as its first part: `_mk_process_build` and below, `_mk_push_inherited`, `mk_declare`, `.MakeKitExports`, and the hooks of core.sh that write `.MakeKitTargets` and the rule of a directory | `calls` is the recursion, with the variables it pushed; `sh` the shell's variables, `shadow` the inherited ones by depth |
| `ConfigureProofs` | proofs about Configure | |

The shell is followed from three sides, which share no variables: `MCTexts` asks
what a text is taken for and has no time in it, `Commands` what commands do to
the state that outlives them and has no texts, `Jobs` and `Trap` what happens
when children and signals come in between. The seams are: a command of
`Commands` is what `Grammar` returns; its words are what `Expand` makes of
`Words`; `Trap` and `Jobs` have an evaluator that is only as deep as their
questions need.

### Conventions

Definitions have the names of the functions they translate. A comment `Mutant of
X` marks a definition that no specification uses: X with a plausible mistake,
which a property must notice. History variables (`owner`, `truth` in Jobs,
`setter`, `cut` in Trap, `made` and the field `before` in Configure, `goal`, the
fields `sees` and `read` in Commands) are read by properties only. Two guards look
at history to bound a model: `caught` in Commands (one error is caught by
`command`), and `read` (getopts is not called again after it has said that there
are no more options).

`TypeOK` of Trap and Configure states the types of their variables for a reader and
for the proofs, which show it always holds; it is not among the properties of the
runs.

### What is abstracted

* Jobs: the text and the times of jobs, messages, the terminal. `$?` is what the
  command stores (`result`). A freed slot goes back to the state of a fresh one;
  the code leaves old contents there and does not read them. Operands of getjob
  are numbers. System calls are not interrupted except sigsuspend.
* Trap: a script is chosen freely command by command, within bounds; a program is
  a status. SIGCHLD and monitor mode are left to Jobs. One `trap` changes one
  signal.
* Commands: a script is chosen freely, command by command, from those its world
  allows. A redirection opens a file, fails, copies or closes; what is written is
  not modelled. Names are looked up in directories whose files do not change; a
  directory of PATH is its name. Conditions of loops are not told from bodies.
  Failures of dup2 and fcntl do not occur (see "Smaller things met").
* Texts: a command substitution is one character with a known output. Bad
  substitutions and syntax errors end a command. In Grammar a word is one token
  and a here document's text is one, behind its newline. Characters are a few of
  each kind that the syntax tables tell apart; integers have `Width` bits.
* LocalVars: readonly variables, `local -` and the functions called when PATH and
  others are set. The interrupt locks of these functions are in Trap.
* Configure: a variable's value is the name of the directory or module that set
  it. A MakeKitBuild does one thing to one variable in configure() and may set it
  in make(), which stages one file. Failure ends the program, so it has no action.
  A directory is named in the SUBDIRS of one other at most, and "." at most once
  (`IsTree`): configure runs a directory named twice as often, and its second make()
  writes the files of the first anew.

## The runs

| run | bounds | shows |
|---|---|---|
| `jobs_control` | 3 children, 2 jobs, pipelines of 2, set -m | `JobTableConsistent`, `JoblessExact`, `WaitAllWaits` under stops, fg, bg, here documents |
| `jobs_reuse` | 2 pids, reused at once; set -m and set +m | `NoStatusLost`, `StatusIsLastProcess`, `UnaskedKept` |
| `jobs_live` | 2 children, a trapped signal, failing fork and pipe | `NoLostWakeup`; under fairness `CommandEnds` |
| `jobs_stopped` | 3 children | violated: `stoppedjobs` misses a stopped job |
| `trap_signals` | SIGINT and SIGTERM, lists of 2, stack 2, one subshell | `InterruptsBalanced`, `DispositionsMatch`, `ExecRunsNoTrap`, `ExitTrapOwn`, `IgnoredForGood`, `NoTrapLost` |
| `trap_nesting` | the same signals, stack 4, functions and return | `IntNotForgotten`, `TrapsKeepStatus`; under fairness `SignalsServed` |
| `scoping` | 2 names, 1 value, 2 open calls | `ShadowIsScope`, `LocalIsScope`, `TextsOwned`, `NothingLeft` |
| `scoping_twice` | 1 name, given twice | violated: the caller's value is lost |
| `configure` | all acyclic graphs of 3 modules; 3 trees of 5 directories, one skipped or not; 1 variable | `ModulesInOrder`, `ModulesComplete`, `InheritedRestored`, `BuildContextAgrees`, `MadeInOrder`, `TargetsFiled` |
| `configure_inherit` | the same | violated: a child's inherited variable changes its parent's |
| `texts` | `Width` 4; expressions of 2 operators, words of 2 parts, patterns of 3 elements, commands of 2 constructions on each other, each written in 4 styles | `ArithRight`, `FieldsRight`, `CaseRight`, `ReadBack` |
| `commands` | 4 commands open at a time (2 where lookups or getopts are asked about), 2 functions, 2 parameter lists on the heap, one caught error | `DescriptorsRight`, `NoCopyLeft`, `LookupRight`, `FunctionsOwned`, `ParamsOwned`, `OptionsRight`, `SkipsRight`, `InputsRight` |

### Why the bounds are enough to be interesting

* Two children are the fewest with which a pipeline can end in the wrong order,
  and a pid can be reused while its job has another process; three give two jobs
  of which one is a pipeline, and a here document besides. `GrowBy` is 1 instead
  of 4, so that the table both grows and is reused with 2 slots. Fork is not
  offered when the table would outgrow `MaxJobs`: the program would grow it.
* A stack of 4 holds a function called in the action of a trap taken in a list.
  Two signals are the fewest for one trap to interrupt another, or to be left
  behind in the scan; SIGINT is special to the code, SIGTERM to interactive
  shells.
* A variable made local twice, by two calls, with an assignment before a command
  in between, needs depth 2 and texts enough (10 are never used up).
* Depth 3 of directories makes shadows of one depth be reused by a cousin; the
  trees have "." first, in the middle and not at all.

* `commands` has one world for each thing that commands share, since their product
  is out of reach and each hazard needs two or three of them at a time: `WithExec`
  (exec, errors and redirections that fail after one that did not), `WithClosing`
  (descriptors closed and opened below each other), `Skips` (break, continue and
  return through loops, functions, eval and dot scripts, with errors), `Arguments`
  (set in functions that errors unwind), `WithOptions` (getopts in functions that
  call each other; clusters, arguments, `--`), and `Lookups`: PATHs of which one
  is a prefix of another, with empty entries and `%builtin`, files that can or
  cannot be executed, a builtin of that name or not. Depth 4 has a function in
  eval in a function with a group around; descriptors 10 to 17 are never used up;
  `local PATH` is taken at most twice in a function.
* `texts` grows each text from the kinds of parts that the code tells apart; its
  properties are action properties, of the step that makes the text. Two
  parts next to each other, one of which may be nested in `${...}` or quotes, are
  what splitting, escapes and the order of substitutions need; three elements put
  a bracket between two other patterns; an operator below an operator on either
  side is enough for precedence, associativity and `noeval`. With 4 bits sums,
  products and shifts overflow. The values have separators at an end, next to each other
  and within, and characters that match files. Each command is written with and
  without aliases (one that ends in a blank, a keyword, two that name each other),
  with newlines or `;`, and with here documents inside of it.

### Liveness and fairness

`CommandEnds` assumes that the shell takes its steps (`WF_vars(Shell)`: a process
that can run is scheduled) and that each child ends some day. Without the second
`wait` rightly waits for ever. Stopped children may stay stopped; a stopped child
can end because SIGKILL ends one.
`SignalsServed` assumes weak fairness of the shell's steps only; signals may come
for ever. It is checked for shells that are not interactive: at a prompt, SIGINTs
can come faster than the shell reads its next command, and put off other traps
for ever.

`trap_*` runs do not check deadlock: a shell ends. The other passing runs do;
`Configure` loops when it has ended.

### Findings

Each violated run states what the repository says of the code, and shows a
behaviour in which it is not so.

* `StoppedJobsTold`: a finished job that was not shown yet can be ahead of a
  stopped one; the shell then exits without its warning.
* `CallerRestored`: mk_chain_autotools pushes NAME twice; in a shell without
  `local` and without the builtin, NAME of the caller is lost.
* `InheritedStaysBelow`: `mk_declare -i V` in a subdirectory makes the parent's V
  empty, or gives it what another directory left in the shadow.

Two more were found by the models of Jobs and Trap and have no run of their own:

* `wait pid` returns while the process runs. The comment at `jobs.c:636` says
  "loop until process terminated or stopped"; without job control a child that
  stops sends SIGCHLD, there is nothing to reap, and waitcmd takes the wakeup for
  a trapped signal and returns 128 (`jobs.c:649`).
* A `return` is forgotten. The comment at `eval.c:1004` says that commands are
  skipped once it has run; a trap taken just then, whose action calls a function,
  ends with the flag cleared (`eval.c:958`), and the function goes on.

### Smaller things met

Met while reading and modelling, tried with a build of mkdash where it can be,
and without a run. The models leave the case out where it says so.

* Reused pids: when a job was stopped, or sent to the background by bg, it goes
  ahead of newer jobs on the list. If one of its processes was reaped before and
  the kernel has given the pid to a newer job, dowait's search (`jobs.c:1020`)
  comes to the older job first: it is given the status, and the newer one stays
  running for ever. TLC shows it when jobs_reuse is run with stops.
* set +m: `fg` of a job that was started under set -m stores that it runs before
  taking the terminal fails (`jobs.c:388`): the job is listed as running while its
  processes are stopped.
* Jobs and variables: `getjob` cannot name the last slot and takes `%0` for the
  entry before the table. When fork fails inside a pipeline `jobless` goes below
  zero. `_mk_push_vars` outside of a function dereferences a null list. `unset`
  variables come back as empty from the portable mk_pop_vars. The guards against
  adding a hook twice (`mk_add_make_posthook`) compare with a quoted list and
  never match. `unset PATH` makes pathval() read a byte that was never
  written (`var.h:119`); PATH always has a value in Lookup.
* Traps: a scan of dotrap that an action leaves by `return` leaves later signals
  noted and pendingsigs 0, until another signal comes (`trap.c:333`; `NoTrapLost`
  excepts it). `trap - TERM` stores the action before the disposition changes
  (`trap.c:143`): a TERM caught in between is thrown away.
* configure: modules that DEPEND on each other in a cycle recurse until the shell
  fails (`configure.sh:178`); the graphs of Modules are acyclic.
* Errors caught by `command`: after `command eval 'x=2<newline>echo a'` with x
  readonly the text stays pushed, its rest is read later, and the shell exits at
  its end; `loopnest` stays up too, so that a later break outside of loops skips
  the rest of the script (`eval.c:850`). `SkipsRight` and `InputsRight` hold until
  an error is caught. `command eval 'local x=1'` is accepted outside of functions.
* Redirections: with 1 closed, `: 1>&- 1>file` leaves it open to the file:
  REALLY_CLOSED forgets that it was closed before (`redir.c:403`). An exec inside
  a command has the same effect, `exec 3>&-; { exec 3>file; } 3>&-`. And `n>&n`
  leaves no mark, as there is nothing to do: `{ exec >file; } 1>&1` leaves 1 open
  to the file. These came up as steps that could not be proved; TLC shows
  each in a world made for it, and mkdash does it. `Lasting` in Commands leaves
  them out, and the worlds of MCCommands have none of them. With no descriptor left savefd closes the original and
  has no copy (`redir.c:399`). dupredirect tests `err < 0` where err is the error
  number (`redir.c:279`), so a dup2 that fails is not reported.
* getopts: `local OPTIND` in a function, or `OPTIND=1 command` between two calls,
  resets the place in the word when the old value is restored; the rest of the
  word is lost (`options.c:397`). In Commands OPTIND is assigned by itself.
* Lookup: `type` shows an old path after cd (`exec.c:769`).
* Aliases: a value whose second last character is a blank makes the next word an
  alias candidate, not only one that ends in a blank (`alias x='echo b'`). The
  aliases of MCTexts have no such value.
* Arithmetic: the smallest integer divided by -1 kills the shell (SIGFPE). The
  expressions of MCTexts do not reach it.
* Expansion: `${u#$(echo a)}$(echo b)` with u unset prints a: the trim is skipped,
  its substitution is not. A word in which `"$@"` comes first leaves what follows
  in quotes: `"$@"$x` does not split $x. A quoted newline after text is dropped
  before a substitution: in `"a<newline>$(true)b"`. With IFS=" :", `$a$b` for
  a="x " and b=":y" has an empty field in between. In patterns, `[a` matches the
  text `Xaa` in `case`, and not `[a`. The generated words have none of these.
* `[ ! "(" = ")" ]` and `[ ! -a x ]` are not what POSIX says for three and four
  arguments; `test.c` is not modelled.

## Proofs

TLAPS checks every theorem from its leaves; none relies on the bounds of a run.

**JobsProofs.** `WaitNeverLosesWakeup`: `Spec => []NoLostWakeup`, for any set of
pids, traps and commands (`ProcessesAssumption`, `JobsAssumption`). The property
alone is not inductive: that nothing can be reaped when the shell sleeps depends
on what happened since its last wait3. The invariant `WaitInv` adds: signals are
blocked exactly from sigprocmask to sigclearmask (`MaskInv`); a child that became
waitable since the poll has left a trace, the flag `gotsigchld` or a SIGCHLD
pending (`TraceInv`); and sigsuspend is entered only with the flag down and no
trap pending (`SuspendInv`). There is one lemma for the steps outside waitproc,
and a step for each action of waitproc and of the kernel. `ProcessesTypeCorrect`
comes with it.

**ListsProofs.** Lemmas about sequences as sets without repetition: what append,
head and tail, front, push and insert do to the elements and to their order, and
that `Without` keeps the order of what stays. `Without` takes the k-th place that
is kept by its rank, so its lemmas number a finite set of places first
(`Numbering`).

**JobTableProofs.** `JobsInvariant`: `Spec => []JobsInv`, for any number of pids and
slots, any length of pipelines, and any set of commands. From it follow all the
properties of jobs_control, jobs_reuse and jobs_live that are not about liveness.
The steps of Jobs are grouped by what they do to the table (`StepKinds`): most are
`Quiet`, the others make a job, fork into it, free jobs, record a status or resume
a job; for each group there is a lemma per part of the invariant. `TableInv` holds
without conditions: types, the list has each used slot once (`ListInv`), what a
used and a free slot look like (`SlotInv`), the job that is being forked or waited
for is in use (`ForkInv`, `BusyInv`). The other parts have conditions on the
constants, outside of which the code is wrong (see "Smaller things met") or the
history variable does not fit:

| theorem | part | holds if | since otherwise |
|---|---|---|---|
| `StatusNeverLost`, `WaitWaitsForAll` | `AwaitInv` | `Straight`: pids do not come back, or no stops and no bg | an older job that had the pid is found first |
| `TableStaysConsistent` | `StateInv` | `Steady`: fg does not meet set -m and set +m in one session | fg fails after the state was stored |
| `JoblessCounts` | `CountInv` | pids do not come back, fork and pipe do not fail | `jobless` does not count the children of a pipeline whose fork failed; with reuse, the end of a here document's writer can be taken for an older job's |
| `StatusIsTheLast` | `TruthInv` | `Tracked`: fork and pipe do not fail, and with reuse no stops, bg and here documents | the job of a broken pipeline has no last process |
| `TypeCorrect`, `UnaskedStay` | `TableInv` | always | |

The heart of `AwaitInv`: if a job awaits a pid that another job still has in its
array, it is ahead of that job on the list, and then dowait's search in the order
of the list finds the right one. makejob puts new jobs at the front, and without
stops and bg nothing else changes the order.

**TrapProofs.** `TrapInvariant`: `Spec => []TrapInv`, for any set of signals and any
bound. The invariants of trap_signals and trap_nesting and the action property
`IgnoredForGood` follow; only `SignalsServed` is left to TLC. `ControlInv` says
what the evaluator keeps: the C stack alternates as evalstring, dotrap and actions
do, with the status dotrap has saved equal to its caller's (`Shape`), interrupts
are off within INTOFF (`Locked`), and a signal that was caught is noted for the
dotrap to come or for one that has not passed it (`Noted`, which is `NoTrapLost`
for signals without a trap too: the trap may be set after the signal was caught).
`TableInv` says what the tables keep: what setsignal remembers in `sigmode` is what
the kernel does (`ModesAgree`) and `trapcnt` is at least the number of actions
(`TrapsCounted`), which `ExecRunsNoTrap` rests on. It is not equal: exitshell
drops the EXIT trap without counting it off.

**ModulesProofs.** `ModuleListInOrder` and `ModuleListComplete`: for every finite
set of modules and every acyclic graph (`ModulesAssumption`), the list has each
module once, after all it depends on, and is complete when the walk ends. That a
module's dependencies are listed when it is appended follows from `Waiting`: what
an open module asked for is listed, or still to do, or the call just above it.
That it is appended once needs that it cannot be open twice: `Falling` says that
ranks fall along the stack, and acyclicity gives the ranks. The lemmas
`RestFrames`, `HeadTailElements` and `AppendElements` say what the operators on
sequences do; the ranks are the only use made of the graph.

**ConfigureProofs.** `ConfigureInvariant`: `Spec => []ConfigureInv`, for every finite
set of directories, every tree of them (`IsTree`, in `ConfigureAssumption`), and
whatever modules and directories set, inherit, export and skip. All invariants of
the run `configure` follow, and the action property `InheritedRestored`.
`ModulesInv` comes from ModulesProofs. `WalkInv` is about the recursion: the open
calls are a path of the tree, so that no directory is open twice and no shadow
of a depth is written while it is in use (`Path`); each call is some way through
the SUBDIRS its configure() left (`Todo`), and what it has passed is made while
what lies ahead was not come to (`Walk`). `ContextInv` is about the variables: the
shadow of a depth holds what the call above it will give back (`ShadowsKept`),
SUBDIRS in the shell is that of the directory being worked on, also when a child
is back (`SubdirsAgree`), and between configure() and make() nothing that is both
exported and inherited changes (`ContextKept`).

**CommandsProofs.** `CommandsInvariant`: `Spec => []IInv`, for any sets of
descriptors, names, functions and options, scripts of any commands, and any depth.
From it come `FunctionsKept`, `ArgumentsOwned`, `InputsAreRead` and
`SkipsLeadRight`; two further invariants, inductive on top of it, give
`CommandsAreFound` and `DescriptorsRestored` with `CopiesClosed`. So each invariant
of the run `commands` but `OptionsRight` holds for all constants.

* `IInv` is `Base /\ Goes`. `Base`: what a command remembers to undo agrees with
  what there is. The stack is `Shaped`: each command has found as many tables of
  redirections, and lists of local variables, as those around it have left
  (`Depth`, `Locals`), and the innermost as many as there are now. A function's
  count is the number of its names and of its calls that run (`CountsRight`), and
  each argument list on the heap has one owner (`BlocksRight`); together
  `HeldRight`, of the state as it is, since an error unwinds many commands in one
  step, `Unwound`, and the lemmas follow it command by command. `Inputs`: the
  inputs pushed are those of the readers, in order. `Goes`: while commands are
  skipped, the command that break, continue or return lead to is still open, and
  the loops between here and there are as many as `skipcount` says (`FlowRight`);
  `loopnest` is the number of loops that are open.
* `TableRight`, for `LookupRight`: each entry of the table of commands is the one
  that a search of PATH would make. After cd an entry is marked `rehash`, and is
  right but for the current directory, where the search begins again; builtins
  are found by the place of %builtin; what a change of PATH leaves is before the
  first entry that changed, so that a search comes to it first (`EntryFits`).
* `Restored`, for `DescriptorsRight` and `NoCopyLeft`: there is a sequence of views,
  one per table, of what each command with redirections has made of the
  descriptors. `Saved` says what a mark means: a copy from 10 on, or CLOSED,
  is what the commands further out see; none, that the command sees the same as
  they do; REALLY_CLOSED, that both see it closed. No two marks are the same copy
  (`CopiesApart`), no copy is open without a mark (`NoneLeft`), and what is open is
  what the innermost view shows (`OpenRight`). exec changes a view further out:
  that of the command which redirected the descriptor last (`Owns`). With the
  copies of all open commands there is still one free (`Room`).

The assumptions on the constants: `WorldsAssumption` and `FilesAssumption` give types,
`dup` copies a descriptor that a script can name, PATH has an entry, and at least
one command can run. `BoundsAssumption`: functions are known by numbers.
`DescriptorsAssumption`: descriptors are numbers, copies are made from 10 on, apart
from those a script names (`redir.c:399` asks fcntl for 10), and open() finds
one that is free. `CopiesAssumption`: there are copies for all commands that may
be open. The code has a limit too, the kernel's, and what it does there
is not modelled. `DescriptorsRestored` and `CopiesClosed` suppose `Lasting` of each
world: no command closes a descriptor and opens it again, and where a script
execs, neither are descriptors that commands close opened, nor copied to
themselves. Without it the code is wrong (see "Smaller things met"). The
worlds of the run satisfy it (`LastingAssumption` in MCCommands), among them ones
with exec in groups and functions that fail, and ones that close.

**Model-checked only.** Liveness (`CommandEnds`, `SignalsServed`): fairness is
beyond the prover, as are the actions' being enabled. `OptionsRight` compares what
getopts has said with a walk over all words, `Said`: that they agree for words of
any length is an induction over data. The refinements of Scope use folds over argument lists, whose
meaning needs induction over data, which the installed provers cannot instantiate;
so do `TextsOwned` and `NothingLeft` of Scoping.
`Arith`, `Expand` and `Grammar` are recursive-descent functions, with RECURSIVE
operators, and `Arith` uses Bitwise: what they return for every text is out of the
prover's reach twice over, and the generated texts stand for it.

## Not modelled

Parts with status `not_modelled` in PROJECT.json: `test`, `printf` and other
builtins are sequential functions of their operands; line editing and debugging
output have no bearing on the rest; the generators run while mkdash is built (the
syntax tables that one writes are in Words). Modules that only format rules around
an external program (documentation, packages) keep no state.

Of the parts that are modelled, these details are not: the characters of a token
in arithmetic (yylex) and variables whose value is not a number there; the tilde
in assignments (EXP_VARTILDE) and `~user`; `/` in a pattern of files; `set -u`,
and `set -e` and `-x` outside of Trap; the contents of here documents; aliases
that change while they are read; prompts; `%func` entries of PATH and command
names with a slash; error messages; CDPATH and the text of PWD; the variants of
`expand.c` for HAVE_GLOB and HAVE_FNMATCH, which mkdash's MakeKitBuild does not
define.

## Plan

Done: 1 to 6. Then, in this order:

1. Jobs with Processes: children, the job table, wait.
2. Trap: signals, traps, interrupts, the end of a shell.
3. Scope, ShadowVars, LocalVars, Scoping.
4. Modules and Configure.
5. Commands with Redir, Lookup and Getopts: break, continue, return, errors,
   descriptors, PATH, parameters, the stack of inputs.
6. Arith, Words, Expand, Patterns and Grammar against their meanings.
7. Proofs. Done: Jobs, Trap, Modules, Configure and Commands, all their
   invariants but `OptionsRight`, and their action properties. Next: Scope, the
   step Close, for distinct names.
8. Make: what make does with what configure wrote. Targets, stamps and
   mk_multi_target (a rule run once for several outputs), the dependency files
   that compile writes (a stop between two of its steps leaves one that make never
   reads), clean and scrub; Regenerate: the rule that rebuilds the
   Makefile, with a crash between any two files written. Abstract specification:
   a build after any sequence of edits, crashes and builds equals a fresh one.
9. SystemVars and Cache: variables per system and isa (`platform.sh`), the check
   cache (`core.sh`).
10. The stack allocator (`memalloc.c`), readonly variables, CDPATH.
11. Pure functions of `mk.sh` against reference definitions: quoting and unquoting
    of lists, path normalisation, mk_parse_params in both implementations.
12. Scripts: compile and link groups, fetch, the chained builds.

Later components share runs with each other where they are small, so that each
run keeps one question.
