# A verification of minishell

minishell (`src/`) is a small Unix shell in C: it reads a line, cuts it into
tokens, builds a list of commands, reads the here-documents the line asks for,
and executes the commands as a pipeline of forked children, or in the shell
itself when the line is one builtin.  This directory holds TLA+ models of its
parts, TLC runs that check them on small instances, and TLAPS proofs for every
instance.  Paths below are relative to `src/src/` unless they say otherwise.

## 1. The system: inventory

| Component | State it keeps | Operations | What makes it correct |
|---|---|---|---|
| **Read-eval loop** `main.c`, `main_helper.c`, `main_execution.c`, `main_utils.c`, `set_global_value.c`, `prompt.c` | the exit status register (`get_status`/`set_status`), the SIGINT handler, the list of descriptors of the process | read, tokenize, parse, read here-documents, execute, clean up | the prompt always comes back, on the terminal, with its handler and the status of the line |
| **Lexer** `lexer*.c`, `token.c`, `utils.c`, `Handle_token.c`, `suprimer.c` | `start`, `end`, the list of tokens with a join flag each | one pass over the characters, `join_nodes`, `suprimer_quote` | words are neither cut nor glued; what is quoted is text; the scan ends |
| **Expansion** `Handle_command.c`, `parse_cmd_utils.c`, `tools.c` | a block for the copy, its size as the code believes it, two indices | `$name`, `$?`, growing the block | what is written lies inside the block; the rest of the shell reads the word with its values |
| **Parser** `token_to_command.c`, `meta_char*.c`, `manual_realloc.c`, ... | the current token, the list of commands, a count of here-documents | `handle_pipe`, `handle_redir`, `handle_heredoc`, `handle_word` | accepts the grammar; the commands are the line |
| **Here-documents** `parse_herdoc.c`, `herdoc_utils.c` | a backup of standard input, a temporary file per document, `g_value`, the handler `my_server` | `generate_file_name`, `make_loop`, the tests of `g_value`, the handler that closes standard input | typed text reaches its file; an interrupt abandons the line; standard input is restored |
| **Pipeline executor** `pipeline_*.c`, `child_execution_helpers.c`, `fd_cleanup.c`, `main_utils.c` | descriptor table, `prev_fd`, `params->fd`, `params->save`, `saved_stdin`, pid count | the fork loop, `setup_child_io`, the wait loop, the error paths of `dup`, `pipe`, `fork` | stages get their pipe ends and nothing else, the shell leaks and blocks on none, the status is the last stage's |
| **Redirections** `open_redirection.c`, `dup_parent_and_child.c`, `open_files.c` | the numbers `fd_in`, `fd_out`, two backups | open and `dup2` in order, undo in the shell, a second time in a stage | a command runs on its last files or not at all; the terminal comes back |
| **Command lookup** `excute.c`, `print_message.c` | the last file found that cannot be executed | search of `PATH`, error messages, 126/127 | the first program is executed; the status says what went wrong |
| **Environment** `enviroment.c`, `export_*.c`, `exported_vars.c`, `cd.c`, ... | the array `env`, the list of names exported without a value, the working directory | `export`, `unset`, `cd` | both structures together behave as one store of variables |
| **exit and the other builtins** `exit_command.c`, `excute_utils.c` | the status register | `my_exit`, `execute_builtin_command` | the status, also for out-of-range arguments |
| **Printing the environment** `print_export_env.c`, `env_sort_utils.c` | a copy of both structures | count, fill, sort, print | each entry once and in order |
| **Garbage collector** `garbage_collect*.c`, `clean_up.c` | the list of the allocations since the last cleanup | allocate, register, free all | every block is owned once; nothing is freed that is still read |
| **Saved working directory** `manage_cwd.c`, `pwd_cmd.c`, `prompt_utils.c` | a pointer | save, read | it outlives its block: who may read it when |
| **libft** `my_libft/` | none | strings, lists, `ft_atoi` | only `ft_atoi` is modelled, as part of `exit` |

How they interact.  All of them share one process: its **descriptor table**
(here-documents, redirections of a builtin and the fork loop each back standard
input up, close it and restore it), its **exit status register**, read and
written by lexer, parser, here-documents, executor and the handler, its **signal
disposition**, a global `g_value`, and the collector's **list**, which is freed at the end of
a line that was executed and grows over lines that were not.  The list of tokens goes from the lexer to
the parser with a stale `prev` pointer; the list of commands goes to
the here-documents and from there, with file names, to the executor.  Children
get a **copy** of the descriptor table, the numbers, the register and the handlers at
`fork`.

What is hard.  Descriptor numbers outlive what they refer to: the fork loop closes
the last pipe's numbers up to three times, and `close(0)` on a line of one stage;
whether that hits something else depends on which numbers are free.  Every
`dup`, `pipe`, `fork` and `open` may be refused and has an error path of its
own.  Stages run concurrently and end in any order, or block on each other.
Interrupts arrive between any two steps, in the shell and in all stages,
before or after they have reset the handler.  Values that the lexer, the expansion and the
parser hand on in flags (a join flag, a stale `prev`, a count) are only right
in the order the code happens to use them.  The list in `PROJECT.json`
(`hazards`) names each of these at its line, with the property that covers it, or the reason why
none does.

## 2. The modules

| Module | Lines of code it models | What it is |
|---|---|---|
| `Descriptors` | the kernel | descriptor tables; `open`, `dup`, `dup2`, `pipe` take the lowest free number or fail |
| `ShellTables` | `main_execution.c`, `fd_cleanup.c`, `pipeline_utils.c` | what several parts do to the shell's table: backup, restore, close all but the standard three |
| `PipelineSpec` | - | what the executor promises: stages end in any order, then the line is collected with the last one's status, then the prompt; or it gives up |
| `Pipeline` | `pipeline_*.c`, `child_execution_helpers.c`, `main_utils.c` | one line executed by forked stages |
| `PipelineInvariant` | - | the inductive invariant of `Pipeline` |
| `Builtin` | `dup_parent_and_child.c`, `open_files.c`, `exit_command.c` | one line that is a builtin in the shell, with all its redirections |
| `Stage` | `open_redirection.c`, `excute.c`, `child_execution_helpers.c`, `print_message.c`, `dup_parent_and_child.c` | the inside of one forked stage, with all its redirections and the search for its program |
| `Heredoc` | `parse_herdoc.c`, `herdoc_utils.c`, `main_helper.c` | reading here-documents, over several lines |
| `Tokens` | `main_execution.c`, `token.c` | what the lexer and the parser share: the types of tokens, the status register |
| `Lexer` | `lexer*.c`, `token.c`, `utils.c` | characters to tokens |
| `Parser` | `token_to_command.c`, `meta_char*.c` | tokens to commands |
| `Session` | `main.c`, `main_helper.c`, `lexer_split.c` | line after line: composes `Lexer` and `Parser`, with the register, `$?` and interrupts |
| `Expansion` | `Handle_command.c`, `parse_cmd_utils.c`, `tools.c` | the copy of a word with its values, and its block |
| `Memory` | `main.c`, `clean_up.c`, `garbage_collect*.c`, `manage_cwd.c`, `prompt*.c`, `pwd_cmd.c` | the read-eval loop and what it allocates, reads and frees |
| `EnvStore` | - | one store of variables |
| `Environment` | `export_*.c`, `exported_vars.c`, `cd.c` | the array and the list |
| `ExportPrint` | `print_export_env.c`, `env_sort_utils.c` | what `export` prints in a state of `Environment` |
| `LexerInvariant` | - | the inductive invariant of `Lexer` |
| `LineProofs` | - | the proofs about `Parser`, `Lexer` and `Session` |
| `EnvironmentProofs` | - | the proofs about `Environment`, `ExportPrint` and `Expansion` |
| other `*Proofs` | - | the proofs about the module of that name |
| `MC*` | - | constants for TLC |

`PROJECT.json` maps every definition to the lines it stands for.  Definitions
named `X_Something` are slips of `X` that no action uses; each shows that a
property notices a plausible bug in that code.

### Pipeline

`pc` is the place in the shell's code: `enter` (the backup of
`execute_command`), `iter` (top of `pipe_iteration`), `fork`, `attach`
(`handle_parent_process` or, for the last stage, `process_pipeline_helper`),
`fail` (the error return of a refused call and what its callers close again),
`cleanup`, `wait`, `report`, `rearm`, `restore`, `prompt`.  `fd` is the shell's
table, and `savedStdin`, `save`, `prevFd`, `pipeFd` are the *numbers* it keeps, stale or
not.  Each child has a place `cpc`, a table `cfd`, and copies of those numbers and
of the status, taken at `Fork`.  `Plumb` is `setup_child_io` with the closing of
what was inherited, `Redirect` the redirection, `Start` the decision to run a builtin, to
`execve`, or to end.  Programs are five external behaviours (`cat`, `head`, `yes`,
`prog`, and readers of the terminal): what matters is how they use their input
and output.  A pipe holds up to `PipeCap` units; a writer on a full pipe blocks; it gets
SIGPIPE when no process has the read end; a reader sees the end of file when no
process has the write end: both are computed from all tables.  `Signal`
delivers SIGINT or SIGQUIT to the whole foreground group in one step; a child that has
not yet reset the handler runs the shell's instead.

A line starts from any descriptors (`Leftovers`) and any status (`Statuses`) an earlier
line may have left, so one line stands for any of a session.

### Builtin

The same tables for a builtin that the shell runs itself: three backups, the
redirections one after the other (a failed one undoes the rest), `exit` before the others because
`my_exit` is asked first, `ft_atoi` with its limits and the undefined conversion to `int`
as a choice of any status.  `ran` records what the builtin had at descriptors 0
and 1.

### Stage

Where `Pipeline` has one redirection and the outcome of the search as an input, `Stage` has the
whole child: `redir` (the list, one by one), `doc` (the here-document, opened behind all of
them), `logic` (`execute_command_logic`), `execve`, and the ways out.  A builtin makes its
redirections a second time (`pass`), through other functions, behind two backups nobody tests.
What it finds plumbed is what `StageIsolation` says of `Pipeline`.  `MaxChanges`
bounds the files that another process changes or removes while the stage works.

### Heredoc

One action per call that a signal can come between: `Begin` (backup), `OpenRandom` (`/dev/urandom`,
for the name), `NameFile` (ten reads, the close), `CreateFile`, `Arm` (the handler `my_server`), `Reset` (`make_loop` clears `g_value`),
`TypeDocument` or `ReadNothing` (`readline`, which sees an end of file when the handler has closed
standard input), `CloseFile`, `TestInterrupt`, `RestoreInput`, `Rearm`, `Check`, and then
`Abandon` or `Execute`.  `Interrupt` may come anywhere but in `execute`, which is
`Pipeline`'s subject.  `NameFile`, `CloseFile` and `RestoreInput` are several calls
each: an interrupt between them does what one in front of all or behind all of them does.  `docFd`
is the descriptor of `/dev/urandom` and then of the file, each at the lowest free number, which is 0 after a forgotten interrupt; when the handler closes it in between,
`ReadsNoName` is the loop that never ends.  `RandomFails` leaves the name (`join`) to what the
block held, that of any file that is there or a new one; `CreateFails` is the early return.

### Lexer

`start` and `end` are the code's indices (from 1); one action per kind of character at
`end`.  Characters are of ten sorts: letters, `?`, digits and what else is only text (`1`), blanks,
`$`, the two quotes, and `|`, `<`, `>`.  A token is the positions it came from, its
type, its join flag and whether it expanded to nothing, so that "no text is lost" is a
statement about positions.  Each variable of a line has a value of its own, of one of nine sorts: a word,
nothing, two words, a word behind a blank, or what begins with an operator of one of the
five types.  `JoinNodes` puts the pieces of each
node (`Node`) together and also keeps the type of the last piece, which the parser sees
through the stale `prev`.

### Parser

One token per step.  Arguments, redirections and delimiters are kept as positions in the token list.  The
array of here-documents is reallocated by a count that belongs to the walk
(`i`), so what the old array does not have is `Garbage`.

### Session

`Session` EXTENDS `Lexer` and `Parser` and takes their steps as they are, one behind the other
(`Tokenize`, `Parse`); `StartParser` gives the parser the tokens' types and join flags, and
`Execute` puts into the register any status an execution may leave (`Statuses`).  The lists that
`Parser` is checked on alone, `TokenLists`, play no part here.  Three histories let a
property speak of two lines: `left` (what the last line left), `shown` (what
each `$?` became) and `interrupted`.  At the prompt only the register is left of a line, so
the run has any number of lines.

### Expansion

A word is a sequence of items (a character, a variable with or without a value, `$?`) with the
characters of their names and values; a block is its size, and the code's `old_size` is kept
apart from it.  A write behind the block ends in `outside`.  `Margin`, 100 in the code, is a
constant.

### Memory

`heap` says what each address holds, `list` how many nodes of the collector point at it, `at`
where each pointer of the loop points; a block stands for all that one step allocates for one
purpose.  Reading a pointer whose block holds something else is the fault `stale`, freeing a
free block is `twice`, after which the C library may abort the shell.
Which free address `malloc` gives is a constant (`Offers`): the run takes the lowest, so that
addresses are used again at once; the proof takes any.

### Environment

The array is a sequence of pairs, the list a sequence of names.  `Export` covers
`name=value`, `name` and refused names, `Cd` has its `chdir` and `getcwd` in two steps, between
which other processes may remove or create directories.
`ExportPrint` adds what `export` without arguments prints, as an operator on each state: the
two structures in one list, and the passes of `sort_env_array` as recursive functions.

## 3. What the runs show

| Run | Question | Bounds | States |
|---|---|---|---|
| `pipeline` | who has which descriptor, whose status counts, signals between any two steps; refinement of `PipelineSpec` | every kind of ending, alone and behind a pipe, four lines with readers of the terminal and endless writers; statuses 0, 1, 100, 200 left over; two signals | 791 000 |
| `pipeline_failures` | refused calls, gaps and full tables; does the prompt come back | lines of one to three stages that end by themselves, seven sets of leftovers up to a full table of nine, one refused call, fairness | 15 000 |
| `stage` | redirections, here-document and search inside a stage | lists of up to three redirections, four sets of leftovers up to a full table of seven, five sorts of `PATH` of up to three entries, four statuses, one file changed by others | 1 040 000 |
| `builtin` | redirections in the shell; status of the line and of `exit` | lists of up to three redirections, seven sets of leftovers, all kinds of arguments of `exit` around the limits of `int` and `long`, one interrupt | 972 000 |
| `heredoc` | interrupts while files are named and documents read, and files that cannot be opened; an interrupt abandons the line | two lines of up to three commands, a table of seven, three interrupts, two failures, fairness | 233 000 |
| `session` | does the shell execute what the line says; what does `$?` show | lines of up to five of five characters that quote, separate or are text, and of up to five of four that ask for the status, and four longer ones; values that are a word, nothing, two words or `<<`; any number of lines and interrupts; statuses 1, 100, 200 | 459 000 |
| `lexer` | words, quotes, termination | all lines of up to three of ten characters; of four or five of the seven that may expand something; of up to five of the five that quote, separate or are text; of five letters, digits, blanks, `$` and `?`, and of six without digits; two longer ones; every sort of value for each variable | 406 000 |
| `expansion` | does what is written lie in the block; what is read of it | words of up to four items, quoted or not, margin 3, values of up to twice that | 183 000 |
| `parser` | the grammar and the commands | all lists of up to five tokens of eight sorts | 144 000 |
| `environment` | one store; what `export` prints | three valid names and a bad one, two directories, any number of commands | 62 000 |
| `environment_comment` | the comment at `minishell.h:58` | the same | violated |
| `memory` | what is alive where, what is freed and how often | fourteen blocks, two lines dropped in a row, any number of lines | 119 000 |

Why the bounds are enough.  A stage interacts with its two neighbours only, so three
stages have every role (first, middle, last) and a fork can fail with a child
already running before it and one never started behind it.  A line of one stage,
which is its own first and last, is in each run.  A pipe of one unit is empty,
full, or both blocked.  The table is a little larger than what a line needs: with
nothing left over the calls succeed, with full leftovers each of `dup` and `pipe`
is refused.  Two signals are what it takes to hit a child before and after it
resets its handler; three interrupts are one that is forgotten, one that closes
standard input again after its restore, and one at the prompt of the next line.  Integers of `exit` are narrow (ten and eleven bits) with the limits in
the list of arguments.  Five tokens are an operator with its word on both sides of a
pipe; four characters are `$?` with two behind it, or `<<` with a variable.
A margin of three characters is less than one value and more than one character, so the block
of a word grows not at all, once or several times; `old_size` and the block are apart by one, and
four items are a value before and text behind the step that goes wrong.  Fourteen blocks
are never all in use with two dropped lines: `malloc` is always enabled.  Three redirections are one whose
number is closed by the next and used again by the third.
For every component the proofs below remove the bounds of its safety properties.

Deadlock is checked in every run.  Stuttering steps (`AtPrompt`, `Done`, `Parsed`) stand for the end
of a line.

### Fairness

`Pipeline!FairSpec` is weak fairness of the shell and of each child: the kernel schedules
them.  A child that waits on a pipe is not enabled, so this does not promise that a
blocked process goes on.  Nothing is promised of who types at the terminal, of signals, or of
refused calls.  `Heredoc!FairSpec` is weak fairness of the shell's steps only:
nobody has to type, and `ReadsNoName`, one of these steps, is no progress.  `LexerFairSpec` is weak fairness of the lexer's loop, which nothing else
interrupts.

### A disagreement

`include/minishell.h:58` calls the list `exported_vars` "Exported variables without
values structure".  `cd` writes OLDPWD and PWD into the array (`cd.c:38`, `cd.c:68`) without
taking them off that list, as `export` does.  After `export OLDPWD` in a shell
without OLDPWD, and `cd`, the name is in both, and `export` without arguments
prints it twice.  `environment_comment` finds it; `OverlapOnlyByCd` shows, and
`OverlapIsCds` proves, that these two names are the only ones.

### Behaviours the models keep as they are

No document of the repository says otherwise, so no property does either.

* A fork that fails in the middle of a line leaves the read end of the stage before it open
  (`LeakedByFailedFork`): the failing function has the state by value.
* A builtin in a stage does not run when the register holds 1 from an earlier line
  (`dup_parent_and_child.c:126`).  It opens its redirections twice and does not look at the
  second result (`dup_parent_and_child.c:124`).
* A here-document is opened behind all other redirections of a stage and takes their place,
  wherever it was written (`open_redirection.c:117`).
* A command name with a slash whose file cannot be examined, for another reason than four, exits
  with the status of the line before (`print_message.c:31`), and 100 and 200 in the register
  change what a refused `execve` gives (`prompt_utils.c:34`).
* `exit` with a multiple of 256 exits with the status of the line before
  (`exit_command.c:56`), and beyond `int` with any status.
* A redirection of a builtin that fails with an error other than the four with a
  message leaves the status of the line before (`open_files.c:25`).
* `$?` resets the register when it is read, so a second one shows 0
  (`lexer_split.c:38`); in double quotes it does not, and shows 100 and 200 as they are.  The character behind an unquoted `$?` is jumped over
  (`lexer.c:43`): a pipe there is text, and a quote opens
  nothing.  `$?` and the word behind it, across one blank, are joined with each other and with
  the word behind the next blank (`Handle_token.c:24` looks at what a variable's value ends in):
  `echo $? a b` shows `0 ab`.
  `QuotedIsText`, and the second half of `SplitsIntoWords`, leave out lines with a quote right
  behind `$?`.  `ExecutesWhatItSays` and the first half of `SplitsIntoWords` are for lines whose
  unquoted dollars begin variables with a value of one word; the second half says for the others
  where words may come to be glued.
* A variable without a value in double quotes, or in a here-document, cuts off what follows,
  the closing quote included (`Handle_command.c:44`).
* Text behind values that are together longer than 100 characters is written behind the block
  of the copy (`parse_cmd_utils.c:24` grows it to the end of the value only); `StaysInside`
  says that nothing else is.
* The pointer to the saved directory outlives its block after the first line that is executed
  (`pwd_cmd.c:48`).  It is read only when the directory is gone and PWD unset: by `pwd`, and by
  the prompt, which also frees a block that is on the list (`prompt_utils.c:47`).  `MInv` and
  `NothingLeft` are for shells in which the prompt did not come to this.
* The value of an unquoted variable that begins with an operator becomes that
  operator (`lexer_helpers.c:44`).
* A line that begins with `<<` expands no variables at all (`lexer_parser.c:53`).
* A line with an open quote sets the status to 0 (`utils.c:77`).
* A second Ctrl-C can hang the shell: when one that was forgotten has left descriptor 0 free,
  `/dev/urandom` is opened there, `my_server` closes it, and the ten letters of the name are
  never read (`herdoc_utils.c:27`).  No prompt comes back from this, so the properties of
  prompts do not speak of it.
* When `/dev/urandom` cannot be opened a temporary file is named by what a block holds that
  nobody wrote (`parse_herdoc.c:30`), and may be one of another command.
* A word that ends in an operator out of a variable, with a pipe behind it, is refused
  (`lexer.c:112`): what `Plain` leaves out of `AcceptsTheGrammar`.
* An interrupt before `make_loop` clears `g_value` is forgotten (`parse_herdoc.c:66`): the
  document is empty and the line is executed.
* A here-document whose file cannot be opened returns with the backup open, the handler
  in place and standard input perhaps closed (`parse_herdoc.c:124`); some
  properties of `Heredoc` are for runs without this.
* The files of all but the first command stay in `/tmp` (`main.c:36`); `OnlyLastFilesLeft` bounds
  what stays, one file for each command of a line, and permits these.

## 4. What is proved

All theorems are for every value of the constants: lines of any length, tables of any
size above three, any number of signals, failures, variables and tokens.
They rest on the modules' assumptions, which TLC evaluates in every run:
`NumFdAssumption` (a table has a fourth place), `LinesAssumption` and
`BoundsAssumption`, `BuiltinAssumption`, `StageAssumption` (leftovers are above 2),
`EnvironmentAssumption` (the environment the shell is started with has no name twice; PWD and
OLDPWD differ), `RankAssumption` (the comparison orders the names), `HeredocAssumption`,
`StatusesAssumption` (a status is a number), `LexerAssumption` (a line is a sequence of the ten
sorts of characters, and not empty), `ParserAssumption` (a list of tokens is not empty), `ExpansionAssumption`
(an item has a character, a variable and `$?` have two), `MemoryAssumption`.
Where an argument goes over the length of a line, a list or an array, it is an induction over
numbers, got from least elements (`LeastNumber`), as the library's induction theorems cannot be
instantiated here.

**The executor** (`PipelineProofs`).  `TerminalKept` is not inductive: that closing
a stale number does no harm needs to be known of the number.  `IInv` (`PipelineInvariant`)
says, for each place of the shell, what each descriptor above 2 can be, and of the stale numbers:
the last pipe's write end is free at the top of the loop **and a lower number is free too**, so
the next backup does not take it (`StalePipe`, `AtIter`).  After a failure
(`AtFail`) the numbers are those of the pipe that is closed, or the orphaned
read end.  Of a child that has not closed what it inherited it says what the shell's table was
at its fork (`ForkTable`); this gives `StageIsolation`.  The births, ends and waits of children
(`BornInv`, `WaitedInv`, `EndedInv`) give the status and the absence of
zombies.  From `IInv` follow
`TypeCorrect`, `TerminalIsKept`, `LoopKeepsItsOwn`, `StagesAreIsolated`,
`NothingLeaks`, `StatusOfLine`, `AllAreWaitedFor`, `BrokenPipes`, `EndsOfFile`, and the
refinement `Implements`: every step is a step of `PipelineSpec` or a stutter.

**A stage** (`StageProofs`).  `SInv` gives what descriptors 0 and 1 hold after each redirection
(`Holds`: the last of its kind so far) and that the numbers kept from earlier opens are free
when they are closed again (`StaleClosed`).  A builtin's second pass that fails with nothing
changed fails at its first redirection, for want of a descriptor, so descriptor 1 still has the last
output.  `StageInvariance` and `StageRunsOnLastFiles` follow, for lists of any length.
For the exit status a second invariant, `RInv`, relates the place to what was inherited: descriptors
above 2 are untouched until the backups, so one open that worked shows that none fails for want
of room; the search knows of the entries of `PATH` behind it that none can be executed and that
the last plain one is in `store`; and the register is the inherited one until something sets it.
With both, `StageStatus` holds for a `PATH` of any length.

**Builtins in the shell** (`BuiltinProofs`).  `BInv`: while descriptor 0 or 1 is not the
terminal the backup of it is there; the code does not test that `dup` succeeded,
and it holds because a table too full for a backup is too full for a redirection
(`NoBackup => temp = 1 /\ Full(fd)`).  The number of an earlier input is closed
when `input_file` closes it again.  `BuiltinTypes`, `BuiltinRunsOnItsFiles`,
`BuiltinTerminalBack` and `BuiltinStatus` follow.

**The environment** (`EnvironmentProofs`).  `EInv` is that no name is twice in the array
or in the list, and that only PWD and OLDPWD are in both.
`VariablesAreAStore` is the refinement of `EnvStore`: export, unset and cd change the
value of one variable (cd of two) and of no other, although three functions search
the two structures separately.  `ExportPrintsEverything` is about the sort as well: a pass
permutes the list and carries its greatest name to the end of what is not yet settled, so after
`k` passes the last `k` lines are (`PassesSettle`), whatever the length.

**Here-documents** (`HeredocProofs`).  `HInv` follows two numbers from call to call: the backup
of standard input and `docFd`, `/dev/urandom` or the temporary file (`TableInv`).  The difficulty is the handler, which may
close descriptor 0 at any moment while `my_server` is in place and no other: the file that is
opened next then *gets* descriptor 0, is written and closed again, and the restore puts the
terminal back.  `ReadInv` says which commands have their file, and that a command that has not
was interrupted; `FilesInv` which files exist.  All but the types, `WritesItsFile` and
`OnlyLastFilesLeft` are for runs in which `/dev/urandom` and each file could be opened
(`fails = 0`), as the properties are.  `ExecutesOnTheTerminal`, `LeavesThePromptClean`, `CommandsFindTheirFiles`,
`WritesToItsFile` and `NoOtherFileIsLeft` follow, for any number of interrupts and lines.

**The parser** (`LineProofs`).  `GrammarDecides`: a list of tokens of any length is accepted only
when it is in the grammar, and refused only when it is not, except behind
a joined token.  The invariant `PInv` says that the part already walked has no
violation in it.  `TheLineIsInTheCommands` needs more (`LineInv`): each token walked is where
`CommandOf`, the number of pipes before it, says; each array is in the order of the line; and
`i`, a count that belongs to the walk, is the length of the array of here-documents whenever that
array is reallocated, so no `Garbage` gets into it.

**The lexer** (`LineProofs`, with `LexerInvariant`).  `LInv` is about the pieces so far.  On
every line they lie one behind the other (`InOrder`).  On lines without a quote right behind `$?`
what each holds is text, or an operator in a piece that is one (`Meaning`), and a piece is joined
to the next only across text that is dropped or where `$?` glues (`BlankGlues`).  On ordinary
lines the pieces cover all but the blanks, and a piece is joined exactly if text follows
(`AreItems`); for that the number of the same signs `<` or `>` right before a position (`Repeated`) tells
whether an operator begins there.  `join_nodes` then is a grouping of the pieces: that its nodes are the
maximal runs of joined pieces is shown with least elements.
`LexerTypes`, `WhatIsQuotedIsText` and `TheLineIsItsWords` follow.

**The session** (`LineProofs`).  `SInv` has the lexer's invariant while a line is read and, behind
it, the parser's together with the fact that its tokens are those of the pieces.  `TheLineIsExecuted`
joins the two: the k-th token is the k-th item of the line, since the pieces of ordinary lines are
its items in order (`ItemsInOrder`), with the item's type (`KindOfToken`) and its join flag
(`NextIsAdjacent`); so the grammar of the tokens is the grammar of the line (`SameGrammar`) and a
word goes to the command that the pipes before it count (`ItemsCounted`).  `StatusIsShown` needs
the register: while a line is read it holds what the last line left, or 130 after an interrupt, or 0 once a `$?` outside of quotes has
been replaced (`RegisterInv`), and each step that adds such a `$?` is a step that clears it
(`ScanStatus`).

**Expansion** (`EnvironmentProofs`).  `XInv` bounds what is written by the lengths of the items read
and of their values, whatever `make_like_bash` leaves out of these, and says that the copy is the expanded
word up to the first variable without a value and has a NUL behind it.  A value never comes to lie outside as
the test for it is on the size that the function believes in, which is never more than the
block.  `ExpansionStaysInside` and `WordIsExpanded` follow, for words of any length and any margin.

**The memory** (`MemoryProofs`).  `MInv` says that every block has one owner, the list or the
environment, and that what each place of the loop reads is alive there.  It is inductive as
it stands: the only steps that could give a block a second owner are those of
the prompt that fell back on the saved directory, and it remembers that in `fellBack`.
`MemoryIsOwned` and `ExitFreesEverything` hold for any set of addresses, any
`malloc` and any number of lines.

`ShellTablesProofs` has the lemmas on tables that executor, stages, builtins and here-documents share.

**Only model-checked**: liveness (`PromptReturns`, `InterruptAbandons`, `Terminates`), which the
prover does not do under fairness.  Every other property that a passing run checks is a theorem.

## 5. What is not modelled, and why

* Failed allocations: the collector's `gc_malloc` returns NULL and most callers give
  up the line; the models have the calls the kernel refuses for other reasons.
* The text of words, messages and the prompt.  Names are compared, never spelled.
* Values of a variable that are only blanks, that end in a blank, or that are an operator and a
  blank: `Values` has one word, nothing, two words, a blank and a word, and operators.
* The nodes of the list of names without values and the collector's own list, in `Memory`:
  `NothingLeft` is about the blocks that a line makes, the environment's PWD and the saved directory.
* What is written to files, so the `^C` the handler writes to descriptor 1
  while a builtin is redirected (`main_utils.c:109`).
* `write`'s errors, signals other than SIGINT, SIGQUIT and SIGPIPE, job control (there is none).
* Other processes, except in the directories of `Environment` and `Memory` and the files of `Stage`.
* libft, a library of functions on strings and lists without state; `ft_atoi` is part of
  `Builtin`.
* Code nothing calls: `handle_empty_command` and `execute_redirection_child`
  (`execution_helpers.c`), `execute_red_child_check` (`dup_parent_and_child_utils.c`),
  `is_directory_parent`, `set_errno`, `copy_and_sort_env`, `gc_free`.

## 6. Plan

Done, in this order: descriptor tables; `Pipeline` with its specification, invariant,
proofs and refinement; `Environment` likewise; `Heredoc`; `Parser` with the proof of the
grammar; `Builtin` with its proofs; `Lexer`; `Memory` and `Stage` with their proofs; `Session`;
`ExportPrint`; `Expansion`; proofs about `Heredoc`, the commands of `Parser`, the sort of
`ExportPrint`, `Lexer`, `Session` and `Expansion`.

Next:

1. Specifications of what a builtin, a stage and the reading of here-documents promise,
   as `PipelineSpec` is for the executor, with proofs that they are implemented.
2. The runs of `Heredoc` that go on behind a file that could not be opened: what the invariant
   says of the table then, where the properties are silent.
