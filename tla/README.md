# Verification of vbsmount

vbsmount is a DOS driver for the shared folders of VirtualBox. This directory
holds TLA+ models of its code, configurations that check them with TLC, and
proofs checked with TLAPS. The repository has no manual and no tests; what the
program promises is said in its comments and in `messages.h`.

## Inventory

| component | code | state it keeps | operations | models |
|---|---|---|---|---|
| host channel | `vboxaux.c`, `pci.c`, `vmmdev.h`, `shflsvc.h` | one static request buffer, the data segment `s.ds` | find the device, report the guest, version, connect, query mappings, query map name, disconnect | `HgcmHost`, `VBoxAux`, `RemoteCall` |
| transient program | `main.c` | options, port, client id, number of mappings, array of mappings | the steps of `main()` | `VbsMount` |
| option parser | `main.c` `GetOptions` | verbosity, `uninstall`, `testOnly` | parse | `CmdLine`, applied in `VbsMount` |
| uninstaller | `main.c` `UninstallDriver`, `TerminateTsr`, `AlreadyInstalled` | CDS table, interrupt vector, PSP, the `Signature` of the resident copy | look for a copy, remove it | `Uninstall`; its outcome in `VbsMount` |
| redirector | `redir.c`, `redir.h`, `dosdefs.h` | `r`, `currFunction`, `dosSS:dosSP`, `fpStackParam`, `driveIdx`, `volInfo` | one INT 2Fh handler with a dispatch table | `Redirector` |
| FCB names and masks | `redir.c` | none; it fills FcbName1 and the search block of DOS | `FillFcbName`, `MakeFullPath`, `MatchNameMask`, `FcbNameHasWildCards` | `FcbNames` |
| code page | `ucs2.c`, `vboxaux.c` | table of 128 characters | `lookupCP`, `cp_ucs2_to_local`, `ucs2_to_local` | `Ucs2` |
| string helpers | `miniclib.c` | none | `_fstrrchr_local`, `_fmemcpy_local` and five that nothing calls | `MiniClib` |
| message catalogue | `kitten.c` | one buffer of 8192 bytes, table of 128 messages that point into it | open, read, get, close | `Kitten` |
| resident client data | `vboxshfl.c` | `port`, `clientId` | none | not modelled: nothing uses them |

How they interact. `main()` calls the channel; the channel talks to the host by
writing the linear address of its buffer to an I/O port. The host answers in
the buffer, at once or later, while the guest polls a bit of it. The redirector
is entered by DOS through interrupt 2Fh and calls interrupt 2Fh itself for the
time. The transient program and the resident part share the `Signature` record,
which a CDS points to.

This commit is unfinished: nothing goes resident, the mounts are never filled
in, and most functions of the dispatch table have empty bodies. The redirector
is therefore modelled with an arbitrary table of mounts, and a run with a
resident copy takes the copy as given, as `AlreadyInstalled()` does.

What is hard here: replies that race with the time-out; a cancel that takes
back the reply but not the work; one buffer for all requests; a chain of steps
of which any may fail after a session was opened; a handler that keeps its state
in static variables and enables interrupts; a removal that rewrites a chain of
interrupt handlers, the drive table and the current process while other
programs share them. `PROJECT.json` lists each of these
at its line.

## Modules

**`HgcmHost`** is the host, which is not in the repository. It is modelled from
how `vboxaux.c` uses it: sessions, asynchronous commands (`live`), commands
whose reply was cancelled and that may still be performed (`orphans`), and the
history `performed`. A host may fail any command with any code of `HostErrors`,
answer a command at once, later or never, and perform a cancelled one.

**`VBoxAux`** is `vboxaux.c`. `request` is the static buffer, reduced to the DONE
bit, the result and the one output value of a request; its field `from` is a
history variable that says whose reply it holds. The buffer's `size`, version
and type fields are left out: no property depends on them. `fn` is the function in
progress and `phase` the place in `VBoxAuxSendHGCMRequest()`. `Send` is that
function up to the return of the OUT instruction, `PollDone`, `PollAgain`,
`TimeOut` and `Cancel` its loop and its end, and `ReturnX` the rest of function
X. The host's steps come between any two of the guest's. `TimeOut` and `Cancel`
are two steps because a reply may come between the clearing of the flags and
the cancel. `Reaches` says whether the OUT hits a request at all: without
`segread()` the linear address is wrong and the preset `rc` stays.

**`RemoteCall`** is what a caller is promised: calls performed at most once, an
answer that the server computed for this call, a refusal only of what is not
performed, and an honest "gave up" otherwise. `VBoxAux` implements it
(`ImplementsRemoteCall`): the abstract `got` is the buffer while it is answered,
the abstract `abandoned` are the orphans not yet performed.

**`VbsMount`** is `main()`, composed with `VBoxAux` by INSTANCE. Each action of
`main` is one call or one return of the channel with what `main` does next;
`InSend` is a step inside a call. `ImplementsVBoxAux` says that `main` is one of
the callers that `VBoxAux` allows, so that what is shown there holds here.
`ParseOptions` reads an argument string with `GetOptions`; the machine checks are
choices of their outcomes, and a resident copy is there or not from the start.
Control is in `main` itself while `fn = "none"`.

**`CmdLine`** is `GetOptions()` as a function of the argument string, and beside it
the grammar of the usage text of `messages.h`: `ReadAsMeant` compares the two. A
character is a string of one character; a space, which the prover's back end cannot
write, is `"blank"`.

**`Uninstall`** is the removal of a resident copy: `AlreadyInstalled()`,
`UninstallDriver()` up to the exit through the copy's PSP, and `TerminateTsr()`,
one action for each step that changes something another program can see. Around
it, other programs hook and release interrupt 2Fh, and may be loaded where the
copy was. No code calls `UninstallDriver()`; it is called here as its comment says.
`memory` tells allocated, freed and reused memory apart, because a freed
`Signature` can still be read as one.

**`Redirector`** is the handler of `redir.c`. `calls` is the stack of INT 2Fh
calls in progress; its innermost call runs. `Functions` are classes: AH not 11h
or AL too large (`other`), no entry in the table (`unsupported`; 21h is one),
those claimed by an SFT, `FindNext`, `GetDiskSpace`, `FindFirst` for the volume
label, and the rest, which are claimed by the current CDS. One action is one
statement group between which an interrupt may come. A nested call runs the same
actions. `FindFirst` makes the nested call of `GetDosTime()` on the stack of DOS.
`ax` says what the caller's AX holds: `Success` clears it and `InstallationCheck`
answers with 00FFh, both through `r`.

**`FcbNames`** holds the names of `redir.c`: the path that DOS leaves in FileName1,
the FCB name that a claimed call derives from it, and the search block and found
entry that the search for the label fills in. The order of calls is any. It uses
**`MiniClib`**, the string functions that the resident part calls, and **`Ucs2`**, the code
page with both conversions. Names are sequences of characters here, because the
questions are about padding, dots and wild cards.

**`Kitten`** is `kitten.c`: the search along NLSPATH, the loop of `catread()` over
lines, `processEscChars()` one character or escape a step, and `kittengets()` as
an operator on the table. The buffer is modelled byte by byte, because lines,
keys and decoded texts all live in it and the questions are about who overwrites
whom; `mem[-1]` is the byte in front of it, which an empty first line makes the
code look at. A store past the table ends the model in `"corrupt"`: what it
destroys depends on the link order. `Kittengets` is the set of the possible answers: a
search that finds neither the keys nor an empty entry compares the bytes behind the table
before it tests the index, and these may be anything (`Stray`). `Documented` is the reference: what the
comment on `processEscChars()` says of a text. `char` is unsigned, the compiler's
default. A file is a sequence of lines, each with what stands before its text, the keys
that this spells, the text and the line's end; `CatalogueAssumption` says no more than
that the lines are lines, made of bytes, and the keys those that are spelled.

**`VBoxAux_proofs`**, **`VbsMount_proofs`**, **`CmdLine_proofs`**, **`Uninstall_proofs`**,
**`Redirector_proofs`**, **`FcbNames_proofs`** and **`Kitten_proofs`** hold the theorems about
the module of the same name. **`Induction`** holds general ones: induction over the
numbers, definition by recursion, and what `FlattenSeq` returns.

The models contain, marked "Mutant", changed versions of their definitions; they
show that every property notices a plausible mistake.

## Runs

| run | configuration | question | states |
|---|---|---|---|
| `vboxaux` | `MC_VBoxAux.cfg` | is the channel an at-most-once remote call, for any caller and any host? | 451 thousand |
| `mount` | `MC_VbsMount.cfg` | does `main`, with and without a resident copy, read each option as the usage text explains it, use its session in order on every path, end, and tell success from failure? | 182 thousand |
| `redirector` | `MC_Redirector.cfg` | do the statics and the private stack serve the right call under nested interrupts? | 246 thousand |
| `uninstaller` | `MC_Uninstall.cfg` | do repeated removals, among other programs that hook the interrupt, leave the chain, the memory and the shell whole? | 5.6 thousand |
| `names` | `MC_FcbNames.cfg` | do names, masks and labels come through in the form of directory entries? | 125 thousand |
| `kitten` | `MC_Kitten.cfg` | does reading a catalogue stay in its buffer and table, end, and find the documented texts? | 19 thousand |
| `roots`, `test_only`, `uninstall` | `MC_VbsMount_*.cfg` | disagreements of `main` with its comments and its help text | violated |
| `documented_answers` | `MC_Kitten_documented.cfg` | disagreements of the decoder and of `kittengets()` with their comments | violated |
| `volume_id`, `disk_space` | `MC_Redirector_*.cfg` | disagreements of the redirector with its comments | violated |

Bounds. `VMMDEV_ASYNC_TIMEOUT = 2` (500 in the code): the loop has a first, a
middle and a last turn, and more turns repeat the middle one. `MaxCalls = 3`: a
call, one that meets what the first left behind, and one after it. Two client
ids: a session may be open when another is asked for. `HostShares` is larger
than `SHFL_MAX_MAPPINGS`, so that a query overflows, and `SHFL_MAX_MAPPINGS` is
1 or 2 so that the array has a last entry and, with `main`, a first one that is
not the last. `HostErrors` has a code that the code treats specially (-37) where
`main` is checked, and one that it does not. The codes are no multiples of 256:
DOS keeps the low byte of what `main` returns, and such a code would read as
success. `MAX_MOUNTS = 2` of three drives: no mount, some, a full table, and a
drive that is not ours. `MaxDepth = 3`: an interrupt may come inside a call of
DOS, and inside another interrupt's call; the call of `GetDosTime()` is one
deeper. `Interrupting = {"other"}`: calls with AH = 11h are made by the DOS
kernel, one at a time, and by programs in the foreground (AX = 1100h, as `main` does),
not by interrupt handlers. The handler does not survive a nested one:
`r`, `currFunction`, `dosSS:dosSP` and the private stack would be overwritten.

`ArgStrings`: every string of up to three characters, and every run of up to three
words, among them words that are cut short or belong nowhere; three are enough
for two settings of the verbosity with something between them, and for `/QQ` before a
neighbour. What follows an error or a call for help is not looked at.

`Drives` has three drives and `Others` two programs in `Uninstall`: a first mount with
others behind it, and a program above the copy, below it, or both. Removals may be
attempted any number of times.

Names have the real sizes 8, 3 and 11. Each part is empty, short, full, or has wild
cards, in a directory with a dot and one without. A name with more than eight or
three characters does not come: DOS resolves names before it calls a redirector
(`PathsAssumption`), and `FillFcbName()` would not stop at the end of the field.
Three labels: characters of the code page, characters it lacks, and the run of
codes around C1h.

`BufferSize = 21`: files that fill the buffer up to the last byte allowed, and
files too long by one, both with an escape at the very end. `TableSize = 2` with
files of up to three messages: a table with room, a full one and an overflow.
The files are all of up to two lines out of twelve and all of three lines out of
six: every kind of escape and line end, duplicate keys, a key beyond a byte, no
key, an empty line, each before and after each other.
The run `documented_answers` has one file, with a buffer and a table of the size that it needs.

Deadlock is checked for `vboxaux`, `redirector`, `uninstaller` and `names`; the program
of `VbsMount` and the opening of a catalogue end, so their runs switch the check off.

Fairness. The guest executes its code: nothing else runs under DOS while it waits,
and `delay(1)` returns, so the guest's steps are weakly fair. Nothing is assumed
of the host, and nothing of the files: `CallsReturn` and `Terminates` hold for a host that never answers, and
`OpenEnds` for any file.

## What the runs show

- A successful call has its own answer in the buffer, however late earlier
  replies came; the DONE bit is reset before each request, and the cancel comes
  before the return (`AnswerIsForThisCall`, `ChannelInv`, `CallerMemoryQuiet`).
- A session is closed on every path after it was opened. What may stay open is the
  session of a connect that timed out, whose id `main` never learns, and one whose
  disconnect fails (`NoLeak`).
- `main` never looks at an entry of `mappings[]` that the host did not fill, also
  when there are more shares than entries (`RootsComeFromHost`) - except when a
  copy is resident, see below.
- `ERR_SUCCESS` after a query means that the whole list and the last share's name
  were got (`SuccessIsReal`). The name of a share before the last may have failed:
  the loop keeps only the last `ret`.
- The handler's statics are those of the running call under nested multiplex calls,
  and each call returns on its caller's stack, with its own answer, stored once
  (`OwnRegisters`).
- The removal of a resident copy refuses when another program hooked the interrupt
  above it; otherwise the chain stays whole (`HandlersAlive`), the memory is freed once
  (`RemovedWholeAndOnce`), and the shell gets control and all memory back
  (`ShellGetsAllBack`). `UninstallDriver()` invalidates the first drive only, so with
  several mounts the later ones point into freed memory (`OnlyLaterDrivesDangle`). A
  second `/U` may find the freed `Signature` through one of them, and then refuses,
  because the vector is no longer the copy's. `VBoxAuxEndSession()` gets port and
  client id in swapped order, and the program never reads its data segment, so the
  session stays open at the host; no text of the repository says otherwise, so no run is
  about it.
- `GetOptions()` accepts the options of the usage text in any order and number and reads
  each as the text explains it; it rejects a second setting of the verbosity and
  everything else (`OptionsAsExplained`). The usage text itself gives two forms, `/T` in the
  first and `/U` in the second only (`messages.h:29-30`). The code does not keep them apart:
  `/T /U` is accepted, and so are repeated options. `OptionsAsExplained` has this behaviour
  and does not call it what the text says; no run of its own is spent on it.
- The FCB name is the directory entry's form of the path, a search keeps its mask while
  later calls reuse FcbName1 (`MaskIsOfSearch`), and `MakeFullPath()`, `MatchNameMask()`
  agree with what they are for (`PathComesBack`, `MaskSelectsByParts`). Only
  characters without an entry in the table become underscores (`LabelReadable`) - but
  the entry for B5h is 25C1h where its neighbours suggest 00C1h, so a capital A
  with an acute accent is one of those. `ucs2_to_local()` tells whether a character was
  lost (`LossIsReported`), for buffers with room: its test of the size, `! buflen > len`,
  compares 0 or 1 with the length and never refuses, which the model has and no property
  asks for.
- `FindFirst()` marks the search block with bit 80h, and `IsCallForUs()` asks a `FindNext` for
  bit 40h. `FindNext()` has no body yet, so nothing depends on it so far.
- The decoder of the catalogue stays in its buffer for every file that `catread()`
  accepts, also when it runs past the end of a line: the two zeros that the test for a
  file too big leaves behind the text are needed, and enough (`StaysInBuffer`). It never
  overwrites what it has not read (`UnreadTextKept`).
- For files without octal and loose escapes and with at most as many messages as the
  table has entries, the table is not overrun (`TableSuffices`) and `kittengets()` returns
  what the file says; the caller's message for a key without a line is certain only while
  an entry of the table is left (`AnswerIsMessage`).

Disagreements, each with a run that ends in the counterexample:

1. `roots` (`ResidentRootsComeFromHost`): with a resident copy `segread( &s )` is never executed, so all requests
   go to a wrong address and count as successes; `main` then queries 64 unfilled
   roots. For the same reason it does not close the copy's session at the
   label `error` (`ResidentSessionKept` fails as soon as the segment is read).
2. `test_only`: `/T /QQ` "just checks if running on VirtualBox" opens a session.
3. `uninstall`: `/U` with a resident copy removes nothing and ends with success.
4. `volume_id`: the volume label is that of the mount an earlier loop stopped at.
5. `disk_space`: GetDiskSpace for another redirector's drive is claimed when the
   current drive is ours.
6. `documented_answers` (`AnswerAsDocumented`) reads one catalogue of five lines; its last
   state shows five disagreements with the comments on `processEscChars()` and `kittengets()`:
   - the decoder skips the first digit of `\ddd` (1.1);
   - for a backslash before any other letter it stores the character behind the letter,
     twice in the end, and not the letter (2.1);
   - a message 257.2 answers for 1.2, because keys are stored in a `char`;
   - a backslash at the end of a line makes it swallow the line that follows (2.2, 2.3);
   - when every entry of the table is used, a key without a line (3.1) may be answered with
     whatever lies behind the table.

These are why `AnswerIsMessage` is about clean files, and about missing keys only while the
table is not full.

## Proofs

All theorems hold for every value of the constants under the named assumptions of
the modules, which say no more than that counts are natural numbers, that names
do not collide, and what is quoted below. TLC checked each invariant first.

`VBoxAux_proofs` (any time-out, number of shares, client ids and host errors):

- `TypeCorrect`: `Spec => []TypeOK`. `TypeOK` is inductive; there is one lemma per
  group of actions, and `PerformTypes` for the host's work.
- `ChannelCorrect`: `Spec => []ChannelInv`. `ChannelInv` with `TypeOK` is inductive: the
  host has at most one command with the buffer's address, only while a call waits,
  and a DONE bit seen in the wait is the current call's.
- `AnswerCorrect`: `Spec => []AnswerIsForThisCall`. It is not inductive alone: in the
  wait loop nothing says whose bit is set. With `ChannelInv` it is.
- `QuietCorrect`: `Spec => CallerMemoryQuiet`. Outside a call `ChannelInv` says that
  `live` is empty, so no reply can be stored.

- `RemoteCallImplemented`: `Spec => ImplementsRemoteCall`. The step needs `HistoryInv` as
  well: ids are never used again, a call in progress that was not performed is still
  with the host, and a DONE bit seen in the wait came with a performed reply of this
  call. Each action maps to one abstract action or a stutter.

`VbsMount_proofs` (any number of shares, any host):

- `ReportCorrect` (`GuestReportedFirst`) from `ProtocolInv`: a function runs only where
  `main` calls it, and without a resident copy requests come only after the device,
  the segment and the guest's report.
- `MainImplementsChannel` (`ImplementsVBoxAux`), from the same invariant: each step of
  `main` is one of the general caller of the channel, which carries the theorems above
  over to `main`.
- `SessionsCorrect`, `LeakCorrect`, `ResidentCorrect`, `RootsCorrect`, `IndexCorrect`: the
  properties `CallsOnOpenSession`, `NoLeak`, `ResidentSessionKept`, `RootsComeFromHost` and
  `IndexInBounds`, all from `IInv`. It says which commands the host may still know and when
  (`BufferInv`, `HistoryInv`), what a reply in the buffer has done at the host (`ReplyInv`),
  which sessions are open in each phase of `main` (`SessionInv`), and how `main`'s
  counters go with the number of calls made (`CountInv`). None of the
  properties is inductive alone: what `main` may rely on depends on late replies of
  earlier calls.
- `SuccessCorrect` (`SuccessIsReal`), which assumes `LowBytes`: no error code of the host
  is a multiple of 256. Without it the theorem is false, as DOS keeps the low byte.
- `TypeCorrect` (`TypeOK`): the channel's part is that of `VBoxAux`, which `StepImplements`
  carries over; `main`'s own part is inductive.
- `OptionsCorrect` (`OptionsAsExplained`), when `Sentences` are all sequences of words, from
  `CmdLine_proofs`. These are more than the two forms of the usage text: the theorem says
  which strings the code accepts and what it reads in them.
- `ChannelUnderMain`: the theorems of `VBoxAux_proofs` about answers, quiet memory and
  `RemoteCall` hold of `main` without a resident copy. With one, the first request does
  not go through the initialisation that `VBoxAux` starts with.

`CmdLine_proofs`: `SentencesAreRead` and `AcceptsOnlySentences`, for strings of any length.
The loop of `GetOptions()` is a chain of states (`Turns`); induction along it shows that
after the words read so far it stands behind their text with the globals they mean,
and, the other way, that what it has accepted so far is the text of some words.

`Uninstall_proofs` (any drives, any number of other programs): `HandlersCorrect`,
`RemovalCorrect`, `DrivesCorrect`, `ProcessCorrect`, from one invariant: the chain is
a list in which each handler has one caller (`ChainInv`), what the program has seen
still holds when it acts on it (`RemovalInv`), the first drive with the magic is the
first mount (`DriveInv`), and the current process goes with the place in the program
(`ProcessInv`). `ChainInv` is needed because `HandlersAlive` does not exclude that
two handlers chain to the same one, and then a removal would cut one off.
`TypeCorrect` (`TypeOK`) needs `ChainInv` as well.

`Redirector_proofs` (any mounts, any depth): `TypeCorrect`, `RegistersCorrect`,
`DriveCorrect`, `StackCorrect`. The argument is that an inner call is never one for
the handler (`NestedInv`, which rests on `InterruptingAssumption`: interrupt
handlers make no calls with AH = 11h), so that the outer call owns the
statics from where each is set (`OuterInv`), `driveIdx` among them (`DriveInv`).

`FcbNames_proofs` (any paths, any labels): `TypeCorrect`, `MaskCorrect`, `PathCorrect`,
`MatchCorrect`, `LabelCorrect`, `LossCorrect`. The invariant says that FcbName1 is the entry of
the path claimed last and the mask that of the last search; the work is in what the
functions compute: `FillMakesEntry`, `MakePathUndoes` (with `FlattenIs`), `MatchIsByParts`,
`ByteIsOfCharacter` and `ConversionReportsLoss`.

`Kitten_proofs` (any size of buffer and table, any files): `BufferCorrect`
(`StaysInBuffer`), `UnreadCorrect` (`UnreadTextKept`), `HandlesCorrect` (`HandlesAccounted`),
`TypeCorrect` (`TypeOK`), `TableCorrect` (`TableSuffices`) and `AnswerCorrect`
(`AnswerIsMessage`).
`BufferInv` says that the last two bytes of the buffer are zero and that the store is
never ahead of the look. One zero is not enough: a backslash in front of it would
take the decoder past it. A number cannot do so, for it is read only from digits
(`NumberOfDigits`). The files need not be well-formed, and the first four theorems hold up
to a table overflow, where the model ends: that no entry is filled behind the table is
not said by `TypeCorrect`, but by `TableCorrect`, for catalogues that fit.

The last two are about clean files and rest on `CatalogueInv`, which follows each text
from the file through the buffer into the table. Between lines (`AtLine`) the reader stands
at the start of a line, from there on the buffer is what was read (`Unread`), and the
entries are those of the lines before, in order (`Filed`): each has the keys of its line
and points to a C string that ends below the reader and is the text as documented. Inside a
text (`Decoding`) what is stored, followed by what the rest of the text stands for, is
the documented text; the reader is not inside an escape, and what it has not read is
untouched. `KeysFound` and `NoKeysFound` say that the reader finds keys in a line exactly
if the line has some, `CutLine` that cutting a line leaves its text and its neighbours
alone (also the empty first line, where the code looks in front of the buffer), and
`DecodeStep` that a step stores what the next characters stand for. Without the order in
`Filed`, `kittengets()` could answer with a later line that has the same keys. For a key without a
line, `NoMoreEntries` counts the entries: one is left, and it ends the search.
TLC checked `CatalogueInv` on the instance of the run `kitten`.

Induction over data: the induction theorems of the library take a predicate as a
parameter, which the provers cannot instantiate. `Induction` states them for sets and
functions instead. `RecursionExists` says that a recursive definition has a solution when
its body looks only at arguments of smaller rank; what the functions of strings compute
follows from it.

Only model-checked: liveness (`CallsReturn`, `Terminates`, `OpenEnds`), which is out of the
prover's reach. Every other property of a passing run is a theorem.

## Not modelled

- `MatchAttrMask()`, a comparison of a few bits that nothing calls, and the string helpers
  that nothing calls (`strrchr_local`, `strchr_local`, `_fstrchr_local`, `_fstrcpy_local`,
  `memcpy_local`).
- `get_line()`, `get_char()` and `kittenclose()` of `kitten.c`, which nothing calls, and the
  branches of `kittenopen()` for a second catalogue and for a file name, which `main` does
  not reach.
- The functions of the dispatch table with empty bodies are one action that does
  nothing.
- The PCI BIOS beyond its outcomes, the 386 check, the layout of the DOS structures in
  `dosdefs.h`, the wording of messages.
- `vboxshfl.c` holds two unused variables; the makefile has no behaviour.

## Plan

What is left is small until the program goes resident: the channel's theorems under `main`
with a resident copy; `get_line()` and `get_char()`, should something call them. When later commits give
`FindNext` and the other functions bodies, `FcbNames` is what they work on and belongs
inside `Redirector`; when mounts are filled in, `VbsMount` gets the drive table of
`Uninstall`, and `/U` its call.
