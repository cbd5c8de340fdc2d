----------------------------- MODULE Redirector -----------------------------
(***************************************************************************)
(* redir.c: the resident part, a handler of the multiplex interrupt 2Fh.   *)
(* DOS calls it with AH = 11h for every operation that may concern a       *)
(* redirected drive.  The handler chains what is not its business to the   *)
(* handler before it, and answers the rest on a stack of its own.          *)
(*                                                                         *)
(* The handler enables interrupts at once and keeps all it knows about the *)
(* call in progress in static variables, so an INT 2Fh from a hardware     *)
(* interrupt, or the one that its own GetDosTime() makes, runs through     *)
(* the same code in the middle of a call.                                  *)
(*                                                                         *)
(* The table of mounts is filled in before the handler is reachable; no    *)
(* code does that yet, so any table is possible here.                      *)
(***************************************************************************)
EXTENDS Naturals, Sequences

CONSTANTS
  Drives,         (* drive numbers                                         *)
  MAX_MOUNTS,     (* entries of volInfo                                    *)
  Interrupting,   (* functions that an interrupt may call meanwhile        *)
  MaxDepth        (* bound: INT 2Fh calls inside each other                *)

VARIABLES
  volInfo,        (* drive number of each mount, numMounts of them         *)
  driveIdx,       (* static: index into volInfo, counted from 0            *)
  r,              (* static: the call whose registers r points to, 0: none *)
  currFunction,   (* static: the function to run                           *)
  dosStack,       (* static dosSS:dosSP                                    *)
  fpStackParam,   (* static: the call at the top of whose frame it points  *)
  stack,          (* SS:SP of the processor                                *)
  sdb,            (* drive number that FindFirst left in the search block  *)
  label,          (* the mount whose label FindFirst left in foundEntry    *)
  calls           (* the INT 2Fh calls in progress, the innermost last     *)

statics == <<driveIdx, r, currFunction, dosStack, fpStackParam>>
vars    == <<volInfo, statics, stack, sdb, label, calls>>

(* Functions, told apart as far as the handler does: AH not 11h or AL too  *)
(* large; an AL without an entry in dispatchTable; InstallationCheck; those*)
(* with an SFT (CloseFile ... UnlockFile); FindNext; GetDiskSpace;         *)
(* FindFirst for the volume label; and those that concern the current CDS. *)
Functions == {"other", "unsupported", "InstallationCheck", "withSFT",
              "FindNext", "GetDiskSpace", "VolumeId", "withCDS"}

Stacks == {"dos", "newStack"}
Answers == {"asGiven", "zero", "00FF"}
PCs    == {"entry", "dispatch", "claim", "switch", "success", "run", "time",
           "label", "leave", "chain"}
None   == "none"

(* What stands for the drive where there is none of ours: in an unused     *)
(* entry of volInfo, or in a search block without bit 40h.                 *)
NoDrive == 0

ASSUME DrivesAssumption == Drives \subseteq Nat \ {NoDrive}
ASSUME MountsAssumption == MAX_MOUNTS \in Nat \ {0}
ASSUME DepthAssumption  == MaxDepth \in Nat

(* Interrupt handlers make no calls with AH = 11h: these come from the DOS *)
(* kernel and from programs in the foreground (AX = 1100h), one at a time. *)
(* The handler does not survive one inside another.                        *)
ASSUME InterruptingAssumption == Interrupting \subseteq {"other"}

numMounts == Len(volInfo)
IsMounted(d) == \E i \in 1 .. numMounts : volInfo[i] = d

(* drive: the one that the SFT, the search block or the CDS at ES:DI names,*)
(* cds the one of the CDS that SDA.currentCDS points to.  ax: the caller's *)
(* AX is as it came, was cleared by Success(), or says "installed".        *)
Calls == [fun : Functions, drive : Drives \cup {NoDrive}, cds : Drives \cup {NoDrive},
          from : Stacks, pc : PCs, ax : Answers]

Tables == {t \in UNION {[1 .. n -> Drives] : n \in 0 .. MAX_MOUNTS} :
             \A i, j \in DOMAIN t : t[i] = t[j] => i = j}

Init ==
  /\ volInfo \in Tables
  /\ driveIdx = 0
  /\ r = 0
  /\ currFunction = None
  /\ dosStack = None
  /\ fpStackParam = 0
  /\ stack = "dos"
  /\ sdb = NoDrive
  /\ label = NoDrive
  /\ calls = <<>>

-----------------------------------------------------------------------------

depth   == Len(calls)
current == calls[depth]
At(pc)  == depth > 0 /\ current.pc = pc
GoTo(pc) == calls' = [calls EXCEPT ![depth].pc = pc]

NewCall(fun, drive, cds) ==
  [fun |-> fun, drive |-> drive, cds |-> cds, from |-> stack,
   pc |-> "entry", ax |-> "asGiven"]

(* The calls of function fun, with the drives that matter to it.           *)
CallsOf(fun) ==
  {NewCall(fun, drive, cds) :
     drive \in CASE fun \in {"withSFT", "GetDiskSpace"} -> Drives
                 [] fun = "FindNext" -> Drives \cup {NoDrive}
                 [] OTHER            -> {NoDrive},
     cds \in IF fun \in {"GetDiskSpace", "VolumeId", "withCDS"}
             THEN Drives ELSE {NoDrive}}

(* DOS or a program in the foreground calls, one at a time.                *)
DosCalls ==
  /\ calls = <<>>
  /\ \E fun \in Functions : \E call \in CallsOf(fun) : calls' = <<call>>
  /\ UNCHANGED <<volInfo, statics, stack, sdb, label>>

(* sti: a hardware interrupt handler calls INT 2Fh in the middle.          *)
Interrupt ==
  /\ depth \in 1 .. MaxDepth - 1
  /\ \E fun \in Interrupting : \E call \in CallsOf(fun) :
       calls' = Append(calls, call)
  /\ UNCHANGED <<volInfo, statics, stack, sdb, label>>

(* Mutant: the registers are noted before AH is looked at.                 *)
EntryNotesFirst ==
  /\ At("entry")
  /\ r' = depth
  /\ IF current.fun = "other" THEN GoTo("chain") ELSE GoTo("dispatch")
  /\ UNCHANGED <<volInfo, driveIdx, currFunction, dosStack, fpStackParam, stack, sdb, label>>

(* Not AH = 11h, or AL > MAX_FUNCTION: chain.  Else r = &regset.           *)
Entry ==
  /\ At("entry")
  /\ \/ current.fun = "other" /\ GoTo("chain") /\ UNCHANGED r
     \/ current.fun # "other" /\ GoTo("dispatch") /\ r' = depth
  /\ UNCHANGED <<volInfo, driveIdx, currFunction, dosStack, fpStackParam, stack, sdb, label>>

(* currFunction = dispatchTable[al], NULL for what is not supported.       *)
Dispatch ==
  /\ At("dispatch")
  /\ \/ current.fun = "unsupported" /\ GoTo("chain") /\ currFunction' = None
     \/ current.fun # "unsupported" /\ GoTo("claim")
        /\ currFunction' = current.fun
  /\ UNCHANGED <<volInfo, driveIdx, r, dosStack, fpStackParam, stack, sdb, label>>

(* Mutant: the loop looks at one entry past the last mount.                *)
ScanStopPast(drive) ==
  IF IsMounted(drive)
  THEN (CHOOSE i \in 1 .. numMounts : volInfo[i] = drive) - 1
  ELSE numMounts + 1

(* Mutant: the loop stops one mount short.                                 *)
ScanStopShort(drive) ==
  IF \E i \in 1 .. numMounts - 1 : volInfo[i] = drive
  THEN (CHOOSE i \in 1 .. numMounts : volInfo[i] = drive) - 1
  ELSE numMounts

(* Where the loop over the mounts stops: at the drive, or past the last.   *)
ScanStop(drive) ==
  IF IsMounted(drive)
  THEN (CHOOSE i \in 1 .. numMounts : volInfo[i] = drive) - 1
  ELSE numMounts

Scans(fun) == fun \in {"withSFT", "FindNext"}

(* The answer of IsCallForUs().  It reads ES:DI through r.                 *)
IsCallForUs(fun) ==
  \/ fun = "InstallationCheck"
  \/ Scans(fun) /\ ScanStop(calls[r].drive) < numMounts
  \/ fun = "GetDiskSpace" /\ IsMounted(calls[r].drive)
  \/ fun \in {"GetDiskSpace", "VolumeId", "withCDS"} /\ IsMounted(calls[r].cds)

(* Only the loops assign the static driveIdx.                              *)
Claim ==
  /\ At("claim")
  /\ driveIdx' = IF Scans(current.fun) THEN ScanStop(calls[r].drive) ELSE driveIdx
  /\ IF IsCallForUs(current.fun) THEN GoTo("switch") ELSE GoTo("chain")
  /\ UNCHANGED <<volInfo, r, currFunction, dosStack, fpStackParam, stack, sdb, label>>

(* Mutant: SS:SP is noted after the switch.                                *)
SwitchThenNote ==
  /\ At("switch")
  /\ stack' = "newStack" /\ dosStack' = "newStack"
  /\ fpStackParam' = depth
  /\ GoTo("success")
  /\ UNCHANGED <<volInfo, driveIdx, r, currFunction, sdb, label>>

SwitchStack ==
  /\ At("switch")
  /\ stack' = "newStack" /\ dosStack' = stack
  /\ fpStackParam' = depth
  /\ GoTo("success")
  /\ UNCHANGED <<volInfo, driveIdx, r, currFunction, sdb, label>>

(* Success() writes the registers that r points to.                        *)
Success ==
  /\ At("success")
  /\ calls' = [calls EXCEPT ![depth].pc = "run", ![r].ax = "zero"]
  /\ UNCHANGED <<volInfo, statics, stack, sdb, label>>

(* The drive in volInfo[driveIdx]; an entry past the last mount has none.  *)
IndexedDrive == IF driveIdx < numMounts THEN volInfo[driveIdx + 1] ELSE NoDrive

(* AX = 00FFh: a redirector is installed.                                  *)
InstallationCheck ==
  /\ At("run") /\ currFunction = "InstallationCheck"
  /\ calls' = [calls EXCEPT ![depth].pc = "leave", ![r].ax = "00FF"]
  /\ UNCHANGED <<volInfo, statics, stack, sdb, label>>

(* currFunction() of the functions whose bodies do nothing yet.            *)
RunStub ==
  /\ At("run") /\ currFunction \notin {"VolumeId", "InstallationCheck"}
  /\ GoTo("leave")
  /\ UNCHANGED <<volInfo, statics, stack, sdb, label>>

(* FindFirst() for the volume label, up to the call of GetDosTime(), which *)
(* switches to the stack of DOS and calls INT 2Fh, AX = 120Dh.             *)
FindFirst ==
  /\ At("run") /\ currFunction = "VolumeId"
  /\ sdb' = IndexedDrive
  /\ stack' = dosStack
  /\ calls' = Append([calls EXCEPT ![depth].pc = "time"],
                     [NewCall("other", NoDrive, NoDrive)
                        EXCEPT !.from = dosStack])
  /\ UNCHANGED <<volInfo, statics, label>>

(* GetDosTime() returns to our stack.                                      *)
GotDosTime ==
  /\ At("time")
  /\ stack' = "newStack"
  /\ GoTo("label")
  /\ UNCHANGED <<volInfo, statics, sdb, label>>

FillLabel ==
  /\ At("label")
  /\ label' = IndexedDrive
  /\ GoTo("leave")
  /\ UNCHANGED <<volInfo, statics, stack, sdb>>

Return == calls' = SubSeq(calls, 1, depth - 1)

Leave ==
  /\ At("leave")
  /\ stack' = dosStack
  /\ Return
  /\ UNCHANGED <<volInfo, statics, sdb, label>>

(* The handler before ours does the rest and returns to the caller.        *)
Chain ==
  /\ At("chain")
  /\ Return
  /\ UNCHANGED <<volInfo, statics, stack, sdb, label>>

Int2fRedirector ==
  \/ Entry \/ Dispatch \/ Claim \/ SwitchStack \/ Success
  \/ InstallationCheck \/ RunStub \/ FindFirst \/ GotDosTime \/ FillLabel
  \/ Leave \/ Chain

Next == DosCalls \/ Interrupt \/ Int2fRedirector

Spec == Init /\ [][Next]_vars

-----------------------------------------------------------------------------
(* Properties                                                              *)

(* Every variable keeps its type.                                          *)
TypeOK ==
  /\ volInfo \in Tables
  /\ driveIdx \in 0 .. MAX_MOUNTS
  /\ r \in 0 .. MaxDepth + 1
  /\ currFunction \in Functions \cup {None}
  /\ dosStack \in Stacks \cup {None}
  /\ fpStackParam \in 0 .. MaxDepth + 1
  /\ stack \in Stacks
  /\ sdb \in Drives \cup {NoDrive}
  /\ label \in Drives \cup {NoDrive}
  /\ calls \in Seq(Calls)

(* The static variables are those of the call that runs, whatever called   *)
(* INT 2Fh meanwhile: a call that is claimed is answered, once, in its own *)
(* registers, by its own function and with its own parameters, the check   *)
(* for a redirector and no other call hears 00FFh, and a call that is      *)
(* chained reaches the next handler with its registers as they came.       *)
OwnRegisters ==
  /\ depth > 0 /\ current.pc \in {"claim", "switch", "success", "run"}
       => r = depth /\ currFunction = current.fun
  /\ depth > 0 /\ current.pc \in {"success", "run"} => fpStackParam = depth
  /\ \A i \in DOMAIN calls :
       /\ calls[i].ax # "asGiven" <=> calls[i].pc \in {"run", "time", "label", "leave"}
       /\ calls[i].ax = "00FF"
            <=> calls[i].fun = "InstallationCheck" /\ calls[i].pc = "leave"

(* A call returns on the stack it came on, whether it was claimed, chained *)
(* or made from inside our own handler.                                    *)
ReturnsOnCallersStack ==
  [][Len(calls') < depth => stack' = current.from]_vars

(* A function with an open file or a search runs for the mount of that     *)
(* drive, and such a call is passed on only when the drive is not ours.    *)
ActsOnAskedDrive ==
  \A i \in DOMAIN calls :
    Scans(calls[i].fun) =>
      /\ calls[i].pc \in {"run", "leave"} => IndexedDrive = calls[i].drive
      /\ calls[i].pc = "chain" => ~ IsMounted(calls[i].drive)

(* "Get Volume ID" (FindFirst, redir.c): the label and the drive number    *)
(* are those of the drive that DOS asked about.                            *)
VolumeIdOfAskedDrive ==
  At("leave") /\ current.fun = "VolumeId" =>
    sdb = current.cds /\ label = current.cds

(* "GetDiskSpace can be called for a drive other than current and CDS is   *)
(* passed in es:di" (IsCallForUs, redir.c): such a call for a drive that   *)
(* is not ours is left to the others.                                      *)
DiskSpaceOfOwnDrives ==
  At("run") /\ current.fun = "GetDiskSpace" => IsMounted(current.drive)

=============================================================================
