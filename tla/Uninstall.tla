------------------------------ MODULE Uninstall ------------------------------
(***************************************************************************)
(* main.c: AlreadyInstalled(), UninstallDriver() and TerminateTsr(), the   *)
(* removal of a resident copy, among other resident programs that hook     *)
(* interrupt 2Fh as well.                                                  *)
(*                                                                         *)
(* No code calls UninstallDriver() yet; the calls modelled are those that  *)
(* its comment asks for: after AlreadyInstalled() has found the copy, with *)
(* the vector of interrupt 2Fh read before.  No code goes resident either: *)
(* a copy may be resident from the start, with any set of mounts.          *)
(***************************************************************************)
EXTENDS Integers

CONSTANTS
  Drives,        (* drive numbers with a CDS, from E: = 4 on               *)
  Others,        (* other resident programs with a handler for 2Fh         *)
  PciPort,       (* the port of the VirtualBox device                      *)
  ClientId       (* the resident copy's session                            *)

VARIABLES
  pc,            (* where the transient program is; "shell": none runs     *)
  memory,        (* the resident copy's: "alive", "freed", "reused"        *)
  vector,        (* the handler that interrupt 2Fh starts                  *)
  previous,      (* the handler that each hooked one chains to             *)
  hooked,        (* the other programs that are resident                   *)
  prevInt2f,     (* *fpfpPrevInt2fHandler: the vector that main() read     *)
  cds,           (* the current directory structure of each drive          *)
  currDir,       (* fpCurrDir: the drive that AlreadyInstalled() found     *)
  returnsTo,     (* terminate address in the resident copy's PSP           *)
  psp,           (* the current process: "shell", "own" or "tsr"           *)
  ownMemory,     (* the transient program's memory is allocated            *)
  sessions,      (* client ids known to the host                           *)
  mounts         (* history: the drives that the copy was given            *)

chain   == <<vector, previous, hooked>>
vars == <<pc, memory, chain, prevInt2f, cds, currDir, returnsTo, psp, ownMemory,
          sessions, mounts>>

OURS == "ours"
DOS  == "dos"

Handlers == Others \cup {OURS, DOS}

ASSUME UninstallAssumption ==
  /\ Drives \subseteq Nat \ (0 .. 3)
  /\ OURS \notin Others /\ DOS \notin Others
  /\ PciPort \in Nat /\ ClientId \in Nat

(* Drives of ours carry VBSMOUNT_MAGIC and point to the Signature.         *)
Mounted == [magic |-> TRUE,  record |-> "sig",  network |-> TRUE]
Unused  == [magic |-> FALSE, record |-> "none", network |-> FALSE]

PCs == {"shell", "search", "found", "invalidate", "session", "switch",
        "tsrExit", "terminateTsr", "exit"}

(* Either no copy, or one that was loaded before or after some other.      *)
Init ==
  /\ pc = "shell" /\ psp = "shell" /\ ownMemory = FALSE
  /\ prevInt2f = DOS /\ currDir = -1 /\ returnsTo = "shell"
  /\ \/ memory = "reused" /\ mounts = {} /\ sessions = {} /\ vector = DOS
        /\ previous = [h \in Handlers |-> DOS]
        /\ hooked = {}
     \/ memory = "alive" /\ mounts \in SUBSET Drives /\ sessions = {ClientId}
        /\ vector = OURS
        /\ \E h \in Others \cup {DOS} :
             /\ previous = [g \in Handlers |-> IF g = OURS THEN h ELSE DOS]
             /\ hooked = {h} \ {DOS}
  /\ cds = [d \in Drives |-> IF d \in mounts THEN Mounted ELSE Unused]

-----------------------------------------------------------------------------
(* The other programs and DOS                                              *)

(* A program goes resident and hooks the interrupt.                        *)
Hook(t) ==
  /\ pc = "shell" /\ t \notin hooked
  /\ previous' = [previous EXCEPT ![t] = vector]
  /\ vector' = t /\ hooked' = hooked \cup {t}
  /\ UNCHANGED <<pc, memory, prevInt2f, cds, currDir, returnsTo, psp, ownMemory,
                 sessions, mounts>>

(* It goes away again, if it is the last in the chain.                     *)
Unhook(t) ==
  /\ pc = "shell" /\ vector = t
  /\ vector' = previous[t] /\ hooked' = hooked \ {t}
  /\ UNCHANGED <<pc, memory, previous, prevInt2f, cds, currDir, returnsTo, psp,
                 ownMemory, sessions, mounts>>

(* Another program is loaded where the resident copy was.                  *)
Reuse ==
  /\ pc = "shell" /\ memory = "freed"
  /\ memory' = "reused"
  /\ UNCHANGED <<pc, chain, cds, prevInt2f, currDir, returnsTo, psp, ownMemory,
                 sessions, mounts>>

(* vbsmount /U is started; main() reads the vector before all else.        *)
Start ==
  /\ pc = "shell"
  /\ pc' = "search" /\ psp' = "own" /\ ownMemory' = TRUE
  /\ prevInt2f' = vector
  /\ UNCHANGED <<memory, chain, cds, currDir, returnsTo, sessions, mounts>>

-----------------------------------------------------------------------------
(* The transient program                                                   *)

(* The first drive from E: on whose CDS carries the magic.                 *)
FirstMagic == {d \in Drives : /\ d >= 4 /\ cds[d].magic
                              /\ \A e \in Drives : e \in 4 .. d - 1 => ~ cds[e].magic}

(* The CDS must point to a Signature; a freed one still reads as such.     *)
SignatureAt(d) == cds[d].record = "sig" /\ memory # "reused"

AlreadyInstalled ==
  /\ pc = "search"
  /\ \/ /\ \E d \in FirstMagic : SignatureAt(d) /\ currDir' = d
        /\ pc' = "found"
     \/ /\ ~ \E d \in FirstMagic : SignatureAt(d)
        /\ currDir' = -1
        /\ pc' = "exit"
  /\ UNCHANGED <<memory, chain, cds, prevInt2f, returnsTo, psp, ownMemory, sessions,
                 mounts>>

(* UninstallDriver() returns when another handler was installed.           *)
Refuse ==
  /\ pc = "found" /\ OURS # prevInt2f
  /\ pc' = "exit"
  /\ UNCHANGED <<memory, chain, cds, prevInt2f, currDir, returnsTo, psp, ownMemory,
                 sessions, mounts>>

(* Mutant: nobody looks at the vector.                                     *)
RestoreAnyVector ==
  /\ pc = "found"
  /\ vector' = previous[OURS]
  /\ pc' = "invalidate"
  /\ UNCHANGED <<memory, previous, hooked, prevInt2f, cds, currDir, returnsTo,
                 psp, ownMemory, sessions, mounts>>

RestoreVector ==
  /\ pc = "found" /\ OURS = prevInt2f
  /\ vector' = previous[OURS]
  /\ pc' = "invalidate"
  /\ UNCHANGED <<memory, previous, hooked, prevInt2f, cds, currDir, returnsTo,
                 psp, ownMemory, sessions, mounts>>

(* Mutant: the drive is invalidated, but the pointers stay.                *)
InvalidateFlagsOnly ==
  /\ pc = "invalidate"
  /\ cds' = [cds EXCEPT ![currDir].network = FALSE]
  /\ pc' = "session"
  /\ UNCHANGED <<memory, chain, prevInt2f, currDir, returnsTo, psp,
                 ownMemory, sessions, mounts>>

InvalidateDrive ==
  /\ pc = "invalidate"
  /\ cds' = [cds EXCEPT ![currDir] = Unused]
  /\ pc' = "session"
  /\ UNCHANGED <<memory, chain, prevInt2f, currDir, returnsTo, psp,
                 ownMemory, sessions, mounts>>

(* segread( &s ) is in VBoxAuxInitVirtual(), which nothing calls when a    *)
(* copy was found.                                                         *)
SegmentRead == FALSE

(* VBoxAuxEndSession(): a request to a port where no device of ours        *)
(* listens is lost, and so is one whose address has the wrong segment.     *)
VBoxAuxEndSession(pciPort, clientId) ==
  sessions' = IF SegmentRead /\ pciPort = PciPort THEN sessions \ {clientId}
              ELSE sessions

(* The arguments are passed in the wrong order.                            *)
EndSession ==
  /\ pc = "session"
  /\ VBoxAuxEndSession(ClientId, PciPort)
  /\ pc' = "switch"
  /\ UNCHANGED <<memory, chain, cds, prevInt2f, currDir, returnsTo, psp, ownMemory,
                 mounts>>

(* Mutant: the terminate address gets the caller's PSP.                    *)
SwitchPspNowhere ==
  /\ pc = "switch"
  /\ returnsTo' = psp /\ psp' = "tsr"
  /\ pc' = "tsrExit"
  /\ UNCHANGED <<memory, chain, cds, prevInt2f, currDir, ownMemory, sessions,
                 mounts>>

(* The resident copy's PSP gets TerminateTsr() as its terminate address    *)
(* and becomes the current one.                                            *)
SwitchPsp ==
  /\ pc = "switch"
  /\ returnsTo' = "terminateTsr" /\ psp' = "tsr"
  /\ pc' = "tsrExit"
  /\ UNCHANGED <<memory, chain, cds, prevInt2f, currDir, ownMemory, sessions,
                 mounts>>

(* INT 21h/4Ch frees the memory of the current process, makes its parent   *)
(* current, and jumps to its terminate address.                            *)
TsrExits ==
  /\ pc = "tsrExit"
  /\ memory' = "freed" /\ psp' = "shell"
  /\ pc' = returnsTo
  /\ UNCHANGED <<chain, cds, prevInt2f, currDir, returnsTo, ownMemory, sessions,
                 mounts>>

(* Mutant: the own PSP is not made current again.                          *)
TerminateTsrOnly ==
  /\ pc = "terminateTsr"
  /\ pc' = "exit"
  /\ UNCHANGED <<memory, chain, cds, prevInt2f, currDir, returnsTo, psp, ownMemory,
                 sessions, mounts>>

TerminateTsr ==
  /\ pc = "terminateTsr"
  /\ psp' = "own"
  /\ pc' = "exit"
  /\ UNCHANGED <<memory, chain, cds, prevInt2f, currDir, returnsTo, ownMemory,
                 sessions, mounts>>

(* INT 21h/4Ch of the transient program, under the PSP that is current.    *)
Exit ==
  /\ pc = "exit"
  /\ ownMemory' = (ownMemory /\ psp # "own")
  /\ psp' = "shell"
  /\ pc' = "shell"
  /\ UNCHANGED <<memory, chain, cds, prevInt2f, currDir, returnsTo, sessions, mounts>>

Program ==
  \/ AlreadyInstalled \/ Refuse \/ RestoreVector \/ InvalidateDrive
  \/ EndSession \/ SwitchPsp \/ TsrExits \/ TerminateTsr \/ Exit

Next ==
  \/ Program
  \/ Start \/ Reuse
  \/ \E t \in Others : Hook(t) \/ Unhook(t)

Spec == Init /\ [][Next]_vars

-----------------------------------------------------------------------------
(* Properties                                                              *)

(* Every variable keeps its type.                                          *)
TypeOK ==
  /\ pc \in PCs
  /\ memory \in {"alive", "freed", "reused"}
  /\ vector \in Handlers /\ previous \in [Handlers -> Handlers]
  /\ hooked \subseteq Others /\ prevInt2f \in Handlers
  /\ cds \in [Drives -> [magic : BOOLEAN, record : {"sig", "none"},
                         network : BOOLEAN]]
  /\ currDir \in Drives \cup {-1}
  /\ returnsTo \in {"shell", "terminateTsr"}
  /\ psp \in {"shell", "own", "tsr"}
  /\ ownMemory \in BOOLEAN
  /\ sessions \subseteq {ClientId}
  /\ mounts \subseteq Drives

(* The handlers in memory, ours until the copy is freed, and the programs  *)
(* whose handlers belong to the chain, ours until the vector is restored.  *)
Alive(h) == h = DOS \/ h \in hooked \/ (h = OURS /\ memory = "alive")
Linked(h) ==
  \/ h \in hooked
  \/ h = OURS /\ memory = "alive"
     /\ pc \notin {"invalidate", "session", "switch", "tsrExit"}

(* "Can't uninstall, another handler was installed" (UninstallDriver):     *)
(* whoever hooks the interrupt before or after the copy, no interrupt 2Fh  *)
(* runs into memory that was freed, and no handler of a resident program   *)
(* is cut off from the chain.                                              *)
HandlersAlive ==
  /\ Alive(vector)
  /\ \A h \in Handlers \ {DOS} : Alive(h) => Alive(previous[h])
  /\ \A h \in Handlers : Linked(h) \/ h = DOS =>
       h = vector \/ \E g \in Handlers : Linked(g) /\ previous[g] = h

(* "currDir points to the first drive CDS manged by the driver"            *)
(* (UninstallDriver): after a removal at most the drives behind the first  *)
(* one still point into the freed memory, so none does if there was one    *)
(* mount, and another /U then reports that no driver is installed.         *)
OnlyLaterDrivesDangle ==
  memory # "alive" =>
    \A d \in Drives : cds[d].record = "sig" => \E e \in mounts : e < d

(* "terminate successfully" (TerminateTsr): when the shell has control     *)
(* again, it is the current process, and the memory of the transient       *)
(* program is free, whether the copy was removed or not.                   *)
ShellGetsAllBack == pc = "shell" => psp = "shell" /\ ~ ownMemory

(* A copy is removed whole and once: its memory is given back only while   *)
(* it is allocated, after its first drive was invalidated and its handler  *)
(* taken out, also when a later /U finds the signature in freed memory     *)
(* through another drive.                                                  *)
RemovedWholeAndOnce ==
  pc = "tsrExit" =>
    /\ memory = "alive" /\ vector # OURS
    /\ currDir \in mounts /\ cds[currDir] = Unused

=============================================================================
