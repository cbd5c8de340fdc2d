--------------------------- MODULE Uninstall_proofs ---------------------------
(***************************************************************************)
(* The removal of a resident copy, proved for any drives and any number of *)
(* other resident programs.                                                *)
(***************************************************************************)
EXTENDS Uninstall, TLAPS

Removing    == {"invalidate", "session", "switch", "tsrExit"}
Invalidated == {"session", "switch", "tsrExit"}

(* The interrupt chain is a list: each handler of it has one caller, and   *)
(* the caller of the first is the vector.                                  *)
ChainInv ==
  /\ vector = DOS \/ Linked(vector)
  /\ \A h \in Handlers : Linked(h) =>
       /\ previous[h] = DOS \/ Linked(previous[h])
       /\ previous[h] # vector
       /\ \A g \in Handlers : Linked(g) /\ previous[g] = previous[h] => g = h
  /\ \A h \in Handlers : Linked(h) \/ h = DOS =>
       h = vector \/ \E g \in Handlers : Linked(g) /\ previous[g] = h

(* What the transient program has seen still holds, and what it has done   *)
(* so far is done.                                                         *)
RemovalInv ==
  /\ pc \in {"search", "found"} => prevInt2f = vector
  /\ pc \in Removing =>
       /\ memory = "alive" /\ vector = previous[OURS] /\ vector # OURS
       /\ currDir \in mounts
  /\ pc = "found" => currDir \in Drives /\ cds[currDir].record = "sig"

(* The first drive with the magic is the first mount while the copy is     *)
(* whole; once it is invalidated, what is left is behind it.               *)
DriveInv ==
  /\ \A d \in Drives : cds[d].record = "sig" => d \in mounts
  /\ memory = "alive" /\ pc \notin Invalidated => \A d \in mounts : cds[d] = Mounted
  /\ pc \in Removing \/ (pc = "found" /\ memory = "alive")
       => \A d \in mounts : currDir <= d
  /\ pc \in Invalidated => cds[currDir] = Unused
  /\ pc \in Invalidated \/ memory # "alive" =>
       \A d \in Drives : cds[d].record = "sig" => \E e \in mounts : e < d

(* Whose process is current, and where the resident copy's exit leads.     *)
ProcessInv ==
  /\ pc = "shell" => psp = "shell" /\ ~ ownMemory
  /\ pc \notin {"shell", "tsrExit", "terminateTsr"} => psp = "own"
  /\ pc = "tsrExit" => returnsTo = "terminateTsr"

IInv == TypeOK /\ ChainInv /\ RemovalInv /\ DriveInv /\ ProcessInv

LEMMA InitIInv == Init => IInv
<1> SUFFICES ASSUME Init PROVE IInv
  OBVIOUS
<1> USE UninstallAssumption DEF Handlers, OURS, DOS
<1>1. TypeOK
  BY DEF Init, TypeOK, PCs, Mounted, Unused
<1>2. ChainInv
  BY <1>1 DEF Init, ChainInv, Linked, TypeOK
<1>3. RemovalInv
  BY DEF Init, RemovalInv, Removing
<1>4. DriveInv
  BY DEF Init, DriveInv, Removing, Invalidated, Mounted, Unused
<1>5. ProcessInv
  BY DEF Init, ProcessInv
<1> QED BY <1>1, <1>2, <1>3, <1>4, <1>5 DEF IInv

LEMMA NextTypes == TypeOK /\ [Next]_vars => TypeOK'
<1> SUFFICES ASSUME TypeOK, [Next]_vars PROVE TypeOK'
  OBVIOUS
<1> USE UninstallAssumption DEF TypeOK, Handlers, OURS, DOS, PCs, chain
<1>1. CASE AlreadyInstalled
  BY <1>1 DEF AlreadyInstalled, FirstMagic
<1>2. CASE Refuse \/ RestoreVector
  BY <1>2 DEF Refuse, RestoreVector
<1>3. CASE InvalidateDrive
  BY <1>3 DEF InvalidateDrive, Unused
<1>4. CASE EndSession \/ SwitchPsp
  BY <1>4 DEF EndSession, VBoxAuxEndSession, SwitchPsp
<1>5. CASE TsrExits \/ TerminateTsr \/ Exit
  BY <1>5 DEF TsrExits, TerminateTsr, Exit
<1>6. CASE Start \/ Reuse
  BY <1>6 DEF Start, Reuse
<1>7. ASSUME NEW t \in Others, Hook(t) PROVE TypeOK'
  BY <1>7 DEF Hook
<1>8. ASSUME NEW t \in Others, Unhook(t) PROVE TypeOK'
  BY <1>8 DEF Unhook
<1>9. CASE UNCHANGED vars
  BY <1>9 DEF vars
<1> QED
  BY <1>1, <1>2, <1>3, <1>4, <1>5, <1>6, <1>7, <1>8, <1>9 DEF Next, Program

LEMMA NextChain == IInv /\ TypeOK' /\ [Next]_vars => ChainInv'
<1> SUFFICES ASSUME IInv, TypeOK', [Next]_vars PROVE ChainInv'
  OBVIOUS
<1> USE UninstallAssumption DEF Handlers, OURS, DOS
<1>1. CASE RestoreVector
  <2>1. vector = OURS /\ Linked(OURS)
    BY <1>1 DEF RestoreVector, IInv, ChainInv, RemovalInv
  <2>2. vector' = previous[OURS] /\ UNCHANGED <<previous, hooked>>
    BY <1>1 DEF RestoreVector
  <2>3. \A h \in Handlers : Linked(h)' <=> Linked(h) /\ h # OURS
    BY <1>1 DEF RestoreVector, Linked, IInv, TypeOK
  <2> QED BY <2>1, <2>2, <2>3 DEF IInv, TypeOK, ChainInv
<1>2. ASSUME NEW t \in Others, Hook(t) PROVE ChainInv'
  <2>1. vector' = t /\ previous' = [previous EXCEPT ![t] = vector]
    BY <1>2 DEF Hook
  <2>2. ~ Linked(t) /\ t # DOS
    BY <1>2 DEF Hook, Linked
  <2>3. \A h \in Handlers : Linked(h)' <=> Linked(h) \/ h = t
    BY <1>2 DEF Hook, Linked
  <2>4. \A h \in Handlers : h # t => previous'[h] = previous[h]
    BY <2>1 DEF IInv, TypeOK
  <2>5. previous'[t] = vector
    BY <2>1 DEF IInv, TypeOK
  <2>6. \A h \in Handlers : Linked(h) => previous[h] # t
    BY <2>2 DEF IInv, ChainInv
  <2> QED
    BY <2>1, <2>2, <2>3, <2>4, <2>5, <2>6 DEF IInv, TypeOK, ChainInv
<1>3. ASSUME NEW t \in Others, Unhook(t) PROVE ChainInv'
  <2>1. vector = t /\ vector' = previous[t] /\ UNCHANGED previous
    BY <1>3 DEF Unhook
  <2>2. Linked(t)
    BY <2>1 DEF IInv, ChainInv
  <2>3. \A h \in Handlers : Linked(h)' <=> Linked(h) /\ h # t
    BY <1>3 DEF Unhook, Linked
  <2> QED BY <2>1, <2>2, <2>3 DEF IInv, TypeOK, ChainInv
<1>4. ASSUME UNCHANGED chain, \A h \in Handlers : Linked(h)' <=> Linked(h)
      PROVE  ChainInv'
  BY <1>4 DEF IInv, TypeOK, ChainInv, chain
<1>5. CASE TsrExits
  BY <1>4, <1>5 DEF TsrExits, IInv, TypeOK, RemovalInv, Removing, Linked, chain
<1>6. CASE \/ AlreadyInstalled \/ Refuse \/ InvalidateDrive \/ EndSession
           \/ SwitchPsp \/ TerminateTsr \/ Exit \/ Start \/ Reuse
  BY <1>4, <1>6 DEF AlreadyInstalled, Refuse, InvalidateDrive, EndSession,
       SwitchPsp, TerminateTsr, Exit, Start, Reuse, Linked, chain
<1>7. CASE UNCHANGED vars
  BY <1>4, <1>7 DEF vars, Linked, chain
<1> QED BY <1>1, <1>2, <1>3, <1>5, <1>6, <1>7 DEF Next, Program

LEMMA NextRemoval == IInv /\ [Next]_vars => RemovalInv'
<1> SUFFICES ASSUME IInv, [Next]_vars PROVE RemovalInv'
  OBVIOUS
<1> USE UninstallAssumption DEF Handlers, OURS, DOS, Removing, RemovalInv, chain
<1>1. CASE AlreadyInstalled
  BY <1>1 DEF AlreadyInstalled, FirstMagic, SignatureAt, IInv, TypeOK
<1>2. CASE RestoreVector
  <2>1. Linked(vector) /\ vector = OURS
    BY <1>2 DEF RestoreVector, IInv, ChainInv
  <2>2. memory = "alive" /\ previous[OURS] # OURS
    BY <2>1, <1>2 DEF RestoreVector, Linked, IInv, ChainInv, TypeOK
  <2>3. currDir \in mounts
    BY <1>2 DEF RestoreVector, IInv, DriveInv
  <2> QED BY <2>1, <2>2, <2>3, <1>2 DEF RestoreVector, IInv
<1>3. CASE InvalidateDrive \/ Refuse \/ EndSession \/ SwitchPsp
  BY <1>3 DEF InvalidateDrive, Refuse, EndSession, SwitchPsp, IInv
<1>4. CASE TsrExits
  BY <1>4 DEF TsrExits, IInv, TypeOK
<1>5. CASE TerminateTsr \/ Exit \/ Start \/ Reuse
  BY <1>5 DEF TerminateTsr, Exit, Start, Reuse, IInv
<1>6. CASE \E t \in Others : Hook(t) \/ Unhook(t)
  BY <1>6 DEF Hook, Unhook, IInv
<1>7. CASE UNCHANGED vars
  BY <1>7 DEF vars, IInv
<1> QED BY <1>1, <1>2, <1>3, <1>4, <1>5, <1>6, <1>7 DEF Next, Program

LEMMA NextDrive == IInv /\ [Next]_vars => DriveInv'
<1> SUFFICES ASSUME IInv, [Next]_vars PROVE DriveInv'
  OBVIOUS
<1> USE DEF Removing, Invalidated, DriveInv, chain
<1>1. CASE AlreadyInstalled
  <2>1. memory = "alive" /\ pc' = "found" => \A d \in mounts : currDir' <= d
    BY <1>1, UninstallAssumption
    DEF AlreadyInstalled, FirstMagic, Mounted, IInv, TypeOK
  <2> QED BY <2>1, <1>1 DEF AlreadyInstalled, IInv
<1>2. CASE RestoreVector
  <2>1. memory = "alive"
    BY <1>2, UninstallAssumption
    DEF RestoreVector, IInv, TypeOK, ChainInv, RemovalInv, Linked, OURS, DOS
  <2> QED BY <2>1, <1>2 DEF RestoreVector, IInv
<1>3. CASE InvalidateDrive
  <2>1. memory = "alive" /\ currDir \in mounts
    BY <1>3 DEF InvalidateDrive, IInv, RemovalInv
  <2>2. \A d \in Drives : cds'[d] = IF d = currDir THEN Unused ELSE cds[d]
    BY <1>3 DEF InvalidateDrive, IInv, TypeOK
  <2>3. \A d \in Drives : cds'[d].record = "sig" => d \in mounts /\ d # currDir
    BY <2>2 DEF IInv, Unused
  <2>4. \A d \in mounts : d # currDir => currDir < d
    BY <1>3, UninstallAssumption, <2>1 DEF InvalidateDrive, IInv, TypeOK
  <2> QED BY <2>1, <2>2, <2>3, <2>4, <1>3 DEF InvalidateDrive, IInv, TypeOK
<1>4. CASE Refuse \/ EndSession \/ SwitchPsp
  BY <1>4 DEF Refuse, EndSession, SwitchPsp, IInv
<1>5. CASE TsrExits
  BY <1>5 DEF TsrExits, IInv, TypeOK
<1>6. CASE TerminateTsr \/ Exit \/ Start \/ Reuse
  BY <1>6 DEF TerminateTsr, Exit, Start, Reuse, IInv
<1>7. CASE \E t \in Others : Hook(t) \/ Unhook(t)
  BY <1>7 DEF Hook, Unhook, IInv
<1>8. CASE UNCHANGED vars
  BY <1>8 DEF vars, IInv
<1> QED BY <1>1, <1>2, <1>3, <1>4, <1>5, <1>6, <1>7, <1>8 DEF Next, Program

LEMMA NextProcess == IInv /\ [Next]_vars => ProcessInv'
<1> SUFFICES ASSUME IInv, [Next]_vars PROVE ProcessInv'
  OBVIOUS
<1> USE DEF ProcessInv, chain
<1>1. CASE \/ AlreadyInstalled \/ Refuse \/ RestoreVector \/ InvalidateDrive
           \/ EndSession \/ SwitchPsp
  BY <1>1 DEF AlreadyInstalled, Refuse, RestoreVector, InvalidateDrive,
              EndSession, SwitchPsp, IInv
<1>2. CASE TsrExits \/ TerminateTsr \/ Exit
  BY <1>2 DEF TsrExits, TerminateTsr, Exit, IInv, TypeOK
<1>3. CASE Start \/ Reuse
  BY <1>3 DEF Start, Reuse, IInv
<1>4. CASE \E t \in Others : Hook(t) \/ Unhook(t)
  BY <1>4 DEF Hook, Unhook, IInv
<1>5. CASE UNCHANGED vars
  BY <1>5 DEF vars, IInv
<1> QED BY <1>1, <1>2, <1>3, <1>4, <1>5 DEF Next, Program

LEMMA Invariance == Spec => []IInv
<1>1. IInv /\ [Next]_vars => IInv'
  BY NextTypes, NextChain, NextRemoval, NextDrive, NextProcess DEF IInv
<1> QED BY InitIInv, <1>1, PTL DEF Spec

(* Every variable keeps its type: the transient program, the chain, the    *)
(* drives and the owner of the memory, over any number of /U.              *)
THEOREM TypeCorrect == Spec => []TypeOK
<1>1. IInv => TypeOK
  BY DEF IInv
<1> QED BY <1>1, Invariance, PTL

(* No interrupt 2Fh runs into freed memory and no handler is cut off,      *)
(* however many other programs hook and release the interrupt, and however *)
(* often /U is tried.                                                      *)
THEOREM HandlersCorrect == Spec => []HandlersAlive
<1>1. IInv => HandlersAlive
  BY UninstallAssumption
  DEF IInv, TypeOK, ChainInv, RemovalInv, Removing, HandlersAlive, Alive, Linked,
      Handlers, OURS, DOS
<1> QED BY <1>1, Invariance, PTL

(* Only a live copy is removed, once its handler and its drive are out.    *)
THEOREM RemovalCorrect == Spec => []RemovedWholeAndOnce
<1>1. IInv => RemovedWholeAndOnce
  BY DEF IInv, RemovalInv, DriveInv, Removing, Invalidated, RemovedWholeAndOnce
<1> QED BY <1>1, Invariance, PTL

(* Whatever drives were mounted, no drive up to the first mount points     *)
(* into the freed memory.                                                  *)
THEOREM DrivesCorrect == Spec => []OnlyLaterDrivesDangle
<1>1. IInv => OnlyLaterDrivesDangle
  BY DEF IInv, DriveInv, OnlyLaterDrivesDangle
<1> QED BY <1>1, Invariance, PTL

(* The exit through the resident copy's PSP comes back to the transient    *)
(* program, which then ends as itself.                                     *)
THEOREM ProcessCorrect == Spec => []ShellGetsAllBack
<1>1. IInv => ShellGetsAllBack
  BY DEF IInv, ProcessInv, ShellGetsAllBack
<1> QED BY <1>1, Invariance, PTL

=============================================================================
