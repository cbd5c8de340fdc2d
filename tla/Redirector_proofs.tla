------------------------- MODULE Redirector_proofs -------------------------
(***************************************************************************)
(* Theorems about the resident handler, for every table of mounts, every   *)
(* set of drives and every depth of interrupts.                            *)
(***************************************************************************)
EXTENDS Redirector, SequenceTheorems, TLAPS

(* A call inside another is never one for the handler: it is looked at and *)
(* passed on, on the stack it came on.                                     *)
NestedInv ==
  /\ \A i \in 1 .. depth : i > 1 => calls[i].fun = "other" /\ calls[i].from = stack
  /\ \A i \in 1 .. depth : calls[i].fun = "other" =>
       calls[i].pc \in {"entry", "chain"} /\ calls[i].ax = "asGiven"

(* The call of DOS owns the static variables from the moment each of them  *)
(* is set, and came on the stack of DOS.                                   *)
OuterInv ==
  /\ depth = 0 => stack = "dos"
  /\ depth > 0 =>
       /\ calls[1].from = "dos"
       /\ calls[1].pc \in {"entry", "dispatch", "claim", "switch", "chain"}
            => stack = "dos" /\ calls[1].ax = "asGiven"
       /\ calls[1].pc \notin {"entry", "chain"} => r = 1
       /\ calls[1].pc \in {"claim", "switch", "success", "run", "time", "label", "leave"}
            => currFunction = calls[1].fun
       /\ calls[1].pc \in {"success", "run", "time", "label", "leave"}
            => dosStack = "dos" /\ fpStackParam = 1
       /\ calls[1].pc = "success" => calls[1].ax = "asGiven"
       /\ calls[1].pc \in {"run", "time", "label"} => calls[1].ax = "zero"
       /\ calls[1].pc \in {"time", "label"} => calls[1].fun = "VolumeId"
       /\ calls[1].pc = "leave" => calls[1].ax =
            IF calls[1].fun = "InstallationCheck" THEN "00FF" ELSE "zero"

(* A claimed call that the loops looked for has its mount at driveIdx.     *)
DriveInv ==
  depth > 0 /\ Scans(calls[1].fun) =>
    /\ calls[1].pc \in {"switch", "success", "run", "time", "label", "leave"}
         => IndexedDrive = calls[1].drive
    /\ calls[1].pc = "chain" => ~ IsMounted(calls[1].drive)

IInv == TypeOK /\ NestedInv /\ OuterInv /\ DriveInv

-----------------------------------------------------------------------------

(* Only a call of DOS gets past the first look at AH.                      *)
LEMMA ActiveIsOuter ==
  ASSUME TypeOK, NestedInv, NEW pc \in PCs \ {"entry", "chain"}, At(pc)
  PROVE  depth = 1 /\ current = calls[1] /\ calls[1] \in Calls
<1>1. depth \in Nat /\ depth > 0 /\ current \in Calls
  BY DEF TypeOK, At, depth, current
<1>2. depth \in 1 .. depth /\ current.fun # "other"
  BY <1>1 DEF NestedInv, At, current, PCs
<1>. QED  BY <1>1, <1>2 DEF NestedInv, current

(* What moving the running call on does to the sequence of calls.          *)
LEMMA GoToFacts ==
  ASSUME TypeOK, depth > 0, NEW pc \in PCs, GoTo(pc)
  PROVE  /\ calls' \in Seq(Calls) /\ depth' = depth
         /\ \A i \in 1 .. depth : i # depth => calls'[i] = calls[i]
         /\ calls'[depth] = [calls[depth] EXCEPT !.pc = pc]
<1>1. calls \in Seq(Calls) /\ depth \in Nat /\ depth \in 1 .. depth /\ calls[depth] \in Calls
  BY DEF TypeOK, depth
<1>2. [calls[depth] EXCEPT !.pc = pc] \in Calls
  BY <1>1 DEF Calls
<1>3. calls' = [calls EXCEPT ![depth] = [calls[depth] EXCEPT !.pc = pc]]
  BY DEF GoTo
<1>. QED  BY <1>1, <1>2, <1>3 DEF depth

(* What the return of the running call does to it.                         *)
LEMMA ReturnFacts ==
  ASSUME TypeOK, depth > 0, Return
  PROVE  /\ calls' \in Seq(Calls) /\ depth' = depth - 1
         /\ \A i \in 1 .. depth - 1 : calls'[i] = calls[i]
<1>1. calls \in Seq(Calls) /\ depth \in Nat /\ depth = Len(calls)
  BY DEF TypeOK, depth
<1>2. calls' = SubSeq(calls, 1, depth - 1)
  BY DEF Return
<1>3. \A i \in 1 .. depth - 1 : calls[i] \in Calls
  BY <1>1
<1>4. /\ SubSeq(calls, 1, depth - 1) \in Seq(Calls)
      /\ Len(SubSeq(calls, 1, depth - 1))
           = IF 1 <= depth - 1 THEN (depth - 1) - 1 + 1 ELSE 0
      /\ \A i \in 1 .. (depth - 1) - 1 + 1 :
           SubSeq(calls, 1, depth - 1)[i] = calls[1 + i - 1]
  BY <1>1, <1>3, SubSeqProperties
<1>5. /\ Len(SubSeq(calls, 1, depth - 1)) = depth - 1
      /\ 1 .. (depth - 1) - 1 + 1 = 1 .. depth - 1
  BY <1>1, <1>4
<1>6. \A i \in 1 .. depth - 1 : 1 + i - 1 = i
  BY <1>1
<1>7. \A i \in 1 .. depth - 1 : calls'[i] = calls[i]
  BY <1>2, <1>4, <1>5, <1>6
<1>. QED  BY <1>2, <1>4, <1>5, <1>7 DEF depth

LEMMA AppendFacts ==
  ASSUME TypeOK, NEW s \in Seq(Calls), NEW c \in Calls, calls' = Append(s, c)
  PROVE  /\ calls' \in Seq(Calls) /\ depth' = Len(s) + 1
         /\ \A i \in 1 .. Len(s) : calls'[i] = s[i]
         /\ calls'[Len(s) + 1] = c
BY DEF depth

LEMMA CallsOfType ==
  ASSUME TypeOK, NEW fun \in Functions, NEW call \in CallsOf(fun)
  PROVE  /\ call \in Calls /\ call.fun = fun /\ call.from = stack
         /\ call.pc = "entry" /\ call.ax = "asGiven"
<1>1. PICK drive \in Drives \cup {NoDrive}, cds \in Drives \cup {NoDrive} :
        call = NewCall(fun, drive, cds)
  BY DEF CallsOf
<1>. QED  BY <1>1 DEF NewCall, Calls, TypeOK, PCs, Answers

(* The loops stop at the mount of the drive, and past the last without one.*)
LEMMA ScanStopFacts ==
  ASSUME TypeOK, NEW d
  PROVE  /\ ScanStop(d) \in 0 .. numMounts /\ ScanStop(d) \in 0 .. MAX_MOUNTS
         /\ ScanStop(d) < numMounts <=> IsMounted(d)
         /\ IsMounted(d) => volInfo[ScanStop(d) + 1] = d
<1>1. numMounts \in 0 .. MAX_MOUNTS /\ MAX_MOUNTS \in Nat
  BY MountsAssumption DEF TypeOK, Tables, numMounts
<1>2. CASE IsMounted(d)
  <2>. DEFINE i == CHOOSE j \in 1 .. numMounts : volInfo[j] = d
  <2>1. i \in 1 .. numMounts /\ volInfo[i] = d
    BY <1>2 DEF IsMounted
  <2>2. ScanStop(d) = i - 1
    BY <1>2 DEF ScanStop
  <2>. HIDE DEF i
  <2>. QED  BY <1>1, <1>2, <2>1, <2>2
<1>3. CASE ~ IsMounted(d)
  BY <1>1, <1>3 DEF ScanStop
<1>. QED  BY <1>2, <1>3

(* What a step of the outer call to c leaves behind.                       *)
LEMMA OuterFacts ==
  ASSUME TypeOK, depth = 1, NEW c \in Calls, calls' = [calls EXCEPT ![1] = c],
         c.fun # "other"
  PROVE  calls' \in Seq(Calls) /\ depth' = 1 /\ calls'[1] = c /\ NestedInv'
<1>1. calls \in Seq(Calls) /\ Len(calls) = 1
  BY DEF TypeOK, depth
<1>2. calls' \in Seq(Calls) /\ depth' = 1 /\ calls'[1] = c
  BY <1>1 DEF depth
<1>. QED  BY <1>2 DEF NestedInv

-----------------------------------------------------------------------------

LEMMA InitIInv == Init => IInv
<1>. SUFFICES ASSUME Init PROVE IInv
  OBVIOUS
<1>1. depth = 0
  BY DEF Init, depth
<1>2. TypeOK
  BY MountsAssumption, DepthAssumption DEF Init, TypeOK, Stacks
<1>. QED  BY <1>1, <1>2 DEF IInv, NestedInv, OuterInv, DriveInv, Init

LEMMA DosCallsKeeps == IInv /\ DosCalls => IInv'
<1>. SUFFICES ASSUME IInv, DosCalls PROVE IInv'
  OBVIOUS
<1>0. TypeOK /\ OuterInv /\ depth = 0
  BY DEF IInv, DosCalls, depth
<1>1. PICK fun \in Functions : \E call \in CallsOf(fun) : calls' = <<call>>
  BY DEF DosCalls
<1>2. PICK call \in CallsOf(fun) : calls' = <<call>>
  BY <1>1
<1>3. /\ call \in Calls /\ call.from = "dos"
      /\ call.pc = "entry" /\ call.ax = "asGiven"
  BY <1>0, <1>2, CallsOfType DEF OuterInv
<1>4. calls' \in Seq(Calls) /\ depth' = 1 /\ calls'[1] = call
  BY <1>2, <1>3 DEF depth
<1>5. TypeOK'
  BY <1>0, <1>4 DEF DosCalls, TypeOK, statics
<1>6. NestedInv' /\ DriveInv'
  BY <1>3, <1>4 DEF NestedInv, DriveInv
<1>7. OuterInv'
  BY <1>0, <1>3, <1>4 DEF OuterInv, DosCalls
<1>. QED  BY <1>5, <1>6, <1>7 DEF IInv

LEMMA InterruptKeeps == IInv /\ Interrupt => IInv'
<1>. SUFFICES ASSUME IInv, Interrupt PROVE IInv'
  OBVIOUS
<1>0. TypeOK /\ NestedInv /\ OuterInv /\ DriveInv /\ depth \in Nat /\ depth > 0
  BY DEF IInv, Interrupt, TypeOK, depth
<1>1. PICK fun \in Interrupting : \E call \in CallsOf(fun) : calls' = Append(calls, call)
  BY DEF Interrupt
<1>2. PICK call \in CallsOf(fun) : calls' = Append(calls, call)
  BY <1>1
<1>3. fun \in Functions /\ fun = "other"
  BY InterruptingAssumption DEF Functions
<1>4. /\ call \in Calls /\ call.fun = "other" /\ call.from = stack
      /\ call.pc = "entry" /\ call.ax = "asGiven"
  BY <1>0, <1>2, <1>3, CallsOfType
<1>5. /\ calls' \in Seq(Calls) /\ depth' = depth + 1
      /\ \A i \in 1 .. depth : calls'[i] = calls[i]
      /\ calls'[depth + 1] = call
  BY <1>0, <1>2, <1>4, AppendFacts DEF TypeOK, depth
<1>6. TypeOK'
  BY <1>0, <1>5 DEF Interrupt, TypeOK, statics
<1>7. NestedInv'
  <2>1. stack' = stack
    BY DEF Interrupt
  <2>2. \A i \in 1 .. depth + 1 : i \in 1 .. depth \/ i = depth + 1
    BY <1>0
  <2>3. \A i \in 1 .. depth : i > 1 => calls'[i].fun = "other" /\ calls'[i].from = stack'
    BY <1>0, <1>5, <2>1 DEF NestedInv
  <2>4. \A i \in 1 .. depth : calls'[i].fun = "other" =>
          calls'[i].pc \in {"entry", "chain"} /\ calls'[i].ax = "asGiven"
    BY <1>0, <1>5 DEF NestedInv
  <2>. QED  BY <1>4, <1>5, <2>1, <2>2, <2>3, <2>4 DEF NestedInv
<1>8. OuterInv' /\ DriveInv'
  BY <1>0, <1>5 DEF OuterInv, DriveInv, Interrupt, statics, IndexedDrive, IsMounted, numMounts
<1>. QED  BY <1>6, <1>7, <1>8 DEF IInv

LEMMA EntryKeeps == IInv /\ Entry => IInv'
<1>. SUFFICES ASSUME IInv, Entry PROVE IInv'
  OBVIOUS
<1>0. TypeOK /\ NestedInv /\ OuterInv /\ DriveInv /\ depth \in Nat /\ depth > 0
  BY DEF IInv, Entry, At, TypeOK, depth
<1>a. calls[depth] \in Calls /\ calls[depth].pc = "entry" /\ depth \in 1 .. depth
  BY <1>0 DEF TypeOK, Entry, At, current, depth
<1>1. CASE current.fun = "other" /\ GoTo("chain") /\ UNCHANGED r
  <2>. DEFINE c == [calls[depth] EXCEPT !.pc = "chain"]
  <2>1. /\ calls' \in Seq(Calls) /\ depth' = depth
        /\ \A i \in 1 .. depth : i # depth => calls'[i] = calls[i]
        /\ calls'[depth] = c
    BY <1>0, <1>1, GoToFacts DEF PCs
  <2>2. calls[depth].fun = "other" /\ calls[depth].ax = "asGiven"
    BY <1>0, <1>1, <1>a DEF NestedInv, current
  <2>3. /\ c.fun = "other" /\ c.pc = "chain" /\ c.ax = "asGiven"
        /\ c.from = calls[depth].from
    BY <1>a, <2>2 DEF Calls
  <2>. HIDE DEF c
  <2>4. TypeOK'
    BY <1>0, <1>1, <2>1 DEF Entry, TypeOK
  <2>5. stack' = stack
    BY DEF Entry
  <2>6. \A i \in 1 .. depth : i > 1 => calls'[i].fun = "other" /\ calls'[i].from = stack
    BY <1>0, <2>1, <2>3 DEF NestedInv
  <2>7. \A i \in 1 .. depth : calls'[i].fun = "other" =>
          calls'[i].pc \in {"entry", "chain"} /\ calls'[i].ax = "asGiven"
    BY <1>0, <2>1, <2>3 DEF NestedInv
  <2>8. NestedInv'
    BY <2>1, <2>5, <2>6, <2>7 DEF NestedInv
  <2>9. CASE depth = 1
    <3>1. OuterInv'
      BY <1>0, <1>1, <1>a, <2>1, <2>3, <2>9 DEF OuterInv, Entry
    <3>2. DriveInv'
      BY <2>1, <2>3, <2>9 DEF DriveInv, Scans
    <3>. QED  BY <2>4, <2>8, <3>1, <3>2 DEF IInv
  <2>10. CASE depth # 1
    <3>1. calls'[1] = calls[1] /\ depth' > 0
      BY <1>0, <2>1, <2>10
    <3>2. OuterInv' /\ DriveInv'
      BY <1>0, <1>1, <3>1
      DEF OuterInv, DriveInv, Entry, IndexedDrive, IsMounted, numMounts
    <3>. QED  BY <2>4, <2>8, <3>2 DEF IInv
  <2>. QED  BY <2>9, <2>10
<1>2. CASE current.fun # "other" /\ GoTo("dispatch") /\ r' = depth
  <2>1. depth = 1
    BY <1>0, <1>2 DEF NestedInv, current
  <2>. DEFINE c == [calls[1] EXCEPT !.pc = "dispatch"]
  <2>2. calls[1] \in Calls /\ calls[1].pc = "entry" /\ calls[1].fun # "other"
    BY <1>2, <1>a, <2>1 DEF current
  <2>3. /\ c \in Calls /\ c.pc = "dispatch"
        /\ \A f \in {"fun", "drive", "cds", "from", "ax"} : c[f] = calls[1][f]
    BY <2>2 DEF Calls, PCs
  <2>4. calls' = [calls EXCEPT ![1] = c]
    BY <1>2, <2>1 DEF GoTo
  <2>. HIDE DEF c
  <2>5. calls' \in Seq(Calls) /\ depth' = 1 /\ calls'[1] = c /\ NestedInv'
    BY <1>0, <2>1, <2>2, <2>3, <2>4, OuterFacts
  <2>6. TypeOK'
    BY <1>0, <1>2, <2>1, <2>5, DepthAssumption DEF Entry, TypeOK
  <2>7. OuterInv'
    BY <1>0, <1>2, <2>1, <2>2, <2>3, <2>5 DEF OuterInv, Entry
  <2>8. DriveInv'
    BY <2>3, <2>5 DEF DriveInv
  <2>. QED  BY <2>5, <2>6, <2>7, <2>8 DEF IInv
<1>. QED  BY <1>1, <1>2 DEF Entry

(* What is known when an action past the first look at AH is taken.        *)
LEMMA ActiveFacts ==
  ASSUME IInv, NEW pc \in PCs \ {"entry", "chain"}, At(pc)
  PROVE  /\ TypeOK /\ NestedInv /\ OuterInv /\ DriveInv
         /\ calls \in Seq(Calls) /\ depth = 1 /\ current = calls[1] /\ r = 1
         /\ calls[1] \in Calls /\ calls[1].pc = pc /\ calls[1].fun # "other"
<1>1. TypeOK /\ NestedInv /\ OuterInv /\ DriveInv
  BY DEF IInv
<1>2. depth = 1 /\ current = calls[1] /\ calls[1] \in Calls
  BY <1>1, ActiveIsOuter
<1>3. calls[1].pc = pc
  BY <1>2 DEF At
<1>4. calls[1].fun # "other"
  BY <1>1, <1>2, <1>3 DEF NestedInv
<1>5. r = 1
  BY <1>1, <1>2, <1>3 DEF OuterInv
<1>. QED  BY <1>1, <1>2, <1>3, <1>4, <1>5 DEF TypeOK

(* The outer call moves on, with everything else of it as it was.          *)
LEMMA MoveFacts ==
  ASSUME IInv, NEW pc \in PCs \ {"entry", "chain"}, At(pc),
         NEW to \in PCs, GoTo(to)
  PROVE  /\ calls' \in Seq(Calls) /\ depth' = 1 /\ NestedInv'
         /\ calls'[1].pc = to /\ calls'[1].fun = calls[1].fun
         /\ calls'[1].drive = calls[1].drive /\ calls'[1].from = calls[1].from
         /\ calls'[1].ax = calls[1].ax
<1>. DEFINE c == [calls[1] EXCEPT !.pc = to]
<1>1. /\ TypeOK /\ depth = 1 /\ calls[1] \in Calls /\ calls[1].fun # "other"
  BY ActiveFacts
<1>2. /\ c \in Calls /\ c.pc = to /\ c.fun = calls[1].fun
      /\ c.drive = calls[1].drive /\ c.from = calls[1].from /\ c.ax = calls[1].ax
  BY <1>1 DEF Calls
<1>3. calls' = [calls EXCEPT ![1] = c]
  BY <1>1 DEF GoTo
<1>. HIDE DEF c
<1>. QED  BY <1>1, <1>2, <1>3, OuterFacts

LEMMA DispatchKeeps == IInv /\ Dispatch => IInv'
<1>. SUFFICES ASSUME IInv, Dispatch PROVE IInv'
  OBVIOUS
<1>0. At("dispatch")
  BY DEF Dispatch
<1>1. /\ TypeOK /\ OuterInv /\ depth = 1 /\ r = 1 /\ current = calls[1]
      /\ calls[1] \in Calls /\ calls[1].pc = "dispatch"
  BY <1>0, ActiveFacts DEF PCs
<1>2. PICK to \in {"chain", "claim"} :
        /\ GoTo(to)
        /\ to = "chain" => calls[1].fun = "unsupported" /\ currFunction' = None
        /\ to = "claim" => currFunction' = calls[1].fun
  BY <1>1 DEF Dispatch
<1>3. /\ calls' \in Seq(Calls) /\ depth' = 1 /\ NestedInv'
      /\ calls'[1].pc = to /\ calls'[1].fun = calls[1].fun
      /\ calls'[1].from = calls[1].from /\ calls'[1].ax = calls[1].ax
  BY <1>0, <1>2, MoveFacts DEF PCs
<1>4. TypeOK'
  <2>1. currFunction' \in Functions \cup {None}
    BY <1>1, <1>2 DEF Calls
  <2>. QED  BY <1>1, <1>3, <2>1 DEF Dispatch, TypeOK
<1>5. OuterInv'
  BY <1>1, <1>2, <1>3 DEF OuterInv, Dispatch
<1>6. DriveInv'
  BY <1>2, <1>3 DEF DriveInv, Scans
<1>. QED  BY <1>3, <1>4, <1>5, <1>6 DEF IInv

LEMMA ClaimKeeps == IInv /\ Claim => IInv'
<1>. SUFFICES ASSUME IInv, Claim PROVE IInv'
  OBVIOUS
<1>0. At("claim")
  BY DEF Claim
<1>1. /\ TypeOK /\ OuterInv /\ depth = 1 /\ r = 1 /\ current = calls[1]
      /\ calls[1] \in Calls /\ calls[1].pc = "claim"
  BY <1>0, ActiveFacts DEF PCs
<1>. DEFINE stop == ScanStop(calls[1].drive)
<1>2. PICK to \in {"switch", "chain"} :
        GoTo(to) /\ (to = "switch" <=> IsCallForUs(calls[1].fun))
  BY <1>1 DEF Claim
<1>3. /\ calls' \in Seq(Calls) /\ depth' = 1 /\ NestedInv'
      /\ calls'[1].pc = to /\ calls'[1].fun = calls[1].fun
      /\ calls'[1].drive = calls[1].drive
      /\ calls'[1].from = calls[1].from /\ calls'[1].ax = calls[1].ax
  BY <1>0, <1>2, MoveFacts DEF PCs
<1>4. /\ stop \in 0 .. MAX_MOUNTS /\ stop \in 0 .. numMounts
      /\ stop < numMounts <=> IsMounted(calls[1].drive)
      /\ IsMounted(calls[1].drive) => volInfo[stop + 1] = calls[1].drive
  BY <1>1, ScanStopFacts
<1>5. Scans(calls[1].fun) => driveIdx' = stop /\ (to = "switch" <=> stop < numMounts)
  BY <1>1, <1>2 DEF Claim, IsCallForUs, Scans
<1>6. ~ Scans(calls[1].fun) => driveIdx' = driveIdx
  BY <1>1 DEF Claim
<1>7. volInfo' = volInfo
  BY DEF Claim
<1>. HIDE DEF stop
<1>8. TypeOK'
  BY <1>1, <1>3, <1>4, <1>5, <1>6 DEF Claim, TypeOK
<1>9. OuterInv'
  BY <1>1, <1>2, <1>3 DEF OuterInv, Claim
<1>10. DriveInv'
  BY <1>2, <1>3, <1>4, <1>5, <1>7 DEF DriveInv, IndexedDrive, IsMounted, numMounts, Scans
<1>. QED  BY <1>3, <1>8, <1>9, <1>10 DEF IInv

(* A step that moves the outer call on behind the claim and leaves the     *)
(* table and driveIdx alone keeps DriveInv.                                *)
LEMMA SameDrive ==
  ASSUME DriveInv, depth = 1, depth' = 1, UNCHANGED <<volInfo, driveIdx>>,
         calls'[1].fun = calls[1].fun, calls'[1].drive = calls[1].drive,
         calls[1].pc \in {"switch", "success", "run", "time", "label"},
         calls'[1].pc # "chain"
  PROVE  DriveInv'
BY DEF DriveInv, Scans, IndexedDrive, numMounts

LEMMA SwitchKeeps == IInv /\ SwitchStack => IInv'
<1>. SUFFICES ASSUME IInv, SwitchStack PROVE IInv'
  OBVIOUS
<1>0. At("switch") /\ GoTo("success")
  BY DEF SwitchStack
<1>1. /\ TypeOK /\ OuterInv /\ DriveInv /\ depth = 1 /\ r = 1
      /\ calls[1] \in Calls /\ calls[1].pc = "switch"
  BY <1>0, ActiveFacts DEF PCs
<1>2. /\ calls' \in Seq(Calls) /\ depth' = 1 /\ NestedInv'
      /\ calls'[1].pc = "success" /\ calls'[1].fun = calls[1].fun
      /\ calls'[1].drive = calls[1].drive
      /\ calls'[1].from = calls[1].from /\ calls'[1].ax = calls[1].ax
  BY <1>0, MoveFacts DEF PCs
<1>3. TypeOK'
  BY <1>1, <1>2, DepthAssumption DEF SwitchStack, TypeOK, Stacks
<1>4. OuterInv'
  BY <1>1, <1>2 DEF OuterInv, SwitchStack
<1>5. DriveInv'
  BY <1>1, <1>2, SameDrive DEF SwitchStack
<1>. QED  BY <1>2, <1>3, <1>4, <1>5 DEF IInv

(* The outer call moves on with an answer in its own registers.            *)
LEMMA AnswerFacts ==
  ASSUME IInv, NEW pc \in PCs \ {"entry", "chain"}, At(pc),
         NEW to \in PCs, NEW ax \in Answers,
         calls' = [calls EXCEPT ![depth].pc = to, ![r].ax = ax]
  PROVE  /\ calls' \in Seq(Calls) /\ depth' = 1 /\ NestedInv'
         /\ calls'[1].pc = to /\ calls'[1].fun = calls[1].fun
         /\ calls'[1].drive = calls[1].drive /\ calls'[1].from = calls[1].from
         /\ calls'[1].ax = ax
<1>. DEFINE c == [calls[1] EXCEPT !.pc = to, !.ax = ax]
<1>1. /\ TypeOK /\ depth = 1 /\ r = 1 /\ calls \in Seq(Calls)
      /\ calls[1] \in Calls /\ calls[1].fun # "other"
  BY ActiveFacts
<1>2. /\ c \in Calls /\ c.pc = to /\ c.fun = calls[1].fun
      /\ c.drive = calls[1].drive /\ c.from = calls[1].from /\ c.ax = ax
  BY <1>1 DEF Calls
<1>3. calls' = [calls EXCEPT ![1] = c]
  BY <1>1 DEF depth
<1>. HIDE DEF c
<1>. QED  BY <1>1, <1>2, <1>3, OuterFacts

LEMMA SuccessKeeps == IInv /\ Success => IInv'
<1>. SUFFICES ASSUME IInv, Success PROVE IInv'
  OBVIOUS
<1>0. At("success")
  BY DEF Success
<1>1. /\ TypeOK /\ OuterInv /\ DriveInv /\ depth = 1 /\ r = 1
      /\ calls[1] \in Calls /\ calls[1].pc = "success"
  BY <1>0, ActiveFacts DEF PCs
<1>2. /\ calls' \in Seq(Calls) /\ depth' = 1 /\ NestedInv'
      /\ calls'[1].pc = "run" /\ calls'[1].fun = calls[1].fun
      /\ calls'[1].drive = calls[1].drive
      /\ calls'[1].from = calls[1].from /\ calls'[1].ax = "zero"
  BY <1>0, AnswerFacts DEF Success, PCs, Answers
<1>3. TypeOK'
  BY <1>1, <1>2 DEF Success, TypeOK, statics
<1>4. OuterInv'
  BY <1>1, <1>2 DEF OuterInv, Success, statics
<1>5. DriveInv'
  BY <1>1, <1>2, SameDrive DEF Success, statics
<1>. QED  BY <1>2, <1>3, <1>4, <1>5 DEF IInv

LEMMA InstallationCheckKeeps == IInv /\ InstallationCheck => IInv'
<1>. SUFFICES ASSUME IInv, InstallationCheck PROVE IInv'
  OBVIOUS
<1>0. At("run")
  BY DEF InstallationCheck
<1>1. /\ TypeOK /\ OuterInv /\ DriveInv /\ depth = 1 /\ r = 1
      /\ calls[1] \in Calls /\ calls[1].pc = "run"
  BY <1>0, ActiveFacts DEF PCs
<1>2. /\ calls' \in Seq(Calls) /\ depth' = 1 /\ NestedInv'
      /\ calls'[1].pc = "leave" /\ calls'[1].fun = calls[1].fun
      /\ calls'[1].drive = calls[1].drive
      /\ calls'[1].from = calls[1].from /\ calls'[1].ax = "00FF"
  BY <1>0, AnswerFacts DEF InstallationCheck, PCs, Answers
<1>3. calls[1].fun = "InstallationCheck"
  BY <1>1 DEF OuterInv, InstallationCheck
<1>4. TypeOK'
  BY <1>1, <1>2 DEF InstallationCheck, TypeOK, statics
<1>5. OuterInv'
  BY <1>1, <1>2, <1>3 DEF OuterInv, InstallationCheck, statics
<1>6. DriveInv'
  BY <1>1, <1>2, SameDrive DEF InstallationCheck, statics
<1>. QED  BY <1>2, <1>4, <1>5, <1>6 DEF IInv

LEMMA RunStubKeeps == IInv /\ RunStub => IInv'
<1>. SUFFICES ASSUME IInv, RunStub PROVE IInv'
  OBVIOUS
<1>0. At("run") /\ GoTo("leave")
  BY DEF RunStub
<1>1. /\ TypeOK /\ OuterInv /\ DriveInv /\ depth = 1 /\ r = 1
      /\ calls[1] \in Calls /\ calls[1].pc = "run"
  BY <1>0, ActiveFacts DEF PCs
<1>2. /\ calls' \in Seq(Calls) /\ depth' = 1 /\ NestedInv'
      /\ calls'[1].pc = "leave" /\ calls'[1].fun = calls[1].fun
      /\ calls'[1].drive = calls[1].drive
      /\ calls'[1].from = calls[1].from /\ calls'[1].ax = calls[1].ax
  BY <1>0, MoveFacts DEF PCs
<1>3. calls[1].fun # "InstallationCheck"
  BY <1>1 DEF OuterInv, RunStub
<1>4. TypeOK'
  BY <1>1, <1>2 DEF RunStub, TypeOK, statics
<1>5. OuterInv'
  BY <1>1, <1>2, <1>3 DEF OuterInv, RunStub, statics
<1>6. DriveInv'
  BY <1>1, <1>2, SameDrive DEF RunStub, statics
<1>. QED  BY <1>2, <1>4, <1>5, <1>6 DEF IInv

LEMMA IndexedDriveType == TypeOK => IndexedDrive \in Drives \cup {NoDrive}
BY DEF TypeOK, Tables, IndexedDrive, numMounts

LEMMA UpdateFacts ==
  ASSUME NEW q \in Seq(Calls), Len(q) = 1, NEW c \in Calls
  PROVE  /\ [q EXCEPT ![1] = c] \in Seq(Calls) /\ Len([q EXCEPT ![1] = c]) = 1
         /\ [q EXCEPT ![1] = c][1] = c
OBVIOUS

LEMMA FindFirstKeeps == IInv /\ FindFirst => IInv'
<1>. SUFFICES ASSUME IInv, FindFirst PROVE IInv'
  OBVIOUS
<1>0. At("run")
  BY DEF FindFirst
<1>1. /\ TypeOK /\ OuterInv /\ depth = 1 /\ r = 1 /\ calls \in Seq(Calls)
      /\ calls[1] \in Calls /\ calls[1].pc = "run" /\ calls[1].fun # "other"
  BY <1>0, ActiveFacts DEF PCs
<1>2. calls[1].fun = "VolumeId" /\ dosStack = "dos"
  BY <1>1 DEF OuterInv, FindFirst
<1>. DEFINE c == [calls[1] EXCEPT !.pc = "time"]
            n == [NewCall("other", NoDrive, NoDrive) EXCEPT !.from = dosStack]
            s == [calls EXCEPT ![1] = c]
<1>3. /\ c \in Calls /\ c.pc = "time" /\ c.fun = "VolumeId"
      /\ c.from = calls[1].from /\ c.ax = calls[1].ax
  BY <1>1, <1>2 DEF Calls, PCs
<1>4. /\ n \in Calls /\ n.fun = "other" /\ n.pc = "entry"
      /\ n.from = dosStack /\ n.ax = "asGiven"
  BY <1>2 DEF NewCall, Calls, Functions, Stacks, PCs, Answers
<1>5. calls' = Append(s, n)
  BY <1>1 DEF FindFirst
<1>. HIDE DEF c, n
<1>6. s \in Seq(Calls) /\ Len(s) = 1 /\ s[1] = c
  <2>1. Len(calls) = 1 /\ c \in Calls
    BY <1>1, <1>3 DEF depth
  <2>. QED  BY <1>1, <2>1, UpdateFacts
<1>. HIDE DEF s
<1>7. calls' \in Seq(Calls) /\ depth' = 2 /\ calls'[1] = c /\ calls'[2] = n
  BY <1>1, <1>4, <1>5, <1>6, AppendFacts
<1>8. TypeOK'
  BY <1>1, <1>2, <1>7, IndexedDriveType DEF FindFirst, TypeOK, statics, Stacks
<1>9. NestedInv'
  <2>1. stack' = dosStack
    BY DEF FindFirst
  <2>2. \A i \in 1 .. 2 : i = 1 \/ i = 2
    OBVIOUS
  <2>. QED  BY <1>3, <1>4, <1>7, <2>1, <2>2 DEF NestedInv
<1>10. OuterInv'
  BY <1>1, <1>2, <1>3, <1>7 DEF OuterInv, FindFirst, statics
<1>11. DriveInv'
  BY <1>3, <1>7 DEF DriveInv, Scans
<1>. QED  BY <1>8, <1>9, <1>10, <1>11 DEF IInv

LEMMA TimeAndLabelKeep == IInv /\ (GotDosTime \/ FillLabel) => IInv'
<1>. SUFFICES ASSUME IInv, GotDosTime \/ FillLabel PROVE IInv'
  OBVIOUS
<1>1. PICK pc \in {"time", "label"} : At(pc) /\ GoTo(IF pc = "time" THEN "label" ELSE "leave")
  BY DEF GotDosTime, FillLabel
<1>2. PICK to \in {"label", "leave"} : GoTo(to) /\ (to = "label" <=> pc = "time")
  BY <1>1
<1>3. /\ TypeOK /\ OuterInv /\ DriveInv /\ depth = 1 /\ r = 1
      /\ calls[1] \in Calls /\ calls[1].pc = pc /\ current = calls[1]
  BY <1>1, ActiveFacts DEF PCs
<1>4. /\ calls' \in Seq(Calls) /\ depth' = 1 /\ NestedInv'
      /\ calls'[1].pc = to /\ calls'[1].fun = calls[1].fun
      /\ calls'[1].drive = calls[1].drive
      /\ calls'[1].from = calls[1].from /\ calls'[1].ax = calls[1].ax
  BY <1>1, <1>2, MoveFacts DEF PCs
<1>5. TypeOK'
  BY <1>3, <1>4, IndexedDriveType DEF GotDosTime, FillLabel, TypeOK, statics, Stacks
<1>6. OuterInv'
  BY <1>1, <1>2, <1>3, <1>4 DEF OuterInv, GotDosTime, FillLabel, statics
<1>7. DriveInv'
  BY <1>3, <1>4, SameDrive DEF GotDosTime, FillLabel, statics
<1>. QED  BY <1>4, <1>5, <1>6, <1>7 DEF IInv

LEMMA LeaveKeeps == IInv /\ Leave => IInv'
<1>. SUFFICES ASSUME IInv, Leave PROVE IInv'
  OBVIOUS
<1>0. At("leave") /\ Return
  BY DEF Leave
<1>1. TypeOK /\ OuterInv /\ depth = 1 /\ calls[1].pc = "leave"
  BY <1>0, ActiveFacts DEF PCs
<1>2. calls' \in Seq(Calls) /\ depth' = 0
  BY <1>0, <1>1, ReturnFacts
<1>3. stack' = "dos"
  BY <1>1 DEF OuterInv, Leave
<1>4. TypeOK'
  BY <1>1, <1>2, <1>3 DEF Leave, TypeOK, statics, Stacks
<1>. QED  BY <1>2, <1>3, <1>4 DEF IInv, NestedInv, OuterInv, DriveInv

LEMMA ChainKeeps == IInv /\ Chain => IInv'
<1>. SUFFICES ASSUME IInv, Chain PROVE IInv'
  OBVIOUS
<1>0. /\ TypeOK /\ NestedInv /\ OuterInv /\ DriveInv /\ depth \in Nat
      /\ depth > 0 /\ calls[depth].pc = "chain" /\ Return
  BY DEF IInv, Chain, At, TypeOK, depth, current
<1>1. /\ calls' \in Seq(Calls) /\ depth' = depth - 1
      /\ \A i \in 1 .. depth - 1 : calls'[i] = calls[i]
  BY <1>0, ReturnFacts
<1>2. TypeOK'
  BY <1>0, <1>1 DEF Chain, TypeOK, statics
<1>3. stack' = stack /\ \A i \in 1 .. depth - 1 : i \in 1 .. depth
  BY <1>0 DEF Chain
<1>4. NestedInv'
  BY <1>0, <1>1, <1>3 DEF NestedInv
<1>5. CASE depth = 1
  <2>1. stack = "dos"
    BY <1>0, <1>5 DEF OuterInv
  <2>. QED  BY <1>1, <1>2, <1>3, <1>4, <1>5, <2>1 DEF IInv, OuterInv, DriveInv
<1>6. CASE depth > 1
  <2>1. depth' > 0 /\ calls'[1] = calls[1]
    BY <1>0, <1>1, <1>6
  <2>2. OuterInv' /\ DriveInv'
    BY <1>0, <2>1
    DEF OuterInv, DriveInv, Chain, statics, IndexedDrive, IsMounted, numMounts
  <2>. QED  BY <1>2, <1>4, <2>2 DEF IInv
<1>. QED  BY <1>0, <1>5, <1>6

LEMMA StutterKeeps == IInv /\ UNCHANGED vars => IInv'
BY DEF IInv, TypeOK, NestedInv, OuterInv, DriveInv, vars, statics, depth,
       IndexedDrive, IsMounted, numMounts

LEMMA NextIInv == IInv /\ [Next]_vars => IInv'
BY DosCallsKeeps, InterruptKeeps, EntryKeeps, DispatchKeeps, ClaimKeeps,
   SwitchKeeps, SuccessKeeps, InstallationCheckKeeps, RunStubKeeps,
   FindFirstKeeps, TimeAndLabelKeep, LeaveKeeps, ChainKeeps, StutterKeeps
DEF Next, Int2fRedirector

-----------------------------------------------------------------------------

LEMMA Invariance == Spec => []IInv
BY InitIInv, NextIInv, PTL DEF Spec

(* Every variable keeps its type, for any number of mounts and any depth   *)
(* of calls inside each other.                                             *)
THEOREM TypeCorrect == Spec => []TypeOK
<1>1. IInv => TypeOK
  BY DEF IInv
<1>. QED  BY <1>1, Invariance, PTL

(* The static variables of the handler serve the call that runs, however   *)
(* deep multiplex calls of interrupts come inside each other.              *)
THEOREM RegistersCorrect == Spec => []OwnRegisters
<1>1. IInv => OwnRegisters
  <2>. SUFFICES ASSUME IInv PROVE OwnRegisters
    OBVIOUS
  <2>0. /\ TypeOK /\ NestedInv /\ OuterInv /\ calls \in Seq(Calls)
        /\ depth \in Nat /\ DOMAIN calls = 1 .. depth
    BY DEF IInv, TypeOK, depth
  <2>1. ASSUME depth > 0, current.pc \in {"claim", "switch", "success", "run"}
        PROVE  depth = 1 /\ r = 1 /\ currFunction = current.fun
               /\ (current.pc \in {"success", "run"} => fpStackParam = 1)
    <3>1. PICK pc \in PCs \ {"entry", "chain"} : At(pc)
      BY <2>1 DEF At, PCs
    <3>2. depth = 1 /\ current = calls[1]
      BY <2>0, <3>1, ActiveIsOuter
    <3>. QED  BY <2>0, <2>1, <3>2 DEF OuterInv
  <2>2. ASSUME NEW i \in DOMAIN calls
        PROVE  /\ calls[i].ax # "asGiven" <=> calls[i].pc \in {"run", "time", "label", "leave"}
               /\ calls[i].ax = "00FF"
                    <=> calls[i].fun = "InstallationCheck" /\ calls[i].pc = "leave"
    <3>1. CASE i > 1
      BY <2>0, <3>1 DEF NestedInv
    <3>2. CASE i = 1
      <4>0. calls[1] \in Calls /\ depth > 0
        BY <2>0, <3>2
      <4>1. calls[1].pc \in PCs /\ depth > 0
        BY <4>0 DEF Calls
      <4>. QED  BY <2>0, <3>2, <4>1 DEF OuterInv, PCs
    <3>. QED  BY <2>0, <3>1, <3>2
  <2>. QED  BY <2>1, <2>2 DEF OwnRegisters
<1>. QED  BY <1>1, Invariance, PTL

(* A call with an open file or a search runs for the mount of its drive,   *)
(* and is passed on only where there is none.                              *)
THEOREM DriveCorrect == Spec => []ActsOnAskedDrive
<1>1. IInv => ActsOnAskedDrive
  <2>. SUFFICES ASSUME IInv, NEW i \in DOMAIN calls, Scans(calls[i].fun)
                PROVE  /\ calls[i].pc \in {"run", "leave"} => IndexedDrive = calls[i].drive
                       /\ calls[i].pc = "chain" => ~ IsMounted(calls[i].drive)
    BY DEF ActsOnAskedDrive
  <2>1. NestedInv /\ DriveInv /\ DOMAIN calls = 1 .. depth /\ depth \in Nat
    BY DEF IInv, TypeOK, depth
  <2>2. i = 1 /\ depth > 0
    BY <2>1 DEF NestedInv, Scans
  <2>. QED  BY <2>1, <2>2 DEF DriveInv
<1>. QED  BY <1>1, Invariance, PTL

(* Every call returns on the stack it came on: the stack of DOS for the    *)
(* outer one, and for an inner one the stack that the handler was on.      *)
THEOREM StackCorrect == Spec => ReturnsOnCallersStack
<1>1. IInv /\ [Next]_vars => [Len(calls') < depth => stack' = current.from]_vars
  <2>. SUFFICES ASSUME IInv, Next, Len(calls') < depth PROVE stack' = current.from
    OBVIOUS
  <2>0. TypeOK /\ NestedInv /\ OuterInv /\ depth \in Nat /\ depth = Len(calls)
    BY DEF IInv, TypeOK, depth
  <2>1. CASE Leave
    <3>1. At("leave")
      BY <2>1 DEF Leave
    <3>2. calls[1].pc = "leave" /\ depth = 1 /\ current = calls[1]
      BY <3>1, ActiveFacts DEF PCs
    <3>. QED  BY <2>0, <2>1, <3>2 DEF OuterInv, Leave
  <2>2. CASE Chain
    <3>1. depth > 0 /\ current = calls[depth] /\ current.pc = "chain" /\ stack' = stack
      BY <2>2 DEF Chain, At, current
    <3>2. CASE depth = 1
      BY <2>0, <3>1, <3>2 DEF OuterInv
    <3>3. CASE depth > 1
      BY <2>0, <3>1, <3>3 DEF NestedInv
    <3>. QED  BY <2>0, <3>1, <3>2, <3>3
  <2>3. CASE DosCalls \/ Interrupt
    BY <2>0, <2>3 DEF DosCalls, Interrupt
  <2>4. CASE FindFirst
    BY <2>0, <2>4 DEF FindFirst
  <2>5. CASE Success \/ InstallationCheck
    BY <2>0, <2>5 DEF Success, InstallationCheck
  <2>6. CASE Entry \/ Dispatch \/ Claim \/ SwitchStack \/ RunStub \/ GotDosTime \/ FillLabel
    <3>1. PICK pc \in PCs : GoTo(pc)
      BY <2>6 DEF Entry, Dispatch, Claim, SwitchStack, RunStub, GotDosTime, FillLabel, PCs
    <3>. QED  BY <2>0, <3>1 DEF GoTo
  <2>. QED  BY <2>1, <2>2, <2>3, <2>4, <2>5, <2>6 DEF Next, Int2fRedirector
<1>. QED  BY <1>1, Invariance, PTL DEF Spec, ReturnsOnCallersStack

=============================================================================
