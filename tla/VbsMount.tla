------------------------------ MODULE VbsMount ------------------------------
(***************************************************************************)
(* main.c: the transient program.  It checks the machine, looks for a      *)
(* resident copy of the driver, opens a session with the Shared Folders    *)
(* service (or takes over the resident copy's), asks for the list of       *)
(* shares and for each share's name, closes the session and exits.         *)
(*                                                                         *)
(* Every step inside a VBoxAux function is a step of VBoxAux.tla; main     *)
(* continues in the step in which that function returns.                   *)
(***************************************************************************)
EXTENDS Integers, CmdLine

CONSTANTS
  HostErrors, ClientIds, HostShares, VMMDEV_ASYNC_TIMEOUT, SHFL_MAX_MAPPINGS,
  ResidentClient, (* the client id in the resident copy's Signature        *)
  Residents,      (* whether a copy may be resident when main starts       *)
  ArgStrings,     (* the argument strings there may be                     *)
  Sentences       (* the sequences of words of the usage text to read      *)

VARIABLES
  pc,            (* where main is                                          *)
  opts,          (* the globals that GetOptions() sets                     *)
  installed,     (* a resident copy exists; AlreadyInstalled() finds it    *)
  mapping,       (* main's loop index                                      *)
  mainRet,       (* main's ret                                             *)
  exitCode,      (* AL of INT 21h/4Ch, -1 while main runs                  *)
  s_ds, pciPort, clientId, numMappings, filled, fn, phase, wait_ms, ret,
  request, calls, reported, sessions, live, orphans, performed

(* main makes a connect, a query, a name query per mapping, a disconnect;  *)
(* the bound is never reached, not even if an overflow went unnoticed.     *)
Aux == INSTANCE VBoxAux WITH MaxCalls <- SHFL_MAX_MAPPINGS + HostShares + 3

mainVars == <<pc, opts, installed, mapping, mainRet, exitCode>>
hostVars == <<sessions, live, orphans, performed>>
auxVars  == <<s_ds, pciPort, clientId, numMappings, filled, fn, phase, wait_ms,
              ret, request, calls, reported, hostVars>>
vars     == <<mainVars, auxVars>>

ASSUME ChannelAssumption ==
  /\ HostErrors \subseteq Int \ {Aux!VINF_SUCCESS, Aux!VINF_BUFFER_OVERFLOW,
                                 Aux!VINF_HGCM_ASYNC_EXECUTE, Aux!VERR_TIMEOUT}
  /\ ClientIds \subseteq Nat \ {0} /\ HostShares \in Nat
  /\ VMMDEV_ASYNC_TIMEOUT \in Nat \ {0} /\ SHFL_MAX_MAPPINGS \in Nat

ASSUME ResidentAssumption ==
  Residents \subseteq BOOLEAN /\ ResidentClient \in ClientIds

ASSUME ArgStringsAssumption ==
  ArgStrings \subseteq Seq(Chars) /\ Sentences \subseteq Seq(Words)

(* globals.h                                                               *)
ERR_SUCCESS == 0
ERR_NOTINST == 246
ERR_BADOPTS == 248
ERR_WRONGOS == 249
ERR_NOVIRT  == 250
ERR_NOSHF   == 251
ERR_NOALLWD == 252
ERR_SYSTEM  == 255

Options == [verbosity : Verbosities, uninstall : BOOLEAN, testOnly : BOOLEAN]

PCs == {"options", "checks", "resident", "init", "session", "mappings",
        "names", "end", "exit"}

Init ==
  /\ pc = "options"
  /\ opts = [verbosity |-> "NORMAL", uninstall |-> FALSE, testOnly |-> FALSE]
  /\ installed \in Residents
  /\ mapping = 0
  /\ mainRet = 0
  /\ exitCode = -1
  /\ s_ds = FALSE
  /\ pciPort = "none"
  /\ clientId = 0
  /\ numMappings = SHFL_MAX_MAPPINGS
  /\ filled = 0
  /\ fn = "none"
  /\ phase = "idle"
  /\ wait_ms = 0
  /\ ret = Aux!OK
  /\ request = Aux!Prepared(0)
  /\ calls = 0
  /\ reported = installed
  /\ sessions = IF installed THEN {ResidentClient} ELSE {}
  /\ live = {}
  /\ orphans = {}
  /\ performed = {}

-----------------------------------------------------------------------------

(* DOS keeps the low byte of what main returns.                            *)
Exit(code) == pc' = "exit" /\ exitCode' = code % 256

(* GetOptions(): help, which ignores the verbosity, and bad options end    *)
(* the program at once.                                                    *)
ParseOptions ==
  /\ pc = "options"
  /\ \E args \in ArgStrings : \E o \in {GetOptions(args)} :
       /\ opts' = [verbosity |-> IF o.ret = 1 THEN "NORMAL" ELSE o.verbosity,
                   uninstall |-> o.uninstall, testOnly |-> o.testOnly]
       /\ \/ o.ret = 1 /\ Exit(ERR_SUCCESS)
          \/ o.ret = 2 /\ Exit(ERR_BADOPTS)
          \/ o.ret = 0 /\ pc' = "checks" /\ UNCHANGED exitCode
  /\ UNCHANGED <<installed, mapping, mainRet, auxVars>>

(* No 386, DOS before 5.0 or no list of lists.                             *)
CheckSystem ==
  /\ pc = "checks"
  /\ \/ \E e \in {ERR_NOVIRT, ERR_WRONGOS, ERR_SYSTEM} : Exit(e)
     \/ pc' = "resident" /\ UNCHANGED exitCode
  /\ UNCHANGED <<opts, installed, mapping, mainRet, auxVars>>

(* Mutant: as soon as a copy is resident, the segments are read as well.   *)
TakeResidentAndSegments ==
  /\ pc = "resident" /\ installed
  /\ pc' = "mappings"
  /\ pciPort' = "vmmdev" /\ clientId' = ResidentClient /\ s_ds' = TRUE
  /\ UNCHANGED <<opts, installed, mapping, mainRet, exitCode, numMappings,
                 filled, fn, phase, wait_ms, ret, request, calls, reported,
                 hostVars>>

(* AlreadyInstalled() takes port and client from the resident Signature.   *)
(* The option /U changes nothing: its branch is empty.                     *)
TakeResident ==
  /\ pc = "resident" /\ installed
  /\ pc' = "mappings"
  /\ pciPort' = "vmmdev" /\ clientId' = ResidentClient
  /\ UNCHANGED <<opts, installed, mapping, mainRet, exitCode, s_ds,
                 numMappings, filled, fn, phase, wait_ms, ret, request, calls,
                 reported, hostVars>>

(* Nothing to uninstall; or a multiplexer that forbids redirectors.        *)
NotResident ==
  /\ pc = "resident" /\ ~ installed
  /\ \/ opts.uninstall /\ Exit(ERR_NOTINST)
     \/ ~ opts.uninstall /\ Exit(ERR_NOALLWD)
     \/ ~ opts.uninstall /\ pc' = "init" /\ UNCHANGED exitCode
  /\ UNCHANGED <<opts, installed, mapping, mainRet, auxVars>>

(* Mutant: a failed VBoxAuxInitVirtual() does not stop the program.        *)
InitVirtualUnchecked ==
  /\ pc = "init"
  /\ Aux!InInit
  /\ pc' = (IF fn' # "none" THEN "init" ELSE "session")
  /\ UNCHANGED <<opts, installed, mapping, mainRet, exitCode>>

(* VBoxAuxInitVirtual(), one request after the other.                      *)
InitVirtual ==
  /\ pc = "init"
  /\ Aux!InInit
  /\ \/ fn' # "none" /\ UNCHANGED <<pc, exitCode>>
     \/ fn' = "none" /\ ret' = Aux!FAIL /\ Exit(ERR_NOVIRT)
     \/ fn' = "none" /\ ret' # Aux!FAIL /\ pc' = "session" /\ UNCHANGED exitCode
  /\ UNCHANGED <<opts, installed, mapping, mainRet>>

BeginSession ==
  /\ pc = "session"
  /\ Aux!BeginSession
  /\ UNCHANGED mainVars

SessionBegun ==
  /\ pc = "session"
  /\ Aux!ReturnBeginSession
  /\ \/ ret' = Aux!FAIL /\ Exit(ERR_NOSHF)
     \/ ret' # Aux!FAIL /\ pc' = "mappings" /\ UNCHANGED exitCode
  /\ UNCHANGED <<opts, installed, mapping, mainRet>>

GetMappings ==
  /\ pc = "mappings"
  /\ Aux!GetMappings
  /\ UNCHANGED mainVars

(* Mutant: a failed query returns at once instead of "goto error".         *)
MappingsGottenOrExit ==
  /\ pc = "mappings"
  /\ Aux!ReturnGetMappings
  /\ \/ /\ ret' # 0 /\ Exit(ERR_NOSHF)
        /\ mainRet' = ERR_NOSHF
     \/ /\ ret' = 0 /\ pc' = "names" /\ UNCHANGED exitCode
        /\ mainRet' = ret'
  /\ mapping' = 0
  /\ UNCHANGED <<opts, installed>>

(* A failed query goes to the label "error" and closes the session.        *)
MappingsGotten ==
  /\ pc = "mappings"
  /\ Aux!ReturnGetMappings
  /\ \/ ret' # 0 /\ pc' = "end"   /\ mainRet' = ERR_NOSHF
     \/ ret' = 0 /\ pc' = "names" /\ mainRet' = ret'
  /\ mapping' = 0
  /\ UNCHANGED <<opts, installed, exitCode>>

(* Mutant: the loop runs one mapping too far.                              *)
GetMapNameTooFar ==
  /\ pc = "names" /\ mapping <= numMappings
  /\ Aux!GetMapName
  /\ UNCHANGED mainVars

(* The body of the loop reads mappings[mapping].root.                      *)
GetMapName ==
  /\ pc = "names" /\ mapping < numMappings
  /\ Aux!GetMapName
  /\ UNCHANGED mainVars

(* Mutant: the loop does not advance.                                      *)
MapNameGottenAgain ==
  /\ pc = "names"
  /\ Aux!ReturnGetMapName
  /\ mainRet' = ret'
  /\ UNCHANGED <<pc, opts, installed, mapping, exitCode>>

(* Only the last value of ret survives the loop.                           *)
MapNameGotten ==
  /\ pc = "names"
  /\ Aux!ReturnGetMapName
  /\ mainRet' = ret'
  /\ mapping' = mapping + 1
  /\ UNCHANGED <<pc, opts, installed, exitCode>>

(* With or without an error message, control reaches the label "error".    *)
NamesDone ==
  /\ pc = "names" /\ fn = "none" /\ mapping >= numMappings
  /\ pc' = "end"
  /\ UNCHANGED <<opts, installed, mapping, mainRet, exitCode, auxVars>>

EndSession ==
  /\ pc = "end"
  /\ Aux!EndSession
  /\ UNCHANGED mainVars

SessionEnded ==
  /\ pc = "end"
  /\ Aux!ReturnEndSession
  /\ Exit(mainRet)
  /\ UNCHANGED <<opts, installed, mapping, mainRet>>

(* Inside VBoxAuxSendHGCMRequest().                                        *)
InSend ==
  /\ Aux!PollDone \/ Aux!PollAgain \/ Aux!TimeOut \/ Aux!Cancel
  /\ UNCHANGED mainVars

Main ==
  \/ ParseOptions \/ CheckSystem \/ TakeResident \/ NotResident
  \/ InitVirtual
  \/ BeginSession \/ SessionBegun
  \/ GetMappings \/ MappingsGotten
  \/ GetMapName \/ MapNameGotten \/ NamesDone
  \/ EndSession \/ SessionEnded
  \/ InSend

(* The host also works after the program has ended.                        *)
Host == Aux!Host /\ UNCHANGED mainVars

Next == Main \/ Host

Spec == Init /\ [][Next]_vars

(* The program runs; nothing is assumed of the host.                       *)
FairSpec == Spec /\ WF_vars(Main)

-----------------------------------------------------------------------------
(* Properties                                                              *)

(* Every variable of main and of the channel keeps its type; the exit code *)
(* is a byte, and is set exactly when the program has ended.               *)
TypeOK ==
  /\ Aux!TypeOK
  /\ pc \in PCs
  /\ opts \in Options
  /\ installed \in BOOLEAN
  /\ mapping \in Nat
  /\ mainRet \in Int
  /\ exitCode \in -1 .. 255
  /\ (pc = "exit") = (exitCode # -1)

(* Every sequence of the options that the usage text (messages.h) names, a *)
(* blank between them or not, is read as the text explains each of them,   *)
(* and refused only for a second verbosity; so what one of the two forms   *)
(* of the text admits is accepted.  No other string is, but there is more  *)
(* than the two forms among these sequences: /T /U, for instance.          *)
OptionsAsExplained ==
  pc = "options" =>
    /\ \A ws \in Sentences : ReadAsMeant(ws)
    /\ \A args \in ArgStrings :
         GetOptions(args).ret = 0 => args \in {Text(ws) : ws \in Sentences}

(* main asks for the name of mappings[mapping] only when the host filled   *)
(* that entry; with a resident copy this is another matter, see below.     *)
RootsComeFromHost ==
  ~ installed /\ fn = Aux!QueryMapName => mapping < filled

(* The loop never indexes past the array mappings[SHFL_MAX_MAPPINGS].      *)
IndexInBounds == fn = Aux!QueryMapName => mapping < SHFL_MAX_MAPPINGS

(* From the query to the disconnect, the client id that main uses is open  *)
(* at the host.                                                            *)
CallsOnOpenSession ==
  /\ pc \in {"mappings", "names"} => clientId \in sessions
  /\ pc = "end" /\ fn = "none" => clientId \in sessions

(* A session that main opened is closed when main exits, on every path.    *)
(* What may stay open: the session of a connect that main gave up, whose   *)
(* id it never learned, and one whose disconnect, the call after connect,  *)
(* query and one name per mapping, failed or was given up.                 *)
NoLeak ==
  pc = "exit" =>
    \A s \in sessions :
      \/ installed /\ s = ResidentClient
      \/ clientId = 0 /\ exitCode = ERR_NOSHF
      \/ /\ s = clientId /\ calls = mapping + 3
         /\ (ret # Aux!VINF_SUCCESS \/ request.result # Aux!VINF_SUCCESS)

(* A program that opened a session and exits with ERR_SUCCESS has really   *)
(* got the list, all of it, and the name of the last share in it: its      *)
(* second call was the query, its last but one that name.                  *)
SuccessIsReal ==
  ~ installed /\ exitCode = ERR_SUCCESS /\ calls > 0 =>
    /\ \E p \in performed :
         p.id = 2 /\ p.reply = [result |-> Aux!VINF_SUCCESS, payload |-> filled]
    /\ numMappings = filled
    /\ numMappings > 0 =>
         \E p \in performed : p.id = calls - 1 /\ p.reply.result = Aux!VINF_SUCCESS

(* No HGCM request is sent to a host that does not know its guest.         *)
GuestReportedFirst == calls > 0 => reported

(* Running the program while a copy is resident does not close the session *)
(* that the resident copy works with.                                      *)
ResidentSessionKept == installed => ResidentClient \in sessions

(* The program ends, whatever the host does.                               *)
Terminates == <>(pc = "exit")

(* Without a resident copy main keeps to the protocol of the channel: it   *)
(* implements the most general caller, so what holds of that one holds of  *)
(* main.                                                                   *)
ImplementsVBoxAux ==
  /\ installed \/ Aux!Init
  /\ [][installed \/ Aux!Next]_auxVars

(* "Get list of available shares" (main.c) gets it also when the session   *)
(* is that of a resident copy: the roots that main asks about are the      *)
(* host's.                                                                 *)
ResidentRootsComeFromHost ==
  installed /\ fn = Aux!QueryMapName => mapping < filled

(* "/T /QQ just checks if running on VirtualBox" (messages.h): no session  *)
(* is opened.                                                              *)
TestOnlyOpensNoSession ==
  opts.testOnly /\ opts.verbosity = "SILENT" => calls = 0

(* "/U - Uninstall" (messages.h): when main has found the resident copy,   *)
(* whose port it takes over, a successful /U leaves none.                  *)
UninstallUninstalls ==
  opts.uninstall /\ pciPort # "none" /\ exitCode = ERR_SUCCESS => ~ installed

=============================================================================
