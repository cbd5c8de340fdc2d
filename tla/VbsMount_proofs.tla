--------------------------- MODULE VbsMount_proofs ---------------------------
(***************************************************************************)
(* Proofs about main(), with and without a resident copy, for every number *)
(* of shares, every size of the array of mappings and every host.          *)
(***************************************************************************)
EXTENDS VbsMount, CmdLine_proofs

(* main is inside no function but those it calls where it is, and without  *)
(* a resident copy it makes HGCM calls only after VBoxAuxInitVirtual() has *)
(* found the device, read the segments and reported the guest.             *)
InitFns == {"backdoor", "guestinfo", "version"}
Session == {"session", "mappings", "names", "end"}

ProtocolInv ==
  /\ fn # "none" => \/ pc = "init"     /\ fn \in InitFns
                    \/ pc = "session"  /\ fn = Aux!CONNECT
                    \/ pc = "mappings" /\ fn = Aux!QueryMappings
                    \/ pc = "names"    /\ fn = Aux!QueryMapName
                    \/ pc = "end"      /\ fn = Aux!DISCONNECT
  /\ installed => pc \notin {"init", "session"}
  /\ ~ installed /\ (fn \in InitFns \/ pc \in Session) => Aux!Reaches
  /\ installed \/ fn = "version" \/ pc \in Session => reported
  /\ calls > 0 => pc \in Session \cup {"exit"} /\ reported

USE DEF Aux!CONNECT, Aux!DISCONNECT, Aux!QueryMappings, Aux!QueryMapName

LEMMA InitProtocol == Init => ProtocolInv
BY DEF Init, ProtocolInv, InitFns, Session, Aux!OK

(* The steps outside the channel.                                          *)
LEMMA OwnProtocol ==
  ASSUME ProtocolInv,
         \/ ParseOptions \/ CheckSystem \/ TakeResident \/ NotResident
         \/ NamesDone
  PROVE  ProtocolInv'
<1> USE DEF ProtocolInv, InitFns, Session, Exit, auxVars, hostVars, Aux!Reaches
<1>1. CASE ParseOptions
  BY <1>1 DEF ParseOptions
<1>2. CASE CheckSystem
  BY <1>2 DEF CheckSystem
<1>3. CASE TakeResident
  BY <1>3 DEF TakeResident
<1>4. CASE NotResident
  BY <1>4 DEF NotResident
<1>5. CASE NamesDone
  BY <1>5 DEF NamesDone
<1> QED BY <1>1, <1>2, <1>3, <1>4, <1>5

LEMMA InitVirtualProtocol ==
  ASSUME ProtocolInv, InitVirtual
  PROVE  ProtocolInv'
<1>0. pc = "init" /\ Aux!InInit /\ UNCHANGED <<installed, calls>>
  BY DEF InitVirtual, Aux!InInit, Aux!FindBackdoor, Aux!ReportGuestInfo2,
         Aux!ReportGuestInfo, Aux!GetVersion
<1> USE <1>0 DEF ProtocolInv, InitFns, Session, Exit, InitVirtual, Aux!Reaches,
                 Aux!outVars, Aux!OK, Aux!FAIL
<1>1. CASE Aux!FindBackdoor
  BY <1>1 DEF Aux!FindBackdoor
<1>2. CASE Aux!ReportGuestInfo2
  BY <1>2 DEF Aux!ReportGuestInfo2
<1>3. CASE Aux!ReportGuestInfo
  BY <1>3 DEF Aux!ReportGuestInfo
<1>4. CASE Aux!GetVersion
  BY <1>4 DEF Aux!GetVersion
<1> QED BY <1>0, <1>1, <1>2, <1>3, <1>4 DEF Aux!InInit

(* Entering a function of the channel.                                     *)
LEMMA SendFrame ==
  ASSUME NEW op, NEW client, NEW payload, Aux!Send(op, client, payload)
  PROVE  /\ fn = "none" /\ fn' = op /\ calls' = calls + 1
         /\ UNCHANGED <<s_ds, pciPort, clientId, numMappings, reported>>
BY DEF Aux!Send, Aux!outVars

LEMMA CallProtocol ==
  ASSUME ProtocolInv,
         BeginSession \/ GetMappings \/ GetMapName \/ EndSession
  PROVE  ProtocolInv'
<1> USE DEF ProtocolInv, InitFns, Session, mainVars, Aux!Reaches
<1>1. CASE BeginSession
  BY <1>1, SendFrame DEF BeginSession, Aux!BeginSession
<1>2. CASE GetMappings
  BY <1>2, SendFrame DEF GetMappings, Aux!GetMappings
<1>3. CASE GetMapName
  BY <1>3, SendFrame DEF GetMapName, Aux!GetMapName
<1>4. CASE EndSession
  BY <1>4, SendFrame DEF EndSession, Aux!EndSession
<1> QED BY <1>1, <1>2, <1>3, <1>4

LEMMA ReturnProtocol ==
  ASSUME ProtocolInv,
         SessionBegun \/ MappingsGotten \/ MapNameGotten \/ SessionEnded
  PROVE  ProtocolInv'
<1>1. /\ fn' = "none"
      /\ UNCHANGED <<s_ds, pciPort, calls, reported, installed>>
      /\ pc \in Session /\ pc' \in Session \cup {"exit"}
      /\ installed => pc' # "session"
  BY DEF SessionBegun, MappingsGotten, MapNameGotten, SessionEnded, Exit,
         Aux!ReturnBeginSession, Aux!ReturnGetMappings, Aux!ReturnGetMapName,
         Aux!ReturnEndSession, Aux!Leave, Session, ProtocolInv
<1> QED BY <1>1 DEF ProtocolInv, Session, InitFns, Aux!Reaches

LEMMA InsideProtocol ==
  ASSUME ProtocolInv, InSend \/ Host \/ UNCHANGED vars
  PROVE  ProtocolInv'
<1>1. UNCHANGED <<pc, installed, fn, s_ds, pciPort, calls, reported>>
  BY DEF InSend, Host, vars, mainVars, auxVars, Aux!PollDone, Aux!PollAgain,
         Aux!TimeOut, Aux!Cancel, Aux!Host, Aux!HostReply, Aux!HostWorks,
         Aux!guestVars, Aux!outVars
<1> QED BY <1>1 DEF ProtocolInv, Aux!Reaches

LEMMA NextProtocol == ProtocolInv /\ [Next]_vars => ProtocolInv'
BY OwnProtocol, InitVirtualProtocol, CallProtocol, ReturnProtocol,
   InsideProtocol DEF Next, Main

LEMMA ProtocolCorrect == Spec => []ProtocolInv
BY InitProtocol, NextProtocol, PTL DEF Spec

(* No request with a client id reaches a host that was not told of its     *)
(* guest by VBoxAuxInitVirtual(), whichever way main came to the call.     *)
THEOREM ReportCorrect == Spec => []GuestReportedFirst
<1>1. ProtocolInv => GuestReportedFirst
  BY DEF ProtocolInv, GuestReportedFirst
<1> QED BY <1>1, ProtocolCorrect, PTL

-----------------------------------------------------------------------------
(* main is one of the callers that VBoxAux allows.                         *)

LEMMA StepImplements ==
  ASSUME ProtocolInv, [Next]_vars
  PROVE  [installed \/ Aux!Next]_auxVars
<1> SUFFICES ASSUME ~ installed, auxVars' # auxVars PROVE Aux!Next
  OBVIOUS
<1> USE DEF Aux!Next
<1>1. CASE ParseOptions \/ CheckSystem \/ NotResident \/ NamesDone
           \/ UNCHANGED vars
  BY <1>1 DEF ParseOptions, CheckSystem, NotResident, NamesDone, vars
<1>2. CASE TakeResident
  BY <1>2 DEF TakeResident
<1>3. CASE InitVirtual
  BY <1>3 DEF InitVirtual
<1>4. CASE BeginSession \/ GetMappings \/ GetMapName \/ EndSession
  <2>1. Aux!Reaches
    BY <1>4 DEF BeginSession, GetMappings, GetMapName, EndSession,
                ProtocolInv, Session
  <2> QED BY <1>4, <2>1 DEF BeginSession, GetMappings, GetMapName, EndSession,
                            Aux!Call
<1>5. CASE SessionBegun \/ MappingsGotten \/ MapNameGotten \/ SessionEnded
           \/ InSend
  BY <1>5 DEF SessionBegun, MappingsGotten, MapNameGotten, SessionEnded,
              InSend, Aux!InCall
<1>6. CASE Host
  BY <1>6 DEF Host
<1> QED BY <1>1, <1>2, <1>3, <1>4, <1>5, <1>6 DEF Next, Main

(* Without a resident copy every step of main is a step of the most general*)
(* caller of the channel, or none: so what VBoxAux_proofs shows of the     *)
(* shared buffer, of late answers and of time-outs holds under main().     *)
THEOREM MainImplementsChannel == Spec => ImplementsVBoxAux
<1>1. Init => installed \/ Aux!Init
  BY DEF Init, Aux!Init, Aux!Prepared, Aux!OK, Aux!VINF_SUCCESS
<1>2. ProtocolInv /\ [Next]_vars => [installed \/ Aux!Next]_auxVars
  BY StepImplements
<1> QED BY <1>1, <1>2, ProtocolCorrect, PTL DEF Spec, ImplementsVBoxAux
-----------------------------------------------------------------------------
(* What becomes of main's session.  The invariant has one part per piece   *)
(* of state: the channel, the commands the host still knows, the buffer,   *)
(* the sessions, and main's own counters.                                  *)

Pending == live \cup orphans
Early   == {"options", "checks", "resident", "init"}
S       == Aux!VINF_SUCCESS

(* What a reply with success to a command of kind op says of the rest.     *)
Effect(op, reply) ==
  /\ op = Aux!CONNECT /\ pc = "session" => reply.payload \in sessions
  /\ op = Aux!QueryMappings =>
       reply.payload \in Nat /\ reply.payload <= SHFL_MAX_MAPPINGS
  /\ op = Aux!DISCONNECT => sessions = {}

BufferInv ==
  /\ fn \in Aux!HgcmOps <=> phase # "idle"
  /\ live # {} => phase \in {"wait", "cancel"}
  /\ \A c \in live : c.id = calls /\ c.op = fn
  /\ phase = "wait" /\ request.flags = 1 => live = {}
  /\ pc = "session" /\ orphans # {} => phase = "done" /\ ret # S
  /\ installed => ~ s_ds /\ Pending = {} /\ phase \in {"idle", "done"}

(* Ids are not used twice; a connect or a disconnect may still come late   *)
(* only after main ended because of it.                                    *)
HistoryInv ==
  /\ calls \in Nat
  /\ \A c \in Pending : c.id \in Nat /\ 0 < c.id /\ c.id <= calls
  /\ \A p \in performed : p.id \in Nat /\ p.id <= calls
  /\ \A c, d \in Pending : c.id = d.id => c = d
  /\ \A c \in Pending :
       /\ c.op = Aux!QueryMappings => c.room = SHFL_MAX_MAPPINGS
       /\ c.op = Aux!CONNECT =>
            \/ pc = "session" /\ fn = Aux!CONNECT
            \/ pc = "exit" /\ clientId = 0 /\ exitCode = ERR_NOSHF
       /\ c.op = Aux!DISCONNECT =>
            /\ c.client = clientId /\ clientId # 0
            /\ (pc = "end" /\ fn = Aux!DISCONNECT) \/ pc = "exit"
  /\ \A c \in Pending, p \in performed :
       p.id = c.id /\ p.reply.result = S => Effect(c.op, p.reply)

ReplyInv ==
  /\ /\ ~ installed /\ request.result = S
     /\ \/ phase = "wait" /\ request.flags = 1
        \/ phase = "done" /\ ret = S
     => /\ Effect(fn, request)
        /\ fn = Aux!QueryMappings => filled = request.payload
  /\ installed /\ fn = Aux!QueryMappings => request.payload = SHFL_MAX_MAPPINGS

SessionInv ==
  /\ sessions \subseteq ClientIds
  /\ ~ installed /\ pc \in Early => sessions = {}
  /\ ~ installed /\ pc \in Early \cup {"session"} => clientId = 0
  /\ pc = "session" => /\ \A s, t \in sessions : s = t
                       /\ sessions # {} => \E p \in performed : p.id = 1
  /\ ~ installed /\ pc \in {"mappings", "names", "end"} =>
       sessions \subseteq {clientId}
  /\ pc \in {"mappings", "names"} => clientId \in sessions
  /\ pc = "end" => clientId \in ClientIds
  /\ pc = "end" /\ fn = "none" => clientId \in sessions
  /\ installed => sessions = {ResidentClient}
  /\ pc = "exit" /\ ~ installed =>
       \/ sessions = {}
       \/ clientId = 0 /\ exitCode = ERR_NOSHF
       \/ /\ sessions \subseteq {clientId} /\ calls = mapping + 3
          /\ ret # S \/ request.result # S

CountInv ==
  /\ mapping \in Nat
  /\ pc \in Early \cup {"session", "mappings"} => numMappings = SHFL_MAX_MAPPINGS
  /\ pc = "names" => numMappings \in Nat /\ numMappings <= SHFL_MAX_MAPPINGS
  /\ pc = "names" /\ ~ installed => numMappings = filled
  /\ fn = Aux!QueryMapName => mapping < numMappings
  /\ ~ installed => /\ pc \in Early => calls = 0
                    /\ pc = "session"  => calls = IF fn = "none" THEN 0 ELSE 1
                    /\ pc = "mappings" => calls = IF fn = "none" THEN 1 ELSE 2
                    /\ pc \in {"names", "end"} =>
                         calls = IF fn = "none" THEN mapping + 2 ELSE mapping + 3

IInv == /\ ProtocolInv /\ BufferInv /\ HistoryInv
        /\ ReplyInv /\ SessionInv /\ CountInv

LEMMA InitMain == Init => IInv
<1>1. Init => ProtocolInv
  BY InitProtocol
<1>2. Init => BufferInv /\ HistoryInv
  BY DEF Init, BufferInv, HistoryInv, Pending, Aux!HgcmOps, Aux!Prepared
<1>3. Init => ReplyInv /\ SessionInv /\ CountInv
  BY ResidentAssumption, ChannelAssumption
  DEF Init, ReplyInv, SessionInv, CountInv, Early, Effect, Aux!Prepared, Aux!OK
<1> QED BY <1>1, <1>2, <1>3 DEF IInv

(* Before the first call there is nothing at the host.                     *)
LEMMA NothingEarly ==
  ASSUME IInv, pc \in Early \/ (pc = "session" /\ fn = "none")
  PROVE  Pending = {} /\ (~ installed => sessions = {} /\ calls = 0)
<1>1. installed => Pending = {}
  BY DEF IInv, BufferInv
<1>2. ~ installed => calls = 0
  BY DEF IInv, CountInv
<1>3. ~ installed => Pending = {}
  BY <1>2 DEF IInv, HistoryInv
<1>4. ~ installed => sessions = {}
  BY <1>2 DEF IInv, HistoryInv, SessionInv
<1> QED BY <1>1, <1>2, <1>3, <1>4

(* Every step up to the session that leaves the channel's data alone.      *)
LEMMA EarlyMain ==
  ASSUME IInv, pc \in Early, fn \notin Aux!HgcmOps, fn' \notin Aux!HgcmOps,
         pc' \in Early \cup {"session", "exit"},
         pc' = "session" => ~ installed /\ fn' = "none",
         installed => ~ s_ds',
         UNCHANGED <<installed, mapping, clientId, numMappings, filled, phase,
                     request, calls, sessions, live, orphans, performed>>
  PROVE  BufferInv' /\ HistoryInv' /\ ReplyInv' /\ SessionInv' /\ CountInv'
<1>1. Pending = {} /\ Pending' = {} /\ (~ installed => sessions = {} /\ calls = 0)
  BY NothingEarly DEF Pending
<1>2. BufferInv'
  BY <1>1 DEF IInv, BufferInv, Pending
<1>3. HistoryInv'
  BY <1>1 DEF IInv, HistoryInv
<1>4. ReplyInv'
  BY <1>1 DEF IInv, BufferInv, ReplyInv, Aux!HgcmOps
<1>5. SessionInv'
  BY <1>1 DEF IInv, SessionInv, Early
<1>6. CountInv'
  BY <1>1 DEF IInv, CountInv, Early, Aux!HgcmOps
<1> QED BY <1>2, <1>3, <1>4, <1>5, <1>6

LEMMA OwnMain ==
  ASSUME IInv,
         \/ ParseOptions \/ CheckSystem \/ TakeResident \/ NotResident
         \/ NamesDone
  PROVE  IInv'
<1>0. ProtocolInv /\ ProtocolInv'
  BY OwnProtocol DEF IInv
<1>1. CASE ParseOptions \/ CheckSystem \/ NotResident
  <2>1. /\ pc \in Early
        /\ pc' \in {"checks", "resident", "init", "exit"}
        /\ UNCHANGED <<installed, mapping, auxVars>>
    BY <1>1 DEF ParseOptions, CheckSystem, NotResident, Exit, Early
  <2>2. fn \notin Aux!HgcmOps
    BY <1>0, <2>1 DEF ProtocolInv, Early, InitFns, Aux!HgcmOps
  <2>3. UNCHANGED <<installed, mapping, clientId, numMappings, filled, phase,
                    request, calls, sessions, live, orphans, performed,
                    fn, s_ds>>
    BY <2>1 DEF auxVars, hostVars
  <2>4. installed => ~ s_ds'
    BY <2>3 DEF IInv, BufferInv
  <2>5. pc' \in Early \cup {"session", "exit"} /\ pc' # "session"
    BY <2>1 DEF Early
  <2> QED BY <1>0, <2>1, <2>2, <2>3, <2>4, <2>5, EarlyMain DEF IInv
<1>2. CASE TakeResident
  <2>1. /\ installed /\ installed' /\ pc = "resident" /\ pc' = "mappings"
        /\ clientId' = ResidentClient
        /\ UNCHANGED <<mapping, exitCode, s_ds, numMappings, filled, fn, phase,
                       ret, request, calls, sessions, live, orphans, performed>>
    BY <1>2 DEF TakeResident, hostVars
  <2>2. Pending = {} /\ Pending' = {} /\ fn = "none"
    BY <1>0, <2>1 DEF IInv, BufferInv, Pending, ProtocolInv
  <2>3. BufferInv'
    BY <2>1, <2>2 DEF IInv, BufferInv, Pending
  <2>4. HistoryInv'
    BY <2>1, <2>2 DEF IInv, HistoryInv
  <2>5. ReplyInv'
    BY <2>1, <2>2 DEF IInv, ReplyInv
  <2>6. SessionInv'
    BY <2>1, <2>2, ResidentAssumption DEF IInv, SessionInv
  <2>7. CountInv'
    BY <2>1, <2>2 DEF IInv, CountInv, Early
  <2> QED BY <1>0, <2>3, <2>4, <2>5, <2>6, <2>7 DEF IInv
<1>3. CASE NamesDone
  <2>1. /\ pc = "names" /\ pc' = "end" /\ fn = "none"
        /\ UNCHANGED <<installed, mapping, exitCode, auxVars>>
    BY <1>3 DEF NamesDone
  <2>2. UNCHANGED <<installed, mapping, exitCode, clientId, numMappings, filled,
                    phase, ret, request, calls, sessions, live, orphans,
                    performed, fn, s_ds>> /\ Pending' = Pending
    BY <2>1 DEF auxVars, hostVars, Pending
  <2>3. BufferInv'
    BY <2>1, <2>2 DEF IInv, BufferInv
  <2>4. HistoryInv'
    BY <2>1, <2>2 DEF IInv, HistoryInv, Effect
  <2>5. ReplyInv'
    BY <2>1, <2>2 DEF IInv, ReplyInv, Effect, BufferInv, Aux!HgcmOps
  <2>6. SessionInv'
    BY <2>1, <2>2 DEF IInv, SessionInv, Early
  <2>7. CountInv'
    BY <2>1, <2>2 DEF IInv, CountInv, Early
  <2> QED BY <1>0, <2>3, <2>4, <2>5, <2>6, <2>7 DEF IInv
<1> QED BY <1>1, <1>2, <1>3

LEMMA InitVirtualMain == ASSUME IInv, InitVirtual PROVE IInv'
<1>0. ProtocolInv /\ ProtocolInv'
  BY InitVirtualProtocol DEF IInv
<1>1. /\ pc = "init" /\ Aux!InInit
      /\ pc' \in {"init", "session", "exit"} /\ (pc' = "session" => fn' = "none")
      /\ UNCHANGED <<installed, mapping>>
  BY DEF InitVirtual, Exit
<1>2. /\ fn' \notin Aux!HgcmOps
      /\ UNCHANGED <<clientId, numMappings, filled, phase, request, calls,
                     sessions, live, orphans, performed>>
  BY <1>1 DEF Aux!InInit, Aux!FindBackdoor, Aux!ReportGuestInfo2,
              Aux!ReportGuestInfo, Aux!GetVersion, Aux!outVars, Aux!hostVars,
              Aux!HgcmOps
<1>3. ~ installed /\ fn \notin Aux!HgcmOps /\ pc \in Early
  BY <1>0, <1>1 DEF ProtocolInv, InitFns, Aux!HgcmOps, Early
<1>4. pc' \in Early \cup {"session", "exit"}
  BY <1>1 DEF Early
<1> QED BY <1>0, <1>1, <1>2, <1>3, <1>4, EarlyMain DEF IInv

-----------------------------------------------------------------------------
(* The host's work.                                                        *)

LEMMA PerformSessions ==
  ASSUME NEW c, NEW r, Aux!Perform(c, r), sessions \subseteq ClientIds,
         c.op = Aux!QueryMappings => c.room = SHFL_MAX_MAPPINGS
  PROVE  /\ r.result # S => sessions' = sessions
         /\ c.op = Aux!CONNECT /\ r.result = S =>
              /\ r.payload \in ClientIds /\ sessions' = sessions \cup {r.payload}
         /\ c.op = Aux!DISCONNECT /\ r.result = S =>
              /\ c.client \in sessions /\ sessions' = sessions \ {c.client}
         /\ c.op \notin {Aux!CONNECT, Aux!DISCONNECT} => sessions' = sessions
         /\ c.op = Aux!QueryMappings /\ r.result = S =>
              r.payload \in Nat /\ r.payload <= SHFL_MAX_MAPPINGS
         /\ performed' = performed \cup {[id |-> c.id, reply |-> r]}
<1>1. /\ performed' = performed \cup {[id |-> c.id, reply |-> r]}
      /\ sessions' = Aux!SessionsAfter(c, r) /\ Aux!Answers(c, r)
  BY DEF Aux!Perform
<1>2. S \notin HostErrors
  BY ChannelAssumption DEF S
<1>3. r.result = S => \/ c.op = Aux!CONNECT /\ r.payload \in ClientIds
                      \/ c.op \in {Aux!DISCONNECT, Aux!QueryMapName}
                         /\ c.client \in sessions
                      \/ /\ c.op = Aux!QueryMappings
                         /\ r.payload \in Nat /\ r.payload <= SHFL_MAX_MAPPINGS
  BY <1>1, <1>2, ChannelAssumption
  DEF Aux!Answers, S, Aux!VINF_SUCCESS, Aux!VINF_BUFFER_OVERFLOW,
      Aux!VERR_HGCM_INVALID_CLIENT_ID
<1> QED BY <1>1, <1>3 DEF Aux!SessionsAfter, S

(* A command of one of the two kinds that change sessions is performed     *)
(* only where main is waiting for it or has ended because of it.           *)
LEMMA HostWorksMain ==
  ASSUME IInv, Aux!HostWorks, UNCHANGED mainVars
  PROVE  IInv'
<1>0. ProtocolInv /\ BufferInv /\ HistoryInv /\ ReplyInv /\ SessionInv /\ CountInv
  BY DEF IInv
<1>1. PICK c \in Pending, r \in Aux!Replies :
        ~ Aux!IsPerformed(c) /\ Aux!Perform(c, r)
  BY DEF Aux!HostWorks, Aux!HostPerform, Pending
<1>2. /\ UNCHANGED <<live, orphans, s_ds, pciPort, clientId, numMappings,
                     filled, fn, phase, ret, request, calls, reported>>
      /\ UNCHANGED <<pc, opts, installed, mapping, mainRet, exitCode>>
      /\ Pending' = Pending
  BY DEF Aux!HostWorks, Aux!HostPerform, Aux!guestVars, Aux!outVars, mainVars,
         Pending
<1>3. ~ installed
  BY <1>0, <1>1 DEF BufferInv
<1>4. /\ r.result # S => sessions' = sessions
      /\ c.op = Aux!CONNECT /\ r.result = S =>
           /\ r.payload \in ClientIds /\ sessions' = sessions \cup {r.payload}
      /\ c.op = Aux!DISCONNECT /\ r.result = S =>
           /\ c.client \in sessions /\ sessions' = sessions \ {c.client}
      /\ c.op \notin {Aux!CONNECT, Aux!DISCONNECT} => sessions' = sessions
      /\ c.op = Aux!QueryMappings /\ r.result = S =>
           r.payload \in Nat /\ r.payload <= SHFL_MAX_MAPPINGS
      /\ performed' = performed \cup {[id |-> c.id, reply |-> r]}
  BY <1>0, <1>1, PerformSessions DEF HistoryInv, SessionInv
<1>5. \A p \in performed : p.id # c.id
  BY <1>1 DEF Aux!IsPerformed
<1>6. c.id \in Nat /\ 0 < c.id /\ c.id <= calls /\ calls \in Nat
  BY <1>0, <1>1 DEF HistoryInv
<1>7. pc \notin Early
  BY <1>0, <1>3, <1>6 DEF CountInv
<1>8. c.op = Aux!CONNECT =>
           \/ pc = "session" /\ fn = Aux!CONNECT
           \/ pc = "exit" /\ clientId = 0 /\ exitCode = ERR_NOSHF
  BY <1>0, <1>1 DEF HistoryInv
<1>9. c.op = Aux!DISCONNECT =>
           /\ c.client = clientId /\ clientId # 0
           /\ (pc = "end" /\ fn = Aux!DISCONNECT) \/ pc = "exit"
  BY <1>0, <1>1 DEF HistoryInv
<1>10. c.op = Aux!DISCONNECT /\ r.result = S => sessions' = {}
  BY <1>0, <1>3, <1>4, <1>9 DEF SessionInv
<1>11. sessions = {} => sessions' = {} \/ c.op = Aux!CONNECT
  BY <1>4
<1>12. pc = "session" => sessions \subseteq sessions'
  BY <1>4, <1>9
<1>13. ProtocolInv'
  BY <1>0, <1>2 DEF ProtocolInv, Aux!Reaches
<1>14. BufferInv'
  BY <1>0, <1>2 DEF BufferInv
<1>15. HistoryInv'
  <2>1. \A p \in performed' : p \in performed \/ (p.id = c.id /\ p.reply = r)
    BY <1>4
  <2>2. \A p \in performed' : p.id \in Nat /\ p.id <= calls
    BY <1>0, <1>6, <2>1 DEF HistoryInv
  <2>3. r.result = S => Effect(c.op, r)'
    BY <1>2, <1>4, <1>10 DEF Effect
  <2>4. ASSUME NEW d \in Pending, NEW p \in performed,
               p.id = d.id, p.reply.result = S
        PROVE  Effect(d.op, p.reply)'
    <3>1. Effect(d.op, p.reply)
      BY <1>0, <2>4 DEF HistoryInv
    <3>2. d.op = Aux!DISCONNECT => clientId # 0 /\ pc \in {"end", "exit"}
      BY <1>0, <2>4 DEF HistoryInv
    <3> QED BY <1>2, <1>8, <1>11, <1>12, <3>1, <3>2 DEF Effect
  <2>5. \A d \in Pending, p \in performed' :
          p.id = d.id /\ p.reply.result = S => Effect(d.op, p.reply)'
    <3> SUFFICES ASSUME NEW d \in Pending, NEW p \in performed',
                        p.id = d.id, p.reply.result = S
                 PROVE  Effect(d.op, p.reply)'
      OBVIOUS
    <3>1. CASE p \in performed
      BY <2>4, <3>1
    <3>2. CASE p.id = c.id /\ p.reply = r
      <4>1. d = c
        BY <1>0, <1>1, <3>2 DEF HistoryInv
      <4> QED BY <2>3, <3>2, <4>1
    <3> QED BY <2>1, <3>1, <3>2
  <2>6. /\ \A d \in Pending : d.id \in Nat /\ 0 < d.id /\ d.id <= calls
        /\ \A b, d \in Pending : b.id = d.id => b = d
        /\ \A d \in Pending :
             /\ d.op = Aux!QueryMappings => d.room = SHFL_MAX_MAPPINGS
             /\ d.op = Aux!CONNECT =>
                  \/ pc = "session" /\ fn = Aux!CONNECT
                  \/ pc = "exit" /\ clientId = 0 /\ exitCode = ERR_NOSHF
             /\ d.op = Aux!DISCONNECT =>
                  /\ d.client = clientId /\ clientId # 0
                  /\ (pc = "end" /\ fn = Aux!DISCONNECT) \/ pc = "exit"
    BY <1>0 DEF HistoryInv
  <2> QED BY <1>2, <1>6, <2>2, <2>5, <2>6 DEF HistoryInv
<1>16. ReplyInv'
  <2>1. fn = Aux!DISCONNECT => pc = "end"
    BY <1>0 DEF ProtocolInv, InitFns
  <2>2. Effect(fn, request) => Effect(fn, request)'
    BY <1>2, <1>8, <1>11, <1>12, <2>1 DEF Effect
  <2> QED BY <1>0, <1>2, <2>2 DEF ReplyInv
<1>17. SessionInv'
  <2>1. sessions' \subseteq ClientIds
    BY <1>0, <1>4, <1>8, <1>9 DEF SessionInv
  <2>2. pc = "session" =>
          /\ \A s, t \in sessions' : s = t
          /\ sessions' # {} => \E p \in performed' : p.id = 1
    <3> SUFFICES ASSUME pc = "session"
                 PROVE  /\ \A s, t \in sessions' : s = t
                        /\ sessions' # {} => \E p \in performed' : p.id = 1
      OBVIOUS
    <3>1. c.id = 1
      BY <1>0, <1>3, <1>6 DEF CountInv
    <3>2. sessions = {}
      BY <1>0, <1>5, <3>1 DEF SessionInv
    <3>3. sessions' = {} \/ sessions' = {r.payload}
      BY <1>4, <1>9, <3>2
    <3>4. [id |-> c.id, reply |-> r] \in performed'
      BY <1>4
    <3> QED BY <3>1, <3>3, <3>4
  <2>3. pc \in {"mappings", "names", "end"} => sessions' \subseteq sessions
    BY <1>4, <1>8
  <2>4. pc \in {"mappings", "names"} \/ (pc = "end" /\ fn = "none")
          => sessions' = sessions
    BY <1>4, <1>8, <1>9
  <2>5. pc = "exit" => \/ sessions' = sessions \/ sessions' = {}
                       \/ clientId = 0 /\ exitCode = ERR_NOSHF
    BY <1>4, <1>8, <1>9, <1>10
  <2> QED BY <1>0, <1>2, <1>3, <1>7, <2>1, <2>2, <2>3, <2>4, <2>5 DEF SessionInv
<1>18. CountInv'
  BY <1>0, <1>2 DEF CountInv
<1> QED BY <1>13, <1>14, <1>15, <1>16, <1>17, <1>18 DEF IInv

(* A reply fits the function that waits for it.                            *)
LEMMA HostReplyMain ==
  ASSUME IInv, Aux!HostReply, UNCHANGED mainVars
  PROVE  IInv'
<1>0. ProtocolInv /\ BufferInv /\ HistoryInv /\ ReplyInv /\ SessionInv /\ CountInv
  BY DEF IInv
<1>1. PICK c \in live, p \in performed :
        /\ p.id = c.id
        /\ request' = Aux!Answered(c.id, p.reply)
        /\ filled' = Aux!FilledAfter(c, p.reply)
        /\ live' = live \ {c}
        /\ UNCHANGED <<s_ds, pciPort, clientId, numMappings, fn, phase, wait_ms,
                       ret, calls, reported, sessions, orphans, performed>>
  BY DEF Aux!HostReply, Aux!outVars
<1>2. UNCHANGED <<pc, opts, installed, mapping, mainRet, exitCode>>
  BY DEF mainVars
<1>3. phase \in {"wait", "cancel"} /\ fn \in Aux!HgcmOps /\ c.op = fn /\ ~ installed
  BY <1>0, <1>1 DEF BufferInv, Pending
<1>4. live' = {} /\ Pending' \subseteq Pending
  BY <1>0, <1>1 DEF BufferInv, HistoryInv, Pending
<1>5. pc \notin Early \cup {"exit"}
  BY <1>0, <1>3 DEF ProtocolInv, InitFns, Early, Aux!HgcmOps
<1>6. ProtocolInv'
  BY <1>0, <1>1, <1>2 DEF ProtocolInv, Aux!Reaches
<1>7. BufferInv'
  BY <1>0, <1>1, <1>2, <1>3, <1>4 DEF BufferInv
<1>8. HistoryInv'
  BY <1>0, <1>1, <1>2, <1>4 DEF HistoryInv, Effect
<1>9. ReplyInv'
  <2>1. request'.result = p.reply.result /\ request'.payload = p.reply.payload
    BY <1>1 DEF Aux!Answered
  <2>2. p.reply.result = S => Effect(fn, p.reply)
    BY <1>0, <1>1, <1>3 DEF HistoryInv, Pending
  <2>3. p.reply.result = S => Effect(fn, request)'
    BY <1>1, <1>2, <2>1, <2>2 DEF Effect
  <2>4. fn = Aux!QueryMappings /\ p.reply.result = S => filled' = request'.payload
    BY <1>1, <1>3, <2>1 DEF Aux!FilledAfter, S
  <2> QED BY <1>1, <1>2, <1>3, <2>1, <2>3, <2>4 DEF ReplyInv
<1>10. SessionInv'
  BY <1>0, <1>1, <1>2, <1>5 DEF SessionInv
<1>11. CountInv'
  <2>1. pc = "names" => filled' = filled
    BY <1>0, <1>1, <1>3 DEF ProtocolInv, Aux!FilledAfter, Aux!HgcmOps
  <2> QED BY <1>0, <1>1, <1>2, <2>1 DEF CountInv
<1> QED BY <1>6, <1>7, <1>8, <1>9, <1>10, <1>11 DEF IInv

-----------------------------------------------------------------------------
(* main's calls.                                                           *)

(* main enters a function of the channel from where it may.                *)
CallsFrom(op, client, payload) ==
  \/ op = Aux!CONNECT /\ pc = "session"
  \/ op = Aux!QueryMappings /\ pc = "mappings" /\ payload = numMappings
  \/ op = Aux!QueryMapName /\ pc = "names" /\ mapping < numMappings
  \/ op = Aux!DISCONNECT /\ pc = "end" /\ client = clientId

(* The request was not sent, or was refused: preset or error code.         *)
LEMMA NotTakenMain ==
  ASSUME IInv, NEW op, NEW client, NEW payload,
         Aux!Send(op, client, payload), CallsFrom(op, client, payload),
         UNCHANGED mainVars, ProtocolInv',
         phase' = "done", request' = Aux!Prepared(payload),
         ret' # S \/ installed,
         UNCHANGED <<filled, sessions, live, orphans, performed>>
  PROVE  IInv'
<1>0. ProtocolInv /\ BufferInv /\ HistoryInv /\ ReplyInv /\ SessionInv /\ CountInv
  BY DEF IInv
<1>1. /\ fn = "none" /\ fn' = op /\ calls' = calls + 1
      /\ UNCHANGED <<s_ds, pciPort, clientId, numMappings, reported>>
      /\ UNCHANGED <<pc, opts, installed, mapping, mainRet, exitCode>>
      /\ Pending' = Pending
  BY SendFrame DEF mainVars, Pending
<1>2. op \in Aux!HgcmOps /\ phase = "idle" /\ live = {} /\ calls \in Nat
  BY <1>0, <1>1 DEF BufferInv, HistoryInv, CallsFrom, Aux!HgcmOps
<1>3. BufferInv'
  <2>1. pc = "session" => orphans = {}
    BY <1>0, <1>2 DEF BufferInv
  <2> QED BY <1>0, <1>1, <1>2, <2>1 DEF BufferInv
<1>4. HistoryInv'
  <2>1. /\ \A c \in Pending : c.id \in Nat /\ 0 < c.id /\ c.id <= calls + 1
        /\ \A p \in performed : p.id \in Nat /\ p.id <= calls + 1
    BY <1>0, <1>2 DEF HistoryInv
  <2>2. \A c \in Pending :
          /\ c.op = Aux!CONNECT => pc = "exit" /\ clientId = 0 /\ exitCode = ERR_NOSHF
          /\ c.op = Aux!DISCONNECT => pc = "exit"
    BY <1>0, <1>1 DEF HistoryInv
  <2>3. \A c \in Pending, p \in performed :
          p.id = c.id /\ p.reply.result = S => Effect(c.op, p.reply)'
    BY <1>0, <1>1 DEF HistoryInv, Effect
  <2> QED BY <1>0, <1>1, <1>2, <2>1, <2>2, <2>3 DEF HistoryInv
<1>5. ReplyInv'
  <2>1. installed /\ op = Aux!QueryMappings => payload = SHFL_MAX_MAPPINGS
    BY <1>0 DEF CallsFrom, CountInv
  <2> QED BY <1>1, <2>1 DEF ReplyInv, Aux!Prepared
<1>6. SessionInv'
  BY <1>0, <1>1 DEF SessionInv, CallsFrom, Early
<1>7. CountInv'
  BY <1>0, <1>1, <1>2 DEF CountInv, CallsFrom, Early
<1> QED BY <1>3, <1>4, <1>5, <1>6, <1>7 DEF IInv

(* The host took it as an asynchronous command.                            *)
LEMMA TakenMain ==
  ASSUME IInv, NEW op, NEW client, NEW payload, NEW c,
         Aux!Send(op, client, payload), CallsFrom(op, client, payload),
         UNCHANGED mainVars, ProtocolInv', ~ installed,
         c = [id |-> calls + 1, op |-> op, client |-> client, room |-> numMappings],
         phase' = "wait", request' = Aux!Prepared(payload),
         live' = live \cup {c},
         UNCHANGED <<filled, sessions, orphans, performed>>
  PROVE  IInv'
<1>0. ProtocolInv /\ BufferInv /\ HistoryInv /\ ReplyInv /\ SessionInv /\ CountInv
  BY DEF IInv
<1>1. /\ fn = "none" /\ fn' = op /\ calls' = calls + 1
      /\ UNCHANGED <<s_ds, pciPort, clientId, numMappings, reported>>
      /\ UNCHANGED <<pc, opts, installed, mapping, mainRet, exitCode>>
      /\ Pending' = Pending \cup {c}
  BY SendFrame DEF mainVars, Pending
<1>2. op \in Aux!HgcmOps /\ phase = "idle" /\ live = {} /\ calls \in Nat
  BY <1>0, <1>1 DEF BufferInv, HistoryInv, CallsFrom, Aux!HgcmOps
<1>3. /\ c.id = calls + 1 /\ c.op = op /\ c.client = client /\ c.room = numMappings
  OBVIOUS
<1>4. BufferInv'
  <2>1. pc = "session" => orphans = {}
    BY <1>0, <1>2 DEF BufferInv
  <2> QED BY <1>0, <1>1, <1>2, <1>3, <2>1 DEF BufferInv, Aux!Prepared
<1>5. HistoryInv'
  <2>1. /\ \A d \in Pending : d.id \in Nat /\ 0 < d.id /\ d.id <= calls
        /\ \A p \in performed : p.id \in Nat /\ p.id <= calls
    BY <1>0 DEF HistoryInv
  <2>2. \A d \in Pending :
          /\ d.op = Aux!CONNECT => pc = "exit" /\ clientId = 0 /\ exitCode = ERR_NOSHF
          /\ d.op = Aux!DISCONNECT =>
               d.client = clientId /\ clientId # 0 /\ pc = "exit"
          /\ d.op = Aux!QueryMappings => d.room = SHFL_MAX_MAPPINGS
    BY <1>0, <1>1 DEF HistoryInv
  <2>3. \A d \in Pending, p \in performed :
          p.id = d.id /\ p.reply.result = S => Effect(d.op, p.reply)'
    BY <1>0, <1>1 DEF HistoryInv, Effect
  <2>4. \A p \in performed : p.id # c.id
    BY <1>2, <1>3, <2>1
  <2>5. \A b, d \in Pending' : b.id = d.id => b = d
    BY <1>0, <1>1, <1>2, <1>3, <2>1 DEF HistoryInv
  <2>6. \A d \in Pending' : d.id \in Nat /\ 0 < d.id /\ d.id <= calls'
    BY <1>1, <1>2, <1>3, <2>1
  <2>7. \A p \in performed' : p.id \in Nat /\ p.id <= calls'
    BY <1>1, <1>2, <2>1
  <2>8. /\ op = Aux!QueryMappings => numMappings = SHFL_MAX_MAPPINGS
        /\ op = Aux!DISCONNECT => client = clientId /\ clientId # 0 /\ pc = "end"
        /\ op = Aux!CONNECT => pc = "session"
    BY <1>0, ChannelAssumption DEF CallsFrom, CountInv, SessionInv
  <2>9. \A d \in Pending' :
          /\ d.op = Aux!QueryMappings => d.room = SHFL_MAX_MAPPINGS
          /\ d.op = Aux!CONNECT =>
               \/ pc = "session" /\ op = Aux!CONNECT
               \/ pc = "exit" /\ clientId = 0 /\ exitCode = ERR_NOSHF
          /\ d.op = Aux!DISCONNECT =>
               /\ d.client = clientId /\ clientId # 0
               /\ (pc = "end" /\ op = Aux!DISCONNECT) \/ pc = "exit"
    BY <1>1, <1>3, <2>2, <2>8
  <2>10. \A d \in Pending', p \in performed' :
          p.id = d.id /\ p.reply.result = S => Effect(d.op, p.reply)'
    BY <1>1, <2>3, <2>4
  <2>11. calls' \in Nat
    BY <1>1, <1>2
  <2> QED BY <1>1, <2>5, <2>6, <2>7, <2>9, <2>10, <2>11 DEF HistoryInv
<1>6. ReplyInv'
  BY <1>1 DEF ReplyInv, Aux!Prepared
<1>7. SessionInv'
  BY <1>0, <1>1 DEF SessionInv, CallsFrom, Early
<1>8. CountInv'
  BY <1>0, <1>1, <1>2 DEF CountInv, CallsFrom, Early
<1> QED BY <1>4, <1>5, <1>6, <1>7, <1>8 DEF IInv

(* The host served it at once.                                             *)
LEMMA ServedMain ==
  ASSUME IInv, NEW op, NEW client, NEW payload, NEW c, NEW r,
         Aux!Send(op, client, payload), CallsFrom(op, client, payload),
         UNCHANGED mainVars, ProtocolInv', ~ installed,
         c = [id |-> calls + 1, op |-> op, client |-> client, room |-> numMappings],
         phase' = "done", Aux!Perform(c, r),
         request' = Aux!Answered(c.id, r), filled' = Aux!FilledAfter(c, r),
         UNCHANGED <<live, orphans>>
  PROVE  IInv'
<1>0. ProtocolInv /\ BufferInv /\ HistoryInv /\ ReplyInv /\ SessionInv /\ CountInv
  BY DEF IInv
<1>1. /\ fn = "none" /\ fn' = op /\ calls' = calls + 1
      /\ UNCHANGED <<s_ds, pciPort, clientId, numMappings, reported>>
      /\ UNCHANGED <<pc, opts, installed, mapping, mainRet, exitCode>>
      /\ Pending' = Pending
  BY SendFrame DEF mainVars, Pending
<1>2. op \in Aux!HgcmOps /\ phase = "idle" /\ live = {} /\ calls \in Nat
  BY <1>0, <1>1 DEF BufferInv, HistoryInv, CallsFrom, Aux!HgcmOps
<1>3. /\ c.id = calls + 1 /\ c.op = op /\ c.client = client /\ c.room = numMappings
  OBVIOUS
<1>4. /\ op = Aux!QueryMappings => numMappings = SHFL_MAX_MAPPINGS
      /\ op = Aux!DISCONNECT => client = clientId /\ pc = "end"
      /\ op = Aux!CONNECT => pc = "session"
  BY <1>0 DEF CallsFrom, CountInv
<1>5. /\ r.result # S => sessions' = sessions
      /\ op = Aux!CONNECT /\ r.result = S =>
           /\ r.payload \in ClientIds /\ sessions' = sessions \cup {r.payload}
      /\ op = Aux!DISCONNECT /\ r.result = S => sessions' = sessions \ {clientId}
      /\ op \notin {Aux!CONNECT, Aux!DISCONNECT} => sessions' = sessions
      /\ op = Aux!QueryMappings /\ r.result = S =>
           r.payload \in Nat /\ r.payload <= SHFL_MAX_MAPPINGS
      /\ performed' = performed \cup {[id |-> calls + 1, reply |-> r]}
  BY <1>0, <1>3, <1>4, PerformSessions DEF SessionInv
<1>6. pc = "session" => Pending = {} /\ sessions = {} /\ calls = 0
  BY <1>1, NothingEarly
<1>7. op = Aux!DISCONNECT /\ r.result = S => sessions' = {}
  BY <1>0, <1>4, <1>5 DEF SessionInv
<1>8. BufferInv'
  BY <1>0, <1>1, <1>2, <1>6 DEF BufferInv, Pending
<1>9. HistoryInv'
  <2>1. /\ \A d \in Pending : d.id \in Nat /\ 0 < d.id /\ d.id <= calls
        /\ \A p \in performed : p.id \in Nat /\ p.id <= calls
    BY <1>0 DEF HistoryInv
  <2>2. \A d \in Pending :
          /\ d.op = Aux!CONNECT => pc = "exit" /\ clientId = 0 /\ exitCode = ERR_NOSHF
          /\ d.op = Aux!DISCONNECT =>
               d.client = clientId /\ clientId # 0 /\ pc = "exit"
          /\ d.op = Aux!QueryMappings => d.room = SHFL_MAX_MAPPINGS
    BY <1>0, <1>1 DEF HistoryInv
  <2>3. pc # "exit" /\ pc # "session" => sessions' = {} \/ sessions' = sessions
    BY <1>4, <1>5, <1>7
  <2>4. \A d \in Pending, p \in performed :
          p.id = d.id /\ p.reply.result = S => Effect(d.op, p.reply)'
    BY <1>0, <1>1, <1>6, <2>2, <2>3 DEF HistoryInv, Effect, CallsFrom
  <2>5. \A p \in performed' : p \in performed \/ p.id = calls + 1
    BY <1>5
  <2>6. \A d \in Pending, p \in performed' : p.id = d.id => p \in performed
    BY <1>2, <2>1, <2>5
  <2>7. \A p \in performed' : p.id \in Nat /\ p.id <= calls'
    BY <1>1, <1>2, <2>1, <2>5
  <2>8. \A d \in Pending : d.id \in Nat /\ 0 < d.id /\ d.id <= calls'
    BY <1>1, <1>2, <2>1
  <2>9. \A b, d \in Pending : b.id = d.id => b = d
    BY <1>0 DEF HistoryInv
  <2>10. calls' \in Nat
    BY <1>1, <1>2
  <2>11. \A d \in Pending, p \in performed' :
          p.id = d.id /\ p.reply.result = S => Effect(d.op, p.reply)'
    BY <2>4, <2>6
  <2> QED BY <1>1, <2>2, <2>7, <2>8, <2>9, <2>10, <2>11 DEF HistoryInv
<1>10. ReplyInv'
  <2>1. request'.result = r.result /\ request'.payload = r.payload
    BY DEF Aux!Answered
  <2>2. r.result = S => Effect(op, request)'
    BY <1>5, <1>7, <2>1 DEF Effect
  <2>3. op = Aux!QueryMappings /\ r.result = S => filled' = request'.payload
    BY <1>3, <2>1 DEF Aux!FilledAfter, S
  <2> QED BY <1>1, <2>1, <2>2, <2>3 DEF ReplyInv
<1>11. SessionInv'
  <2>1. sessions' \subseteq ClientIds
    BY <1>0, <1>2, <1>5 DEF SessionInv, Aux!HgcmOps
  <2>2. pc = "session" =>
          /\ \A s, t \in sessions' : s = t
          /\ \E p \in performed' : p.id = 1
    <3>1. [id |-> calls + 1, reply |-> r] \in performed'
      BY <1>5
    <3>2. pc = "session" => op = Aux!CONNECT
      BY DEF CallsFrom
    <3>3. pc = "session" => sessions' = {} \/ sessions' = {r.payload}
      BY <1>5, <1>6, <3>2
    <3>4. pc = "session" => [id |-> calls + 1, reply |-> r].id = 1
      BY <1>6
    <3> QED BY <3>1, <3>3, <3>4
  <2>3. pc \in {"mappings", "names"} => sessions' = sessions
    BY <1>5 DEF CallsFrom
  <2>4. pc = "end" => sessions' \subseteq sessions /\ op = Aux!DISCONNECT
    BY <1>5 DEF CallsFrom
  <2> QED BY <1>0, <1>1, <2>1, <2>2, <2>3, <2>4 DEF SessionInv, CallsFrom, Early
<1>12. CountInv'
  <2>1. pc = "names" => filled' = filled
    BY <1>3 DEF CallsFrom, Aux!FilledAfter
  <2> QED BY <1>0, <1>1, <1>2, <2>1 DEF CountInv, CallsFrom, Early
<1> QED BY <1>8, <1>9, <1>10, <1>11, <1>12 DEF IInv

LEMMA CallMain ==
  ASSUME IInv, BeginSession \/ GetMappings \/ GetMapName \/ EndSession
  PROVE  IInv'
<1>1. PICK op, client, payload :
        /\ Aux!Send(op, client, payload) /\ CallsFrom(op, client, payload)
        /\ UNCHANGED mainVars
  BY DEF BeginSession, GetMappings, GetMapName, EndSession, CallsFrom,
         Aux!BeginSession, Aux!GetMappings, Aux!GetMapName, Aux!EndSession
<1>2. ProtocolInv'
  BY CallProtocol DEF IInv
<1> DEFINE c == [id |-> calls + 1, op |-> op, client |-> client,
                 room |-> numMappings]
<1>3. installed <=> ~ Aux!Reaches
  BY <1>1 DEF IInv, BufferInv, ProtocolInv, Session, CallsFrom, Aux!Reaches
<1>4. \A e \in HostErrors : e # S
  BY ChannelAssumption DEF S
<1>5. CASE /\ phase' = "done" /\ request' = Aux!Prepared(payload)
           /\ ret' # S \/ installed
           /\ UNCHANGED <<filled, sessions, live, orphans, performed>>
  BY <1>1, <1>2, <1>5, NotTakenMain
<1>6. CASE /\ ~ installed /\ phase' = "wait" /\ request' = Aux!Prepared(payload)
           /\ live' = live \cup {c}
           /\ UNCHANGED <<filled, sessions, orphans, performed>>
  BY <1>1, <1>2, <1>6, TakenMain
<1>7. CASE /\ ~ installed /\ phase' = "done"
           /\ \E r \in Aux!Replies : /\ Aux!Perform(c, r)
                                     /\ request' = Aux!Answered(c.id, r)
                                     /\ filled' = Aux!FilledAfter(c, r)
           /\ UNCHANGED <<live, orphans>>
  <2>1. PICK r \in Aux!Replies : /\ Aux!Perform(c, r)
                                 /\ request' = Aux!Answered(c.id, r)
                                 /\ filled' = Aux!FilledAfter(c, r)
    BY <1>7
  <2> QED BY <1>1, <1>2, <1>7, <2>1, ServedMain
<1> QED BY <1>1, <1>3, <1>4, <1>5, <1>6, <1>7 DEF Aux!Send, Aux!hostVars

-----------------------------------------------------------------------------
(* Inside a call, and back from it.                                        *)

LEMMA InSendMain == ASSUME IInv, InSend PROVE IInv'
<1>0. ProtocolInv /\ BufferInv /\ HistoryInv /\ ReplyInv /\ SessionInv /\ CountInv
  BY DEF IInv
<1>1. UNCHANGED <<pc, installed, mapping, exitCode, s_ds, clientId, numMappings,
                  filled, fn, calls, sessions, performed>>
  BY DEF InSend, mainVars, Aux!PollDone, Aux!PollAgain, Aux!TimeOut, Aux!Cancel,
         Aux!HostCancel, Aux!hostVars, Aux!outVars
<1>2. Pending' = Pending /\ live' \subseteq live
  BY DEF InSend, Aux!PollDone, Aux!PollAgain, Aux!TimeOut, Aux!Cancel,
         Aux!HostCancel, Aux!hostVars, Pending
<1>3. phase \in {"wait", "cancel"} /\ ~ installed /\ pc # "exit"
  BY <1>0 DEF InSend, Aux!PollDone, Aux!PollAgain, Aux!TimeOut, Aux!Cancel,
              BufferInv, ProtocolInv, InitFns, Aux!HgcmOps
<1>4. \/ /\ phase = "wait" /\ request.flags = 1 /\ phase' = "done"
         /\ ret' = S /\ UNCHANGED <<request, live, orphans>>
      \/ phase' = "wait" /\ UNCHANGED <<phase, ret, request, live, orphans>>
      \/ phase' = "cancel" /\ UNCHANGED <<ret, live, orphans>>
      \/ /\ phase' = "done" /\ ret' # S /\ live' = {} /\ UNCHANGED request
  BY DEF InSend, Aux!PollDone, Aux!PollAgain, Aux!TimeOut, Aux!Cancel, S,
         Aux!HostCancel, Aux!hostVars, Aux!VINF_SUCCESS, Aux!VERR_TIMEOUT
<1>5. ProtocolInv'
  BY <1>0, InsideProtocol
<1>6. BufferInv'
  <2>1. fn \in Aux!HgcmOps
    BY <1>0, <1>3 DEF BufferInv
  <2>2. live' # {} => phase' \in {"wait", "cancel"}
    BY <1>0, <1>4 DEF BufferInv
  <2>3. phase' = "wait" /\ request'.flags = 1 => live' = {}
    BY <1>0, <1>4 DEF BufferInv
  <2>4. pc = "session" /\ orphans' # {} => phase' = "done" /\ ret' # S
    BY <1>0, <1>3, <1>4 DEF BufferInv
  <2>5. \A c \in live' : c.id = calls /\ c.op = fn
    BY <1>0, <1>2 DEF BufferInv
  <2>6. phase' # "idle"
    BY <1>4
  <2> QED BY <1>1, <1>3, <2>1, <2>2, <2>3, <2>4, <2>5, <2>6 DEF BufferInv
<1>7. HistoryInv'
  BY <1>0, <1>1, <1>2 DEF HistoryInv, Effect
<1>8. ReplyInv'
  BY <1>0, <1>1, <1>3, <1>4 DEF ReplyInv, Effect
<1>9. SessionInv'
  BY <1>0, <1>1, <1>3 DEF SessionInv
<1>10. CountInv'
  BY <1>0, <1>1 DEF CountInv
<1> QED BY <1>5, <1>6, <1>7, <1>8, <1>9, <1>10 DEF IInv

(* What every return has in common.                                        *)
LEMMA LeaveFrame ==
  ASSUME IInv, Aux!Leave
  PROVE  /\ phase = "done" /\ phase' = "idle" /\ fn' = "none"
         /\ live = {} /\ live' = {} /\ orphans' = orphans /\ Pending' = Pending
         /\ UNCHANGED <<s_ds, filled, request, calls, sessions, performed>>
BY DEF IInv, BufferInv, Aux!Leave, Aux!hostVars, Pending

LEMMA SessionBegunMain == ASSUME IInv, SessionBegun PROVE IInv'
<1>0. ProtocolInv /\ BufferInv /\ HistoryInv /\ ReplyInv /\ SessionInv /\ CountInv
  BY DEF IInv
<1>1. /\ phase = "done" /\ phase' = "idle" /\ fn' = "none"
      /\ live = {} /\ live' = {} /\ orphans' = orphans /\ Pending' = Pending
      /\ UNCHANGED <<s_ds, filled, request, calls, sessions, performed>>
  BY LeaveFrame DEF SessionBegun, Aux!ReturnBeginSession
<1>2. /\ pc = "session" /\ fn = Aux!CONNECT /\ ~ installed /\ clientId = 0
      /\ UNCHANGED <<opts, installed, mapping, numMappings>>
  BY <1>0 DEF SessionBegun, Aux!ReturnBeginSession, ProtocolInv, SessionInv
<1>3. ProtocolInv'
  BY <1>0, ReturnProtocol
<1>4. \/ /\ ret = S /\ request.result = S /\ pc' = "mappings"
         /\ clientId' = request.payload
      \/ pc' = "exit" /\ exitCode' = ERR_NOSHF /\ clientId' = 0
  BY <1>2 DEF SessionBegun, Aux!ReturnBeginSession, Exit, S, ERR_NOSHF, Aux!OK,
              Aux!FAIL
<1>5. pc' = "mappings" => clientId' \in sessions /\ sessions = {clientId'}
                          /\ Pending = {}
  <2>1. ret = S /\ request.result = S => request.payload \in sessions
    BY <1>0, <1>1, <1>2 DEF ReplyInv, Effect
  <2>2. ret = S => Pending = {}
    BY <1>0, <1>1, <1>2 DEF BufferInv, Pending
  <2> QED BY <1>0, <1>2, <1>4, <2>1, <2>2 DEF SessionInv
<1>6. BufferInv'
  BY <1>0, <1>1, <1>2, <1>4 DEF BufferInv, Aux!HgcmOps
<1>7. HistoryInv'
  <2>1. CASE pc' = "mappings"
    BY <1>0, <1>1, <1>5, <2>1 DEF HistoryInv
  <2>2. CASE pc' = "exit"
    BY <1>0, <1>1, <1>2, <1>4, <2>2 DEF HistoryInv, Effect
  <2> QED BY <1>4, <2>1, <2>2
<1>8. ReplyInv'
  BY <1>1, <1>2 DEF ReplyInv
<1>9. SessionInv'
  BY <1>0, <1>1, <1>2, <1>4, <1>5 DEF SessionInv, Early
<1>10. CountInv'
  BY <1>0, <1>1, <1>2, <1>4 DEF CountInv, Early
<1> QED BY <1>3, <1>6, <1>7, <1>8, <1>9, <1>10 DEF IInv

(* The returns that main survives, or that end it after the disconnect.    *)
LEMMA ReturnMain ==
  ASSUME IInv, MappingsGotten \/ MapNameGotten \/ SessionEnded
  PROVE  IInv'
<1>0. ProtocolInv /\ BufferInv /\ HistoryInv /\ ReplyInv /\ SessionInv /\ CountInv
  BY DEF IInv
<1>1. /\ phase = "done" /\ phase' = "idle" /\ fn' = "none"
      /\ live = {} /\ live' = {} /\ orphans' = orphans /\ Pending' = Pending
      /\ UNCHANGED <<s_ds, filled, request, calls, sessions, performed>>
  BY LeaveFrame DEF MappingsGotten, MapNameGotten, SessionEnded,
     Aux!ReturnGetMappings, Aux!ReturnGetMapName, Aux!ReturnEndSession
<1>2. UNCHANGED <<installed, clientId>>
  BY DEF MappingsGotten, MapNameGotten, SessionEnded, Aux!ReturnGetMappings,
         Aux!ReturnGetMapName, Aux!ReturnEndSession
<1>3. \/ /\ pc = "mappings" /\ pc' = "end" /\ fn = Aux!QueryMappings
         /\ mapping' = 0 /\ UNCHANGED exitCode
      \/ /\ pc = "mappings" /\ pc' = "names" /\ fn = Aux!QueryMappings
         /\ ret = S /\ request.result = S /\ numMappings' = request.payload
         /\ mapping' = 0 /\ UNCHANGED exitCode
      \/ /\ pc = "names" /\ pc' = "names" /\ fn = Aux!QueryMapName
         /\ mapping' = mapping + 1 /\ UNCHANGED <<numMappings, exitCode>>
      \/ /\ pc = "end" /\ pc' = "exit" /\ fn = Aux!DISCONNECT
         /\ UNCHANGED <<mapping, numMappings, ret>>
  BY DEF MappingsGotten, MapNameGotten, SessionEnded, Aux!ReturnGetMappings,
         Aux!ReturnGetMapName, Aux!ReturnEndSession, Exit, S, Aux!VINF_SUCCESS
<1>4. ProtocolInv'
  BY <1>0, ReturnProtocol
<1>5. BufferInv'
  BY <1>0, <1>1, <1>2, <1>3 DEF BufferInv, Aux!HgcmOps
<1>6. HistoryInv'
  <2>1. \A c \in Pending : c.op # Aux!CONNECT
    BY <1>0, <1>3 DEF HistoryInv
  <2> QED BY <1>0, <1>1, <1>2, <1>3, <2>1 DEF HistoryInv, Effect
<1>7. ReplyInv'
  BY <1>1 DEF ReplyInv
<1>8. SessionInv'
  <2>1. pc = "end" /\ ~ installed /\ ret = S /\ request.result = S => sessions = {}
    BY <1>0, <1>1, <1>3 DEF ReplyInv, Effect
  <2>2. pc = "end" /\ ~ installed => calls = mapping + 3
    BY <1>0, <1>3 DEF CountInv
  <2>3. pc \in {"mappings", "names"} => clientId \in ClientIds
    BY <1>0 DEF SessionInv
  <2> QED BY <1>0, <1>1, <1>2, <1>3, <2>1, <2>2, <2>3 DEF SessionInv, Early
<1>9. CountInv'
  <2>1. pc' = "names" /\ pc = "mappings" =>
          /\ request.payload \in Nat /\ request.payload <= SHFL_MAX_MAPPINGS
          /\ ~ installed => filled = request.payload
    BY <1>0, <1>1, <1>3, ChannelAssumption DEF ReplyInv, Effect
  <2>2. mapping' \in Nat
    BY <1>0, <1>3 DEF CountInv
  <2>3. ~ installed /\ pc' \in {"names", "end"} => calls = mapping' + 2
    BY <1>0, <1>3 DEF CountInv
  <2> QED BY <1>0, <1>1, <1>2, <1>3, <2>1, <2>2, <2>3 DEF CountInv, Early
<1> QED BY <1>4, <1>5, <1>6, <1>7, <1>8, <1>9 DEF IInv

LEMMA NextMain == IInv /\ [Next]_vars => IInv'
<1> SUFFICES ASSUME IInv, [Next]_vars PROVE IInv'
  OBVIOUS
<1>1. CASE UNCHANGED vars
  BY <1>1 DEF vars, mainVars, auxVars, hostVars, IInv, ProtocolInv, BufferInv,
     HistoryInv, ReplyInv, SessionInv, CountInv, Effect, Pending, Aux!Reaches
<1>2. CASE Host
  BY <1>2, HostReplyMain, HostWorksMain DEF Host, Aux!Host
<1>3. CASE Main
  BY <1>3, OwnMain, InitVirtualMain, CallMain, InSendMain, SessionBegunMain,
     ReturnMain DEF Main
<1> QED BY <1>1, <1>2, <1>3 DEF Next

LEMMA MainCorrect == Spec => []IInv
BY InitMain, NextMain, PTL DEF Spec

(* On every path main uses only the session it opened or took over, while  *)
(* that is open at the host, for any host and any number of shares.        *)
THEOREM SessionsCorrect == Spec => []CallsOnOpenSession
<1>1. IInv => CallsOnOpenSession
  BY DEF IInv, SessionInv, CallsOnOpenSession
<1> QED BY <1>1, MainCorrect, PTL

(* However main ends, its session is closed, unless it never learned the   *)
(* id or the disconnect itself failed.                                     *)
THEOREM LeakCorrect == Spec => []NoLeak
<1>1. IInv => NoLeak
  BY DEF IInv, SessionInv, NoLeak, S
<1> QED BY <1>1, MainCorrect, PTL

(* The copy's session survives another run of the program.                 *)
THEOREM ResidentCorrect == Spec => []ResidentSessionKept
<1>1. IInv => ResidentSessionKept
  BY DEF IInv, SessionInv, ResidentSessionKept
<1> QED BY <1>1, MainCorrect, PTL

(* Without a resident copy, main asks for names only of entries of the     *)
(* array that the host filled in, whatever arrives late or overflows.      *)
THEOREM RootsCorrect == Spec => []RootsComeFromHost
<1>1. IInv => RootsComeFromHost
  BY DEF IInv, ProtocolInv, CountInv, InitFns, RootsComeFromHost
<1> QED BY <1>1, MainCorrect, PTL

(* The loop over the names stays inside the array, for every size of it.   *)
THEOREM IndexCorrect == Spec => []IndexInBounds
<1>1. IInv => IndexInBounds
  BY ChannelAssumption
  DEF IInv, ProtocolInv, CountInv, InitFns, IndexInBounds
<1> QED BY <1>1, MainCorrect, PTL

-----------------------------------------------------------------------------
(* What ERR_SUCCESS means.  A host whose error code has a low byte of 0    *)
(* makes a failure look like success to DOS, so such codes are excluded.   *)

Codes == HostErrors \cup {S, Aux!FAIL, Aux!VERR_TIMEOUT, Aux!VINF_BUFFER_OVERFLOW,
                          Aux!VERR_HGCM_INVALID_CLIENT_ID, ERR_NOSHF}

LowBytes == \A e \in HostErrors : e % 256 # 0

Succeeded(id) == \E p \in performed : p.id = id /\ p.reply.result = S

ListGot == /\ numMappings = filled
           /\ \E p \in performed :
                p.id = 2 /\ p.reply = [result |-> S, payload |-> filled]

CodesInv ==
  /\ \A p \in performed : p.reply \in Aux!Replies
  /\ ret \in Codes /\ request.result \in Codes /\ mainRet \in Codes

SuccessInv ==
  ~ installed =>
    /\ /\ request.result = S
       /\ \/ phase = "wait" /\ request.flags = 1
          \/ phase = "done" /\ ret = S
       => \E p \in performed : /\ p.id = calls /\ p.reply.result = S
                               /\ p.reply.payload = request.payload
    /\ pc = "names" => ListGot
    /\ pc \in {"names", "end"} /\ mainRet = S /\ mapping > 0 => Succeeded(mapping + 2)
    /\ pc = "end" /\ mainRet = S => ListGot /\ (numMappings > 0 => mapping > 0)
    /\ pc = "exit" /\ exitCode = ERR_SUCCESS /\ calls > 0 =>
         ListGot /\ (numMappings > 0 => Succeeded(calls - 1))

LEMMA ReplyCodes == \A r \in Aux!Replies : r.result \in Codes
BY DEF Aux!Replies, Aux!Results, Codes, S

LEMMA CodeBytes ==
  ASSUME LowBytes, NEW e \in Codes, e % 256 = 0
  PROVE  e = S
BY ChannelAssumption
DEF LowBytes, Codes, S, Aux!VINF_SUCCESS, Aux!FAIL, Aux!VERR_TIMEOUT,
    Aux!VINF_BUFFER_OVERFLOW, Aux!VERR_HGCM_INVALID_CLIENT_ID, ERR_NOSHF

LEMMA InitSuccess == Init => CodesInv /\ SuccessInv
BY DEF Init, CodesInv, SuccessInv, Codes, S, Aux!OK, Aux!VINF_SUCCESS,
       Aux!Prepared

LEMMA OwnSuccess ==
  ASSUME IInv, CodesInv, SuccessInv,
         \/ ParseOptions \/ CheckSystem \/ TakeResident \/ NotResident
         \/ NamesDone \/ UNCHANGED vars
  PROVE  CodesInv' /\ SuccessInv'
<1>0. ProtocolInv /\ BufferInv /\ HistoryInv /\ SessionInv /\ CountInv
  BY DEF IInv
<1>1. UNCHANGED <<installed, mapping, mainRet, numMappings, filled, phase, ret,
                  request, calls, performed>>
  BY DEF ParseOptions, CheckSystem, TakeResident, NotResident, NamesDone, vars,
         mainVars, auxVars, hostVars
<1>2. CodesInv'
  BY <1>1 DEF CodesInv
<1>3. CASE ParseOptions \/ CheckSystem \/ NotResident
  <2>1. pc \in Early /\ pc' \in Early \cup {"exit"} /\ UNCHANGED installed
    BY <1>3 DEF ParseOptions, CheckSystem, NotResident, Exit, Early
  <2>2. ~ installed => calls = 0
    BY <1>0, <2>1 DEF CountInv
  <2> QED BY <1>1, <1>2, <2>1, <2>2 DEF SuccessInv, Early
<1>4. CASE TakeResident
  BY <1>1, <1>2, <1>4 DEF TakeResident, SuccessInv
<1>5. CASE NamesDone
  <2>1. pc = "names" /\ pc' = "end" /\ mapping >= numMappings
    BY <1>5 DEF NamesDone
  <2>2. numMappings > 0 => mapping > 0
    BY <1>0, <2>1 DEF CountInv
  <2> QED BY <1>1, <1>2, <2>1, <2>2 DEF SuccessInv, ListGot, Succeeded
<1>6. CASE UNCHANGED vars
  BY <1>1, <1>2, <1>6 DEF vars, mainVars, SuccessInv, ListGot, Succeeded
<1> QED BY <1>3, <1>4, <1>5, <1>6

LEMMA InitVirtualSuccess ==
  ASSUME IInv, CodesInv, SuccessInv, InitVirtual
  PROVE  CodesInv' /\ SuccessInv'
<1>1. /\ pc = "init" /\ pc' \in {"init", "session", "exit"}
      /\ UNCHANGED <<installed, mapping, mainRet>>
      /\ UNCHANGED <<numMappings, filled, phase, request, calls, performed>>
      /\ ret' \in {ret, Aux!OK, Aux!FAIL}
  BY DEF InitVirtual, Exit, Aux!InInit, Aux!FindBackdoor, Aux!ReportGuestInfo2,
     Aux!ReportGuestInfo, Aux!GetVersion, Aux!outVars, Aux!hostVars
<1>2. phase = "idle" /\ calls = 0
  BY <1>1 DEF IInv, ProtocolInv, BufferInv, CountInv, Early, InitFns, Aux!HgcmOps
<1>3. CodesInv'
  BY <1>1 DEF CodesInv, Codes, Aux!OK, S, Aux!VINF_SUCCESS
<1> QED BY <1>1, <1>2, <1>3 DEF SuccessInv

LEMMA CallSuccess ==
  ASSUME IInv, CodesInv, SuccessInv,
         BeginSession \/ GetMappings \/ GetMapName \/ EndSession
  PROVE  CodesInv' /\ SuccessInv'
<1>0. ProtocolInv /\ BufferInv /\ HistoryInv /\ SessionInv /\ CountInv
  BY DEF IInv
<1>1. PICK op, client, payload :
        /\ Aux!Send(op, client, payload) /\ CallsFrom(op, client, payload)
        /\ UNCHANGED mainVars
  BY DEF BeginSession, GetMappings, GetMapName, EndSession, CallsFrom,
         Aux!BeginSession, Aux!GetMappings, Aux!GetMapName, Aux!EndSession
<1> DEFINE c == [id |-> calls + 1, op |-> op, client |-> client,
                 room |-> numMappings]
<1>2. /\ calls' = calls + 1 /\ numMappings' = numMappings
      /\ UNCHANGED <<pc, opts, installed, mapping, mainRet, exitCode>>
  BY <1>1, SendFrame DEF mainVars
<1>3. pc # "exit" /\ c.id = calls + 1 /\ c.op = op
  BY <1>1 DEF CallsFrom
<1>4. CASE /\ phase' = "done" /\ request' = Aux!Prepared(payload)
           /\ ret' \in HostErrors \cup {S}
           /\ ret' # S \/ installed
           /\ UNCHANGED <<filled, performed>>
  <2>1. CodesInv'
    BY <1>2, <1>4 DEF CodesInv, Codes, Aux!Prepared, S
  <2> QED BY <1>2, <1>3, <1>4, <2>1 DEF SuccessInv, ListGot, Succeeded
<1>5. CASE /\ phase' = "wait" /\ request' = Aux!Prepared(payload)
           /\ UNCHANGED <<ret, filled, performed>>
  <2>1. CodesInv'
    BY <1>2, <1>5 DEF CodesInv, Codes, Aux!Prepared, S
  <2> QED BY <1>2, <1>3, <1>5, <2>1
          DEF SuccessInv, ListGot, Succeeded, Aux!Prepared
<1>6. CASE /\ phase' = "done" /\ ret' = S
           /\ \E r \in Aux!Replies : /\ Aux!Perform(c, r)
                                     /\ request' = Aux!Answered(c.id, r)
                                     /\ filled' = Aux!FilledAfter(c, r)
  <2>1. PICK r \in Aux!Replies : /\ Aux!Perform(c, r)
                                 /\ request' = Aux!Answered(c.id, r)
                                 /\ filled' = Aux!FilledAfter(c, r)
    BY <1>6
  <2> HIDE DEF c
  <2>2. performed' = performed \cup {[id |-> c.id, reply |-> r]}
    BY <2>1 DEF Aux!Perform
  <2>3. request'.result = r.result /\ request'.payload = r.payload
    BY <2>1 DEF Aux!Answered
  <2>4. \A p \in performed' : p \in performed \/ p.reply = r
    BY <2>2
  <2>5. CodesInv'
    BY <1>2, <1>6, <2>1, <2>3, <2>4, ReplyCodes DEF CodesInv, Codes
  <2>6. [id |-> c.id, reply |-> r] \in performed' /\ performed \subseteq performed'
    BY <2>2
  <2>7. request'.result = S =>
          \E p \in performed' : /\ p.id = calls' /\ p.reply.result = S
                                /\ p.reply.payload = request'.payload
    BY <1>2, <1>3, <2>3, <2>6
  <2>8. pc \in {"names", "end"} => filled' = filled
    BY <1>1, <1>3, <2>1 DEF CallsFrom, Aux!FilledAfter
  <2> QED BY <1>2, <1>3, <2>5, <2>6, <2>7, <2>8 DEF SuccessInv, ListGot, Succeeded
<1> QED BY <1>1, <1>4, <1>5, <1>6, ChannelAssumption
        DEF Aux!Send, Aux!hostVars, S, CodesInv, IInv, BufferInv, ProtocolInv,
            Session, CallsFrom, Aux!Reaches

LEMMA InSendSuccess ==
  ASSUME IInv, CodesInv, SuccessInv, InSend
  PROVE  CodesInv' /\ SuccessInv'
<1>0. BufferInv /\ ProtocolInv
  BY DEF IInv
<1>1. UNCHANGED <<pc, installed, mapping, mainRet, exitCode, numMappings, filled,
                  calls, performed>>
  BY DEF InSend, mainVars, Aux!PollDone, Aux!PollAgain, Aux!TimeOut, Aux!Cancel,
         Aux!HostCancel, Aux!hostVars, Aux!outVars
<1>2. \/ /\ phase = "wait" /\ request.flags = 1 /\ phase' = "done"
         /\ ret' = S /\ UNCHANGED request
      \/ UNCHANGED <<phase, ret, request>>
      \/ phase' = "cancel" /\ request' = [request EXCEPT !.flags = 0] /\ UNCHANGED ret
      \/ phase' = "done" /\ ret' = Aux!VERR_TIMEOUT /\ UNCHANGED request
  BY DEF InSend, Aux!PollDone, Aux!PollAgain, Aux!TimeOut, Aux!Cancel, S,
         Aux!HostCancel, Aux!hostVars
<1>3. Aux!VERR_TIMEOUT # S
  BY DEF S, Aux!VERR_TIMEOUT, Aux!VINF_SUCCESS
<1>4. [request EXCEPT !.flags = 0].result = request.result
  OBVIOUS
<1>5. CodesInv'
  BY <1>1, <1>2, <1>4 DEF CodesInv, Codes
<1> QED BY <1>1, <1>2, <1>3, <1>5 DEF SuccessInv, ListGot, Succeeded

LEMMA SessionBegunSuccess ==
  ASSUME IInv, CodesInv, SuccessInv, SessionBegun
  PROVE  CodesInv' /\ SuccessInv'
<1>1. phase' = "idle" /\ UNCHANGED <<request, performed, mainRet>>
  BY LeaveFrame DEF SessionBegun, Aux!ReturnBeginSession
<1>2. /\ pc' = "mappings" \/ (pc' = "exit" /\ exitCode' # ERR_SUCCESS)
      /\ ret' \in {Aux!OK, Aux!FAIL}
  BY DEF SessionBegun, Aux!ReturnBeginSession, Exit, ERR_NOSHF, ERR_SUCCESS,
         Aux!OK, Aux!FAIL
<1>3. CodesInv'
  BY <1>1, <1>2 DEF CodesInv, Codes, Aux!OK, S, Aux!VINF_SUCCESS
<1> QED BY <1>1, <1>2, <1>3 DEF SuccessInv

LEMMA MappingsSuccess ==
  ASSUME IInv, CodesInv, SuccessInv, MappingsGotten
  PROVE  CodesInv' /\ SuccessInv'
<1>1. /\ phase = "done" /\ phase' = "idle"
      /\ UNCHANGED <<request, performed, filled, calls, installed>>
  BY LeaveFrame DEF MappingsGotten, Aux!ReturnGetMappings
<1>2. /\ fn = Aux!QueryMappings /\ mapping' = 0 /\ ret' \in {ret, request.result}
      /\ \/ pc' = "end" /\ mainRet' = ERR_NOSHF
         \/ /\ pc' = "names" /\ mainRet' = S /\ numMappings' = request.payload
            /\ ret = S /\ request.result = S
  BY DEF MappingsGotten, Aux!ReturnGetMappings, S, Aux!VINF_SUCCESS
<1>3. CodesInv'
  BY <1>1, <1>2 DEF CodesInv, Codes
<1>4. ERR_NOSHF # S
  BY DEF ERR_NOSHF, S, Aux!VINF_SUCCESS
<1>5. ~ installed /\ pc' = "names" => ListGot'
  <2> SUFFICES ASSUME ~ installed, pc' = "names" PROVE ListGot'
    OBVIOUS
  <2>1. calls = 2 /\ filled = request.payload
    BY <1>1, <1>2 DEF IInv, ReplyInv, CountInv, ProtocolInv, InitFns
  <2>2. PICK p \in performed : /\ p.id = 2 /\ p.reply.result = S
                               /\ p.reply.payload = filled
    BY <1>1, <1>2, <2>1 DEF SuccessInv
  <2>3. p.reply \in Aux!Replies
    BY DEF CodesInv
  <2>4. p.reply = [result |-> S, payload |-> filled]
    BY <2>2, <2>3 DEF Aux!Replies
  <2> QED BY <1>1, <1>2, <2>1, <2>2, <2>4 DEF ListGot
<1> QED BY <1>1, <1>2, <1>3, <1>4, <1>5 DEF SuccessInv

LEMMA NameSuccess ==
  ASSUME IInv, CodesInv, SuccessInv, MapNameGotten
  PROVE  CodesInv' /\ SuccessInv'
<1>1. /\ phase = "done" /\ phase' = "idle"
      /\ UNCHANGED <<request, performed, filled, calls, installed>>
  BY LeaveFrame DEF MapNameGotten, Aux!ReturnGetMapName
<1>2. /\ pc = "names" /\ pc' = "names" /\ fn = Aux!QueryMapName
      /\ mapping' = mapping + 1 /\ mainRet' = ret' /\ UNCHANGED numMappings
      /\ ret' = IF ret = S THEN request.result ELSE ret
  BY DEF MapNameGotten, Aux!ReturnGetMapName, S
<1>3. CodesInv'
  BY <1>1, <1>2 DEF CodesInv
<1>4. ~ installed /\ mainRet' = S => Succeeded(mapping + 2)'
  <2> SUFFICES ASSUME ~ installed, mainRet' = S PROVE Succeeded(mapping + 2)'
    OBVIOUS
  <2>1. calls = mapping + 3 /\ mapping \in Nat
    BY <1>2 DEF IInv, CountInv
  <2>2. ret = S /\ request.result = S
    BY <1>2
  <2>3. PICK p \in performed : p.id = calls /\ p.reply.result = S
    BY <1>1, <2>2 DEF SuccessInv
  <2>4. mapping' + 2 = calls
    BY <1>2, <2>1
  <2> QED BY <1>1, <2>3, <2>4 DEF Succeeded
<1> QED BY <1>1, <1>2, <1>3, <1>4 DEF SuccessInv, ListGot

LEMMA EndedSuccess ==
  ASSUME LowBytes, IInv, CodesInv, SuccessInv, SessionEnded
  PROVE  CodesInv' /\ SuccessInv'
<1>1. /\ phase = "done" /\ phase' = "idle"
      /\ UNCHANGED <<request, performed, filled, calls>>
  BY LeaveFrame DEF SessionEnded, Aux!ReturnEndSession
<1>2. /\ pc = "end" /\ pc' = "exit" /\ fn = Aux!DISCONNECT
      /\ exitCode' = mainRet % 256
      /\ UNCHANGED <<installed, mapping, mainRet, numMappings, ret>>
  BY DEF SessionEnded, Aux!ReturnEndSession, Exit
<1>3. CodesInv'
  BY <1>1, <1>2 DEF CodesInv
<1>4. exitCode' = ERR_SUCCESS => mainRet = S
  BY <1>2, CodeBytes DEF CodesInv, ERR_SUCCESS
<1>5. ~ installed => calls - 1 = mapping + 2
  BY <1>2 DEF IInv, CountInv
<1>6. \A i \in Nat : i > 0 /\ ~ installed /\ mainRet = S /\ mapping = i
                       => Succeeded(calls - 1)
  BY <1>2, <1>5 DEF SuccessInv
<1>7. mapping \in Nat
  BY DEF IInv, CountInv
<1> QED BY <1>1, <1>2, <1>3, <1>4, <1>6, <1>7 DEF SuccessInv, ListGot, Succeeded

LEMMA HostSuccess ==
  ASSUME IInv, CodesInv, SuccessInv, Host
  PROVE  CodesInv' /\ SuccessInv'
<1>0. ProtocolInv /\ BufferInv /\ HistoryInv
  BY DEF IInv
<1>1. CASE Aux!HostReply
  <2>1. PICK c \in live, p \in performed :
          /\ p.id = c.id
          /\ request' = Aux!Answered(c.id, p.reply)
          /\ filled' = Aux!FilledAfter(c, p.reply)
          /\ UNCHANGED <<numMappings, phase, ret, calls, performed>>
    BY <1>1 DEF Aux!HostReply, Aux!outVars
  <2>2. UNCHANGED <<pc, installed, mapping, mainRet, exitCode>>
    BY DEF Host, mainVars
  <2>3. c.id = calls /\ c.op = fn /\ fn \in Aux!HgcmOps
    BY <1>0, <2>1 DEF BufferInv
  <2>4. request'.result = p.reply.result /\ request'.payload = p.reply.payload
    BY <2>1 DEF Aux!Answered
  <2>5. pc \in {"names", "end", "exit"} => filled' = filled
    BY <1>0, <2>1, <2>3 DEF ProtocolInv, Aux!FilledAfter, InitFns, Aux!HgcmOps
  <2>6. CodesInv'
    BY <2>1, <2>2, <2>4, ReplyCodes DEF CodesInv
  <2> QED BY <2>1, <2>2, <2>3, <2>4, <2>5, <2>6 DEF SuccessInv, ListGot, Succeeded
<1>2. CASE Aux!HostWorks
  <2>1. PICK c \in live \cup orphans, r \in Aux!Replies :
          performed' = performed \cup {[id |-> c.id, reply |-> r]}
    BY <1>2 DEF Aux!HostWorks, Aux!HostPerform, Aux!Perform
  <2>2. UNCHANGED <<pc, installed, mapping, mainRet, exitCode, numMappings, filled,
                    phase, ret, request, calls>>
    BY <1>2 DEF Host, mainVars, Aux!HostWorks, Aux!guestVars, Aux!outVars
  <2>3. performed \subseteq performed'
        /\ \A p \in performed' : p \in performed \/ p.reply = r
    BY <2>1
  <2>4. CodesInv'
    BY <2>2, <2>3 DEF CodesInv
  <2> QED BY <2>2, <2>3, <2>4 DEF SuccessInv, ListGot, Succeeded
<1> QED BY <1>1, <1>2 DEF Host, Aux!Host

(* The exit code is set with the exit.                                     *)
ExitInv == pc # "exit" => exitCode = -1

LEMMA NextExit == ExitInv /\ [Next]_vars => ExitInv'
<1> SUFFICES ASSUME ExitInv, [Next]_vars, pc' # "exit" PROVE exitCode' = -1
  BY DEF ExitInv
<1> USE DEF ExitInv
<1>1. CASE ParseOptions \/ CheckSystem \/ TakeResident \/ NotResident
           \/ InitVirtual \/ NamesDone
  BY <1>1 DEF ParseOptions, CheckSystem, TakeResident, NotResident, InitVirtual,
              NamesDone, Exit
<1>2. CASE BeginSession \/ GetMappings \/ GetMapName \/ EndSession \/ InSend
           \/ Host \/ UNCHANGED vars
  BY <1>2 DEF BeginSession, GetMappings, GetMapName, EndSession, InSend, Host,
              vars, mainVars
<1>3. CASE SessionBegun \/ MappingsGotten \/ MapNameGotten \/ SessionEnded
  BY <1>3 DEF SessionBegun, MappingsGotten, MapNameGotten, SessionEnded, Exit
<1> QED BY <1>1, <1>2, <1>3 DEF Next, Main

(* If main ends with ERR_SUCCESS after it opened a session, it has got the *)
(* host's whole list and the name of the last share, provided that no code *)
(* of the host reads as 0 in the one byte that DOS keeps.                  *)
THEOREM SuccessCorrect ==
  ASSUME LowBytes
  PROVE  Spec => []SuccessIsReal
<1>1. CodesInv /\ SuccessInv /\ IInv /\ [Next]_vars => CodesInv' /\ SuccessInv'
  BY OwnSuccess, InitVirtualSuccess, CallSuccess, InSendSuccess,
     SessionBegunSuccess, MappingsSuccess, NameSuccess, EndedSuccess, HostSuccess
  DEF Next, Main
<1>2. ExitInv /\ SuccessInv => SuccessIsReal
  BY DEF ExitInv, SuccessInv, SuccessIsReal, ListGot, Succeeded, S, ERR_SUCCESS
<1>3. Init => ExitInv
  BY DEF Init, ExitInv
<1> QED BY <1>1, <1>2, <1>3, InitSuccess, NextExit, MainCorrect, PTL DEF Spec

-----------------------------------------------------------------------------
(* What VBoxAux_proofs shows of the channel, used under main.              *)
AuxProofs == INSTANCE VBoxAux_proofs
               WITH MaxCalls <- SHFL_MAX_MAPPINGS + HostShares + 3

(* What VBoxAux assumes of its constants holds of those it is given.       *)
LEMMA AuxAssumptions ==
  /\ SHFL_MAX_MAPPINGS + HostShares + 3 \in Nat
  /\ HostErrors \subseteq Int \ {AuxProofs!VINF_SUCCESS, AuxProofs!VINF_BUFFER_OVERFLOW,
                                 AuxProofs!VINF_HGCM_ASYNC_EXECUTE, AuxProofs!VERR_TIMEOUT}
  /\ ClientIds \subseteq Nat \ {0} /\ HostShares \in Nat
  /\ VMMDEV_ASYNC_TIMEOUT \in Nat \ {0} /\ SHFL_MAX_MAPPINGS \in Nat
BY ChannelAssumption
DEF AuxProofs!VINF_SUCCESS, Aux!VINF_SUCCESS, AuxProofs!VERR_TIMEOUT, Aux!VERR_TIMEOUT,
    AuxProofs!VINF_BUFFER_OVERFLOW, Aux!VINF_BUFFER_OVERFLOW,
    AuxProofs!VINF_HGCM_ASYNC_EXECUTE, Aux!VINF_HGCM_ASYNC_EXECUTE

(* Both instances of the channel mean the same.                            *)
LEMMA SameTypes == AuxProofs!TypeOK <=> Aux!TypeOK
BY DEF AuxProofs!TypeOK, Aux!TypeOK, AuxProofs!Functions, Aux!Functions,
  AuxProofs!Phases, Aux!Phases, AuxProofs!Requests, Aux!Requests,
  AuxProofs!Commands, Aux!Commands, AuxProofs!Replies, Aux!Replies,
  AuxProofs!Results, Aux!Results, AuxProofs!Payloads, Aux!Payloads,
  AuxProofs!VINF_SUCCESS, Aux!VINF_SUCCESS,
  AuxProofs!VINF_BUFFER_OVERFLOW, Aux!VINF_BUFFER_OVERFLOW,
  AuxProofs!VERR_HGCM_INVALID_CLIENT_ID, Aux!VERR_HGCM_INVALID_CLIENT_ID,
  AuxProofs!HgcmOps, Aux!HgcmOps, AuxProofs!CONNECT, AuxProofs!DISCONNECT,
  AuxProofs!QueryMappings, AuxProofs!QueryMapName

LEMMA SameHost ==
  /\ AuxProofs!hostVars = Aux!hostVars /\ AuxProofs!outVars = Aux!outVars
  /\ AuxProofs!guestVars = Aux!guestVars /\ AuxProofs!auxVars = Aux!auxVars
  /\ Aux!auxVars = <<Aux!guestVars, reported, Aux!hostVars>>
BY DEF AuxProofs!hostVars, Aux!hostVars, AuxProofs!outVars, Aux!outVars,
  AuxProofs!guestVars, Aux!guestVars, AuxProofs!auxVars, Aux!auxVars

LEMMA SameData ==
  /\ AuxProofs!VINF_SUCCESS = Aux!VINF_SUCCESS /\ AuxProofs!OK = Aux!OK
  /\ AuxProofs!FAIL = Aux!FAIL /\ AuxProofs!VERR_TIMEOUT = Aux!VERR_TIMEOUT
  /\ AuxProofs!VINF_BUFFER_OVERFLOW = Aux!VINF_BUFFER_OVERFLOW
  /\ AuxProofs!VERR_NOT_SUPPORTED = Aux!VERR_NOT_SUPPORTED
  /\ AuxProofs!VERR_NOT_IMPLEMENTED = Aux!VERR_NOT_IMPLEMENTED
  /\ AuxProofs!Replies = Aux!Replies /\ AuxProofs!HgcmOps = Aux!HgcmOps
  /\ \A n : AuxProofs!Prepared(n) = Aux!Prepared(n)
  /\ \A id, r : AuxProofs!Answered(id, r) = Aux!Answered(id, r)
  /\ \A c, r : AuxProofs!FilledAfter(c, r) = Aux!FilledAfter(c, r)
BY DEF AuxProofs!VINF_SUCCESS, Aux!VINF_SUCCESS, AuxProofs!OK, Aux!OK,
  AuxProofs!FAIL, Aux!FAIL, AuxProofs!VERR_TIMEOUT, Aux!VERR_TIMEOUT,
  AuxProofs!VINF_BUFFER_OVERFLOW, Aux!VINF_BUFFER_OVERFLOW,
  AuxProofs!VERR_NOT_SUPPORTED, Aux!VERR_NOT_SUPPORTED,
  AuxProofs!VERR_NOT_IMPLEMENTED, Aux!VERR_NOT_IMPLEMENTED,
  AuxProofs!Replies, Aux!Replies, AuxProofs!Results, Aux!Results,
  AuxProofs!Payloads, Aux!Payloads, AuxProofs!HgcmOps, Aux!HgcmOps,
  AuxProofs!VERR_HGCM_INVALID_CLIENT_ID, Aux!VERR_HGCM_INVALID_CLIENT_ID,
  AuxProofs!CONNECT, AuxProofs!DISCONNECT, AuxProofs!QueryMappings,
  AuxProofs!QueryMapName, AuxProofs!Prepared, Aux!Prepared,
  AuxProofs!Answered, Aux!Answered, AuxProofs!FilledAfter, Aux!FilledAfter

LEMMA SamePerform ==
  \A c, r : AuxProofs!Perform(c, r) <=> Aux!Perform(c, r)
BY SameData
DEF AuxProofs!Perform, Aux!Perform, AuxProofs!Answers, Aux!Answers,
  AuxProofs!SessionsAfter, Aux!SessionsAfter,
  AuxProofs!VERR_HGCM_INVALID_CLIENT_ID, Aux!VERR_HGCM_INVALID_CLIENT_ID,
  AuxProofs!VINF_SUCCESS, Aux!VINF_SUCCESS, AuxProofs!VINF_BUFFER_OVERFLOW,
  Aux!VINF_BUFFER_OVERFLOW, AuxProofs!CONNECT, Aux!CONNECT,
  AuxProofs!DISCONNECT, Aux!DISCONNECT, AuxProofs!QueryMappings,
  Aux!QueryMappings, AuxProofs!QueryMapName, Aux!QueryMapName

LEMMA SameInInit ==
  AuxProofs!InInit <=> Aux!InInit
BY SameData
DEF AuxProofs!InInit, Aux!InInit, AuxProofs!FindBackdoor, Aux!FindBackdoor,
  AuxProofs!ReportGuestInfo2, Aux!ReportGuestInfo2, AuxProofs!ReportGuestInfo,
  Aux!ReportGuestInfo, AuxProofs!GetVersion, Aux!GetVersion,
  AuxProofs!hostVars, Aux!hostVars, AuxProofs!outVars, Aux!outVars

LEMMA SameInCall ==
  AuxProofs!InCall <=> Aux!InCall
BY SameData
DEF AuxProofs!InCall, Aux!InCall, AuxProofs!PollDone, Aux!PollDone,
  AuxProofs!PollAgain, Aux!PollAgain, AuxProofs!TimeOut, Aux!TimeOut,
  AuxProofs!Cancel, Aux!Cancel, AuxProofs!HostCancel, Aux!HostCancel,
  AuxProofs!ReturnBeginSession, Aux!ReturnBeginSession,
  AuxProofs!ReturnGetMappings, Aux!ReturnGetMappings,
  AuxProofs!ReturnGetMapName, Aux!ReturnGetMapName, AuxProofs!ReturnEndSession,
  Aux!ReturnEndSession, AuxProofs!Leave, Aux!Leave, AuxProofs!CONNECT,
  Aux!CONNECT, AuxProofs!DISCONNECT, Aux!DISCONNECT, AuxProofs!QueryMappings,
  Aux!QueryMappings, AuxProofs!QueryMapName, Aux!QueryMapName,
  AuxProofs!hostVars, Aux!hostVars, AuxProofs!outVars, Aux!outVars

LEMMA SameHostStep ==
  AuxProofs!Host <=> Aux!Host
BY SameData, SamePerform
DEF AuxProofs!Host, Aux!Host, AuxProofs!HostReply, Aux!HostReply,
  AuxProofs!HostWorks, Aux!HostWorks, AuxProofs!HostPerform, Aux!HostPerform,
  AuxProofs!IsPerformed, Aux!IsPerformed, AuxProofs!guestVars, Aux!guestVars,
  AuxProofs!hostVars, Aux!hostVars, AuxProofs!outVars, Aux!outVars

LEMMA SameSend ==
  \A op, client, payload :
    AuxProofs!Send(op, client, payload) <=> Aux!Send(op, client, payload)
BY SameData, SamePerform
DEF AuxProofs!Send, Aux!Send, AuxProofs!Reaches, Aux!Reaches,
  AuxProofs!hostVars, Aux!hostVars, AuxProofs!outVars, Aux!outVars

LEMMA SameCall ==
  AuxProofs!Call <=> Aux!Call
BY SameSend
DEF AuxProofs!Call, Aux!Call, AuxProofs!Reaches, Aux!Reaches,
  AuxProofs!BeginSession, Aux!BeginSession, AuxProofs!GetMappings,
  Aux!GetMappings, AuxProofs!GetMapName, Aux!GetMapName, AuxProofs!EndSession,
  Aux!EndSession, AuxProofs!CONNECT, Aux!CONNECT, AuxProofs!DISCONNECT,
  Aux!DISCONNECT, AuxProofs!QueryMappings, Aux!QueryMappings,
  AuxProofs!QueryMapName, Aux!QueryMapName

(* The types of the channel under each kind of step.                       *)
LEMMA ChannelTypes ==
  ASSUME Aux!TypeOK, Aux!InInit \/ Aux!InCall \/ Aux!Host
  PROVE  Aux!TypeOK'
<1>1. AuxProofs!TypeOK /\ (AuxProofs!InInit \/ AuxProofs!InCall \/ AuxProofs!Host)
  BY SameTypes, SameInInit, SameInCall, SameHostStep
<1>2. AuxProofs!TypeOK'
  BY <1>1, AuxAssumptions, AuxProofs!InInitTypes, AuxProofs!InCallTypes,
     AuxProofs!HostTypes
<1>3. AuxProofs!TypeOK' <=> Aux!TypeOK'
  BY SameTypes, PTL
<1> QED BY <1>2, <1>3

LEMMA SendKeepsTypes ==
  ASSUME NEW op \in Aux!HgcmOps, NEW client \in Nat, NEW payload \in Nat,
         Aux!TypeOK, Aux!Send(op, client, payload)
  PROVE  Aux!TypeOK'
<1>1. /\ AuxProofs!TypeOK /\ AuxProofs!Send(op, client, payload)
      /\ op \in AuxProofs!HgcmOps
  BY SameTypes, SameSend, SameData
<1>2. AuxProofs!TypeOK'
  BY <1>1, AuxAssumptions, AuxProofs!SendTypes
<1>3. AuxProofs!TypeOK' <=> Aux!TypeOK'
  BY SameTypes, PTL
<1> QED BY <1>2, <1>3

LEMMA OptionsTypes ==
  ASSUME TypeOK, ParseOptions
  PROVE  opts' \in Options
<1>1. PICK args \in ArgStrings :
        opts' = [verbosity |-> IF GetOptions(args).ret = 1 THEN "NORMAL"
                               ELSE GetOptions(args).verbosity,
                 uninstall |-> GetOptions(args).uninstall,
                 testOnly |-> GetOptions(args).testOnly]
  BY DEF ParseOptions
<1>2. GetOptions(args) \in Globals
  BY ArgStringsAssumption, GetOptionsType
<1> QED BY <1>1, <1>2 DEF Globals, Options, Verbosities

LEMMA InitTypesMain == Init => TypeOK
<1> SUFFICES ASSUME Init PROVE TypeOK
  OBVIOUS
<1>1. installed \in BOOLEAN /\ reported \in BOOLEAN
  BY ResidentAssumption DEF Init
<1>2. request \in Aux!Requests
  BY DEF Init, Aux!Requests, Aux!Prepared, Aux!VINF_SUCCESS
<1>3. /\ clientId \in Nat /\ numMappings \in Nat /\ filled \in Nat
      /\ wait_ms \in 0 .. VMMDEV_ASYNC_TIMEOUT
      /\ ret \in Int /\ calls \in Nat
  BY ChannelAssumption DEF Init, Aux!OK
<1>4. sessions \subseteq ClientIds
  BY ResidentAssumption DEF Init
<1>5. s_ds \in BOOLEAN
  BY Zenon DEF Init
<1>6. Aux!TypeOK
  BY <1>1, <1>2, <1>3, <1>4, <1>5 DEF Init, Aux!TypeOK, Aux!Functions, Aux!Phases
<1> QED BY <1>1, <1>6 DEF Init, TypeOK, Options, Verbosities, PCs

LEMMA AuxTypesMain ==
  ASSUME TypeOK, [Next]_vars
  PROVE  Aux!TypeOK'
<1>0. Aux!TypeOK /\ clientId \in Nat /\ numMappings \in Nat
  BY DEF TypeOK, Aux!TypeOK
<1>1. CASE ParseOptions \/ CheckSystem \/ NotResident \/ NamesDone \/ UNCHANGED vars
  <2>1. UNCHANGED auxVars
    BY <1>1 DEF ParseOptions, CheckSystem, NotResident, NamesDone, vars
  <2> QED BY <1>0, <2>1 DEF Aux!TypeOK, auxVars, hostVars
<1>2. CASE TakeResident
  <2>1. ResidentClient \in Nat
    BY ChannelAssumption, ResidentAssumption
  <2> QED BY <1>0, <1>2, <2>1 DEF TakeResident, Aux!TypeOK, hostVars
<1>3. CASE InitVirtual
  BY <1>0, <1>3, ChannelTypes DEF InitVirtual
<1>4. CASE BeginSession \/ GetMappings \/ GetMapName \/ EndSession
  <2>1. 0 \in Nat
    OBVIOUS
  <2> QED BY <1>0, <1>4, <2>1, SendKeepsTypes
          DEF BeginSession, GetMappings, GetMapName, EndSession, Aux!BeginSession,
              Aux!GetMappings, Aux!GetMapName, Aux!EndSession, Aux!HgcmOps
<1>5. CASE SessionBegun \/ MappingsGotten \/ MapNameGotten \/ SessionEnded \/ InSend
  BY <1>0, <1>5, ChannelTypes
  DEF SessionBegun, MappingsGotten, MapNameGotten, SessionEnded, InSend, Aux!InCall
<1>6. CASE Host
  BY <1>0, <1>6, ChannelTypes DEF Host
<1> QED BY <1>1, <1>2, <1>3, <1>4, <1>5, <1>6 DEF Next, Main

(* What the steps do to main's own variables, given that the channel's ret *)
(* is a number.                                                            *)
OwnTypes == /\ pc \in PCs /\ opts \in Options /\ installed \in BOOLEAN
            /\ mapping \in Nat /\ mainRet \in Int /\ exitCode \in -1 .. 255
            /\ (pc = "exit") = (exitCode # -1)

LEMMA ExitTypes ==
  ASSUME NEW code \in Int, Exit(code)
  PROVE  pc' = "exit" /\ exitCode' \in 0 .. 255
BY DEF Exit

LEMMA OwnTypesMain ==
  ASSUME TypeOK, [Next]_vars, ret' \in Int
  PROVE  OwnTypes'
<1>0. OwnTypes
  BY DEF TypeOK, OwnTypes
<1>1. /\ ERR_SUCCESS \in Int /\ ERR_NOTINST \in Int /\ ERR_BADOPTS \in Int
      /\ ERR_WRONGOS \in Int /\ ERR_NOVIRT \in Int /\ ERR_NOSHF \in Int
      /\ ERR_NOALLWD \in Int /\ ERR_SYSTEM \in Int /\ mainRet \in Int
  BY <1>0 DEF ERR_SUCCESS, ERR_NOTINST, ERR_BADOPTS, ERR_WRONGOS, ERR_NOVIRT,
      ERR_NOSHF, ERR_NOALLWD, ERR_SYSTEM, OwnTypes
<1>2. ASSUME UNCHANGED <<opts, installed, mapping, mainRet>>,
             \/ pc # "exit" /\ pc' \in PCs \ {"exit"} /\ UNCHANGED exitCode
             \/ pc' = "exit" /\ exitCode' \in 0 .. 255
             \/ UNCHANGED <<pc, exitCode>>
      PROVE  OwnTypes'
  BY <1>0, <1>2 DEF OwnTypes, PCs
<1>3. CASE ParseOptions
  <2>1. opts' \in Options
    BY <1>3, OptionsTypes
  <2>2. \/ pc # "exit" /\ pc' \in PCs \ {"exit"} /\ UNCHANGED exitCode
        \/ pc' = "exit" /\ exitCode' \in 0 .. 255
    BY <1>1, <1>3, ExitTypes DEF ParseOptions, PCs
  <2>3. UNCHANGED <<installed, mapping, mainRet>>
    BY <1>3 DEF ParseOptions
  <2> QED BY <1>0, <2>1, <2>2, <2>3 DEF OwnTypes, PCs
<1>4. CASE CheckSystem \/ TakeResident \/ NotResident \/ InitVirtual \/ SessionBegun
           \/ NamesDone \/ SessionEnded
  <2>1. UNCHANGED <<opts, installed, mapping, mainRet>>
    BY <1>4 DEF CheckSystem, TakeResident, NotResident, InitVirtual, SessionBegun,
                NamesDone, SessionEnded
  <2>2. \/ pc # "exit" /\ pc' \in PCs \ {"exit"} /\ UNCHANGED exitCode
        \/ pc' = "exit" /\ exitCode' \in 0 .. 255
        \/ UNCHANGED <<pc, exitCode>>
    BY <1>1, <1>4, ExitTypes
    DEF CheckSystem, TakeResident, NotResident, InitVirtual, SessionBegun, NamesDone,
        SessionEnded, PCs
  <2> QED BY <1>2, <2>1, <2>2
<1>5. CASE MappingsGotten
  BY <1>0, <1>1, <1>5 DEF MappingsGotten, OwnTypes, PCs
<1>6. CASE MapNameGotten
  BY <1>0, <1>6 DEF MapNameGotten, OwnTypes
<1>7. CASE BeginSession \/ GetMappings \/ GetMapName \/ EndSession \/ InSend
           \/ Host \/ UNCHANGED vars
  <2>1. UNCHANGED mainVars
    BY <1>7 DEF BeginSession, GetMappings, GetMapName, EndSession, InSend, Host, vars
  <2> QED BY <1>0, <2>1 DEF mainVars, OwnTypes
<1> QED BY <1>3, <1>4, <1>5, <1>6, <1>7 DEF Next, Main

(* Every variable of main and of the channel keeps its type, and the       *)
(* program has an exit code, a byte, exactly when it has ended.            *)
THEOREM TypeCorrect == Spec => []TypeOK
<1>1. Init => TypeOK
  BY InitTypesMain
<1>2. TypeOK /\ [Next]_vars => TypeOK'
  <2> SUFFICES ASSUME TypeOK, [Next]_vars PROVE TypeOK'
    OBVIOUS
  <2>1. Aux!TypeOK'
    BY AuxTypesMain
  <2>2. ret' \in Int
    BY <2>1 DEF Aux!TypeOK
  <2>3. OwnTypes'
    BY <2>2, OwnTypesMain
  <2> QED BY <2>1, <2>3 DEF TypeOK, OwnTypes
<1> QED BY <1>1, <1>2, PTL DEF Spec

(* GetOptions() (main.c) accepts exactly the sequences of the options of   *)
(* the usage text with at most one verbosity, and reads each option as the *)
(* text explains it.  The strings may be any, of any length; Sentences are *)
(* all sequences of words, and these are more than the two forms admit.    *)
THEOREM OptionsCorrect ==
  ASSUME Sentences = Seq(Words)
  PROVE  Spec => []OptionsAsExplained
<1>1. \A ws \in Sentences : ReadAsMeant(ws)
  BY SentencesAreRead
<1>2. ASSUME NEW args \in ArgStrings, GetOptions(args).ret = 0
      PROVE  args \in {Text(ws) : ws \in Sentences}
  <2>1. args \in Seq(Chars)
    BY ArgStringsAssumption
  <2>2. \E ws \in Seq(Words) : args = Text(ws)
    BY <1>2, <2>1, AcceptsOnlySentences
  <2> QED BY <2>2
<1>3. OptionsAsExplained
  BY <1>1, <1>2 DEF OptionsAsExplained
<1> QED BY <1>3, PTL

-----------------------------------------------------------------------------
(* Without a resident copy main behaves as VBoxAux.                        *)
LEMMA SameChannel ==
  /\ AuxProofs!Init <=> Aux!Init
  /\ [AuxProofs!Next]_(AuxProofs!auxVars) <=> [Aux!Next]_auxVars
<1>1. AuxProofs!Init <=> Aux!Init
  BY SameData DEF AuxProofs!Init, Aux!Init
<1>2. AuxProofs!Next <=> Aux!Next
  BY SameInInit, SameInCall, SameHostStep, SameCall DEF AuxProofs!Next, Aux!Next
<1>3. UNCHANGED (AuxProofs!auxVars) <=> UNCHANGED auxVars
  BY DEF AuxProofs!auxVars, AuxProofs!guestVars, AuxProofs!outVars,
         AuxProofs!hostVars, auxVars, hostVars
<1> QED BY <1>1, <1>2, <1>3

(* Under main, too, a call that reports success holds the answer to this   *)
(* very call, the host writes no memory of a call that has returned, and   *)
(* main's calls of the host are remote calls as RemoteCall.tla has them.   *)
THEOREM ChannelUnderMain ==
  Spec /\ ~ installed => /\ []Aux!AnswerIsForThisCall
                        /\ Aux!CallerMemoryQuiet
                        /\ AuxProofs!ImplementsRemoteCall
<1>1. Init /\ ~ installed => AuxProofs!Init
  <2>1. Init /\ ~ installed => Aux!Init
    BY DEF Init, Aux!Init, Aux!Prepared, Aux!OK, Aux!VINF_SUCCESS
  <2> QED BY <2>1, SameChannel
<1>2. ProtocolInv /\ ~ installed /\ [Next]_vars
        => ~ installed' /\ [AuxProofs!Next]_(AuxProofs!auxVars)
  <2> SUFFICES ASSUME ProtocolInv, ~ installed, [Next]_vars
               PROVE  ~ installed' /\ [AuxProofs!Next]_(AuxProofs!auxVars)
    OBVIOUS
  <2>1. [Aux!Next]_auxVars
    BY StepImplements
  <2>2. ~ installed'
    BY DEF Next, Main, ParseOptions, CheckSystem, TakeResident, NotResident,
       InitVirtual, BeginSession, SessionBegun, GetMappings, MappingsGotten,
       GetMapName, MapNameGotten, NamesDone, EndSession, SessionEnded, InSend,
       Host, vars, mainVars
  <2> QED BY <2>1, <2>2, SameChannel
<1>3. Spec /\ ~ installed => AuxProofs!Spec
  BY <1>1, <1>2, ProtocolCorrect, PTL DEF Spec, AuxProofs!Spec
<1>4. AuxProofs!AnswerIsForThisCall <=> Aux!AnswerIsForThisCall
  BY DEF AuxProofs!AnswerIsForThisCall, Aux!AnswerIsForThisCall,
         AuxProofs!VINF_SUCCESS, Aux!VINF_SUCCESS
<1>5. AuxProofs!Spec => []AuxProofs!AnswerIsForThisCall
  BY AuxAssumptions, AuxProofs!AnswerCorrect
<1>6. AuxProofs!Spec => AuxProofs!CallerMemoryQuiet
  BY AuxAssumptions, AuxProofs!QuietCorrect
<1>7. [fn = "none" /\ fn' = "none" => UNCHANGED <<request, filled>>]_(AuxProofs!auxVars)
        <=> [fn = "none" /\ fn' = "none" => UNCHANGED <<request, filled>>]_(Aux!auxVars)
  BY DEF AuxProofs!auxVars, AuxProofs!guestVars, AuxProofs!outVars, AuxProofs!hostVars,
         Aux!auxVars, Aux!guestVars, Aux!outVars, Aux!hostVars
<1>8. AuxProofs!Spec => AuxProofs!ImplementsRemoteCall
  BY AuxAssumptions, AuxProofs!RemoteCallImplemented
<1> QED BY <1>3, <1>4, <1>5, <1>6, <1>7, <1>8, PTL
        DEF AuxProofs!CallerMemoryQuiet, Aux!CallerMemoryQuiet

=============================================================================
