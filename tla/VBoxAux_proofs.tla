--------------------------- MODULE VBoxAux_proofs ---------------------------
(***************************************************************************)
(* Proofs about the channel of VBoxAux.tla, for every time-out, every      *)
(* number of shares, every set of client ids and of host errors, and that  *)
(* it implements RemoteCall.tla.                                           *)
(***************************************************************************)
EXTENDS VBoxAux, TLAPS

(* What the assumptions say of the data that the host and the guest share. *)
LEMMA DataTypes ==
  /\ Payloads \subseteq Nat
  /\ Results \subseteq Int
  /\ \A r \in Replies : r.result \in Int /\ r.payload \in Nat
  /\ \A id \in Nat, r \in Replies : Answered(id, r) \in Requests
  /\ \A n \in Nat : Prepared(n) \in Requests
<1>1. Payloads \subseteq Nat
  BY ClientIdsAssumption, HostSharesAssumption DEF Payloads
<1>2. Results \subseteq Int
  BY HostErrorsAssumption
  DEF Results, VINF_SUCCESS, VINF_BUFFER_OVERFLOW, VERR_HGCM_INVALID_CLIENT_ID
<1>3. \A r \in Replies : r.result \in Int /\ r.payload \in Nat
  BY <1>1, <1>2 DEF Replies
<1>4. \A id \in Nat, r \in Replies : Answered(id, r) \in Requests
  BY <1>3 DEF Answered, Requests
<1>5. \A n \in Nat : Prepared(n) \in Requests
  BY DEF Prepared, Requests, VINF_SUCCESS
<1> QED BY <1>1, <1>2, <1>3, <1>4, <1>5

(* The service's work keeps the types of the host's variables.             *)
LEMMA PerformTypes ==
  ASSUME NEW c \in Commands, NEW r \in Replies, TypeOK, Perform(c, r)
  PROVE  /\ sessions' \subseteq ClientIds
         /\ performed' \subseteq [id : Nat, reply : Replies]
         /\ FilledAfter(c, r) \in Nat
<1>1. c.id \in Nat
  BY DEF Commands
<1>2. performed' \subseteq [id : Nat, reply : Replies]
  BY <1>1 DEF Perform, TypeOK
<1>3. r.result = VINF_SUCCESS /\ c.op = CONNECT => r.payload \in ClientIds
  BY HostErrorsAssumption
  DEF Perform, Answers, CONNECT, QueryMappings, QueryMapName, DISCONNECT,
      VERR_HGCM_INVALID_CLIENT_ID, VINF_SUCCESS
<1>4. sessions' \subseteq ClientIds
  BY <1>3 DEF Perform, SessionsAfter, TypeOK
<1>5. FilledAfter(c, r) \in Nat
  BY DataTypes DEF FilledAfter, TypeOK
<1> QED BY <1>2, <1>4, <1>5

-----------------------------------------------------------------------------
(* Type correctness                                                        *)

LEMMA InitTypes == Init => TypeOK
<1> SUFFICES ASSUME Init PROVE TypeOK
  OBVIOUS
<1>1. s_ds \in BOOLEAN /\ reported \in BOOLEAN
  BY Zenon DEF Init
<1>2. request \in Requests
  BY DEF Init, Requests, VINF_SUCCESS
<1>3. /\ clientId \in Nat /\ numMappings \in Nat /\ filled \in Nat
      /\ wait_ms \in 0 .. VMMDEV_ASYNC_TIMEOUT
      /\ ret \in Int /\ calls \in Nat
  BY MappingsAssumption, TimeoutAssumption DEF Init, OK
<1> QED BY <1>1, <1>2, <1>3 DEF Init, TypeOK, Functions, Phases

(* The requests of VBoxAuxInitVirtual() touch no HGCM state.               *)
LEMMA InInitTypes == TypeOK /\ InInit => TypeOK'
<1> SUFFICES ASSUME TypeOK, InInit PROVE TypeOK'
  OBVIOUS
<1> USE DEF TypeOK, Functions, FAIL, OK
<1>1. CASE FindBackdoor
  BY <1>1 DEF FindBackdoor, hostVars
<1>2. CASE ReportGuestInfo2
  BY <1>2 DEF ReportGuestInfo2, outVars, hostVars
<1>3. CASE ReportGuestInfo
  <2>1. reported' \in BOOLEAN
    BY <1>3, Zenon DEF ReportGuestInfo
  <2>2. fn' \in Functions /\ ret' \in Int
    BY <1>3 DEF ReportGuestInfo
  <2> QED BY <1>3, <2>1, <2>2 DEF ReportGuestInfo, outVars, hostVars
<1>4. CASE GetVersion
  BY <1>4 DEF GetVersion, outVars, hostVars
<1> QED BY <1>1, <1>2, <1>3, <1>4 DEF InInit

(* Each of the four ways in which the OUT of a call may end.               *)
LEMMA SendTypes ==
  ASSUME NEW op \in HgcmOps, NEW client \in Nat, NEW payload \in Nat,
         TypeOK, Send(op, client, payload)
  PROVE  TypeOK'
<1> DEFINE c == [id |-> calls + 1, op |-> op, client |-> client,
                 room |-> numMappings]
<1>1. c \in Commands
  BY DEF Commands, TypeOK
<1>2. Prepared(payload) \in Requests
  BY DataTypes
<1>3. /\ fn' \in Functions /\ calls' \in Nat
      /\ UNCHANGED <<s_ds, pciPort, clientId, numMappings, reported>>
  BY DEF Send, TypeOK, Functions, outVars
<1>4. CASE /\ phase' = "done" /\ ret' \in HostErrors \cup {VINF_SUCCESS}
           /\ request' = Prepared(payload)
           /\ UNCHANGED <<wait_ms, filled, hostVars>>
  BY <1>2, <1>3, <1>4, HostErrorsAssumption
  DEF TypeOK, Phases, hostVars, VINF_SUCCESS
<1>5. CASE \E r \in Replies :
             /\ phase' = "done" /\ ret' = VINF_SUCCESS
             /\ Perform(c, r)
             /\ request' = Answered(c.id, r)
             /\ filled' = FilledAfter(c, r)
             /\ UNCHANGED <<wait_ms, live, orphans>>
  <2>1. PICK r \in Replies :
             /\ phase' = "done" /\ ret' = VINF_SUCCESS
             /\ Perform(c, r)
             /\ request' = Answered(c.id, r)
             /\ filled' = FilledAfter(c, r)
             /\ UNCHANGED <<wait_ms, live, orphans>>
    BY <1>5
  <2>2. /\ sessions' \subseteq ClientIds
        /\ performed' \subseteq [id : Nat, reply : Replies]
        /\ filled' \in Nat
    BY <1>1, <2>1, PerformTypes
  <2>3. request' \in Requests
    BY <1>1, <2>1, DataTypes DEF Commands
  <2> QED BY <1>3, <2>1, <2>2, <2>3 DEF TypeOK, Phases, VINF_SUCCESS
<1>6. CASE /\ phase' = "wait" /\ wait_ms' = VMMDEV_ASYNC_TIMEOUT
           /\ request' = Prepared(payload)
           /\ live' = live \cup {c}
           /\ UNCHANGED <<ret, filled, sessions, orphans, performed>>
  BY <1>1, <1>2, <1>3, <1>6, TimeoutAssumption DEF TypeOK, Phases
<1> QED BY <1>4, <1>5, <1>6 DEF Send

LEMMA CallTypes == TypeOK /\ Call => TypeOK'
<1> SUFFICES ASSUME TypeOK, Call PROVE TypeOK'
  OBVIOUS
<1>1. clientId \in Nat /\ numMappings \in Nat /\ 0 \in Nat
  BY DEF TypeOK
<1> QED BY <1>1, SendTypes
        DEF Call, BeginSession, GetMappings, GetMapName, EndSession, HgcmOps

LEMMA InCallTypes == TypeOK /\ InCall => TypeOK'
<1> SUFFICES ASSUME TypeOK, InCall PROVE TypeOK'
  OBVIOUS
<1> USE DEF TypeOK, Phases, Functions
<1>1. CASE PollDone
  BY <1>1 DEF PollDone, hostVars, outVars, VINF_SUCCESS
<1>2. CASE PollAgain
  BY <1>2, TimeoutAssumption DEF PollAgain, hostVars, outVars
<1>3. CASE TimeOut
  <2>1. request' \in Requests
    BY <1>3 DEF TimeOut, Requests
  <2> QED BY <1>3, <2>1 DEF TimeOut, hostVars, outVars
<1>4. CASE Cancel
  BY <1>4 DEF Cancel, HostCancel, outVars, VERR_TIMEOUT
<1>5. request.result \in Int /\ request.payload \in Nat
  BY DEF Requests
<1>6. CASE ReturnBeginSession
  BY <1>5, <1>6 DEF ReturnBeginSession, Leave, hostVars, OK, FAIL
<1>7. CASE ReturnGetMappings
  BY <1>5, <1>7 DEF ReturnGetMappings, Leave, hostVars
<1>8. CASE ReturnGetMapName
  BY <1>5, <1>8 DEF ReturnGetMapName, Leave, hostVars
<1>9. CASE ReturnEndSession
  BY <1>9 DEF ReturnEndSession, Leave, hostVars
<1> QED BY <1>1, <1>2, <1>3, <1>4, <1>6, <1>7, <1>8, <1>9 DEF InCall

LEMMA HostTypes == TypeOK /\ Host => TypeOK'
<1> SUFFICES ASSUME TypeOK, Host PROVE TypeOK'
  OBVIOUS
<1>1. CASE HostReply
  <2>1. PICK c \in live, p \in performed :
          /\ p.id = c.id
          /\ request' = Answered(c.id, p.reply)
          /\ filled' = FilledAfter(c, p.reply)
          /\ live' = live \ {c}
          /\ UNCHANGED <<s_ds, outVars, fn, phase, wait_ms, ret, calls,
                         reported, sessions, orphans, performed>>
    BY <1>1 DEF HostReply
  <2>2. c.id \in Nat /\ p.reply \in Replies
    BY DEF TypeOK, Commands
  <2>3. request' \in Requests /\ filled' \in Nat
    BY <2>1, <2>2, DataTypes DEF FilledAfter, TypeOK
  <2> QED BY <2>1, <2>3 DEF TypeOK, outVars
<1>2. CASE HostWorks
  <2>1. PICK c \in live \cup orphans, r \in Replies :
          Perform(c, r) /\ UNCHANGED <<live, orphans>>
    BY <1>2 DEF HostWorks, HostPerform
  <2>2. c \in Commands
    BY DEF TypeOK
  <2>3. /\ sessions' \subseteq ClientIds
        /\ performed' \subseteq [id : Nat, reply : Replies]
    BY <2>1, <2>2, PerformTypes
  <2> QED BY <1>2, <2>1, <2>3 DEF HostWorks, guestVars, outVars, TypeOK
<1> QED BY <1>1, <1>2 DEF Host

LEMMA NextTypes == TypeOK /\ [Next]_auxVars => TypeOK'
<1> SUFFICES ASSUME TypeOK, [Next]_auxVars PROVE TypeOK'
  OBVIOUS
<1>1. CASE UNCHANGED auxVars
  BY <1>1 DEF auxVars, guestVars, outVars, hostVars, TypeOK
<1> QED BY <1>1, InInitTypes, CallTypes, InCallTypes, HostTypes DEF Next

(* Every variable of the channel keeps its type; the counter of the wait   *)
(* loop of VBoxAuxSendHGCMRequest() stays between 0 and the time-out.      *)
THEOREM TypeCorrect == Spec => []TypeOK
<1>1. Init => TypeOK
  BY InitTypes
<1>2. TypeOK /\ [Next]_auxVars => TypeOK'
  BY NextTypes
<1> QED BY <1>1, <1>2, PTL DEF Spec

-----------------------------------------------------------------------------
(* One buffer, one command                                                 *)

LEMMA InitChannel == Init => ChannelInv
  BY DEF Init, ChannelInv, HgcmOps, CONNECT, DISCONNECT, QueryMappings,
         QueryMapName

LEMMA InInitChannel == ChannelInv /\ InInit => ChannelInv'
<1> SUFFICES ASSUME ChannelInv, InInit PROVE ChannelInv'
  OBVIOUS
<1>1. /\ fn \notin HgcmOps /\ fn' \notin HgcmOps
      /\ UNCHANGED <<phase, request, calls, live>>
  BY DEF InInit, FindBackdoor, ReportGuestInfo2, ReportGuestInfo, GetVersion,
         hostVars, HgcmOps, CONNECT, DISCONNECT, QueryMappings, QueryMapName
<1> QED BY <1>1 DEF ChannelInv

LEMMA SendChannel ==
  ASSUME NEW op \in HgcmOps, NEW client, NEW payload,
         TypeOK, ChannelInv, Send(op, client, payload)
  PROVE  ChannelInv'
<1> DEFINE c == [id |-> calls + 1, op |-> op, client |-> client,
                 room |-> numMappings]
<1>1. fn' = op /\ calls' = calls + 1
  BY DEF Send
<1>2. live = {}
  BY DEF Send, ChannelInv, TypeOK, HgcmOps, CONNECT, DISCONNECT,
         QueryMappings, QueryMapName
<1>3. CASE phase' = "done" /\ live' = live
  BY <1>1, <1>2, <1>3 DEF ChannelInv
<1>4. CASE /\ phase' = "wait" /\ request' = Prepared(payload)
           /\ live' = live \cup {c}
  BY <1>1, <1>2, <1>4 DEF ChannelInv, Prepared
<1> QED BY <1>3, <1>4 DEF Send, hostVars

LEMMA CallChannel == TypeOK /\ ChannelInv /\ Call => ChannelInv'
  BY SendChannel
  DEF Call, BeginSession, GetMappings, GetMapName, EndSession, HgcmOps

LEMMA InCallChannel == TypeOK /\ ChannelInv /\ InCall => ChannelInv'
<1> SUFFICES ASSUME TypeOK, ChannelInv, InCall PROVE ChannelInv'
  OBVIOUS
<1>1. CASE PollDone
  BY <1>1 DEF PollDone, ChannelInv, hostVars
<1>2. CASE PollAgain
  BY <1>2 DEF PollAgain, ChannelInv, hostVars
<1>3. CASE TimeOut
  BY <1>3 DEF TimeOut, ChannelInv, hostVars
<1>4. CASE Cancel
  BY <1>4 DEF Cancel, HostCancel, ChannelInv
<1>5. CASE Leave
  BY <1>5 DEF Leave, ChannelInv, hostVars, HgcmOps, CONNECT, DISCONNECT,
              QueryMappings, QueryMapName
<1> QED BY <1>1, <1>2, <1>3, <1>4, <1>5
        DEF InCall, ReturnBeginSession, ReturnGetMappings, ReturnGetMapName,
            ReturnEndSession

LEMMA HostChannel == TypeOK /\ ChannelInv /\ Host => ChannelInv'
<1> SUFFICES ASSUME TypeOK, ChannelInv, Host PROVE ChannelInv'
  OBVIOUS
<1>1. CASE HostReply
  <2>1. PICK c \in live, p \in performed :
          /\ request' = Answered(c.id, p.reply)
          /\ live' = live \ {c}
          /\ UNCHANGED <<fn, phase, calls>>
    BY <1>1 DEF HostReply
  <2>2. live' = {} /\ request'.from = calls'
    BY <2>1 DEF ChannelInv, Answered
  <2> QED BY <2>1, <2>2 DEF ChannelInv
<1>2. CASE HostWorks
  BY <1>2 DEF HostWorks, HostPerform, ChannelInv, guestVars
<1> QED BY <1>1, <1>2 DEF Host

LEMMA NextChannel == TypeOK /\ ChannelInv /\ [Next]_auxVars => ChannelInv'
<1>1. ChannelInv /\ UNCHANGED auxVars => ChannelInv'
  BY DEF auxVars, guestVars, hostVars, ChannelInv
<1> QED BY <1>1, InInitChannel, CallChannel, InCallChannel, HostChannel
        DEF Next

(* VBoxAuxSendHGCMRequest() keeps its one static buffer to one command: no *)
(* command outlives its call, and a DONE bit seen by the loop is current.  *)
THEOREM ChannelCorrect == Spec => []ChannelInv
<1>1. Init => ChannelInv
  BY InitChannel
<1>2. TypeOK /\ ChannelInv /\ [Next]_auxVars => ChannelInv'
  BY NextChannel
<1> QED BY <1>1, <1>2, TypeCorrect, PTL DEF Spec

-----------------------------------------------------------------------------
(* Whose answer the caller reads, and when its memory is at rest           *)

LEMMA NextAnswer ==
  TypeOK /\ ChannelInv /\ AnswerIsForThisCall /\ [Next]_auxVars
    => AnswerIsForThisCall'
<1> SUFFICES ASSUME TypeOK, ChannelInv, AnswerIsForThisCall, [Next]_auxVars
             PROVE  AnswerIsForThisCall'
  OBVIOUS
<1> USE DEF AnswerIsForThisCall
<1>1. CASE UNCHANGED auxVars
  BY <1>1 DEF auxVars, guestVars
<1>2. CASE InInit
  <2>1. phase' # "done"
    BY <1>2 DEF InInit, FindBackdoor, ReportGuestInfo2, ReportGuestInfo,
                GetVersion, ChannelInv, HgcmOps, CONNECT, DISCONNECT,
                QueryMappings, QueryMapName
  <2> QED BY <2>1
<1>3. CASE Call
  <2>1. PICK op \in HgcmOps, client \in Nat, payload \in Nat :
          Reaches /\ Send(op, client, payload)
    BY <1>3 DEF Call, BeginSession, GetMappings, GetMapName, EndSession,
                HgcmOps, TypeOK
  <2>2. \/ phase' = "done" /\ ret' \in HostErrors
        \/ request'.from = calls'
        \/ phase' = "wait"
    BY <2>1 DEF Send, Answered
  <2> QED BY <2>2, HostErrorsAssumption
<1>4. CASE InCall
  <2>1. CASE PollDone
    BY <2>1 DEF PollDone, ChannelInv
  <2>2. CASE PollAgain \/ TimeOut
    BY <2>2 DEF PollAgain, TimeOut
  <2>3. CASE Cancel
    BY <2>3 DEF Cancel, VERR_TIMEOUT, VINF_SUCCESS
  <2>4. CASE Leave
    BY <2>4 DEF Leave
  <2> QED BY <1>4, <2>1, <2>2, <2>3, <2>4
          DEF InCall, ReturnBeginSession, ReturnGetMappings, ReturnGetMapName,
              ReturnEndSession
<1>5. CASE HostReply
  <2>1. phase' # "done"
    BY <1>5 DEF HostReply, ChannelInv
  <2> QED BY <2>1
<1>6. CASE HostWorks
  BY <1>6 DEF HostWorks, guestVars
<1> QED BY <1>1, <1>2, <1>3, <1>4, <1>5, <1>6 DEF Next, Host

(* The success of VBoxAuxSendHGCMRequest() means that the shared buffer    *)
(* holds the reply to this request, however late other replies came.       *)
THEOREM AnswerCorrect == Spec => []AnswerIsForThisCall
<1>1. Init => AnswerIsForThisCall
  BY DEF Init, AnswerIsForThisCall
<1>2. TypeOK /\ ChannelInv /\ AnswerIsForThisCall /\ [Next]_auxVars
        => AnswerIsForThisCall'
  BY NextAnswer
<1> QED BY <1>1, <1>2, TypeCorrect, ChannelCorrect, PTL DEF Spec

LEMMA NextQuiet ==
  TypeOK /\ ChannelInv /\ [Next]_auxVars
    => [fn = "none" /\ fn' = "none" => UNCHANGED <<request, filled>>]_auxVars
<1> SUFFICES ASSUME TypeOK, ChannelInv, Next, fn = "none", fn' = "none"
             PROVE  UNCHANGED <<request, filled>>
  OBVIOUS
<1>1. phase = "idle" /\ live = {}
  BY DEF ChannelInv, HgcmOps, CONNECT, DISCONNECT, QueryMappings, QueryMapName,
         TypeOK
<1>2. CASE InInit
  BY <1>2 DEF InInit, FindBackdoor, ReportGuestInfo2, ReportGuestInfo,
              GetVersion
<1>3. ~ Call
  BY DEF Call, BeginSession, GetMappings, GetMapName, EndSession, Send,
         CONNECT, DISCONNECT, QueryMappings, QueryMapName
<1>4. ~ InCall
  BY <1>1 DEF InCall, PollDone, PollAgain, TimeOut, Cancel,
              ReturnBeginSession, ReturnGetMappings, ReturnGetMapName,
              ReturnEndSession, Leave
<1>5. ~ HostReply
  BY <1>1 DEF HostReply
<1>6. CASE HostWorks
  BY <1>6 DEF HostWorks, guestVars
<1> QED BY <1>2, <1>3, <1>4, <1>5, <1>6 DEF Next, Host

(* Outside a call the host never writes the guest's memory: the cancel of  *)
(* a request that timed out comes before the return to the caller.         *)
THEOREM QuietCorrect == Spec => CallerMemoryQuiet
<1>1. TypeOK /\ ChannelInv /\ [Next]_auxVars
        => [fn = "none" /\ fn' = "none" => UNCHANGED <<request, filled>>]_auxVars
  BY NextQuiet
<1> QED BY <1>1, TypeCorrect, ChannelCorrect, PTL DEF Spec, CallerMemoryQuiet

-----------------------------------------------------------------------------
(* The channel implements RemoteCall: each step of the shared buffer, of   *)
(* the polling and of the host is a step of the abstract call, or none.    *)

(* What the channel owes the abstract call: ids are never used twice, a    *)
(* call in progress that was not performed is still with the host, and a   *)
(* DONE bit that the wait sees came with the reply of this call.           *)
HistoryInv ==
  /\ \A c \in live \cup orphans : c.id <= calls
  /\ \A p \in performed : p.id <= calls
  /\ phase \in {"wait", "cancel"} /\ (\A p \in performed : p.id # calls)
       => \E c \in live : c.id = calls
  /\ phase = "wait" /\ request.flags = 1 =>
       [id |-> calls, reply |-> [result |-> request.result,
                                 payload |-> request.payload]] \in performed

RefineInv == TypeOK /\ ChannelInv /\ HistoryInv

LEMMA InitHistory == Init => HistoryInv
BY DEF Init, HistoryInv

LEMMA SendHistory ==
  ASSUME NEW op \in HgcmOps, NEW client \in Nat, NEW payload \in Nat,
         RefineInv, Send(op, client, payload)
  PROVE  HistoryInv'
<1>. DEFINE c == [id |-> calls + 1, op |-> op, client |-> client, room |-> numMappings]
<1>1. /\ HistoryInv /\ calls \in Nat /\ calls' = calls + 1
      /\ \A d \in live \cup orphans : d.id \in Nat
      /\ \A p \in performed : p.id \in Nat
  BY DEF RefineInv, TypeOK, Send, Commands
<1>2. CASE /\ phase' = "done"
           /\ UNCHANGED hostVars
  BY <1>1, <1>2 DEF HistoryInv, hostVars
<1>3. CASE \E r \in Replies : /\ phase' = "done" /\ Perform(c, r)
                              /\ UNCHANGED <<live, orphans>>
  <2>1. PICK r \in Replies : /\ phase' = "done" /\ Perform(c, r)
                             /\ UNCHANGED <<live, orphans>>
    BY <1>3
  <2>2. performed' = performed \cup {[id |-> calls + 1, reply |-> r]}
    BY <2>1 DEF Perform
  <2>3. \A p \in performed' : p \in performed \/ p.id = calls + 1
    BY <2>2
  <2>4. \A p \in performed' : p.id <= calls'
    BY <1>1, <2>3 DEF HistoryInv
  <2>5. \A d \in live' \cup orphans' : d.id <= calls'
    BY <1>1, <2>1 DEF HistoryInv
  <2>6. phase' = "done"
    BY <2>1
  <2>. QED  BY <2>4, <2>5, <2>6 DEF HistoryInv
<1>4. CASE /\ phase' = "wait" /\ request' = Prepared(payload)
           /\ live' = live \cup {c}
           /\ UNCHANGED <<orphans, performed>>
  <2>1. c.id = calls' /\ c \in live' /\ request'.flags = 0
    BY <1>1, <1>4 DEF Prepared
  <2>2. phase' = "wait" /\ performed' = performed /\ orphans' = orphans
    BY <1>4
  <2>3. \A d \in live' : d \in live \/ d = c
    BY <1>4
  <2>. HIDE DEF c
  <2>4. \A d \in live' \cup orphans' : d.id <= calls'
    BY <1>1, <2>1, <2>2, <2>3 DEF HistoryInv
  <2>5. \A p \in performed' : p.id <= calls'
    BY <1>1, <2>2 DEF HistoryInv
  <2>6. \E d \in live' : d.id = calls'
    BY <2>1
  <2>7. ~ (phase' = "wait" /\ request'.flags = 1)
    BY <2>1
  <2>. QED  BY <2>4, <2>5, <2>6, <2>7 DEF HistoryInv
<1>. QED  BY <1>2, <1>3, <1>4 DEF Send

LEMMA CallIsSend ==
  TypeOK /\ Call => \E op \in HgcmOps, client \in Nat, payload \in Nat :
                      Reaches /\ Send(op, client, payload)
BY DEF Call, BeginSession, GetMappings, GetMapName, EndSession, HgcmOps, TypeOK

LEMMA InCallHistory == RefineInv /\ InCall => HistoryInv'
<1>. SUFFICES ASSUME RefineInv, InCall PROVE HistoryInv'
  OBVIOUS
<1>0. HistoryInv /\ TypeOK
  BY DEF RefineInv
<1>1. CASE PollDone
  BY <1>0, <1>1 DEF PollDone, HistoryInv, hostVars
<1>2. CASE PollAgain
  BY <1>0, <1>2 DEF PollAgain, HistoryInv, hostVars
<1>3. CASE TimeOut
  BY <1>0, <1>3 DEF TimeOut, HistoryInv, hostVars
<1>4. CASE Cancel
  BY <1>0, <1>4 DEF Cancel, HostCancel, HistoryInv
<1>5. CASE Leave
  BY <1>0, <1>5 DEF Leave, HistoryInv, hostVars
<1>. QED  BY <1>1, <1>2, <1>3, <1>4, <1>5
          DEF InCall, ReturnBeginSession, ReturnGetMappings, ReturnGetMapName,
              ReturnEndSession

LEMMA HostHistory == RefineInv /\ Host => HistoryInv'
<1>. SUFFICES ASSUME RefineInv, Host PROVE HistoryInv'
  OBVIOUS
<1>0. HistoryInv /\ TypeOK /\ ChannelInv
  BY DEF RefineInv
<1>1. CASE HostReply
  <2>1. PICK c \in live, p \in performed :
          /\ p.id = c.id
          /\ request' = Answered(c.id, p.reply)
          /\ live' = live \ {c}
          /\ UNCHANGED <<phase, calls, orphans, performed>>
    BY <1>1 DEF HostReply
  <2>2. c.id = calls /\ p.id = calls /\ p \in [id : Nat, reply : Replies]
    BY <1>0, <2>1 DEF ChannelInv, TypeOK
  <2>3. /\ request'.result = p.reply.result /\ request'.payload = p.reply.payload
        /\ p.reply \in Replies
    BY <2>1, <2>2 DEF Answered
  <2>4. p = [id |-> calls, reply |-> [result |-> request'.result,
                                      payload |-> request'.payload]]
    BY <2>2, <2>3 DEF Replies
  <2>. QED  BY <1>0, <2>1, <2>2, <2>4 DEF HistoryInv
<1>2. CASE HostWorks
  <2>1. PICK c \in live \cup orphans, r \in Replies :
          Perform(c, r) /\ UNCHANGED <<live, orphans>>
    BY <1>2 DEF HostWorks, HostPerform
  <2>2. performed' = performed \cup {[id |-> c.id, reply |-> r]}
    BY <2>1 DEF Perform
  <2>3. UNCHANGED <<phase, calls, request>>
    BY <1>2 DEF HostWorks, guestVars
  <2>. QED  BY <1>0, <2>1, <2>2, <2>3 DEF HistoryInv
<1>. QED  BY <1>1, <1>2 DEF Host

LEMMA NextHistory == RefineInv /\ [Next]_auxVars => HistoryInv'
<1>. SUFFICES ASSUME RefineInv, [Next]_auxVars PROVE HistoryInv'
  OBVIOUS
<1>1. CASE UNCHANGED auxVars
  BY <1>1 DEF RefineInv, HistoryInv, auxVars, guestVars, hostVars
<1>2. CASE InInit
  BY <1>2 DEF RefineInv, HistoryInv, InInit, FindBackdoor, ReportGuestInfo2,
              ReportGuestInfo, GetVersion, hostVars
<1>3. CASE Call
  BY <1>3, CallIsSend, SendHistory DEF RefineInv
<1>. QED  BY <1>1, <1>2, <1>3, InCallHistory, HostHistory DEF Next

LEMMA RefineInvariance == Spec => []RefineInv
<1>1. Init => RefineInv
  BY InitTypes, InitChannel, InitHistory DEF RefineInv
<1>2. RefineInv /\ [Next]_auxVars => RefineInv'
  BY NextTypes, NextChannel, NextHistory DEF RefineInv
<1>. QED  BY <1>1, <1>2, PTL DEF Spec

-----------------------------------------------------------------------------
(* The refinement mapping                                                  *)

(* The abstract status, as the phase and the returned code tell it.        *)
LEMMA StatusFacts ==
  ASSUME ChannelInv
  PROVE  /\ phase = "idle" => RcStatus = "idle"
         /\ phase \in {"wait", "cancel"} => RcStatus = "calling"
         /\ phase = "done" /\ ret = VINF_SUCCESS => RcStatus = "answered"
         /\ phase = "done" /\ ret = VERR_TIMEOUT => RcStatus = "gaveup"
         /\ phase = "done" /\ ret \notin {VINF_SUCCESS, VERR_TIMEOUT} => RcStatus = "refused"
<1>1. InHgcm <=> phase # "idle"
  BY DEF ChannelInv, InHgcm
<1>2. VINF_SUCCESS # VERR_TIMEOUT
  BY DEF VINF_SUCCESS, VERR_TIMEOUT
<1>. QED  BY <1>1, <1>2 DEF RcStatus

LEMMA StatusFactsNext ==
  ASSUME ChannelInv'
  PROVE  /\ phase' = "idle" => RcStatus' = "idle"
         /\ phase' \in {"wait", "cancel"} => RcStatus' = "calling"
         /\ phase' = "done" /\ ret' = VINF_SUCCESS => RcStatus' = "answered"
         /\ phase' = "done" /\ ret' = VERR_TIMEOUT => RcStatus' = "gaveup"
         /\ phase' = "done" /\ ret' \notin {VINF_SUCCESS, VERR_TIMEOUT} => RcStatus' = "refused"
<1>1. InHgcm' <=> phase' # "idle"
  BY DEF ChannelInv, InHgcm
<1>2. VINF_SUCCESS # VERR_TIMEOUT
  BY DEF VINF_SUCCESS, VERR_TIMEOUT
<1>. QED  BY <1>1, <1>2 DEF RcStatus, VINF_SUCCESS, VERR_TIMEOUT

LEMMA InitRefines == Init => RC!Init
<1>. SUFFICES ASSUME Init PROVE RC!Init
  OBVIOUS
<1>1. RcStatus = "idle"
  BY InitChannel, StatusFacts DEF Init
<1>. QED  BY <1>1 DEF RC!Init, RcGot, RcAbandoned, Init

(* The buffer alone never shows to the abstract caller: a step that stays  *)
(* in one status other than "answered" and leaves the history alone is no  *)
(* step of the abstract call.                                              *)
LEMMA Stutter ==
  ASSUME RcStatus' = RcStatus, RcStatus # "answered",
         UNCHANGED <<calls, orphans, performed>>
  PROVE  UNCHANGED RC!rcVars
<1>1. RcGot' = RcGot
  BY DEF RcGot, NoReply, VINF_SUCCESS
<1>2. RcAbandoned' = RcAbandoned
  BY DEF RcAbandoned, IsPerformed
<1>. QED  BY <1>1, <1>2 DEF RC!rcVars

LEMMA SendRefines ==
  ASSUME NEW op \in HgcmOps, NEW client \in Nat, NEW payload \in Nat,
         RefineInv, RefineInv', Reaches, Send(op, client, payload)
  PROVE  RC!Next
<1>. DEFINE c == [id |-> calls + 1, op |-> op, client |-> client, room |-> numMappings]
<1>1. /\ HistoryInv /\ ChannelInv /\ ChannelInv' /\ calls \in Nat /\ calls' = calls + 1
      /\ \A d \in live \cup orphans : d.id \in Nat
      /\ \A p \in performed : p.id \in Nat
  BY DEF RefineInv, TypeOK, Send, Commands
<1>2. phase = "idle" /\ RcStatus = "idle" /\ RcGot = NoReply
  <2>1. phase = "idle"
    BY DEF Send, RefineInv, TypeOK, ChannelInv, HgcmOps, CONNECT, DISCONNECT,
           QueryMappings, QueryMapName
  <2>. QED  BY <1>1, <2>1, StatusFacts DEF RcGot
<1>3. CASE /\ phase' = "done" /\ ret' \in HostErrors
           /\ UNCHANGED hostVars
  <2>1. RcStatus' = "refused"
    BY <1>1, <1>3, StatusFactsNext, HostErrorsAssumption
  <2>2. RcGot' = NoReply /\ RcAbandoned' = RcAbandoned
    BY <1>3, <2>1 DEF RcGot, NoReply, VINF_SUCCESS, RcAbandoned, IsPerformed, hostVars
  <2>. QED  BY <1>1, <1>2, <1>3, <2>1, <2>2 DEF RC!Next, RC!CallRefused, hostVars
<1>4. CASE \E r \in Replies : /\ phase' = "done" /\ ret' = VINF_SUCCESS /\ Perform(c, r)
                              /\ request' = Answered(c.id, r)
                              /\ UNCHANGED <<live, orphans>>
  <2>1. PICK r \in Replies : /\ phase' = "done" /\ ret' = VINF_SUCCESS /\ Perform(c, r)
                             /\ request' = Answered(c.id, r)
                             /\ UNCHANGED <<live, orphans>>
    BY <1>4
  <2>2. performed' = performed \cup {[id |-> calls', reply |-> r]}
    BY <1>1, <2>1 DEF Perform
  <2>3. RcStatus' = "answered"
    BY <1>1, <2>1, StatusFactsNext
  <2>4. RcGot' = r
    BY <2>1, <2>3 DEF RcGot, Answered, Replies
  <2>5. \A d \in orphans : d.id # calls'
    BY <1>1 DEF HistoryInv
  <2>6. \A d \in orphans : IsPerformed(d)' <=> IsPerformed(d)
    BY <2>2, <2>5 DEF IsPerformed
  <2>7. RcAbandoned' = RcAbandoned
    BY <2>1, <2>6 DEF RcAbandoned
  <2>. QED  BY <1>1, <1>2, <2>2, <2>3, <2>4, <2>7 DEF RC!Next, RC!CallAnswered
<1>5. CASE /\ phase' = "wait"
           /\ UNCHANGED <<orphans, performed>>
  <2>1. RcStatus' = "calling"
    BY <1>1, <1>5, StatusFactsNext
  <2>2. RcGot' = NoReply /\ RcAbandoned' = RcAbandoned
    BY <1>5, <2>1 DEF RcGot, NoReply, VINF_SUCCESS, RcAbandoned, IsPerformed
  <2>. QED  BY <1>1, <1>2, <1>5, <2>1, <2>2 DEF RC!Next, RC!Call
<1>. QED  BY <1>3, <1>4, <1>5 DEF Send

LEMMA ReturnRefines ==
  ASSUME RefineInv, RefineInv', Leave
  PROVE  RC!Return
<1>1. /\ phase = "done" /\ phase' = "idle"
      /\ UNCHANGED <<calls, orphans, performed>>
  BY DEF Leave, hostVars
<1>2. RcStatus \in {"answered", "refused", "gaveup"} /\ RcStatus' = "idle"
  BY <1>1, StatusFacts, StatusFactsNext DEF RefineInv
<1>3. RcGot' = NoReply /\ RcAbandoned' = RcAbandoned
  BY <1>1, <1>2 DEF RcGot, NoReply, VINF_SUCCESS, RcAbandoned, IsPerformed
<1>. QED  BY <1>1, <1>2, <1>3 DEF RC!Return

LEMMA InCallRefines ==
  ASSUME RefineInv, RefineInv', InCall
  PROVE  RC!Next \/ UNCHANGED RC!rcVars
<1>0. ChannelInv /\ ChannelInv' /\ HistoryInv /\ TypeOK
  BY DEF RefineInv
<1>1. CASE PollDone
  <2>1. /\ phase = "wait" /\ phase' = "done" /\ ret' = VINF_SUCCESS /\ request.flags = 1
        /\ UNCHANGED <<request, calls, orphans, performed>>
    BY <1>1 DEF PollDone, hostVars
  <2>2. RcStatus = "calling" /\ RcStatus' = "answered"
    BY <1>0, <2>1, StatusFacts, StatusFactsNext
  <2>. DEFINE r == [result |-> request.result, payload |-> request.payload]
  <2>3. [id |-> calls, reply |-> r] \in performed
    BY <1>0, <2>1 DEF HistoryInv
  <2>4. r \in Replies
    <3>1. [id |-> calls, reply |-> r] \in [id : Nat, reply : Replies]
      BY <1>0, <2>3 DEF TypeOK
    <3>. HIDE DEF r
    <3>. QED  BY <3>1
  <2>5. RcGot' = r /\ RcAbandoned' = RcAbandoned
    BY <2>1, <2>2 DEF RcGot, RcAbandoned, IsPerformed
  <2>. HIDE DEF r
  <2>. QED  BY <2>1, <2>2, <2>3, <2>4, <2>5 DEF RC!Next, RC!Answer
<1>2. CASE PollAgain \/ TimeOut
  <2>1. /\ phase \in {"wait", "cancel"} /\ phase' \in {"wait", "cancel"}
        /\ UNCHANGED <<calls, orphans, performed>>
    BY <1>2 DEF PollAgain, TimeOut, hostVars
  <2>2. RcStatus = "calling" /\ RcStatus' = "calling"
    BY <1>0, <2>1, StatusFacts, StatusFactsNext
  <2>. QED  BY <2>1, <2>2, Stutter
<1>3. CASE Cancel
  <2>1. /\ phase = "cancel" /\ phase' = "done" /\ ret' = VERR_TIMEOUT
        /\ orphans' = orphans \cup live
        /\ UNCHANGED <<calls, performed>>
    BY <1>3 DEF Cancel, HostCancel
  <2>2. RcStatus = "calling" /\ RcStatus' = "gaveup"
    BY <1>0, <2>1, StatusFacts, StatusFactsNext
  <2>3. RcGot' = RcGot
    BY <2>2 DEF RcGot, NoReply, VINF_SUCCESS
  <2>4. \A d : IsPerformed(d)' <=> IsPerformed(d)
    BY <2>1 DEF IsPerformed
  <2>5. \A d \in live : d.id = calls /\ (IsPerformed(d) <=> RC!Performed(calls))
    BY <1>0 DEF ChannelInv, IsPerformed, RC!Performed
  <2>6. ~ RC!Performed(calls) => \E d \in live : d.id = calls
    BY <1>0, <2>1 DEF HistoryInv, RC!Performed
  <2>7. RcAbandoned' = RcAbandoned \cup (IF RC!Performed(calls) THEN {} ELSE {calls})
    <3>1. RcAbandoned' = {d.id : d \in {e \in orphans \cup live : ~ IsPerformed(e)}}
      BY <2>1, <2>4 DEF RcAbandoned
    <3>. QED  BY <2>5, <2>6, <3>1 DEF RcAbandoned
  <2>. QED  BY <2>1, <2>2, <2>3, <2>7 DEF RC!Next, RC!GiveUp
<1>4. CASE Leave
  BY <1>4, ReturnRefines DEF RC!Next
<1>. QED  BY <1>1, <1>2, <1>3, <1>4
          DEF InCall, ReturnBeginSession, ReturnGetMappings, ReturnGetMapName,
              ReturnEndSession

LEMMA HostRefines ==
  ASSUME RefineInv, RefineInv', Host
  PROVE  RC!Next \/ UNCHANGED RC!rcVars
<1>0. ChannelInv /\ ChannelInv' /\ TypeOK
  BY DEF RefineInv
<1>1. CASE HostReply
  <2>1. /\ phase \in {"wait", "cancel"} /\ phase' = phase
        /\ UNCHANGED <<calls, orphans, performed>>
    BY <1>0, <1>1 DEF HostReply, ChannelInv, TypeOK, Phases
  <2>2. RcStatus = "calling" /\ RcStatus' = "calling"
    BY <1>0, <2>1, StatusFacts, StatusFactsNext
  <2>. QED  BY <2>1, <2>2, Stutter
<1>2. CASE HostWorks
  <2>1. PICK c \in live \cup orphans, r \in Replies :
          ~ IsPerformed(c) /\ Perform(c, r) /\ UNCHANGED <<live, orphans>>
    BY <1>2 DEF HostWorks, HostPerform
  <2>2. performed' = performed \cup {[id |-> c.id, reply |-> r]}
    BY <2>1 DEF Perform
  <2>3. UNCHANGED <<fn, phase, ret, calls, request>>
    BY <1>2 DEF HostWorks, guestVars
  <2>4. RcStatus' = RcStatus /\ RcGot' = RcGot
    BY <2>3 DEF RcStatus, RcGot, NoReply, InHgcm, VINF_SUCCESS, VERR_TIMEOUT
  <2>5. \A d : IsPerformed(d)' <=> IsPerformed(d) \/ d.id = c.id
    <3>. DEFINE n == [id |-> c.id, reply |-> r]
    <3>1. n.id = c.id /\ n \in performed' /\ performed \subseteq performed'
      BY <2>2
    <3>2. \A p \in performed' : p \in performed \/ p = n
      BY <2>2
    <3>. HIDE DEF n
    <3>. QED  BY <3>1, <3>2 DEF IsPerformed
  <2>6. RcAbandoned' = RcAbandoned \ {c.id}
    BY <2>1, <2>5 DEF RcAbandoned, IsPerformed
  <2>7. c.id \in RcAbandoned \cup (IF RcStatus = "calling" THEN {calls} ELSE {})
    <3>1. CASE c \in orphans
      BY <2>1, <3>1 DEF RcAbandoned
    <3>2. CASE c \in live
      <4>1. phase \in {"wait", "cancel"} /\ c.id = calls
        BY <1>0, <3>2 DEF ChannelInv, TypeOK, Phases
      <4>. QED  BY <1>0, <4>1, StatusFacts
    <3>. QED  BY <3>1, <3>2
  <2>8. ~ RC!Performed(c.id)
    BY <2>1 DEF IsPerformed, RC!Performed
  <2>9. RC!Serve
    BY <2>2, <2>3, <2>4, <2>6, <2>7, <2>8 DEF RC!Serve
  <2>. QED  BY <2>9 DEF RC!Next
<1>. QED  BY <1>1, <1>2 DEF Host

LEMMA NextRefines ==
  RefineInv /\ RefineInv' /\ [Next]_auxVars => [RC!Next]_RC!rcVars
<1>. SUFFICES ASSUME RefineInv, RefineInv', [Next]_auxVars
              PROVE  RC!Next \/ UNCHANGED RC!rcVars
  OBVIOUS
<1>1. CASE UNCHANGED auxVars
  BY <1>1 DEF auxVars, guestVars, hostVars, RC!rcVars, RcStatus, RcGot, RcAbandoned,
              InHgcm, IsPerformed, NoReply
<1>2. CASE InInit
  <2>1. phase = "idle" /\ phase' = "idle" /\ UNCHANGED <<calls, orphans, performed>>
    BY <1>2 DEF RefineInv, ChannelInv, HgcmOps, CONNECT, DISCONNECT, QueryMappings,
                QueryMapName, InInit, FindBackdoor, ReportGuestInfo2,
                ReportGuestInfo, GetVersion, hostVars
  <2>2. RcStatus = "idle" /\ RcStatus' = "idle"
    BY <2>1, StatusFacts, StatusFactsNext DEF RefineInv
  <2>. QED  BY <2>1, <2>2, Stutter
<1>3. CASE Call
  BY <1>3, CallIsSend, SendRefines DEF RefineInv
<1>. QED  BY <1>1, <1>2, <1>3, InCallRefines, HostRefines DEF Next

(* The channel of vboxaux.c is a remote call that is performed at most     *)
(* once and whose outcome is told honestly, for every time-out, number of  *)
(* calls and host: VBoxAux implements RemoteCall.                          *)
THEOREM RemoteCallImplemented == Spec => ImplementsRemoteCall
<1>1. Init => RC!Init
  BY InitRefines
<1>2. RefineInv /\ RefineInv' /\ [Next]_auxVars => [RC!Next]_RC!rcVars
  BY NextRefines
<1>. QED  BY <1>1, <1>2, RefineInvariance, PTL DEF Spec, ImplementsRemoteCall, RC!Spec

=============================================================================
