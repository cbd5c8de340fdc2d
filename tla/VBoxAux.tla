------------------------------ MODULE VBoxAux ------------------------------
(***************************************************************************)
(* vboxaux.c: the requests that the transient program sends to the host.   *)
(*                                                                         *)
(* All requests share one static buffer, the union "request".  A VMMDev    *)
(* request is one OUT to the device port: the host fills in rc before the  *)
(* OUT instruction ends.  An HGCM request may be taken asynchronously: the *)
(* guest then polls the DONE bit of the buffer once per millisecond, at    *)
(* most VMMDEV_ASYNC_TIMEOUT times, and cancels the request if the bit     *)
(* never shows.  The host stores replies at any moment in between.         *)
(*                                                                         *)
(* The caller here is the most general one that keeps to the protocol:     *)
(* after VBoxAuxInitVirtual() it makes any HGCM call at any time, one at a *)
(* time.  VbsMount.tla puts main() in its place.                           *)
(***************************************************************************)
EXTENDS HgcmHost

CONSTANTS
  VMMDEV_ASYNC_TIMEOUT,   (* polls before a request is cancelled           *)
  SHFL_MAX_MAPPINGS,      (* entries of main's array of mappings           *)
  MaxCalls                (* bound: HGCM calls in a behaviour              *)

VARIABLES
  s_ds,          (* segread(&s) was executed: s.ds is the data segment     *)
  pciPort,       (* the caller's pciPort: "none" until assigned            *)
  clientId,      (* the caller's clientId: 0 until assigned                *)
  numMappings,   (* the caller's numMappings                               *)
  filled,        (* leading entries of mappings[] that the host has written*)
  fn,            (* the VBoxAux function in progress, "none" in the caller *)
  phase,         (* where VBoxAuxSendHGCMRequest() is                      *)
  wait_ms,       (* its loop counter                                       *)
  ret,           (* the value returned to the next level up                *)
  request,       (* the static request buffer                              *)
  calls,         (* number of HGCM calls made so far; also the last id     *)
  reported       (* the host has accepted VMMDEV_REQ_REPORTGUESTINFO       *)

outVars  == <<pciPort, clientId, numMappings>>
guestVars == <<s_ds, outVars, filled, fn, phase, wait_ms, ret, request, calls>>
auxVars  == <<guestVars, reported, hostVars>>

OK   == 0
FAIL == -1

ASSUME TimeoutAssumption  == VMMDEV_ASYNC_TIMEOUT \in Nat \ {0}
ASSUME MappingsAssumption == SHFL_MAX_MAPPINGS \in Nat
ASSUME MaxCallsAssumption == MaxCalls \in Nat

Functions == {"none", "backdoor", "guestinfo", "version"} \cup HgcmOps
Phases    == {"idle", "wait", "cancel", "done"}

(* flags holds VBOX_HGCM_REQ_DONE or nothing.  from is a history variable: *)
(* the call whose reply the buffer holds, 0 when the guest wrote it last.  *)
Requests == [flags : {0, 1}, result : Int, payload : Nat, from : Nat]

Init ==
  /\ s_ds = FALSE
  /\ pciPort = "none"
  /\ clientId = 0
  /\ numMappings = SHFL_MAX_MAPPINGS
  /\ filled = 0
  /\ fn = "none"
  /\ phase = "idle"
  /\ wait_ms = 0
  /\ ret = OK
  /\ request = [flags |-> 0, result |-> VINF_SUCCESS, payload |-> 0, from |-> 0]
  /\ calls = 0
  /\ reported = FALSE
  /\ sessions = {}
  /\ live = {}
  /\ orphans = {}
  /\ performed = {}

-----------------------------------------------------------------------------
(* VBoxAuxInitVirtual(): find the device, report the guest, ask the version*)

(* segread(), then the PCI BIOS calls: no BIOS, no device or no I/O base   *)
(* means failure.  pci_get_iobase() assigns the caller's port.             *)
FindBackdoor ==
  /\ fn = "none"
  /\ s_ds' = TRUE
  /\ \/ fn' = "none" /\ ret' = FAIL /\ UNCHANGED pciPort
     \/ fn' = "backdoor" /\ pciPort' = "vmmdev" /\ UNCHANGED ret
  /\ UNCHANGED <<clientId, numMappings, filled, phase, wait_ms, request, calls,
                 reported, hostVars>>

(* Mutant: the second report alone is taken as enough.                     *)
ReportGuestInfo2Only ==
  /\ fn = "backdoor"
  /\ \E rc \in HostErrors \cup {VINF_SUCCESS} :
       IF rc \in {VINF_SUCCESS, VERR_NOT_SUPPORTED, VERR_NOT_IMPLEMENTED}
       THEN fn' = "version" /\ UNCHANGED ret
       ELSE fn' = "none" /\ ret' = FAIL
  /\ UNCHANGED <<s_ds, outVars, filled, phase, wait_ms, request, calls,
                 reported, hostVars>>

(* A host that does not know REPORTGUESTINFO2 is still good.               *)
ReportGuestInfo2 ==
  /\ fn = "backdoor"
  /\ \E rc \in HostErrors \cup {VINF_SUCCESS} :
       IF rc \in {VINF_SUCCESS, VERR_NOT_SUPPORTED, VERR_NOT_IMPLEMENTED}
       THEN fn' = "guestinfo" /\ UNCHANGED ret
       ELSE fn' = "none" /\ ret' = FAIL
  /\ UNCHANGED <<s_ds, outVars, filled, phase, wait_ms, request, calls,
                 reported, hostVars>>

ReportGuestInfo ==
  /\ fn = "guestinfo"
  /\ \/ fn' = "version" /\ reported' = TRUE /\ UNCHANGED ret
     \/ HostErrors # {} /\ fn' = "none" /\ ret' = FAIL /\ UNCHANGED reported
  /\ UNCHANGED <<s_ds, outVars, filled, phase, wait_ms, request, calls, hostVars>>

GetVersion ==
  /\ fn = "version"
  /\ fn' = "none"
  /\ ret' \in IF HostErrors = {} THEN {OK} ELSE {OK, FAIL}
  /\ UNCHANGED <<s_ds, outVars, filled, phase, wait_ms, request, calls,
                 reported, hostVars>>

-----------------------------------------------------------------------------
(* VBoxAuxSendHGCMRequest()                                                *)

(* The OUT reaches the request: right port, right data segment.  An OUT    *)
(* elsewhere is not seen as this request, and the buffer keeps what the    *)
(* guest put there.                                                        *)
Reaches == s_ds /\ pciPort = "vmmdev"

(* Mutant: the buffer keeps the DONE bit of the last call.                 *)
PreparedKeepingFlags(payload) ==
  [flags |-> request.flags, result |-> VINF_SUCCESS, payload |-> payload,
   from |-> request.from]

(* The buffer as the guest prepares it for a call.                         *)
Prepared(payload) ==
  [flags |-> 0, result |-> VINF_SUCCESS, payload |-> payload, from |-> 0]

(* The buffer once the host stored the reply to call id.                   *)
Answered(id, reply) ==
  [flags |-> 1, result |-> reply.result, payload |-> reply.payload, from |-> id]

(* A successful QUERY_MAPPINGS also fills the caller's array.              *)
FilledAfter(c, reply) ==
  IF c.op = QueryMappings /\ reply.result = VINF_SUCCESS
  THEN reply.payload ELSE filled

(* The caller enters one of the HGCM functions.  payload is what the       *)
(* caller stores beforehand where the reply's output will be.              *)
Send(op, client, payload) ==
  LET c == [id |-> calls + 1, op |-> op, client |-> client, room |-> numMappings]
  IN
  /\ fn = "none"
  /\ calls < MaxCalls
  /\ fn' = op
  /\ calls' = calls + 1
  /\ \/ (* nobody there: rc stays VINF_SUCCESS, as the guest preset it *)
        /\ ~ Reaches
        /\ phase' = "done" /\ ret' = VINF_SUCCESS
        /\ request' = Prepared(payload)
        /\ UNCHANGED <<wait_ms, filled, hostVars>>
     \/ (* refused *)
        /\ Reaches
        /\ phase' = "done" /\ ret' \in HostErrors
        /\ request' = Prepared(payload)
        /\ UNCHANGED <<wait_ms, filled, hostVars>>
     \/ (* served at once *)
        /\ Reaches
        /\ phase' = "done" /\ ret' = VINF_SUCCESS
        /\ \E r \in Replies :
             /\ Perform(c, r)
             /\ request' = Answered(c.id, r)
             /\ filled' = FilledAfter(c, r)
        /\ UNCHANGED <<wait_ms, live, orphans>>
     \/ (* VINF_HGCM_ASYNC_EXECUTE *)
        /\ Reaches
        /\ phase' = "wait" /\ wait_ms' = VMMDEV_ASYNC_TIMEOUT
        /\ request' = Prepared(payload)
        /\ live' = live \cup {c}
        /\ UNCHANGED <<ret, filled, sessions, orphans, performed>>
  /\ UNCHANGED <<s_ds, outVars, reported>>

(* One turn of the wait loop that finds the DONE bit set.                  *)
PollDone ==
  /\ phase = "wait" /\ wait_ms > 0
  /\ request.flags = 1
  /\ phase' = "done" /\ ret' = VINF_SUCCESS
  /\ UNCHANGED <<s_ds, outVars, filled, fn, wait_ms, request, calls,
                 reported, hostVars>>

(* Mutant: the loop never counts down.                                     *)
PollAgainForever ==
  /\ phase = "wait" /\ wait_ms > 0
  /\ request.flags = 0
  /\ UNCHANGED auxVars

(* Mutant: one turn too many, the test comes after the decrement.          *)
PollAgainPastZero ==
  /\ phase = "wait" /\ wait_ms >= 0
  /\ request.flags = 0
  /\ wait_ms' = wait_ms - 1
  /\ UNCHANGED <<s_ds, outVars, filled, fn, phase, ret, request, calls,
                 reported, hostVars>>

(* One turn of the wait loop that does not.                                *)
PollAgain ==
  /\ phase = "wait" /\ wait_ms > 0
  /\ request.flags = 0
  /\ wait_ms' = wait_ms - 1
  /\ UNCHANGED <<s_ds, outVars, filled, fn, phase, ret, request, calls,
                 reported, hostVars>>

(* The loop ended without the bit: the guest clears the flags ...          *)
TimeOut ==
  /\ phase = "wait" /\ wait_ms = 0
  /\ phase' = "cancel"
  /\ request' = [request EXCEPT !.flags = 0]
  /\ UNCHANGED <<s_ds, outVars, filled, fn, wait_ms, ret, calls,
                 reported, hostVars>>

(* Mutant: the time-out is reported without cancelling the request.        *)
CancelNothing ==
  /\ phase = "cancel"
  /\ phase' = "done" /\ ret' = VERR_TIMEOUT
  /\ UNCHANGED <<s_ds, outVars, filled, fn, wait_ms, request, calls,
                 reported, hostVars>>

(* Mutant: a request that timed out falls through to "return VINF_SUCCESS".*)
CancelAndSucceed ==
  /\ phase = "cancel"
  /\ phase' = "done" /\ ret' = VINF_SUCCESS
  /\ HostCancel
  /\ UNCHANGED <<s_ds, outVars, filled, fn, wait_ms, request, calls, reported>>

(* ... and only then sends VMMDEV_REQ_HGCMCANCEL for the same buffer.      *)
Cancel ==
  /\ phase = "cancel"
  /\ phase' = "done" /\ ret' = VERR_TIMEOUT
  /\ HostCancel
  /\ UNCHANGED <<s_ds, outVars, filled, fn, wait_ms, request, calls, reported>>

(* The host stores the reply of a performed command in the guest's memory. *)
HostReply ==
  \E c \in live, p \in performed :
    /\ p.id = c.id
    /\ request' = Answered(c.id, p.reply)
    /\ filled' = FilledAfter(c, p.reply)
    /\ live' = live \ {c}
    /\ UNCHANGED <<s_ds, outVars, fn, phase, wait_ms, ret, calls, reported,
                   sessions, orphans, performed>>

HostWorks == HostPerform /\ UNCHANGED <<guestVars, reported>>

-----------------------------------------------------------------------------
(* The functions that use it: how they return to the caller                *)

Leave ==
  /\ phase = "done"
  /\ phase' = "idle" /\ fn' = "none"
  /\ UNCHANGED <<s_ds, pciPort, filled, wait_ms, request, calls, reported, hostVars>>

(* Mutant: the result in the request header is not looked at.              *)
ReturnBeginSessionUnread ==
  /\ fn = CONNECT /\ Leave
  /\ \/ ret = VINF_SUCCESS /\ clientId' = request.payload /\ ret' = OK
     \/ ret # VINF_SUCCESS /\ ret' = FAIL /\ UNCHANGED clientId
  /\ UNCHANGED numMappings

ReturnBeginSession ==
  /\ fn = CONNECT /\ Leave
  /\ \/ /\ ret = VINF_SUCCESS /\ request.result = VINF_SUCCESS
        /\ clientId' = request.payload
        /\ ret' = OK
     \/ /\ ~ (ret = VINF_SUCCESS /\ request.result = VINF_SUCCESS)
        /\ ret' = FAIL
        /\ UNCHANGED clientId
  /\ UNCHANGED numMappings

(* Mutant: an overflow of the caller's array is taken as success.          *)
ReturnGetMappingsUnread ==
  /\ fn = QueryMappings /\ Leave
  /\ ret' = ret
  /\ numMappings' = IF ret = VINF_SUCCESS THEN request.payload ELSE numMappings
  /\ UNCHANGED clientId

ReturnGetMappings ==
  /\ fn = QueryMappings /\ Leave
  /\ ret' = IF ret = VINF_SUCCESS THEN request.result ELSE ret
  /\ numMappings' = IF /\ ret = VINF_SUCCESS
                       /\ request.result \in {VINF_SUCCESS, VINF_BUFFER_OVERFLOW}
                    THEN request.payload ELSE numMappings
  /\ UNCHANGED clientId

ReturnGetMapName ==
  /\ fn = QueryMapName /\ Leave
  /\ ret' = IF ret = VINF_SUCCESS THEN request.result ELSE ret
  /\ UNCHANGED <<clientId, numMappings>>

ReturnEndSession ==
  /\ fn = DISCONNECT /\ Leave
  /\ UNCHANGED <<ret, clientId, numMappings>>

BeginSession == Send(CONNECT, 0, 0)
GetMappings  == Send(QueryMappings, clientId, numMappings)
GetMapName   == Send(QueryMapName, clientId, 0)
EndSession   == Send(DISCONNECT, clientId, 0)

-----------------------------------------------------------------------------

(* The steps of the guest inside a call.                                   *)
InCall ==
  \/ PollDone \/ PollAgain \/ TimeOut \/ Cancel
  \/ ReturnBeginSession \/ ReturnGetMappings
  \/ ReturnGetMapName \/ ReturnEndSession

InInit == FindBackdoor \/ ReportGuestInfo2 \/ ReportGuestInfo \/ GetVersion

(* The protocol of vboxaux.h: first VBoxAuxInitVirtual(), then the rest.   *)
Call ==
  /\ Reaches
  /\ BeginSession \/ GetMappings \/ GetMapName \/ EndSession

Host == HostReply \/ HostWorks

Next == InInit \/ Call \/ InCall \/ Host

Spec == Init /\ [][Next]_auxVars

(* The guest executes its code: DOS runs nothing else, and delay() returns.*)
(* Nothing is assumed of the host.                                         *)
FairSpec == Spec /\ WF_auxVars(InCall)

-----------------------------------------------------------------------------
(* Properties                                                              *)

(* Every variable of the channel keeps its type; in particular the wait    *)
(* loop never counts below zero.                                           *)
TypeOK ==
  /\ s_ds \in BOOLEAN
  /\ pciPort \in {"none", "vmmdev"}
  /\ clientId \in Nat
  /\ numMappings \in Nat
  /\ filled \in Nat
  /\ fn \in Functions
  /\ phase \in Phases
  /\ wait_ms \in 0 .. VMMDEV_ASYNC_TIMEOUT
  /\ ret \in Int
  /\ request \in Requests
  /\ calls \in Nat
  /\ reported \in BOOLEAN
  /\ sessions \subseteq ClientIds
  /\ live \subseteq Commands
  /\ orphans \subseteq Commands
  /\ performed \subseteq [id : Nat, reply : Replies]

(* One buffer serves all calls, and at most one command knows its address: *)
(* the host holds no command outside the wait of VBoxAuxSendHGCMRequest(), *)
(* in the wait it holds the current call or has answered it, never both,   *)
(* and a DONE bit that the wait loop sees is the one of the current call.  *)
ChannelInv ==
  /\ (fn \in HgcmOps) <=> (phase # "idle")
  /\ phase \in {"idle", "done"} => live = {}
  /\ \A c, d \in live : c = d /\ c.id = calls
  /\ phase = "wait" /\ request.flags = 1 => live = {} /\ request.from = calls

(* When VBoxAuxSendHGCMRequest() reports success, the shared buffer holds  *)
(* the reply to this very request: not the one of an earlier request that  *)
(* timed out, and not a leftover DONE bit.                                 *)
AnswerIsForThisCall ==
  phase = "done" /\ ret = VINF_SUCCESS => request.from = calls

(* Once a call has returned, the host never again writes the buffer or the *)
(* caller's array: no late answer hits memory that the caller reuses, or   *)
(* that DOS has given to another program.                                  *)
CallerMemoryQuiet ==
  [][fn = "none" /\ fn' = "none" => UNCHANGED <<request, filled>>]_auxVars

(* The channel with its shared buffer, DONE bit, polling and cancelling is *)
(* a remote call with at-most-once semantics and an honest outcome.        *)
InHgcm == fn \in HgcmOps

RcStatus ==
  CASE ~ InHgcm                             -> "idle"
    [] InHgcm /\ phase \in {"wait", "cancel"} -> "calling"
    [] InHgcm /\ phase = "done" /\ ret = VINF_SUCCESS -> "answered"
    [] InHgcm /\ phase = "done" /\ ret = VERR_TIMEOUT -> "gaveup"
    [] OTHER                                -> "refused"

NoReply == [result |-> VINF_SUCCESS, payload |-> 0]

RcGot == IF RcStatus = "answered"
         THEN [result |-> request.result, payload |-> request.payload]
         ELSE NoReply

RcAbandoned == {c.id : c \in {d \in orphans : ~ IsPerformed(d)}}

RC == INSTANCE RemoteCall WITH
        Reply <- Replies, issued <- calls, status <- RcStatus, got <- RcGot,
        abandoned <- RcAbandoned

ImplementsRemoteCall == RC!Spec

(* Every call returns, whatever the host does: a host that never answers   *)
(* is timed out.                                                           *)
CallsReturn == (phase # "idle") ~> (phase = "idle")

=============================================================================
