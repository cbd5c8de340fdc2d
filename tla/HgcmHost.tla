------------------------------ MODULE HgcmHost ------------------------------
(***************************************************************************)
(* The host side of the VirtualBox guest interface: the VMMDev device and  *)
(* the Host-Guest Communication Manager with its Shared Folders service.   *)
(* The code is not in this repository; it is modelled from how vboxaux.c   *)
(* uses it.  A guest that writes the address of a request to the device    *)
(* port traps into the host.  The host then refuses the request, serves it *)
(* at once, or takes it as an asynchronous command, which it performs      *)
(* later and whose reply it later still stores in the guest's request.     *)
(*                                                                         *)
(* A command that the guest cancels never has its reply stored, but the    *)
(* host may have performed it already and may still perform it: a cancel   *)
(* withdraws the reply, not the work.                                      *)
(***************************************************************************)
EXTENDS Integers

CONSTANTS
  HostErrors,   (* status codes with which the host may refuse or fail     *)
  ClientIds,    (* the HGCM client ids that the host hands out             *)
  HostShares    (* the largest number of shares the host is configured with*)

VARIABLES
  sessions,     (* the client ids that are connected                       *)
  live,         (* commands whose reply the host will store                *)
  orphans,      (* cancelled commands that the host may still perform      *)
  performed     (* history: which command was performed, with what reply   *)

hostVars == <<sessions, live, orphans, performed>>

(* vmmdev.h status codes, and the sentinels that are not status codes.     *)
VINF_SUCCESS                == 0
VINF_BUFFER_OVERFLOW        == 41
VINF_HGCM_ASYNC_EXECUTE     == 2903
VERR_NOT_IMPLEMENTED        == -12
VERR_NOT_SUPPORTED          == -37
VERR_TIMEOUT                == -40
VERR_HGCM_INVALID_CLIENT_ID == -2905

ASSUME HostErrorsAssumption ==
  HostErrors \subseteq Int \ {VINF_SUCCESS, VINF_BUFFER_OVERFLOW,
                              VINF_HGCM_ASYNC_EXECUTE, VERR_TIMEOUT}

ASSUME HostSharesAssumption == HostShares \in Nat

(* Id 0 is what the guest's variables hold before they are assigned.       *)
ASSUME ClientIdsAssumption == ClientIds \subseteq Nat \ {0}

CONNECT       == "HGCMCONNECT"
DISCONNECT    == "HGCMDISCONNECT"
QueryMappings == "SHFL_FN_QUERY_MAPPINGS"
QueryMapName  == "SHFL_FN_QUERY_MAP_NAME"
HgcmOps       == {CONNECT, DISCONNECT, QueryMappings, QueryMapName}

(* A reply is the HGCM result and the one output parameter of the request: *)
(* the new client id of a connect, the number of mappings of a query.      *)
Results  == HostErrors \cup {VINF_SUCCESS, VINF_BUFFER_OVERFLOW,
                             VERR_HGCM_INVALID_CLIENT_ID}
Payloads == ClientIds \cup (0 .. HostShares)
Replies  == [result : Results, payload : Payloads]

(* A command: which call it belongs to, what it asks, for which client, and*)
(* for how many mappings the guest has room.                               *)
Commands == [id : Nat, op : HgcmOps, client : Nat, room : Nat]

-----------------------------------------------------------------------------

IsPerformed(c) == \E p \in performed : p.id = c.id

(* The answers that the service may give to command c.                     *)
Answers(c, r) ==
  \/ r.result \in HostErrors /\ r.payload = 0
  \/ /\ c.op = CONNECT
     /\ r.result = VINF_SUCCESS
     /\ r.payload \in ClientIds \ sessions
  \/ /\ c.op # CONNECT
     /\ c.client \notin sessions
     /\ r.result = VERR_HGCM_INVALID_CLIENT_ID /\ r.payload = 0
  \/ /\ c.op \in {DISCONNECT, QueryMapName}
     /\ c.client \in sessions
     /\ r.result = VINF_SUCCESS /\ r.payload = 0
  \/ /\ c.op = QueryMappings
     /\ c.client \in sessions
     /\ r.payload \in 0 .. HostShares
     /\ r.result = IF r.payload <= c.room THEN VINF_SUCCESS
                                          ELSE VINF_BUFFER_OVERFLOW

SessionsAfter(c, r) ==
  IF r.result # VINF_SUCCESS THEN sessions
  ELSE IF c.op = CONNECT     THEN sessions \cup {r.payload}
  ELSE IF c.op = DISCONNECT  THEN sessions \ {c.client}
  ELSE sessions

(* The service does the work of command c and its reply is r.              *)
Perform(c, r) ==
  /\ Answers(c, r)
  /\ performed' = performed \cup {[id |-> c.id, reply |-> r]}
  /\ sessions'  = SessionsAfter(c, r)

(* The host gets to an asynchronous command, cancelled or not.             *)
HostPerform ==
  \E c \in live \cup orphans, r \in Replies :
    /\ ~ IsPerformed(c)
    /\ Perform(c, r)
    /\ UNCHANGED <<live, orphans>>

(* VMMDEV_REQ_HGCMCANCEL: whatever command uses the request block that is  *)
(* cancelled loses its reply.                                              *)
HostCancel ==
  /\ orphans' = orphans \cup live
  /\ live'    = {}
  /\ UNCHANGED <<sessions, performed>>

=============================================================================
