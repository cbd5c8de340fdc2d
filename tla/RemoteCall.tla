----------------------------- MODULE RemoteCall -----------------------------
(***************************************************************************)
(* What a caller of VBoxAuxSendHGCMRequest() is promised: a remote call    *)
(* with at-most-once semantics and an honest outcome.  One call is made at *)
(* a time.  The server performs a call at most once.  When the call is     *)
(* answered, the answer is what the server computed for this very call;    *)
(* when it is refused, the server has not performed it and never will; when*)
(* the caller gives up, the server may have performed it or may perform it *)
(* later, unknown to the caller.                                           *)
(***************************************************************************)
EXTENDS Integers

CONSTANTS
  Reply,        (* what the server may answer                              *)
  NoReply       (* what the caller holds when it has no answer             *)

VARIABLES
  issued,       (* number of calls made so far; the last one is issued     *)
  status,       (* where the caller stands with its last call              *)
  got,          (* the answer it holds                                     *)
  performed,    (* the calls the server performed, with what it answered   *)
  abandoned     (* calls given up and not performed so far                 *)

rcVars == <<issued, status, got, performed, abandoned>>

Status == {"idle", "calling", "answered", "refused", "gaveup"}

Performed(i) == \E p \in performed : p.id = i

Init ==
  /\ issued = 0
  /\ status = "idle"
  /\ got = NoReply
  /\ performed = {}
  /\ abandoned = {}

(* The call is on its way to the server.                                   *)
Call ==
  /\ status = "idle"
  /\ status' = "calling"
  /\ issued' = issued + 1
  /\ UNCHANGED <<got, performed, abandoned>>

(* The server performs and answers at once.                                *)
CallAnswered ==
  /\ status = "idle"
  /\ status' = "answered"
  /\ issued' = issued + 1
  /\ got' \in Reply
  /\ performed' = performed \cup {[id |-> issued', reply |-> got']}
  /\ UNCHANGED abandoned

(* The server refuses at once.                                             *)
CallRefused ==
  /\ status = "idle"
  /\ status' = "refused"
  /\ issued' = issued + 1
  /\ UNCHANGED <<got, performed, abandoned>>

(* The server performs the call in progress, or one that was given up.     *)
Serve ==
  \E i \in abandoned \cup (IF status = "calling" THEN {issued} ELSE {}),
     r \in Reply :
    /\ ~ Performed(i)
    /\ performed' = performed \cup {[id |-> i, reply |-> r]}
    /\ abandoned' = abandoned \ {i}
    /\ UNCHANGED <<issued, status, got>>

(* The caller gets the answer that the server computed for this call.      *)
Answer ==
  /\ status = "calling"
  /\ status' = "answered"
  /\ got' \in Reply
  /\ [id |-> issued, reply |-> got'] \in performed
  /\ UNCHANGED <<issued, performed, abandoned>>

GiveUp ==
  /\ status = "calling"
  /\ status' = "gaveup"
  /\ abandoned' = abandoned \cup (IF Performed(issued) THEN {} ELSE {issued})
  /\ UNCHANGED <<issued, got, performed>>

(* The caller is done with the call.                                       *)
Return ==
  /\ status \in {"answered", "refused", "gaveup"}
  /\ status' = "idle"
  /\ got' = NoReply
  /\ UNCHANGED <<issued, performed, abandoned>>

Next ==
  \/ Call \/ CallAnswered \/ CallRefused
  \/ Serve
  \/ Answer \/ GiveUp \/ Return

Spec == Init /\ [][Next]_rcVars

=============================================================================
