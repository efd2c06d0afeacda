------------------------------ MODULE OneShot ------------------------------
(***************************************************************************)
(* What the live path promises, without journals, permits, leases, crashes *)
(* or recovery: an approval is spent by at most one caller and for ever,   *)
(* its owner puts at most one request on the wire, and the verdict on it   *)
(* is given once; a completed verdict needs the request to have gone out.  *)
(* A verdict of failure may precede the send: recovery does not wait for   *)
(* a caller that may still be running.                                     *)
(***************************************************************************)
EXTENDS Naturals

CONSTANTS Caller, ApprovalGiven

VARIABLES owners, sent, verdict

ovars == <<owners, sent, verdict>>

OInit ==
    /\ owners = {}
    /\ sent = [c \in Caller |-> 0]
    /\ verdict = [c \in Caller |-> "open"]

Spend(c) ==
    /\ \A d \in owners : ApprovalGiven[d] # ApprovalGiven[c]
    /\ owners' = owners \cup {c}
    /\ UNCHANGED <<sent, verdict>>

SendOnce(c) ==
    /\ c \in owners
    /\ sent[c] = 0
    /\ sent' = [sent EXCEPT ![c] = 1]
    /\ UNCHANGED <<owners, verdict>>

Judge(c, v) ==
    /\ c \in owners
    /\ verdict[c] = "open"
    /\ v = "completed" => sent[c] = 1
    /\ verdict' = [verdict EXCEPT ![c] = v]
    /\ UNCHANGED <<owners, sent>>

ONext ==
    \E c \in Caller :
        Spend(c) \/ SendOnce(c) \/ \E v \in {"completed", "failed"} : Judge(c, v)

OSpec == OInit /\ [][ONext]_ovars
=============================================================================
